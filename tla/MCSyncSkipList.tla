---------------------------- MODULE MCSyncSkipList ----------------------------
(***************************************************************************)
(* The scripts the threads run in the model-checking runs.  A cfg names    *)
(* one as Script, with the threads and the bounds.                         *)
(***************************************************************************)
EXTENDS SyncSkipListWords, SyncSkipListOrder, TLC

CONSTANTS t1, t2, t3

Ins(k) == [op |-> "insert", key |-> k]
Rem(k) == [op |-> "remove", key |-> k]
Get(k) == [op |-> "get", key |-> k]

(* One key: t1 puts an entry, which t2 replaces twice while t1 removes it. *)
Replacing == (t1 :> <<{Ins(1)}, {Rem(1)}>>) @@ (t2 :> <<{Ins(1)}, {Ins(1)}>>)

(* One key: two threads insert and a third removes or looks it up.         *)
Contending == (t1 :> <<{Ins(1)}>>) @@ (t2 :> <<{Ins(1)}>>)
                @@ (t3 :> <<{Rem(1), Get(1)}>>)

(* Two keys: 2 is linked behind 1 while 1 is removed.                      *)
Neighbours == (t1 :> <<{Ins(1)}>>) @@ (t2 :> <<{Ins(2)}>>) @@ (t3 :> <<{Rem(1)}>>)

(* A list with 2, into which 1 is inserted while t2 gets 2.                *)
Preceding == (t1 :> <<{Ins(2)}, {Ins(1)}>>) @@ (t2 :> <<{Get(2)}, {}>>)

(* An entry is removed by t1 and inserted again by t2.                     *)
Reinserting == (t1 :> <<{Ins(1)}, {Rem(1)}>>) @@ (t2 :> <<{Ins(1)}, {}>>)

(* t2 inserts two entries and removes one, while t1 inserts another.       *)
Growing == (t1 :> <<{Ins(3)}, {}, {}>>) @@ (t2 :> <<{Ins(1)}, {Ins(2)}, {Rem(2)}>>)

=============================================================================
