------------------------------- MODULE MCReclaim -------------------------------
(***************************************************************************)
(* The scripts for cursors, reclamation and the end of the list: calls of  *)
(* the list, and calls of its cursors, which a thread may choose instead.  *)
(***************************************************************************)
EXTENDS ReclaimInv, MCSyncSkipList

(* t1 fills the list with 2 and 1; then it removes, replaces or pops while *)
(* t2 gets, pops or iterates, and t1 may have taken out both entries while *)
(* t2 still walks from one to the other.                                   *)
Sharing == (t1 :> <<{Ins(2)}, {Ins(1)}, {Rem(1), Ins(2)}, {Rem(2)}>>)
        @@ (t2 :> <<{Get(2)}, {}, {}, {}>>)

SharingCursors == (t1 :> <<{}, {}, {"pop"}, {}>>)
               @@ (t2 :> <<{"first", "last", "pop"}, {}, {}, {}>>)

(* t1 removes the only entry while t2 asks for the first.                  *)
Staling == (t1 :> <<{Ins(1)}, {Rem(1)}>>) @@ (t2 :> <<{}, {}>>)

StalingCursors == (t1 :> <<{}, {}>>) @@ (t2 :> <<{"first"}, {}>>)

(* t1 removes 1 and then 2 while t2 searches for 2.                        *)
Freeing == (t1 :> <<{Ins(2)}, {Ins(1)}, {Rem(1)}, {Rem(2)}>>)
        @@ (t2 :> <<{Get(2)}, {}, {}, {}>>)

NoCursors == [t \in Thread |-> [c \in 1 .. MaxCalls |-> {}]]

===============================================================================
