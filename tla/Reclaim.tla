-------------------------------- MODULE Reclaim --------------------------------
(***************************************************************************)
(* The memory of the lock-free list: which nodes a thread protects with a  *)
(* hazard pointer, when the domain of the haphazard crate frees a retired  *)
(* node, and what becomes of the nodes when the list is dropped or turned  *)
(* into an iterator.                                                       *)
(*                                                                         *)
(* A freed node keeps its contents here: its address is not handed out     *)
(* again.  A thread that reads a freed node goes on as if it were there.   *)
(***************************************************************************)
EXTENDS SkipListCursor

VARIABLES
    freed,      \* how many times a node was freed
    list,       \* "shared" by the threads, "iterator", or "dropped"
    rest,       \* IntoIter::next: the node it frees next
    given,      \* the nodes whose key and value IntoIter has handed out
    takers      \* history: the calls that took a node's entry out of the list

owner == <<list, rest, given>>
reclaimVars == <<cursorVars, freed, owner, takers>>

ReclaimTypeOK ==
    /\ CursorTypeOK
    /\ freed \in [Node -> Nat]
    /\ list \in {"shared", "iterator", "dropped"}
    /\ rest \in NodeOrNull
    /\ given \subseteq Node
    /\ takers \in [Node -> SUBSET (Thread \X (0 .. MaxCalls))]

ReclaimInit ==
    /\ CursorInit
    /\ freed = [n \in Node |-> 0]
    /\ list = "shared"
    /\ rest = Null
    /\ given = {}
    /\ takers = [n \in Node |-> {}]

-----------------------------------------------------------------------------
(* Hazard pointers *)

(* The node insert works on, from its construction to the return.          *)
Building(t) ==
    {n \in Node : pc[t] # "idle" /\ call[t].op = "insert" /\ n = New(t) /\ har[n].height > 0}

(* find keeps curr and next in local variables of its loop, and next_node  *)
(* its next.                                                               *)
Walking(t) == pc[t] \in {"next", "check", "help", "helpSub"}
Looking(t) == pc[t] \in {"check", "help", "helpSub", "finalCheck",
                         "curCheck", "curHelp", "curSub"}

(* The nodes thread t keeps a NodeRef or an Entry of across its steps, and *)
(* the one it has just loaded and not yet looked at.  Entries borrow the   *)
(* list; a panic drops them.                                               *)
Holding(t) == list = "shared" /\ pc[t] \notin {"fault", "panic"}

Kept(t) ==
    {n \in Node :
        /\ Holding(t)
        /\ \/ n \in {target[t], result[t], at[t]} \cup Building(t)
           \/ \E l \in Level : n \in {prev[t][l].node, prev[t][l].next}
           \/ Walking(t) /\ n = curr[t]}

Held(t) == Kept(t) \cup {n \in Node : Holding(t) /\ Looking(t) /\ n = nxt[t]}

(* Each of them owns a hazard pointer, clones too.                         *)
ProtectedNotClones(t) == Held(t) \ {prev[t][l].node : l \in Level}  \* mutant

Protected(t) == Held(t)

(* The caller is done with the entry a call returned; the next call drops  *)
(* it in any case.                                                         *)
DropEntry(t) ==
    /\ pc[t] = "idle" /\ result[t] # Null
    /\ result' = [result EXCEPT ![t] = Null]
    /\ UNCHANGED <<memory, pc, request, ret, walk, target, down, seen, up, cursor>>

(* Domain: frees retired nodes no hazard pointer protects.  unlink asks    *)
(* for it with eager_reclaim, and retiring nodes may cause it any time.    *)
Reclaimable(n) ==
    freed[n] < retired[n] /\ \A t \in Thread : n \notin Protected(t)

Reclaim(n) ==
    /\ Reclaimable(n)
    /\ freed' = [freed EXCEPT ![n] = @ + 1]
    /\ UNCHANGED <<cursorVars, owner, takers>>

-----------------------------------------------------------------------------
(* The end of the list.  No call is in progress, nobody has an entry, and  *)
(* the owner holds the list alone, so that these are single steps.         *)

AtRest == list = "shared" /\ \A t \in Thread : pc[t] \in {"idle", "fault"}

(* The nodes Drop meets, and IntoIter after it: those that following the   *)
(* base level from the head leads to.                                      *)
BaseLevel == Reachable(0)

(* eager_reclaim: no hazard pointer is left to protect a retired node.     *)
Reclaimed == [n \in Node |-> IF freed[n] < retired[n] THEN retired[n] ELSE freed[n]]

(* Drop: the domain reclaims what it can, and the nodes of the base level  *)
(* are freed, removed or not.                                              *)
Drop ==
    /\ AtRest
    /\ freed' = [n \in Node |->
                    Reclaimed[n] + (IF n \in BaseLevel THEN 1 ELSE 0)]
    /\ list' = "dropped"
    /\ UNCHANGED <<cursorVars, rest, given, takers>>

(* IntoIter::from_list takes the base level over, clears the one level a   *)
(* Head declares, the base level, and drops the list, which has no nodes   *)
(* left to free.                                                           *)
IntoIterKeepingHead ==  \* mutant
    /\ AtRest
    /\ rest' = Ptr(head, 0)
    /\ freed' = [n \in Node |-> Reclaimed[n] + (IF n \in BaseLevel THEN 1 ELSE 0)]
    /\ list' = "iterator"
    /\ UNCHANGED <<cursorVars, given, takers>>

IntoIter ==
    /\ AtRest
    /\ rest' = Ptr(head, 0)
    /\ next' = [next EXCEPT ![head][0] = [ptr |-> Null, tag |-> 0]]
    /\ freed' = Reclaimed
    /\ list' = "iterator"
    /\ UNCHANGED <<har, key, len, maxHeight, retired, linked, pc, locals, cursor,
                   given, takers>>

(* IntoIter::next: moves the key and value out and frees the node.  The    *)
(* caller may stop before the end.                                         *)
IntoIterNext ==
    /\ list = "iterator" /\ rest # Null
    /\ rest' = Ptr(rest, 0)
    /\ given' = given \cup {rest}
    /\ freed' = [freed EXCEPT ![rest] = @ + 1]
    /\ UNCHANGED <<cursorVars, list, takers>>

-----------------------------------------------------------------------------
Ended == list # "shared" /\ UNCHANGED reclaimVars

(* A call has taken the entry it is to return, or a replacing insert to    *)
(* drop.  The record outlives the reference.                               *)
TakenBy(n) == {<<t, calls[t]>> : t \in {u \in Thread : Takes(u) /\ result[u] = n}}

RecordTakers == takers' = [n \in Node |-> takers[n] \cup TakenBy(n)']

ReclaimNext ==
    \/ /\ list = "shared"
       /\ CursorNextState \/ \E t \in Thread : DropEntry(t)
       /\ RecordTakers
       /\ UNCHANGED <<freed, owner>>
    \/ \E n \in Node : Reclaim(n)
    \/ Drop \/ IntoIter \/ IntoIterNext
    \/ Ended

ReclaimSpec == ReclaimInit /\ [][ReclaimNext]_reclaimVars

-----------------------------------------------------------------------------
(* Properties *)

(* No pointer of the head, or of a node at a level where it is linked,     *)
(* leads to freed memory: whoever follows the list without leaving it      *)
(* protects a node that is still there.                                    *)
LinkedAreNotFreed ==
    list = "shared" =>
        \A l \in Level, m \in Tower :
            (m = head \/ l \in linked[m]) /\ Ptr(m, l) # Null
                => freed[Ptr(m, l)] = 0

(* "We do not want to drop a node twice!": no node is freed by the domain  *)
(* and again by Drop or IntoIter, nor twice by any of them.                *)
FreedOnce == \A n \in Node : freed[n] <= 1

(* IntoIter hands out no key that remove or a replacing insert has taken.  *)
(* What pop has taken is still linked, and is handed out again.            *)
DrainedWereLeft == \A n \in given : ~har[n].removed \/ n \in popped

(* "Utilizes Hazard Pointers under the hood to prevent use-after-frees":   *)
(* no thread holds a reference to a freed node.                            *)
HeldAreNotFreed == \A t \in Thread : \A n \in Held(t) : freed[n] = 0

(* The node unlink_level is about to exchange, and will: the tower before  *)
(* it still leads to it.                                                   *)
Exchanging(t) ==
    {n \in Node :
        /\ Holding(t) /\ n = nxt[t]
        /\ \/ pc[t] = "help" /\ CanExchange(curr[t], level[t] - 1, n)
           \/ pc[t] = "curHelp" /\ CanExchange(at[t], 0, n)}

(* Whatever a thread keeps across further steps - the towers and           *)
(* successors of prev, a target, the entry a cursor stands on, the node it *)
(* builds - is still there.  A node just loaded and not yet looked at may  *)
(* be gone, but not if it is tagged and unlink_level's exchange of it will *)
(* succeed.  So no compare-exchange that succeeds met another node at an   *)
(* address its thread remembers (no ABA).                                  *)
KeptAreNotFreed ==
    \A t \in Thread : \A n \in Kept(t) \cup Exchanging(t) : freed[n] = 0

(* An entry that remove, a replacing insert or pop took out of the list is *)
(* taken by one call only, ever: also when its caller has dropped it, made *)
(* other calls since, or the list is gone.                                 *)
TakenOnce == \A n \in Node : \A c, d \in takers[n] : c = d

=============================================================================
