------------------------------ MODULE ReclaimInv ------------------------------
(***************************************************************************)
(* An inductive invariant of Reclaim.tla: why no thread keeps a freed      *)
(* node, and why the end of the list frees every node once.                *)
(***************************************************************************)
EXTENDS Reclaim, SkipListCursorInv

(* What a thread keeps is not freed.                                       *)
KeptSafe == \A t \in Thread : \A n \in Kept(t) : freed[n] = 0

(* An entry put down as taken has its removed bit, which is set once, and  *)
(* whoever holds it is put down.                                           *)
TakersInv ==
    /\ \A n \in Node : takers[n] # {} => har[n].removed
    /\ \A t \in Thread : Takes(t) => <<t, calls[t]>> \in takers[result[t]]
    /\ TakenOnce

(* While the list is shared only retired nodes are freed, and none that a  *)
(* thread keeps.                                                           *)
SharedInv ==
    /\ CursorInvariant
    /\ CompletionInvariant
    /\ given = {}
    /\ \A n \in Node : freed[n] <= retired[n]
    /\ KeptSafe
    /\ TakersInv

(* What the end of the list finds: no removal is going on.                 *)
RemovedLeftBase == \A n \in Node : har[n].removed /\ 0 \in linked[n] => n \in popped

(* IntoIter walks a chain: a node it has not reached has no predecessor    *)
(* that it has passed.                                                     *)
Draining ==
    /\ rest # Null => 0 \in linked[rest] /\ rest \notin given
    /\ \A n \in given : 0 \in linked[n]
    /\ \A n \in Node : 0 \in linked[n] => freed[n] = IF n \in given THEN 1 ELSE 0
    /\ \A m \in Node :
          0 \in linked[m] /\ Ptr(m, 0) # Null =>
              /\ 0 \in linked[Ptr(m, 0)]
              /\ \A o \in Node : 0 \in linked[o] /\ Ptr(o, 0) = Ptr(m, 0) => o = m
              /\ Ptr(m, 0) \in given \cup {rest} => m \in given

ReclaimInvariant ==
    /\ ReclaimTypeOK
    /\ list = "shared" => SharedInv
    /\ list # "shared" => TakenOnce
    /\ list # "shared" => FreedOnce /\ \A n \in Node : retired[n] <= freed[n]
    /\ list # "shared" => RemovedLeftBase
    /\ list = "dropped" => given = {}
    /\ list = "iterator" => Draining

=============================================================================
