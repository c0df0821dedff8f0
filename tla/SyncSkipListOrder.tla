--------------------------- MODULE SyncSkipListOrder ---------------------------
(***************************************************************************)
(* Inductive invariants about the contents of the list: the order of the   *)
(* base level with what a search knows of it, what a call may return, and  *)
(* which entries the length counts.                                        *)
(***************************************************************************)
EXTENDS SyncSkipListShape

-----------------------------------------------------------------------------
(* The order of the base level *)

Before(m, k) == m \in Node => key[m] < k

(* A search only stands before its key, and what it decides stays true of  *)
(* the two nodes it decided on: their keys do not change.                  *)
KeyAt(t) ==
    /\ pc[t] \in BuildLabel \/ Linking(t) => key[New(t)] = call[t].key
    /\ \A l \in Level : Before(prev[t][l].node, call[t].key)
    /\ pc[t] = "idle" => \A l \in Level : prev[t][l].node = head
    /\ pc[t] \in {"next", "check", "help", "helpSub"} => Before(curr[t], call[t].key)
    /\ pc[t] = "finalCheck" => key[nxt[t]] = call[t].key
    /\ /\ pc[t] \in {"linkOwn", "addRef", "linkIn"}
       /\ up[t] = 0 /\ prev[t][0].next # Null
       => key[New(t)] < key[prev[t][0].next]

(* No node of the base level lies strictly between the keys of a tower and *)
(* of the node after it.                                                   *)
NoneBetween ==
    \A m \in Tower, n \in Node :
        InList(m, 0) /\ 0 \in linked[n] /\ n # m =>
            \/ m # head /\ key[n] < key[m]
            \/ Ptr(m, 0) # Null /\ key[Ptr(m, 0)] <= key[n]

Order == /\ \A t \in Thread : KeyAt(t)
         /\ Sorted
         /\ NoneBetween

-----------------------------------------------------------------------------
(* Results *)

(* A get never removes or builds; what another call returns is removed.    *)
UseAt(t) ==
    /\ ret[t] = "get" <=> call[t].op = "get"
    /\ pc[t] \in RemoveLabel \cup {"unlinkLen", "new"} \cup BuildLabel \cup LinkLabel =>
          call[t].op # "get"

ResultAt(t) ==
    /\ UseAt(t)
    /\ result[t] # Null /\ call[t].op # "get" => har[result[t]].removed

Results == /\ \A t \in Thread : ResultAt(t)
           /\ DeliveredOnce

-----------------------------------------------------------------------------
(* Length *)

(* The entries len counts: from before their base level is linked until    *)
(* their remover has taken them off again.                                 *)
CountedBy(C) ==
    /\ IsFiniteSet(C) /\ len = Cardinality(C)
    /\ Live \subseteq C /\ C \subseteq Allocated
    /\ \A t \in Thread :
          /\ pc[t] \in BuildLabel => New(t) \notin C
          /\ Linking(t) /\ ~har[New(t)].removed => New(t) \in C
          /\ pc[t] \in OwnerLabel => target[t] \in C

Length == \E C \in SUBSET Allocated : CountedBy(C)

=============================================================================
