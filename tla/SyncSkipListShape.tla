--------------------------- MODULE SyncSkipListShape ---------------------------
(***************************************************************************)
(* The shape of the list between any two steps: an inductive invariant on  *)
(* top of the one in SyncSkipListInv.tla.  It says which levels of a node  *)
(* have been in the list, that each level is one chain, what a thread      *)
(* knows of the chain at each label, who owns a removal, and that the      *)
(* reference counts are the references there are.                          *)
(***************************************************************************)
EXTENDS SyncSkipListInv

(* Level l of node n is in the list, or was and is frozen by its tag.  A   *)
(* search stands only on such levels; levels are linked from the base up.  *)
Reached(n, l) == l \in linked[n] \/ Tag(n, l) = 1
ReachedTo(m, l) == m \in Node => \A i \in 0 .. l : Reached(m, i)

InList(m, l) == m = head \/ (m \in Node /\ l \in linked[m])

OwnerLabel == {"tag", "unlink", "unlinkSub", "unlinkLen"}

(* A node's history begins with its base level: before that is linked the  *)
(* node is not removed, not retired, and in no other level.                *)
BaseFirst ==
    \A n \in Node :
        \/ Reached(n, 0)
        \/ linked[n] = {} /\ ~har[n].removed /\ retired[n] = 0

(* Pointers in memory lead to levels that have been in the list.           *)
PointersReached ==
    \A m \in Tower, l \in Level : ReachedTo(Ptr(m, l), l)

(* So do the pointers a thread holds.                                      *)
HeldAt(t) ==
    /\ pc[t] \in {"next", "check", "help", "helpSub"} => ReachedTo(curr[t], level[t] - 1)
    /\ pc[t] \in {"check", "help", "helpSub"} => ReachedTo(nxt[t], level[t] - 1)
    /\ pc[t] \in {"finalCheck"} \cup AheadLabel => ReachedTo(nxt[t], 0)
    /\ \A l \in Level : ReachedTo(prev[t][l].node, l) /\ ReachedTo(prev[t][l].next, l)
    /\ ReachedTo(target[t], 0)

(* A node under construction has been linked exactly below up, and its     *)
(* next level already points where it will go.                             *)
LinkingAt(t) ==
    /\ pc[t] \in BuildLabel => linked[New(t)] = {} /\ ~har[New(t)].removed
    /\ Linking(t) => /\ \A l \in Level : IF l < up[t] THEN Reached(New(t), l)
                                                      ELSE l \notin linked[New(t)]
                     /\ up[t] = 0 => ~har[New(t)].removed
    /\ pc[t] \in {"addRef", "linkIn"} => Ptr(New(t), up[t]) = prev[t][up[t]].next

(* Every level is a chain: what follows a tower of the list is in the      *)
(* list, and every node of the list follows exactly one tower of the list. *)
SuccessorsLinked ==
    \A m \in Tower, l \in Level :
        InList(m, l) /\ Ptr(m, l) # Null => l \in linked[Ptr(m, l)]

OnePredecessor ==
    \A n \in Node : \A l \in linked[n] :
        \E m \in Tower :
            /\ InList(m, l) /\ Ptr(m, l) = n
            /\ \A o \in Tower : InList(o, l) /\ Ptr(o, l) = n => o = m

(* A removed node has at most one owner, and below the level the owner has *)
(* got to nobody has set a tag.                                            *)
OwnerAt(t) ==
    /\ pc[t] \in OwnerLabel => target[t] # Null /\ har[target[t]].removed
    /\ pc[t] = "tag" => \A l \in Level : l <= down[t] => Tag(target[t], l) = 0
    /\ \A u \in Thread :
          u # t /\ pc[t] \in OwnerLabel /\ pc[u] \in OwnerLabel => target[u] # target[t]

Shape == /\ \A n \in Node : n \notin Allocated => linked[n] = {}
         /\ BaseFirst
         /\ PointersReached
         /\ \A t \in Thread : HeldAt(t) /\ LinkingAt(t) /\ OwnerAt(t)
         /\ SuccessorsLinked
         /\ OnePredecessor

(* The reference counts, what they say of retirement, and that no thread   *)
(* has met a count of 0.  The sets of holders stay finite because a step   *)
(* adds one holder at most.                                                *)
References ==
    /\ RefsCountLinks
    /\ RetiredOnceAndOut
    /\ NoPanic
    /\ \A n \in Node : IsFiniteSet(Adding(n)) /\ IsFiniteSet(Dropping(n))

=============================================================================
