--------------------------- MODULE SyncSkipListProps ---------------------------
(***************************************************************************)
(* What the skip list of SyncSkipList.tla promises.                        *)
(***************************************************************************)
EXTENDS SyncSkipList, FiniteSets

-----------------------------------------------------------------------------
(* Structure of the list *)

(* The nodes that following level l from the head leads to: the smallest   *)
(* set that holds whatever the head and its own members lead to.           *)
Closed(S, l) == \A m \in S \cup {head} : Ptr(m, l) # Null => Ptr(m, l) \in S

Reachable(l) == {n \in Node : \A S \in SUBSET Node : Closed(S, l) => n \in S}

(* At every level exactly the linked nodes are reachable from the head: no *)
(* compare-exchange of link_nodes, unlink or find ever cuts off a node     *)
(* that is still in the list, or brings an unlinked one back.              *)
ReachableIsLinked ==
    \A l \in Level : Reachable(l) = {n \in Node : l \in linked[n]}

(* Along the base level keys increase: at no moment does the list hold two *)
(* nodes of one key there, although insert decides where to link from a    *)
(* search long past.  The levels above are only a shortcut, and not always *)
(* in order (README, section 3).                                           *)
Sorted ==
    \A n \in Node :
        0 \in linked[n] /\ Ptr(n, 0) # Null => key[n] < key[Ptr(n, 0)]

-----------------------------------------------------------------------------
(* Reference counts and retirement *)

(* Threads holding a reference for a level not linked yet, or not linked   *)
(* any more.                                                               *)
Adding(n) == {t \in Thread : pc[t] \in {"linkIn", "undo"} /\ New(t) = n}
Dropping(n) == {t \in Thread : \/ pc[t] \in {"helpSub", "curSub"} /\ nxt[t] = n
                               \/ pc[t] = "unlinkSub" /\ target[t] = n}

(* A node's reference count is the number of levels it is linked at, plus  *)
(* the references threads hold across their two separate instructions of   *)
(* counting and linking.                                                   *)
RefsCountLinks ==
    \A n \in Node :
        har[n].refs = Cardinality(linked[n]) + Cardinality(Adding(n))
                        + Cardinality(Dropping(n))

(* A retired node is out of the list at every level, stays without         *)
(* references, and was retired once: reclaiming it frees it once.          *)
RetiredOnceAndOut ==
    \A n \in Node : retired[n] > 0 =>
        retired[n] = 1 /\ linked[n] = {} /\ har[n].refs = 0

(* No thread panics: tag_levels never meets a tag after set_removed        *)
(* succeeded ("SHOULD NOT BE TAGGED!"), and try_sub_ref never finds a      *)
(* count of 0 ("Will underflow").                                          *)
NoPanic == \A t \in Thread : pc[t] # "panic"

-----------------------------------------------------------------------------
(* Length *)

(* len never falls below the number of entries in the list, so is_empty    *)
(* never hides an entry from get, whatever unlink skipped or helped.       *)
LenCoversEntries == len >= Cardinality(Live)

-----------------------------------------------------------------------------
(* Steps *)

(* A level that carries the tag never changes again, and neither does the  *)
(* removed bit: the successor a helper reads is the one that gets linked.  *)
TagsFreeze ==
    [][/\ \A n \in Node, l \in Level :
            Tag(n, l) = 1 => next'[n][l] = next[n][l]
       /\ \A n \in Node : har[n].removed => har'[n].removed]_vars

(* Whoever unlinks a node from a level finds it removed and tagged there:  *)
(* no live entry is ever taken out of the list.                            *)
OnlyRemovedAreUnlinked ==
    [][\A n \in Node, l \in Level :
            l \in linked[n] \ linked'[n] => har[n].removed /\ Tag(n, l) = 1]_vars

(* The live entry of a key in the base level, or Null.                    *)
EntryOf(k) ==
    IF \E n \in Live : key[n] = k THEN CHOOSE n \in Live : key[n] = k ELSE Null

Map == INSTANCE EntryMap
           WITH Entry <- Node,
                None  <- Null,
                entry <- [k \in Key |-> EntryOf(k)],
                spent <- {n \in Node : 0 \in linked[n] \/ har[n].removed}

(* Seen as a map the list only ever puts an entry where its key has none,  *)
(* or takes one: linking at the base level and setting the removed bit are *)
(* the two instants at which insert and remove take effect.                *)
ImplementsEntryMap == Map!Spec

-----------------------------------------------------------------------------
(* Results *)

Returns(t) == pc[t] # "return" /\ pc'[t] = "return"

(* An entry get returns is in the list at the moment its removed bit was   *)
(* read, even though the pointer to it may come from an unlinked node.     *)
GetReturnsLive ==
    [][\A t \in Thread :
            Returns(t) /\ call[t].op = "get" /\ result'[t] # Null
                => result'[t] \in Live /\ key[result'[t]] = call[t].key]_vars

(* An entry that was removed or replaced is delivered to one call only.    *)
DeliveredOnce ==
    \A t, u \in Thread :
        /\ t # u
        /\ result[t] # Null
        /\ result[t] = result[u]
        => call[t].op = "get" \/ call[u].op = "get"

(* The entries that were in the list all the time since t's search began.  *)
Steady(t) == {n \in before[t] : ~har[n].removed}

(* "we always get a non-removed node, if there is one, of our target key": *)
(* a search that returns no target has no steady entry of its key.         *)
FindsSteadyEntry ==
    [][\A t \in Thread :
            /\ pc[t] \in {"final", "finalCheck"}
            /\ pc'[t] \notin {"final", "finalCheck"}
            /\ target'[t] = Null
            /\ ret[t] \in Operation \cup {"relink"}
            => \A n \in Steady(t) : key[n] # call[t].key]_vars

(* "If this errors, it is already being removed by someone else": remove   *)
(* gives up a target it found only when the target is removed.             *)
RemoveYieldsToRemover ==
    [][\A t \in Thread :
            Returns(t) /\ pc[t] \in {"load", "cas"} => har[target[t]].removed]_vars

(* "Inserts a value in the list given a key": when insert has returned,    *)
(* its entry is in the list unless another call removed it.                *)
InsertTakesEffect ==
    \A t \in Thread :
        pc[t] = "return" /\ call[t].op = "insert"
            => New(t) \in Live \/ har[New(t)].removed

-----------------------------------------------------------------------------
(* When every call has returned *)

(* A removed node is linked at no level any more: the searches after       *)
(* unlink and link_nodes have caught the levels either of them missed.     *)
RemovedAreUnlinked ==
    AllReturned => \A n \in Node : har[n].removed => linked[n] = {}

(* len is the number of entries.                                           *)
LenIsExact == AllReturned => len = Cardinality(Live)

(* Every call returns: no schedule lets a thread retry forever while the   *)
(* calls are finitely many.                                                *)
EveryCallReturns == \A t \in Thread : pc[t] # "idle" ~> pc[t] = "idle"

=============================================================================
