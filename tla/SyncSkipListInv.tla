--------------------------- MODULE SyncSkipListInv ---------------------------
(***************************************************************************)
(* An inductive invariant of SyncSkipList.tla.  It says, for every label,  *)
(* what a thread may rely on there: which of its local variables are set,  *)
(* that the pointers it holds lead to allocated nodes, and how far a       *)
(* removal has got.                                                        *)
(***************************************************************************)
EXTENDS SyncSkipListProps

Allocated == {n \in Node : har[n].height > 0}

BuildLabel  == {"compare", "storeMax", "count"}
LinkLabel   == {"link", "recheck", "linkOwn", "addRef", "linkIn", "undo", "linkEnd"}
RemoveLabel == {"load", "cas", "tag", "unlink", "unlinkSub"}
AheadLabel  == {"curCheck", "curHelp", "curSub"}   \* a cursor has a node ahead
SearchLabel == FindLabel \cup RemoveLabel \cup {"unlinkLen", "new"}

(* A call that has its node, and is linking it.                            *)
Linking(t) ==
    \/ pc[t] \in LinkLabel
    \/ pc[t] \in SearchLabel /\ ret[t] = "relink"

(* Every pointer, in memory or held by a thread, leads to an allocated     *)
(* node.                                                                   *)
PointersAllocated ==
    /\ \A m \in Tower, l \in Level : Ptr(m, l) \in Allocated \cup {Null}
    /\ curr \in [Thread -> Allocated \cup {head}]
    /\ nxt \in [Thread -> Allocated \cup {Null}]
    /\ target \in [Thread -> Allocated \cup {Null}]
    /\ prev \in [Thread -> [Level -> [node : Allocated \cup {head},
                                     next : Allocated \cup {Null}]]]

(* The nodes of the calls not made yet, and of an insert that is still     *)
(* searching, are not allocated.                                           *)
Fresh ==
    /\ \A n \in Node : n \notin Allocated => ~har[n].removed
    /\ \A t \in Thread, c \in 1 .. MaxCalls :
          c > calls[t] => <<t, c>> \notin Allocated
    /\ \A t \in Thread :
          pc[t] \in SearchLabel /\ ret[t] = "insert" => New(t) \notin Allocated

(* What a thread relies on where it stands.                                *)
ControlAt(t) ==
    /\ pc[t] # "idle" => calls[t] >= 1
    /\ pc[t] = "init" => level[t] \in 1 .. HEIGHT - 1
    /\ pc[t] = "lower" => level[t] >= 2 /\ curr[t] = head
    /\ pc[t] \in {"next", "check", "help", "helpSub"} => level[t] >= 1
    /\ pc[t] \in {"check", "help", "helpSub", "finalCheck"} \cup AheadLabel => nxt[t] # Null
    /\ pc[t] \in RemoveLabel => target[t] # Null
    /\ pc[t] \in {"tag", "unlink", "unlinkSub"} => down[t] < har[target[t]].height
    /\ pc[t] = "new" => ret[t] = "insert"
    /\ pc[t] \in BuildLabel => New(t) \in Allocated
    /\ Linking(t) => New(t) \in Allocated /\ up[t] <= har[New(t)].height
    /\ pc[t] \in {"recheck", "linkOwn", "addRef", "linkIn", "undo"} =>
          up[t] < har[New(t)].height

Control == \A t \in Thread : ControlAt(t)

(* A tag is only found on a removed node, never on the head.               *)
TaggedAreRemoved ==
    /\ \A l \in Level : Tag(head, l) = 0
    /\ \A n \in Node, l \in Level : Tag(n, l) = 1 => har[n].removed

(* Whoever unlinks a node at a level has found the tag there, or has       *)
(* removed the node and set the tag.                                       *)
RemovalAt(t) ==
    /\ pc[t] = "help" => Tag(nxt[t], level[t] - 1) = 1
    /\ pc[t] \in {"curHelp", "curSub"} => Tag(nxt[t], 0) = 1
    /\ pc[t] \in {"tag", "unlink", "unlinkSub"} => har[target[t]].removed
    /\ \A l \in Level :
          /\ \/ pc[t] = "tag" /\ down[t] < l
             \/ pc[t] \in {"unlink", "unlinkSub"}
          /\ l < har[target[t]].height
          => Tag(target[t], l) = 1

Removal == \A t \in Thread : RemovalAt(t)

Inv == /\ TypeOK
       /\ PointersAllocated
       /\ Fresh
       /\ Control
       /\ TaggedAreRemoved
       /\ Removal

=============================================================================
