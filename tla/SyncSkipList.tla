----------------------------- MODULE SyncSkipList -----------------------------
(***************************************************************************)
(* The lock-free skip list of sync/mod.rs: insert, remove and get, called  *)
(* by threads that interleave at every access to shared memory.            *)
(***************************************************************************)
EXTENDS SkipListFind

CONSTANTS
    Script,     \* Script[t][c]: the calls thread t may choose as its c-th
    Main,       \* the thread that fills the list before the others start
    Fill        \* how many of its calls Main makes before the others start

ASSUME ScriptAssumption ==
    /\ Script \in [Thread -> [1 .. MaxCalls -> SUBSET Call]]
    /\ Main \in Thread
    /\ Fill \in 0 .. MaxCalls

(* Thread t has been spawned: as in the tests of the repository, the main  *)
(* thread may first fill the list alone.                                   *)
Spawned(t) ==
    \/ t = Main
    \/ calls[Main] = Fill /\ pc[Main] = "idle"
    \/ calls[Main] > Fill

HasCall(t) == calls[t] < MaxCalls /\ Script[t][calls[t] + 1] # {}

(* get answers None at once when the length reads 0; the others search.    *)
Begin(t) ==
    /\ pc[t] = "idle"
    /\ HasCall(t)
    /\ Spawned(t)
    /\ \E c \in Script[t][calls[t] + 1] :
          /\ call' = [call EXCEPT ![t] = c]
          /\ ret' = [ret EXCEPT ![t] = c.op]
          /\ Goto(t, IF c.op = "get" /\ len < 1 THEN "return" ELSE "find")
    /\ calls' = [calls EXCEPT ![t] = @ + 1]
    /\ result' = [result EXCEPT ![t] = Null]
    /\ UNCHANGED <<memory, walk, target, up, down, seen>>

(* The call returns: its local variables are gone.                         *)
Leave(t) ==
    /\ pc[t] = "return"
    /\ curr' = [curr EXCEPT ![t] = head]
    /\ prev' = [prev EXCEPT ![t] = NoPrev]
    /\ target' = [target EXCEPT ![t] = Null]
    /\ up' = [up EXCEPT ![t] = 0]
    /\ down' = [down EXCEPT ![t] = 0]
    /\ Goto(t, "idle")
    /\ UNCHANGED <<memory, request, ret, level, nxt, seen, result, before>>

-----------------------------------------------------------------------------
(* Node::try_remove_and_tag, and the same steps in remove                  *)

(* Another thread holds the removal: remove gives up, insert takes the     *)
(* target for gone and goes on with the prev it has.                       *)
GiveUp(t) ==
    Goto(t, CASE ret[t] = "insert" -> "new"
              [] ret[t] = "relink" -> "link"
              [] OTHER             -> "return")

LoadHar(t) ==
    /\ pc[t] = "load"
    /\ \/ /\ har[target[t]].removed
          /\ GiveUp(t)
          /\ UNCHANGED seen
       \/ /\ ~har[target[t]].removed
          /\ seen' = [seen EXCEPT ![t] = har[target[t]].refs]
          /\ Goto(t, "cas")
    /\ UNCHANGED <<memory, request, ret, walk, target, up, down, result>>

(* Whoever sets the bit owns the removal; insert keeps the entry it        *)
(* replaced as `existing`, remove returns it.                              *)
CasHarNoTags(t) ==  \* mutant
    /\ pc[t] = "cas"
    /\ LET n == target[t] IN
          \/ /\ CanSetRemoved(n, seen[t])
             /\ SetRemoved(n)
             /\ down' = [down EXCEPT ![t] = har[n].height - 1]
             /\ result' = [result EXCEPT ![t] = n]
             /\ Goto(t, "unlink")
          \/ /\ ~CanSetRemoved(n, seen[t])
             /\ GiveUp(t)
             /\ UNCHANGED <<har, down, result>>
    /\ seen' = [seen EXCEPT ![t] = 0]
    /\ UNCHANGED <<next, key, len, maxHeight, retired, linked, request, ret,
                   walk, target, up>>

CasHarKeepsResult(t) ==  \* mutant
    /\ pc[t] = "cas"
    /\ LET n == target[t] IN
          \/ /\ CanSetRemoved(n, seen[t])
             /\ SetRemoved(n)
             /\ down' = [down EXCEPT ![t] = har[n].height - 1]
             /\ Goto(t, "tag")
          \/ /\ ~CanSetRemoved(n, seen[t])
             /\ GiveUp(t)
             /\ UNCHANGED <<har, down>>
    /\ result' = [result EXCEPT ![t] = target[t]]
    /\ seen' = [seen EXCEPT ![t] = 0]
    /\ UNCHANGED <<next, key, len, maxHeight, retired, linked, request, ret,
                   walk, target, up>>

CasHar(t) ==
    /\ pc[t] = "cas"
    /\ LET n == target[t] IN
          \/ /\ CanSetRemoved(n, seen[t])
             /\ SetRemoved(n)
             /\ down' = [down EXCEPT ![t] = har[n].height - 1]
             /\ result' = [result EXCEPT ![t] = n]
             /\ Goto(t, "tag")
          \/ /\ ~CanSetRemoved(n, seen[t])
             /\ GiveUp(t)
             /\ UNCHANGED <<har, down, result>>
    /\ seen' = [seen EXCEPT ![t] = 0]
    /\ UNCHANGED <<next, key, len, maxHeight, retired, linked, request, ret,
                   walk, target, up>>

(* tag_levels(1), from the top level down.  A tag already there is a panic *)
(* in remove and a lost race in try_remove_and_tag.                        *)
TagTopLevelOnly(t) ==  \* mutant
    /\ pc[t] = "tag"
    /\ LET n == target[t] IN
          IF Tag(n, down[t]) = 0
            THEN SetTag(n, down[t]) /\ Goto(t, "unlink")
            ELSE /\ IF ret[t] = "remove" THEN Goto(t, "panic") ELSE GiveUp(t)
                 /\ UNCHANGED next
    /\ UNCHANGED <<har, key, len, maxHeight, retired, linked, request, ret,
                   walk, removal, up>>

TagLevel(t) ==
    /\ pc[t] = "tag"
    /\ LET n == target[t] IN
          IF Tag(n, down[t]) = 0
            THEN /\ SetTag(n, down[t])
                 /\ down' = [down EXCEPT ![t] = IF @ = 0 THEN har[n].height - 1 ELSE @ - 1]
                 /\ Goto(t, IF down[t] = 0 THEN "unlink" ELSE "tag")
            ELSE /\ IF ret[t] = "remove" THEN Goto(t, "panic") ELSE GiveUp(t)
                 /\ UNCHANGED <<next, down>>
    /\ UNCHANGED <<har, key, len, maxHeight, retired, linked, request, ret,
                   walk, target, up, seen, result>>

-----------------------------------------------------------------------------
(* unlink: from the top level down, take the target out after prev.  When  *)
(* a level fails, find is called to do the rest: by remove because unlink  *)
(* returned Err, by insert in any case.                                    *)
UnlinkNoSearch(t) ==  \* mutant
    /\ pc[t] = "unlink"
    /\ LET n == target[t]
           p == prev[t][down[t]].node
       IN \/ /\ CanExchange(p, down[t], n)
             /\ Exchange(p, down[t], Ptr(n, down[t]))
             /\ linked' = [linked EXCEPT ![n] = @ \ {down[t]}]
             /\ Goto(t, "unlinkSub")
          \/ /\ ~CanExchange(p, down[t], n)
             /\ Goto(t, IF ret[t] = "remove" THEN "return" ELSE "find")
             /\ UNCHANGED <<next, linked>>
    /\ UNCHANGED <<har, key, len, maxHeight, retired, request, ret, walk,
                   removal, up>>

Unlink(t) ==
    /\ pc[t] = "unlink"
    /\ LET n == target[t]
           p == prev[t][down[t]].node
       IN \/ /\ CanExchange(p, down[t], n)
             /\ Exchange(p, down[t], Ptr(n, down[t]))
             /\ linked' = [linked EXCEPT ![n] = @ \ {down[t]}]
             /\ Goto(t, "unlinkSub")
             /\ UNCHANGED ret
          \/ /\ ~CanExchange(p, down[t], n)
             /\ ret' = [ret EXCEPT ![t] = IF @ = "remove" THEN "cleanup" ELSE @]
             /\ Goto(t, "find")
             /\ UNCHANGED <<next, linked>>
    /\ UNCHANGED <<har, key, len, maxHeight, retired, request, walk, removal,
                   up>>

(* The loop ends early when the last reference goes.                       *)
UnlinkSubRefCounting(t) ==  \* mutant
    /\ pc[t] = "unlinkSub"
    /\ SubRefAndRetire(target[t])
    /\ down' = [down EXCEPT ![t] = IF @ = 0 THEN 0 ELSE @ - 1]
    /\ Goto(t, IF WillUnderflow(target[t]) THEN "panic"
               ELSE IF har[target[t]].refs = 1 \/ down[t] = 0 THEN "unlinkLen"
               ELSE "unlink")
    /\ len' = len - 1
    /\ UNCHANGED <<next, key, maxHeight, linked, request, ret, walk,
                   target, up, seen, result>>

UnlinkSubRef(t) ==
    /\ pc[t] = "unlinkSub"
    /\ SubRefAndRetire(target[t])
    /\ down' = [down EXCEPT ![t] = IF @ = 0 THEN 0 ELSE @ - 1]
    /\ Goto(t, IF WillUnderflow(target[t]) THEN "panic"
               ELSE IF har[target[t]].refs = 1 \/ down[t] = 0 THEN "unlinkLen"
               ELSE "unlink")
    /\ UNCHANGED <<next, key, len, maxHeight, linked, request, ret, walk,
                   target, up, seen, result>>

(* unlink succeeded: only then is the length decremented.  remove returns  *)
(* its entry, insert searches again.                                       *)
UnlinkLen(t) ==
    /\ pc[t] = "unlinkLen"
    /\ len' = len - 1
    /\ Goto(t, IF ret[t] = "remove" THEN "return" ELSE "find")
    /\ UNCHANGED <<next, har, key, maxHeight, retired, linked, locals>>

-----------------------------------------------------------------------------
(* insert, once the key looks free *)

(* new_rand_height: any height, but from 4 on gen_height climbs at most    *)
(* one level above what the head links.                                    *)
NewNode(t) ==
    /\ pc[t] = "new"
    /\ \E h \in 1 .. HEIGHT :
          /\ h >= 4 => Ptr(head, h - 2) # Null
          /\ har' = [har EXCEPT ![New(t)] =
                        [height |-> h, refs |-> 0, removed |-> FALSE]]
    /\ key' = [key EXCEPT ![New(t)] = call[t].key]
    /\ Goto(t, "compare")
    /\ UNCHANGED <<next, len, maxHeight, retired, linked, locals>>

CompareMax(t) ==
    /\ pc[t] = "compare"
    /\ Goto(t, IF har[New(t)].height > maxHeight THEN "storeMax" ELSE "count")
    /\ UNCHANGED <<memory, locals>>

(* max_height is stored after it was compared, not exchanged.              *)
StoreMaxAbove(t) ==  \* mutant
    /\ pc[t] = "storeMax"
    /\ maxHeight' = har[New(t)].height + 1
    /\ Goto(t, "count")
    /\ UNCHANGED <<next, har, key, len, retired, linked, locals>>

StoreMax(t) ==
    /\ pc[t] = "storeMax"
    /\ maxHeight' = har[New(t)].height
    /\ Goto(t, "count")
    /\ UNCHANGED <<next, har, key, len, retired, linked, locals>>

Count(t) ==
    /\ pc[t] = "count"
    /\ len' = len + 1
    /\ up' = [up EXCEPT ![t] = 0]
    /\ Goto(t, "link")
    /\ UNCHANGED <<next, har, key, maxHeight, retired, linked, request, ret,
                   walk, removal>>

-----------------------------------------------------------------------------
(* link_nodes, from level i of the new node's tower upwards *)

(* The node find saw after level i has a key that is not greater.          *)
BlockedBySmallerOnly(t) ==  \* mutant
    LET n == prev[t][up[t]].next IN n # Null /\ key[n] < key[New(t)]

Blocked(t) ==
    LET n == prev[t][up[t]].next IN n # Null /\ key[n] <= key[New(t)]

(* The tower is complete, or the node was removed meanwhile, or another    *)
(* node has taken its place.                                               *)
LinkCheck(t) ==
    /\ pc[t] = "link"
    /\ Goto(t, IF up[t] = har[New(t)].height \/ har[New(t)].removed THEN "linkEnd"
               ELSE IF Blocked(t) THEN "recheck"
               ELSE "linkOwn")
    /\ UNCHANGED <<memory, locals>>

(* The removed bit is loaded a second time before the level is given up.   *)
LinkRecheck(t) ==
    /\ pc[t] = "recheck"
    /\ Goto(t, IF har[New(t)].removed THEN "linkOwn" ELSE "linkEnd")
    /\ UNCHANGED <<memory, locals>>

(* link_nodes returned Err(i): search again, then go on at level i.        *)
Relink(t) ==
    /\ ret' = [ret EXCEPT ![t] = "relink"]
    /\ Goto(t, "find")

(* Point the new node's own level at its successor, unless it is tagged.   *)
LinkOwn(t) ==
    /\ pc[t] = "linkOwn"
    /\ LET n == New(t) IN
          \/ /\ CanExchange(n, up[t], Ptr(n, up[t]))
             /\ Exchange(n, up[t], prev[t][up[t]].next)
             /\ Goto(t, "addRef")
             /\ UNCHANGED ret
          \/ /\ ~CanExchange(n, up[t], Ptr(n, up[t]))
             /\ Relink(t)
             /\ UNCHANGED next
    /\ UNCHANGED <<har, key, len, maxHeight, retired, linked, request, walk,
                   removal, up>>

(* The reference of the level about to be linked.  Above the base level    *)
(* try_add_ref refuses once the count is 0: the node is being retired.     *)
LinkAddRef(t) ==
    /\ pc[t] = "addRef"
    /\ \/ /\ up[t] = 0 \/ har[New(t)].refs > 0
          /\ AddRef(New(t))
          /\ Goto(t, "linkIn")
       \/ /\ up[t] > 0 /\ har[New(t)].refs = 0
          /\ Goto(t, "linkEnd")
          /\ UNCHANGED har
    /\ UNCHANGED <<next, key, len, maxHeight, retired, linked, locals>>

(* The level goes into the list if prev still points at the successor.     *)
LinkIn(t) ==
    /\ pc[t] = "linkIn"
    /\ LET n == New(t)
           p == prev[t][up[t]]
       IN \/ /\ CanExchange(p.node, up[t], p.next)
             /\ Exchange(p.node, up[t], n)
             /\ linked' = [linked EXCEPT ![n] = @ \cup {up[t]}]
             /\ up' = [up EXCEPT ![t] = @ + 1]
             /\ Goto(t, "link")
          \/ /\ ~CanExchange(p.node, up[t], p.next)
             /\ Goto(t, "undo")
             /\ UNCHANGED <<next, linked, up>>
    /\ UNCHANGED <<har, key, len, maxHeight, retired, request, ret, walk,
                   removal>>

(* The reference is given back, without retiring, and the search repeated. *)
LinkUndoKeepsRef(t) ==  \* mutant
    /\ pc[t] = "undo"
    /\ Relink(t)
    /\ UNCHANGED <<memory, request, walk, removal, up>>

LinkUndo(t) ==
    /\ pc[t] = "undo"
    /\ SubRef(New(t))
    /\ Relink(t)
    /\ UNCHANGED <<next, key, len, maxHeight, retired, linked, request, walk,
                   removal, up>>

(* A node removed while its tower was built may be linked at levels its    *)
(* remover missed: one more search unlinks them.                           *)
LinkEndNoSearch(t) ==  \* mutant
    /\ pc[t] = "linkEnd"
    /\ Goto(t, "return")
    /\ UNCHANGED <<memory, locals>>

LinkEnd(t) ==
    /\ pc[t] = "linkEnd"
    /\ \/ /\ har[New(t)].removed
          /\ ret' = [ret EXCEPT ![t] = "cleanup"]
          /\ Goto(t, "find")
       \/ /\ ~har[New(t)].removed
          /\ Goto(t, "return")
          /\ UNCHANGED ret
    /\ UNCHANGED <<memory, request, walk, removal, up>>

-----------------------------------------------------------------------------
RemoveStep(t) ==
    \/ LoadHar(t) \/ CasHar(t)       \/ TagLevel(t)
    \/ Unlink(t)  \/ UnlinkSubRef(t) \/ UnlinkLen(t)

InsertStep(t) ==
    \/ NewNode(t)     \/ CompareMax(t) \/ StoreMax(t) \/ Count(t)
    \/ LinkCheck(t)   \/ LinkRecheck(t) \/ LinkOwn(t) \/ LinkAddRef(t)
    \/ LinkIn(t)      \/ LinkUndo(t) \/ LinkEnd(t)

(* A step of a call in progress.                                           *)
Step(t) == FindStep(t) \/ RemoveStep(t) \/ InsertStep(t) \/ Leave(t)

(* No call is in progress and none is left to make.                        *)
AllReturned == \A t \in Thread : pc[t] = "idle"
Finished == AllReturned /\ \A t \in Thread : ~HasCall(t)
Terminating == Finished /\ UNCHANGED vars

Next == (\E t \in Thread : Begin(t) \/ Step(t)) \/ Terminating

Init == MemoryInit /\ LocalInit

Spec == Init /\ [][Next]_vars

(* The processor keeps executing calls, but any thread may be suspended    *)
(* for good as long as another one runs.                                   *)
LockFreeSpec == Spec /\ WF_vars(\E t \in Thread : Step(t))

=============================================================================
