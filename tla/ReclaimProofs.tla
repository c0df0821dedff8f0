----------------------------- MODULE ReclaimProofs -----------------------------
(***************************************************************************)
(* What the hazard pointers protect, and the end of the list: the          *)
(* invariant of ReclaimInv.tla is inductive for Reclaim.tla.               *)
(*                                                                         *)
(* A thread begins to keep a node only where the node is known not to be   *)
(* retired: it is linked somewhere, or not allocated yet.  From then on    *)
(* the hazard pointer keeps the domain from it.                            *)
(***************************************************************************)
EXTENDS ReclaimInv, SkipListCursorProofs

(* A step of thread t on the shared list.                                  *)
SharedStep(t) ==
    \/ Begin(t) /\ UNCHANGED cursor
    \/ BeginCursor(t) \/ ListStep(t) \/ CursorStep(t)

(* A node thread t may begin to keep: it keeps it already, or it is not    *)
(* retired, whatever other threads have done.                              *)
Safe(t, x) == x \in Node => x \in Kept(t) \/ x \notin Allocated \/ linked[x] # {}

-----------------------------------------------------------------------------
(* Nodes that are not retired *)

(* A node that is linked at some level, or not allocated, is not retired.  *)
LEMMA NotRetired ==
    ASSUME CursorInvariant, NEW n \in Node, n \notin Allocated \/ linked[n] # {}
    PROVE  retired[n] = 0
<1>1. MemoryTypeOK /\ Shape /\ Fresh /\ TaggedAreRemoved /\ RetiredOnceAndOut /\ 0 \in Level
  BY ConstantFacts DEF CursorInvariant, Inv, TypeOK, References, Level
<1>2. retired[n] \in Nat
  BY <1>1 DEF MemoryTypeOK
<1>3. CASE linked[n] # {}
  BY <1>1, <1>2, <1>3 DEF RetiredOnceAndOut
<1>4. CASE n \notin Allocated
  <2>1. ~Reached(n, 0)
    BY <1>1, <1>4 DEF Reached, Shape, Fresh, TaggedAreRemoved
  <2> QED BY <1>1, <2>1 DEF Shape, BaseFirst
<1> QED BY <1>3, <1>4

(* A search that finds a level untagged finds the node linked there.       *)
LEMMA UntaggedLinked ==
    ASSUME CursorInvariant, NEW n \in Node, NEW l \in Level, ReachedTo(n, l), Tag(n, l) # 1
    PROVE  l \in linked[n]
<1>1. l \in 0 .. l
  BY ConstantFacts DEF Level
<1> QED BY <1>1 DEF ReachedTo, Reached

(* Retiring a node is never undone.                                        *)
LEMMA RetiredGrows ==
    ASSUME CursorInvariant, NEW t \in Thread, SharedStep(t), NEW n \in Node
    PROVE  retired'[n] \in Nat /\ retired'[n] >= retired[n]
<1>1. MemoryTypeOK /\ Inv /\ Shape
  BY CursorLocals
<1>2. retired[n] \in Nat
  BY <1>1 DEF MemoryTypeOK
<1>3. CASE Begin(t) \/ Step(t)
  BY <1>1, <1>2, <1>3, RefsMove DEF SameRefs, FirstRefs, TakesRef, LinksLevel, UnlinksLevel,
     GivesRefBack, DropsRef
<1>4. CASE CursorAction(t)
  BY <1>2, <1>4, CursorRefs DEF SameRefs, UnlinksLevel, DropsRef
<1> QED BY <1>3, <1>4 DEF SharedStep, ListStep, CursorAction

-----------------------------------------------------------------------------
(* What a thread begins to keep *)

(* Where a thread takes its pointers from.                                 *)
LEMMA Sources ==
    ASSUME CursorInvariant, NEW t \in Thread, Holding(t)
    PROVE  /\ Safe(t, Null) /\ Safe(t, head)
           /\ Safe(t, target[t]) /\ Safe(t, result[t]) /\ Safe(t, at[t])
           /\ \A l \in Level : /\ Safe(t, prev[t][l].node) /\ Safe(t, prev[t][l].next)
                               /\ Safe(t, Ptr(head, l))
           /\ Walking(t) => Safe(t, curr[t])
           /\ pc[t] = "check" /\ Tag(nxt[t], level[t] - 1) # 1 => Safe(t, nxt[t])
           /\ pc[t] = "curCheck" /\ Tag(nxt[t], 0) # 1 => Safe(t, nxt[t])
           /\ pc[t] = "finalCheck" /\ ~har[nxt[t]].removed => Safe(t, nxt[t])
<1>0. /\ HeldAt(t) /\ Inv /\ Shape /\ MemoryTypeOK /\ 0 \in Level /\ TaggedAreRemoved
      /\ Null \notin Node /\ head \notin Node
      /\ pc[t] = "check" => level[t] - 1 \in Level
      /\ pc[t] \in {"check", "finalCheck", "curCheck"} => nxt[t] \in Node
  BY CursorLocals, Locals, ConstantFacts DEF Inv, AheadLabel
<1>1. Safe(t, Null) /\ Safe(t, head)
  BY <1>0 DEF Safe
<1>2. Safe(t, target[t]) /\ Safe(t, result[t]) /\ Safe(t, at[t])
  BY DEF Safe, Kept
<1>3. ASSUME NEW l \in Level
      PROVE  Safe(t, prev[t][l].node) /\ Safe(t, prev[t][l].next) /\ Safe(t, Ptr(head, l))
  <2>1. Safe(t, prev[t][l].node) /\ Safe(t, prev[t][l].next)
    BY DEF Safe, Kept
  <2>2. Ptr(head, l) \in Node => l \in linked[Ptr(head, l)]
    BY <1>0, ConstantFacts DEF Shape, SuccessorsLinked, InList
  <2> QED BY <2>1, <2>2 DEF Safe
<1>4. Walking(t) => Safe(t, curr[t])
  BY DEF Safe, Kept
<1>5. pc[t] = "check" /\ Tag(nxt[t], level[t] - 1) # 1 => Safe(t, nxt[t])
  BY <1>0, UntaggedLinked DEF HeldAt, Safe
<1>6. pc[t] = "curCheck" /\ Tag(nxt[t], 0) # 1 => Safe(t, nxt[t])
  BY <1>0, UntaggedLinked DEF HeldAt, AheadLabel, Safe
<1>7. pc[t] = "finalCheck" /\ ~har[nxt[t]].removed => Safe(t, nxt[t])
  BY <1>0, UntaggedLinked DEF HeldAt, TaggedAreRemoved, Safe
<1> QED BY <1>1, <1>2, <1>3, <1>4, <1>5, <1>6, <1>7

(* After the step of thread t everything it keeps was safe to keep.        *)
KeepsSafe(t) ==
    /\ Safe(t, target'[t]) /\ Safe(t, result'[t]) /\ Safe(t, at'[t])
    /\ \A l \in Level : Safe(t, prev'[t][l].node) /\ Safe(t, prev'[t][l].next)
    /\ Walking(t)' => Safe(t, curr'[t])

(* It holds of the calls of the list: find checks the tag before it moves  *)
(* on.                                                                     *)
LEMMA ListKeepsSafe ==
    ASSUME CursorInvariant, NEW t \in Thread, Begin(t) \/ Step(t), UNCHANGED cursor,
           list = "shared"
    PROVE  KeepsSafe(t)
<1>0. LocalTypeOK /\ MemoryTypeOK /\ Inv /\ UNCHANGED at
  BY CursorLocals DEF cursor
<1>1. Holding(t)
  BY DEF Holding, Begin, Step, FindStep, RemoveStep, InsertStep, Leave, FindInit, InitLevel, StartSearch, LowerLevel,
     ReadNext, CheckTag, HelpUnlink, HelpSubRef, FinalRead, FinalCheck, LoadHar,
     CasHar, TagLevel, Unlink, UnlinkSubRef, UnlinkLen, NewNode, CompareMax, StoreMax, Count,
     LinkCheck, LinkRecheck, LinkOwn, LinkAddRef, LinkIn, LinkUndo, LinkEnd
<1>2. /\ Safe(t, Null) /\ Safe(t, head)
      /\ Safe(t, target[t]) /\ Safe(t, result[t]) /\ Safe(t, at[t])
      /\ \A l \in Level : /\ Safe(t, prev[t][l].node) /\ Safe(t, prev[t][l].next)
                          /\ Safe(t, Ptr(head, l))
      /\ Walking(t) => Safe(t, curr[t])
      /\ pc[t] = "check" /\ Tag(nxt[t], level[t] - 1) # 1 => Safe(t, nxt[t])
      /\ pc[t] = "finalCheck" /\ ~har[nxt[t]].removed => Safe(t, nxt[t])
  BY <1>1, Sources
<1>3. Safe(t, at'[t])
  BY <1>0, <1>2
<1> HIDE DEF Safe
<1> USE <1>0 DEF LocalTypeOK, Goto, locals, request, walk, removal
<1>4. CASE /\ prev' = prev /\ curr' = curr /\ target' = target
           /\ result'[t] \in {result[t], target[t], Null}
           /\ Walking(t)' => Walking(t)
  BY <1>2, <1>3, <1>4 DEF KeepsSafe
<1>5. CASE Begin(t)
  <2>1. pc'[t] \in {"find", "return"} /\ result'[t] = Null
    BY <1>5 DEF Begin
  <2> QED BY <1>4, <1>5, <2>1 DEF Begin, Walking
<1>6. CASE InsertStep(t)
  <2>1. prev' = prev /\ curr' = curr /\ target' = target /\ result' = result
    BY <1>6 DEF InsertStep, NewNode, CompareMax, StoreMax, Count, LinkCheck, LinkRecheck, LinkOwn,
       LinkAddRef, LinkIn, LinkUndo, LinkEnd, Relink
  <2>2. pc'[t] \notin {"next", "check", "help", "helpSub"}
    BY <1>6 DEF InsertStep, NewNode, CompareMax, StoreMax, Count, LinkCheck, LinkRecheck, LinkOwn,
       LinkAddRef, LinkIn, LinkUndo, LinkEnd, Relink
  <2> QED BY <1>4, <2>1, <2>2 DEF Walking
<1>7. CASE RemoveStep(t)
  <2>1. prev' = prev /\ curr' = curr /\ target' = target /\ result'[t] \in {result[t], target[t]}
    BY <1>7 DEF RemoveStep, LoadHar, CasHar, TagLevel, Unlink, UnlinkSubRef, UnlinkLen
  <2>2. pc'[t] \notin {"next", "check", "help", "helpSub"}
    BY <1>7 DEF RemoveStep, LoadHar, CasHar, TagLevel, Unlink, UnlinkSubRef, UnlinkLen, GiveUp
  <2> QED BY <1>4, <2>1, <2>2 DEF Walking
<1>8. CASE Leave(t)
  BY <1>2, <1>3, <1>8 DEF Leave, KeepsSafe, Walking, NoPrev
<1>9. CASE FindInit(t)
  <2>1. \A l \in Level : prev'[t][l].node = head /\ prev'[t][l].next \in {Ptr(head, l), Null}
    BY <1>9 DEF FindInit
  <2> QED BY <1>2, <1>3, <1>9, <2>1 DEF FindInit, KeepsSafe, Walking
<1>10. CASE InitLevel(t)
  <2>1. level[t] \in Level
    BY <1>10, Locals, ConstantFacts DEF InitLevel, Level
  <2>2. \A l \in Level : /\ prev'[t][l].node = prev[t][l].node
                         /\ prev'[t][l].next \in {prev[t][l].next, Ptr(head, l)}
    BY <1>10, <2>1 DEF InitLevel
  <2> QED BY <1>2, <1>3, <1>10, <2>2 DEF InitLevel, KeepsSafe, Walking
<1>14. CASE StartSearch(t)
  BY <1>2, <1>3, <1>14 DEF StartSearch, KeepsSafe
<1>15. CASE LowerLevel(t)
  <2>1. curr'[t] = head
    BY <1>15 DEF LowerLevel, Inv, Control, ControlAt
  <2> QED BY <1>2, <1>3, <1>15, <2>1 DEF LowerLevel, KeepsSafe
<1>11. CASE HelpUnlink(t)
  BY <1>4, <1>11 DEF HelpUnlink, Walking
<1>12. CASE ReadNext(t) \/ CheckTag(t) \/ HelpSubRef(t)
  <2>1. target' = target /\ result' = result /\ level[t] - 1 \in Level /\ Walking(t)
    BY <1>12, Locals DEF ReadNext, CheckTag, HelpSubRef, Walking
  <2>2. CASE UNCHANGED <<curr, prev>>
    BY <1>4, <2>1, <2>2
  <2>3. ASSUME NEW n, Descend(t, n), Safe(t, n)
        PROVE  KeepsSafe(t)
    <3>1. \A l \in Level : prev'[t][l] = IF l = level[t] - 1 THEN [node |-> curr[t], next |-> n]
                                                              ELSE prev[t][l]
      BY <2>1, <2>3 DEF Descend
    <3> QED BY <1>2, <1>3, <2>1, <2>3, <3>1 DEF Descend, KeepsSafe
  <2>4. ASSUME NEW n, Advance(t, n), Safe(t, n)
        PROVE  KeepsSafe(t)
    <3>1. \A l \in Level : prev'[t][l] = IF l = level[t] - 1 THEN [node |-> curr[t], next |-> n]
                                                              ELSE prev[t][l]
      BY <2>1, <2>4 DEF Advance
    <3>2. curr'[t] = n
      BY <2>4 DEF Advance
    <3>3. \A l \in Level : Safe(t, prev'[t][l].node) /\ Safe(t, prev'[t][l].next)
      BY <1>2, <2>1, <2>4, <3>1
    <3>4. Safe(t, curr'[t])
      BY <2>4, <3>2
    <3> QED BY <1>2, <1>3, <2>1, <3>3, <3>4 DEF KeepsSafe
  <2>5. ASSUME NEW n, Consider(t, n)
        PROVE  KeepsSafe(t)
    BY <1>2, <2>2, <2>3, <2>5 DEF Consider
  <2>6. CASE CheckTag(t)
    BY <1>2, <2>2, <2>3, <2>4, <2>6 DEF CheckTag
  <2> QED BY <1>12, <2>2, <2>5, <2>6 DEF ReadNext, HelpSubRef
<1>13. CASE FinalRead(t) \/ FinalCheck(t)
  <2>1. UNCHANGED <<curr, prev>>
    BY <1>13 DEF FinalRead, FinalCheck
  <2>2. pc'[t] \notin {"next", "check", "help", "helpSub"}
    BY <1>13 DEF FinalRead, FinalCheck, Return, Resume
  <2>3. ASSUME NEW n, Return(t, n), Safe(t, n)
        PROVE  KeepsSafe(t)
    <3>1. target'[t] \in {target[t], n} /\ result'[t] \in {result[t], n}
      BY <2>3 DEF Return
    <3> QED BY <1>2, <1>3, <2>1, <2>2, <2>3, <3>1 DEF KeepsSafe, Walking
  <2>4. CASE FinalCheck(t)
    BY <1>2, <2>3, <2>4 DEF FinalCheck
  <2>5. CASE UNCHANGED <<target, result>>
    BY <1>4, <2>1, <2>2, <2>5 DEF Walking
  <2> QED BY <1>2, <1>13, <2>3, <2>4, <2>5 DEF FinalRead
<1> QED BY <1>5, <1>6, <1>7, <1>8, <1>9, <1>10, <1>11, <1>12, <1>13, <1>14, <1>15
        DEF Step, FindStep

(* It holds of the cursors: next_node checks the tag before it arrives.    *)
LEMMA CursorKeepsSafe ==
    ASSUME CursorInvariant, NEW t \in Thread, CursorAction(t), list = "shared"
    PROVE  KeepsSafe(t)
<1>0. /\ LocalTypeOK /\ at \in [Thread -> Tower]
      /\ prev' = prev /\ curr' = curr /\ pc'[t] \notin {"next", "check", "help", "helpSub"}
  BY CursorLocals, CursorMoves DEF SteppingLabel, CursorLabel
<1>1. Holding(t)
  BY DEF Holding, CursorAction, CursorStep, BeginCursor, CursorTag, CursorNext, CursorCheck,
     CursorHelp, CursorSubRef, ClosestFault, TagEntry
<1>2. /\ Safe(t, Null) /\ Safe(t, head)
      /\ Safe(t, target[t]) /\ Safe(t, result[t]) /\ Safe(t, at[t])
      /\ \A l \in Level : Safe(t, prev[t][l].node) /\ Safe(t, prev[t][l].next)
      /\ pc[t] = "curCheck" /\ Tag(nxt[t], 0) # 1 => Safe(t, nxt[t])
  BY <1>1, Sources
<1>3. ASSUME NEW n, Safe(t, n), target'[t] \in {target[t], n}, at'[t] \in {at[t], head, n},
             result'[t] \in {result[t], at[t], Null, n}
      PROVE  KeepsSafe(t)
  BY <1>0, <1>2, <1>3 DEF KeepsSafe, Walking
<1> HIDE DEF Safe
<1> USE <1>0 DEF LocalTypeOK, Goto, locals, request, walk, removal, cursor
<1>4. CASE CursorCheck(t)
  <2>1. ASSUME Arrive(t, nxt[t])
        PROVE  /\ target'[t] \in {target[t], nxt[t]} /\ at'[t] \in {at[t], head, nxt[t]}
               /\ result'[t] \in {result[t], nxt[t]}
    <3>1. ret[t] \in {"first", "last", "pop"}
      BY <1>4, CursorLocals DEF CursorCheck, CursorAt, SteppingLabel, CursorLabel, CursorCall
    <3>2. CASE ret[t] = "first"
      BY <2>1, <3>2 DEF Arrive, Finish
    <3>3. CASE ret[t] = "last"
      BY <2>1, <3>3 DEF Arrive
    <3>4. CASE ret[t] = "pop"
      BY <2>1, <3>4 DEF Arrive
    <3> QED BY <3>1, <3>2, <3>3, <3>4
  <2>2. CASE Tag(nxt[t], 0) = 0 /\ Arrive(t, nxt[t])
    BY <1>2, <1>3, <1>4, <2>1, <2>2 DEF CursorCheck
  <2>3. CASE UNCHANGED <<target, result, at>>
    BY <1>2, <1>3, <2>3
  <2> QED BY <1>4, <2>2, <2>3 DEF CursorCheck
<1>5. CASE ~CursorCheck(t)
  <2>1. target'[t] = target[t] /\ at'[t] \in {at[t], head}
    BY <1>5, CursorValues
  <2>2. result'[t] \in {result[t], at[t], Null}
    BY <1>5 DEF CursorAction, CursorStep, BeginCursor, CursorTag, CursorNext,
       CursorHelp, CursorSubRef, ClosestFault, TagEntry, Follow, Finish
  <2> QED BY <1>2, <1>3, <2>1, <2>2
<1> QED BY <1>4, <1>5

(* The node a thread builds from now on it built before, or allocates now. *)
LEMMA BuildsSafe ==
    ASSUME CursorInvariant, NEW t \in Thread, SharedStep(t), NEW n \in Building(t)'
    PROVE  n \in Building(t) \/ n \notin Allocated
<1>0. LocalTypeOK /\ Inv /\ MemoryTypeOK /\ n \in Node
  BY CursorLocals DEF Building
<1> SUFFICES ASSUME n \in Allocated PROVE n \in Building(t)
  OBVIOUS
<1>1. n = New(t)' /\ pc'[t] # "idle" /\ call'[t].op = "insert" /\ har[n].height > 0
  BY DEF Building, Allocated
<1>2. CASE pc[t] # "idle" /\ New(t)' = New(t) /\ call'[t].op = call[t].op
  BY <1>0, <1>1, <1>2 DEF Building
<1>3. CASE Begin(t)
  <2>1. calls'[t] = calls[t] + 1 /\ calls'[t] \in 1 .. MaxCalls
    BY <1>0, <1>3, MemoryAssumption DEF Begin, HasCall, LocalTypeOK
  <2>2. calls'[t] > calls[t]
    BY <1>0, <2>1, MemoryAssumption DEF LocalTypeOK
  <2>3. <<t, calls'[t]>> \notin Allocated
    BY <1>0, <2>1, <2>2 DEF Inv, Fresh
  <2> QED BY <1>1, <2>3 DEF New
<1>4. CASE Step(t)
  BY <1>2, <1>4, CallsKept, CallKept, InProgress DEF New
<1>5. CASE BeginCursor(t)
  <2>1. call'[t].op \in CursorCall
    <3>1. PICK op \in CursorScript[t][calls[t] + 1] :
              call' = [call EXCEPT ![t] = [@ EXCEPT !.op = op]]
      BY <1>5 DEF BeginCursor
    <3>2. calls[t] + 1 \in 1 .. MaxCalls
      BY <1>0, <1>5, MemoryAssumption DEF BeginCursor, HasCursorCall, LocalTypeOK
    <3>3. op \in CursorCall
      BY <3>2, CursorAssumption
    <3> QED BY <1>0, <3>1, <3>3 DEF LocalTypeOK, Request
  <2> QED BY <1>1, <2>1 DEF CursorCall
<1>6. CASE CursorStep(t)
  <2>1. pc[t] # "idle" /\ calls' = calls /\ call'[t].op = call[t].op
    BY <1>0, <1>6 DEF CursorStep, CursorTag, CursorNext, CursorCheck, CursorHelp, CursorSubRef,
       ClosestFault, TagEntry, SearchClosest, LocalTypeOK, Request, locals, request
  <2> QED BY <1>2, <2>1 DEF New
<1> QED BY <1>3, <1>4, <1>5, <1>6 DEF SharedStep, ListStep

(* Whatever thread t keeps after its step it kept before, or it is a node  *)
(* that was not retired.                                                   *)
LEMMA OwnKept ==
    ASSUME CursorInvariant, NEW t \in Thread, SharedStep(t), UNCHANGED list,
           NEW n \in Kept(t)'
    PROVE  n \in Kept(t) \/ n \notin Allocated \/ linked[n] # {}
<1>1. n \in Node /\ list = "shared"
  BY DEF Kept, Holding
<1>2. KeepsSafe(t)
  BY <1>1, ListKeepsSafe, CursorKeepsSafe DEF SharedStep, ListStep, CursorAction
<1>3. CASE n \in Building(t)'
  <2>1. Holding(t)
    BY <1>1 DEF Holding, SharedStep, Begin, BeginCursor, ListStep, CursorStep, CursorTag,
       CursorNext, CursorCheck, CursorHelp, CursorSubRef, ClosestFault, TagEntry,
       Step, FindStep, RemoveStep, InsertStep, Leave, FindInit, InitLevel, StartSearch, LowerLevel,
       ReadNext, CheckTag, HelpUnlink, HelpSubRef, FinalRead, FinalCheck, LoadHar,
       CasHar, TagLevel, Unlink, UnlinkSubRef, UnlinkLen, NewNode, CompareMax, StoreMax, Count,
       LinkCheck, LinkRecheck, LinkOwn, LinkAddRef, LinkIn, LinkUndo, LinkEnd
  <2> QED BY <1>1, <1>3, <2>1, BuildsSafe DEF Kept
<1>4. CASE n \notin Building(t)'
  BY <1>1, <1>2, <1>4 DEF KeepsSafe, Safe, Kept
<1> QED BY <1>3, <1>4

(* A step of one thread leaves alone what another one keeps.               *)
LEMMA OthersKeep ==
    ASSUME CursorInvariant, NEW t \in Thread, SharedStep(t), UNCHANGED list,
           NEW u \in Thread, u # t
    PROVE  Kept(u)' = Kept(u)
<1>0. LocalTypeOK /\ Inv /\ at \in [Thread -> Tower]
  BY CursorLocals
<1>1. /\ pc'[u] = pc[u] /\ call'[u] = call[u] /\ calls'[u] = calls[u]
      /\ curr'[u] = curr[u] /\ prev'[u] = prev[u] /\ target'[u] = target[u]
      /\ result'[u] = result[u] /\ at'[u] = at[u] /\ New(u)' = New(u)
  <2>1. CASE (Begin(t) /\ UNCHANGED cursor) \/ ListStep(t)
    BY <1>0, <2>1, OthersKept DEF ListStep, cursor
  <2>2. CASE BeginCursor(t) \/ CursorStep(t)
    BY <2>2, CursorOthers DEF CursorAction
  <2> QED BY <2>1, <2>2 DEF SharedStep
<1>2. \A n \in Node : n = New(u) => har'[n].height = har[n].height
  <2>1. New(u) # New(t)
    BY DEF New
  <2>2. CASE Begin(t) \/ Step(t)
    BY <1>0, <2>1, <2>2, WordKept
  <2>3. CASE CursorAction(t)
    BY <2>3, CursorFrame
  <2> QED BY <2>2, <2>3 DEF SharedStep, ListStep, CursorAction
<1>3. Building(u)' = Building(u)
  BY <1>1, <1>2 DEF Building
<1> QED BY <1>1, <1>3 DEF Kept, Holding, Walking

-----------------------------------------------------------------------------
(* The list while it is shared *)

(* What the invariant says of freed while the list is shared, after a step *)
(* of a thread.                                                            *)
LEMMA SharedKept ==
    ASSUME ReclaimTypeOK, SharedInv, NEW t \in Thread, SharedStep(t), UNCHANGED <<freed, list>>
    PROVE  /\ \A n \in Node : freed'[n] <= retired'[n]
           /\ KeptSafe'
<1>0. CursorInvariant /\ MemoryTypeOK
  BY CursorLocals DEF SharedInv
<1>1. \A n \in Node : freed[n] \in Nat /\ retired[n] \in Nat /\ freed[n] <= retired[n]
  BY <1>0 DEF SharedInv, ReclaimTypeOK, MemoryTypeOK
<1>2. \A n \in Node : freed'[n] <= retired'[n]
  BY <1>0, <1>1, RetiredGrows
<1>3. ASSUME NEW u \in Thread, NEW n \in Kept(u)'
      PROVE  freed[n] = 0
  <2>1. n \in Node
    BY DEF Kept
  <2>2. CASE n \in Kept(u)
    BY <2>2 DEF SharedInv, KeptSafe
  <2>3. CASE n \notin Kept(u)
    <3>1. u = t
      BY <1>0, <1>3, <2>3, OthersKeep
    <3>2. retired[n] = 0
      BY <1>0, <1>3, <2>1, <2>3, <3>1, OwnKept, NotRetired
    <3> QED BY <1>1, <2>1, <3>2
  <2> QED BY <2>2, <2>3
<1> QED BY <1>2, <1>3 DEF KeptSafe

(* An entry is taken by a thread that sets its removed bit, which nobody   *)
(* had done: the record of an entry that is not removed is empty.          *)
LEMMA TakersKept ==
    ASSUME ReclaimTypeOK, TakersInv, LocalTypeOK', RecordTakers, NEW t,
           \A n \in Node : har[n].removed => har'[n].removed,
           \A u \in Thread : Takes(u)' =>
               \/ Takes(u) /\ result'[u] = result[u] /\ calls'[u] = calls[u]
               \/ u = t /\ ~har[result'[u]].removed /\ har'[result'[u]].removed
    PROVE  TakersInv' /\ takers' \in [Node -> SUBSET (Thread \X (0 .. MaxCalls))]
<1>1. \A n \in Node : takers'[n] = takers[n] \cup TakenBy(n)'
  BY DEF RecordTakers
<1>2. ASSUME NEW n \in Node, NEW c \in TakenBy(n)'
      PROVE  /\ har'[n].removed /\ c \in Thread \X (0 .. MaxCalls)
             /\ c \in takers[n] \/ (~har[n].removed /\ c = <<t, calls'[t]>>)
  <2>1. PICK u \in Thread : Takes(u)' /\ result'[u] = n /\ c = <<u, calls'[u]>>
    BY <1>2 DEF TakenBy
  <2>2. c \in Thread \X (0 .. MaxCalls)
    BY <2>1 DEF LocalTypeOK
  <2>3. CASE Takes(u) /\ result'[u] = result[u] /\ calls'[u] = calls[u]
    BY <2>1, <2>2, <2>3 DEF TakersInv
  <2>4. CASE u = t /\ ~har[result'[u]].removed /\ har'[result'[u]].removed
    BY <2>1, <2>2, <2>4
  <2> QED BY <2>1, <2>3, <2>4
<1>3. takers' \in [Node -> SUBSET (Thread \X (0 .. MaxCalls))]
  <2>1. \A n \in Node : takers'[n] \in SUBSET (Thread \X (0 .. MaxCalls))
    BY <1>1, <1>2 DEF ReclaimTypeOK
  <2> QED BY <2>1 DEF RecordTakers
<1>4. \A n \in Node : takers'[n] # {} => har'[n].removed
  BY <1>1, <1>2 DEF TakersInv
<1>5. \A u \in Thread : Takes(u)' => <<u, calls'[u]>> \in takers'[result'[u]]
  <2>1. ASSUME NEW u \in Thread, Takes(u)' PROVE <<u, calls'[u]>> \in takers'[result'[u]]
    <3>1. result'[u] \in Node
      BY <2>1, ConstantFacts DEF Takes, LocalTypeOK
    <3>2. <<u, calls'[u]>> \in TakenBy(result[u])'
      BY <2>1 DEF TakenBy
    <3> QED BY <1>1, <3>1, <3>2
  <2> QED BY <2>1
<1>6. ASSUME NEW n \in Node, NEW c \in takers'[n], NEW d \in takers'[n] PROVE c = d
  BY <1>1, <1>2, <1>6 DEF TakersInv, TakenOnce
<1> QED BY <1>3, <1>4, <1>5, <1>6 DEF TakersInv, TakenOnce

(* It holds of the steps of the list and its cursors: a step sets the      *)
(* removed bit of the entry it takes.                                      *)
LEMMA SharedTakers ==
    ASSUME ReclaimTypeOK, TakersInv, CursorInvariant, CursorInvariant', RecordTakers,
           NEW t \in Thread, SharedStep(t)
    PROVE  TakersInv' /\ takers' \in [Node -> SUBSET (Thread \X (0 .. MaxCalls))]
<1>0. Inv /\ LocalTypeOK /\ LocalTypeOK'
  BY CursorLocals DEF CursorInvariant, Inv, TypeOK
<1>1. \A n \in Node : har[n].removed => har'[n].removed
  BY <1>0, WordKept, CursorFrame DEF SharedStep, ListStep, CursorAction
<1>2. \A u \in Thread : u # t => /\ result'[u] = result[u] /\ calls'[u] = calls[u]
                                 /\ (Takes(u)' <=> Takes(u))
  BY <1>0, OthersKept, CursorOthers DEF Takes, SharedStep, ListStep, CursorAction
<1>3. Takes(t)' => \/ Takes(t) /\ result'[t] = result[t]
                   \/ ~har[result'[t]].removed /\ har'[result'[t]].removed
  <2>1. CASE Begin(t) \/ Step(t)
    BY <2>1, ListTakes
  <2>2. CASE CursorAction(t)
    BY <2>2, CursorTakes
  <2> QED BY <2>1, <2>2 DEF SharedStep, ListStep, CursorAction
<1>4. Takes(t)' => calls'[t] = calls[t]
  <2>1. CASE Begin(t) \/ BeginCursor(t)
    BY <1>0, <2>1 DEF Begin, BeginCursor, Takes, LocalTypeOK
  <2>2. CASE Step(t)
    BY <2>2, CallsKept
  <2>3. CASE CursorStep(t)
    BY <2>3 DEF CursorStep, CursorTag, CursorNext, CursorCheck, CursorHelp, CursorSubRef,
       ClosestFault, TagEntry, SearchClosest, locals, request
  <2> QED BY <2>1, <2>2, <2>3 DEF SharedStep, ListStep
<1> QED BY <1>0, <1>1, <1>2, <1>3, <1>4, TakersKept

(* The variables that DropEntry leaves alone are all that the invariant    *)
(* of the list looks at, but for the type of the result.                   *)
LEMMA DropEntryKeeps ==
    ASSUME CursorInvariant, CompletionInvariant, NEW t \in Thread, DropEntry(t)
    PROVE  CursorInvariant' /\ CompletionInvariant'
<1>0. LocalTypeOK /\ Inv /\ Shape /\ Order /\ References /\ CursorsHold /\ CursorTypeOK /\ TakenByOne
      /\ Null \in NodeOrNull
  BY CursorLocals, ConstantFacts DEF CursorInvariant
<1>1. /\ UNCHANGED <<memory, pc, request, ret, walk, target, down, seen, up, cursor>>
      /\ result' \in [Thread -> NodeOrNull]
      /\ \A u \in Thread : result'[u] # Null => result'[u] = result[u]
  BY <1>0 DEF DropEntry, LocalTypeOK
<1>2. UNCHANGED <<next, har, key, len, maxHeight, retired, linked, pc, call, calls, ret, level,
                  curr, nxt, prev, before, target, down, seen, up, at, popped>>
  BY <1>1 DEF memory, request, walk, cursor
<1>3. MemoryTypeOK' /\ LocalTypeOK'
  BY <1>0, <1>1, <1>2 DEF Inv, TypeOK, MemoryTypeOK, LocalTypeOK
<1>4. Allocated' = Allocated
  BY <1>2 DEF Allocated
<1>5. PointersAllocated' /\ Fresh' /\ TaggedAreRemoved'
  BY <1>0, <1>2, <1>4 DEF Inv, PointersAllocated, Fresh, TaggedAreRemoved, Ptr, Tag, New
<1>6. Control' /\ Removal'
  BY <1>0, <1>2, <1>4 DEF Inv, Control, ControlAt, Removal, RemovalAt, Linking, New, Tag
<1>7. Inv'
  BY <1>3, <1>5, <1>6 DEF Inv, TypeOK
<1>8. Shape'
  BY <1>0, <1>2, <1>4 DEF Shape, BaseFirst, PointersReached, HeldAt, LinkingAt, OwnerAt,
     SuccessorsLinked, OnePredecessor, ReachedTo, Reached, InList, Linking, New, Ptr, Tag
<1>9. Order'
  BY <1>0, <1>2 DEF Order, KeyAt, Sorted, NoneBetween, InList, Before, Linking, New, Ptr
<1>10. References'
  BY <1>0, <1>2 DEF References, RefsCountLinks, RetiredOnceAndOut, NoPanic, Adding, Dropping, New
<1>11. ASSUME NEW u \in Thread PROVE CursorAt(u)' /\ TakenAt(u)' /\ UseAt(u)' /\ SightAt(u)'
  <2>1. CursorAt(u)'
    BY <1>0, <1>2, <1>4 DEF CursorsHold, CursorAt, ReachedTo, Reached, Tag
  <2>2. TakenAt(u)'
    BY <1>0, <1>1, <1>2 DEF CursorsHold, TakenAt, Takes
  <2>3. SightAt(u)'
    BY <1>0, <1>2 DEF CursorsHold, SightAt, SeenBy, Sight, Sees, BaseTowers, Steady, Live, InList, ReachedTo, Reached,
       BehindOrAhead, Ptr, Tag
  <2>4. UseAt(u)'
    BY <1>0, <1>2 DEF CursorsHold, UseAt
  <2> QED BY <2>1, <2>2, <2>3, <2>4
<1>12. TakenByOne'
  BY <1>0, <1>1, <1>2 DEF TakenByOne, Takes
<1>13. CursorTypeOK'
  BY <1>0, <1>2, <1>7 DEF CursorTypeOK, Inv
<1>14. CompletionInvariant'
  BY <1>2 DEF CompletionInvariant, TagsFromTop, RemovesItsKey, RemovalsGoOn, Removing, Cleaning,
     SearchSees, Sight, Sees, BaseTowers, BehindOrAhead, InList, ReachedTo, Reached, Ptr, Tag
<1> QED BY <1>7, <1>8, <1>9, <1>10, <1>11, <1>12, <1>13, <1>14 DEF CursorInvariant, CursorsHold

(* A thread that drops an entry begins to keep nothing.                    *)
LEMMA DropEntryKept ==
    ASSUME CursorInvariant, NEW t \in Thread, DropEntry(t), UNCHANGED list, NEW u \in Thread
    PROVE  Kept(u)' \subseteq Kept(u)
<1>1. LocalTypeOK
  BY CursorLocals
<1>2. result'[u] \in {result[u], Null} /\ Null \notin Node
  BY <1>1, ConstantFacts DEF DropEntry, LocalTypeOK
<1>3. Building(u)' = Building(u)
  BY DEF DropEntry, Building, New, memory, request
<1> QED BY <1>2, <1>3 DEF DropEntry, Kept, Holding, Walking, memory, request, walk, cursor

(* The domain frees a retired node that no thread protects.                *)
LEMMA ReclaimKeeps ==
    ASSUME ReclaimInvariant, NEW n \in Node, Reclaim(n)
    PROVE  ReclaimInvariant'
<1>0. /\ ReclaimTypeOK /\ UNCHANGED cursorVars /\ UNCHANGED <<list, rest, given>>
      /\ freed[n] < retired[n] /\ freed' = [freed EXCEPT ![n] = @ + 1] /\ UNCHANGED takers
      /\ \A t \in Thread : n \notin Protected(t)
  BY DEF ReclaimInvariant, Reclaim, Reclaimable, owner
<1>1. UNCHANGED <<vars, cursor>> /\ UNCHANGED <<memory, locals, pc>>
  BY <1>0 DEF cursorVars, vars
<1>2. retired[n] \in Nat /\ \A m \in Node : freed[m] \in Nat /\ retired[m] \in Nat
  BY <1>0 DEF ReclaimTypeOK, CursorTypeOK, TypeOK, MemoryTypeOK
<1>3. list = "shared"
  BY <1>0, <1>2 DEF ReclaimInvariant
<1>4. CursorInvariant' /\ CursorInvariant /\ CompletionInvariant'
  BY <1>0, <1>3, CursorsStep, CompletionStep DEF ReclaimInvariant, SharedInv
<1>5. freed' \in [Node -> Nat] /\ \A m \in Node : freed'[m] = IF m = n THEN freed[m] + 1 ELSE freed[m]
  BY <1>0, <1>2 DEF ReclaimTypeOK
<1>6. \A m \in Node : freed'[m] <= retired'[m]
  BY <1>0, <1>1, <1>2, <1>3, <1>5 DEF ReclaimInvariant, SharedInv, memory
<1>7. KeptSafe'
  <2>1. \A t \in Thread : Kept(t)' = Kept(t)
    BY <1>0, <1>1 DEF Kept, Holding, Building, Walking, New, memory, locals, request, walk, removal,
       cursor
  <2>2. \A t \in Thread : n \notin Kept(t)
    BY <1>0 DEF Protected, Held
  <2> QED BY <1>3, <1>5, <2>1, <2>2 DEF ReclaimInvariant, SharedInv, KeptSafe, Kept
<1>8. ReclaimTypeOK'
  BY <1>0, <1>4, <1>5 DEF ReclaimTypeOK, CursorInvariant
<1>9. TakersInv'
  BY <1>0, <1>1, <1>3 DEF ReclaimInvariant, SharedInv, TakersInv, TakenOnce, Takes, memory, locals,
     request, removal
<1> QED BY <1>0, <1>3, <1>4, <1>6, <1>7, <1>8, <1>9 DEF ReclaimInvariant, SharedInv

-----------------------------------------------------------------------------
(* The end of the list *)

(* What the end of the list finds: a node the base level leads to is       *)
(* linked there, so it was not retired, and the domain has freed no node   *)
(* twice.                                                                  *)
LEMMA AtTheEnd ==
    ASSUME ReclaimInvariant, list = "shared"
    PROVE  /\ MemoryTypeOK /\ SuccessorsLinked /\ OnePredecessor /\ 0 \in Level
           /\ \A n \in BaseLevel : 0 \in linked[n]
           /\ \A n \in Node : 0 \in linked[n] => retired[n] = 0
           /\ \A n \in Node : Reclaimed[n] = retired[n] /\ retired[n] \in {0, 1}
<1>0. CursorInvariant /\ MemoryTypeOK /\ SuccessorsLinked /\ OnePredecessor /\ 0 \in Level
      /\ Null \notin Node /\ ReclaimTypeOK /\ RetiredOnceAndOut
  BY ConstantFacts DEF ReclaimInvariant, SharedInv, CursorInvariant, Inv, TypeOK, Shape, Level,
     References
<1>1. \A n \in BaseLevel : 0 \in linked[n]
  <2>1. PICK S \in SUBSET Node : S = {n \in Node : 0 \in linked[n]}
    OBVIOUS
  <2>2. Closed(S, 0)
    <3>1. ASSUME NEW m \in S \cup {head}, Ptr(m, 0) # Null
          PROVE  Ptr(m, 0) \in S
      <4>1. m \in Tower /\ InList(m, 0)
        BY <2>1, ConstantFacts DEF InList
      <4>2. Ptr(m, 0) \in Node
        BY <1>0, <3>1, <4>1, PtrType, ConstantFacts
      <4> QED BY <1>0, <2>1, <3>1, <4>1, <4>2 DEF SuccessorsLinked
    <3> QED BY <3>1 DEF Closed
  <2> QED BY <2>1, <2>2 DEF BaseLevel, Reachable
<1>2. \A n \in Node : 0 \in linked[n] => retired[n] = 0
  BY <1>0, NotRetired
<1>3. \A n \in Node : Reclaimed[n] = retired[n] /\ retired[n] \in {0, 1}
  <2>1. \A n \in Node : freed[n] \in Nat /\ retired[n] \in Nat /\ freed[n] <= retired[n]
    BY <1>0 DEF ReclaimInvariant, SharedInv, ReclaimTypeOK, MemoryTypeOK
  <2> QED BY <1>0, <2>1 DEF Reclaimed, RetiredOnceAndOut
<1> QED BY <1>0, <1>1, <1>2, <1>3

(* At the end no thread is removing a node any more.                       *)
LEMMA LeftAtTheEnd ==
    ASSUME ReclaimInvariant, AtRest
    PROVE  RemovedLeftBase
<1>1. RemovalsGoOn
  BY DEF ReclaimInvariant, SharedInv, AtRest, CompletionInvariant
<1>2. \A t \in Thread, n \in Node : ~Removing(t, n)
  BY DEF AtRest, Removing, Cleaning, SearchLabels, StartLabels
<1> QED BY <1>1, <1>2 DEF RemovalsGoOn, RemovedLeftBase

(* Drop frees what is left of the base level, after what was retired.      *)
LEMMA DropKeeps ==
    ASSUME ReclaimInvariant, Drop
    PROVE  ReclaimInvariant'
<1>0. /\ list = "shared" /\ list' = "dropped" /\ ReclaimTypeOK /\ CursorTypeOK
      /\ UNCHANGED cursorVars /\ UNCHANGED <<rest, given, takers>>
      /\ freed' = [n \in Node |-> Reclaimed[n] + (IF n \in BaseLevel THEN 1 ELSE 0)]
  BY DEF ReclaimInvariant, Drop, AtRest, ReclaimTypeOK
<1>1. \A n \in Node : /\ freed'[n] \in {0, 1} /\ retired[n] <= freed'[n]
                      /\ retired'[n] = retired[n]
  BY <1>0, AtTheEnd DEF cursorVars, vars, memory
<1>2. CursorTypeOK'
  <2>1. CursorInvariant'
    BY <1>0, CursorsStep DEF ReclaimInvariant, SharedInv
  <2> QED BY <2>1 DEF CursorInvariant
<1>3. ReclaimTypeOK'
  BY <1>0, <1>1, <1>2 DEF ReclaimTypeOK
<1>4. RemovedLeftBase' /\ given' = {}
  BY <1>0, LeftAtTheEnd DEF ReclaimInvariant, SharedInv, Drop, RemovedLeftBase, cursorVars, vars,
     memory, cursor
<1>5. TakenOnce'
  BY <1>0 DEF ReclaimInvariant, SharedInv, TakersInv, TakenOnce
<1> QED BY <1>0, <1>1, <1>3, <1>4, <1>5 DEF ReclaimInvariant, FreedOnce

(* IntoIter frees what was retired and leaves the base level to the        *)
(* iterator.                                                               *)
LEMMA IntoIterKeeps ==
    ASSUME ReclaimInvariant, IntoIter
    PROVE  ReclaimInvariant'
<1>0. /\ list = "shared" /\ list' = "iterator" /\ ReclaimTypeOK /\ given = {} /\ given' = {}
      /\ rest' = Ptr(head, 0) /\ freed' = Reclaimed
      /\ next' = [next EXCEPT ![head][0] = [ptr |-> Null, tag |-> 0]]
      /\ UNCHANGED <<har, key, len, maxHeight, retired, linked, pc, locals, cursor, takers>>
  BY DEF ReclaimInvariant, SharedInv, IntoIter, AtRest
<1>1. /\ MemoryTypeOK /\ SuccessorsLinked /\ OnePredecessor /\ 0 \in Level
      /\ \A n \in Node : 0 \in linked[n] => retired[n] = 0
      /\ \A n \in Node : Reclaimed[n] = retired[n] /\ retired[n] \in {0, 1}
      /\ head \in Tower /\ head \notin Node /\ Null \notin Node /\ Node \subseteq Tower
  BY <1>0, AtTheEnd, ConstantFacts
<1>2. \A n \in Node : freed'[n] = retired[n] /\ freed'[n] \in {0, 1} /\ linked'[n] = linked[n]
  BY <1>0, <1>1
<1>3. rest' \in NodeOrNull /\ (rest' # Null => rest' \in Node /\ 0 \in linked[rest'])
  <2>1. Ptr(head, 0) \in NodeOrNull /\ InList(head, 0)
    BY <1>1, PtrType DEF InList
  <2> QED BY <1>0, <1>1, <2>1, ConstantFacts DEF SuccessorsLinked
<1>4. \A m \in Node : Ptr(m, 0)' = Ptr(m, 0)
  BY <1>0, <1>1 DEF Ptr, MemoryTypeOK
<1>5. ASSUME NEW m \in Node, 0 \in linked[m], Ptr(m, 0) # Null
      PROVE  /\ 0 \in linked[Ptr(m, 0)] /\ Ptr(m, 0) # Ptr(head, 0)
             /\ \A o \in Node : 0 \in linked[o] /\ Ptr(o, 0) = Ptr(m, 0) => o = m
  <2>1. InList(m, 0) /\ m \in Tower /\ InList(head, 0) /\ Ptr(m, 0) \in NodeOrNull
    BY <1>1, <1>5, PtrType DEF InList
  <2>2. Ptr(m, 0) \in Node /\ 0 \in linked[Ptr(m, 0)]
    BY <1>1, <1>5, <2>1, ConstantFacts DEF SuccessorsLinked
  <2>3. PICK p \in Tower :
           /\ InList(p, 0) /\ Ptr(p, 0) = Ptr(m, 0)
           /\ \A o \in Tower : InList(o, 0) /\ Ptr(o, 0) = Ptr(m, 0) => o = p
    BY <1>1, <2>2 DEF OnePredecessor
  <2>4. p = m /\ \A o \in Tower : InList(o, 0) /\ Ptr(o, 0) = Ptr(m, 0) => o = m
    BY <2>1, <2>3
  <2> QED BY <1>1, <1>5, <2>1, <2>2, <2>4 DEF InList
<1>6. Draining'
  BY <1>0, <1>1, <1>2, <1>3, <1>4, <1>5 DEF Draining
<1>7. ReclaimTypeOK'
  <2>1. next' \in [Tower -> [Level -> MaybeTagged]]
    <3>1. [next[head] EXCEPT ![0] = [ptr |-> Null, tag |-> 0]] \in [Level -> MaybeTagged]
      BY <1>1, ConstantFacts DEF MemoryTypeOK, MaybeTagged
    <3>2. next' = [next EXCEPT ![head] = [next[head] EXCEPT ![0] = [ptr |-> Null, tag |-> 0]]]
      BY <1>0
    <3> QED BY <1>1, <3>1, <3>2 DEF MemoryTypeOK
  <2>2. MemoryTypeOK'
    BY <1>0, <1>1, <2>1 DEF MemoryTypeOK
  <2>3. LocalTypeOK'
    BY <1>0 DEF LocalTypeOK, ReclaimTypeOK, CursorTypeOK, TypeOK, locals, request, walk, removal
  <2>4. freed' \in [Node -> Nat]
    BY <1>0, <1>2 DEF Reclaimed
  <2> QED BY <1>0, <1>3, <2>2, <2>3, <2>4 DEF ReclaimTypeOK, CursorTypeOK, TypeOK, cursor
<1>8. RemovedLeftBase'
  BY <1>0, LeftAtTheEnd DEF IntoIter, RemovedLeftBase, cursor
<1>9. TakenOnce'
  BY <1>0 DEF ReclaimInvariant, SharedInv, TakersInv, TakenOnce
<1> QED BY <1>0, <1>2, <1>6, <1>7, <1>8, <1>9 DEF ReclaimInvariant, FreedOnce

(* The iterator frees the node it stands on, which nobody has freed, and   *)
(* goes on to the next, which it has not passed: one node leads to it.     *)
LEMMA IntoIterNextKeeps ==
    ASSUME ReclaimInvariant, IntoIterNext
    PROVE  ReclaimInvariant'
<1>0. /\ list = "iterator" /\ list' = list /\ rest # Null /\ ReclaimTypeOK /\ CursorTypeOK
      /\ rest' = Ptr(rest, 0) /\ given' = given \cup {rest}
      /\ freed' = [freed EXCEPT ![rest] = @ + 1] /\ UNCHANGED cursorVars /\ UNCHANGED takers
      /\ TakenOnce /\ Draining /\ FreedOnce /\ \A n \in Node : retired[n] <= freed[n]
  BY DEF ReclaimInvariant, IntoIterNext, ReclaimTypeOK
<1>1. /\ MemoryTypeOK /\ 0 \in Level /\ rest \in Node /\ Node \subseteq Tower
      /\ UNCHANGED <<vars, cursor, next, linked, retired>>
  BY <1>0, ConstantFacts DEF ReclaimTypeOK, CursorTypeOK, TypeOK, Level, cursorVars, vars, memory
<1>2. 0 \in linked[rest] /\ rest \notin given
  BY <1>0 DEF Draining
<1>3. /\ \A n \in Node : freed[n] \in Nat /\ retired[n] \in Nat
      /\ \A n \in Node : freed'[n] = IF n = rest THEN freed[n] + 1 ELSE freed[n]
      /\ freed[rest] = 0
  BY <1>0, <1>1, <1>2 DEF ReclaimTypeOK, MemoryTypeOK, Draining
<1>4. rest' \in NodeOrNull /\ (rest' # Null => rest' \in Node /\ 0 \in linked[rest'])
  BY <1>0, <1>1, <1>2, PtrType, ConstantFacts DEF Draining
<1>5. rest' # Null => rest' \notin given'
  BY <1>0, <1>1, <1>2 DEF Draining
<1>6. ASSUME NEW m \in Node, 0 \in linked[m], Ptr(m, 0) # Null, Ptr(m, 0) \in given' \cup {rest'}
      PROVE  m \in given'
  <2>1. CASE Ptr(m, 0) \in given \cup {rest}
    BY <1>0, <1>6, <2>1 DEF Draining
  <2>2. CASE Ptr(m, 0) = Ptr(rest, 0)
    BY <1>0, <1>1, <1>2, <1>6, <2>2 DEF Draining
  <2> QED BY <1>0, <1>6, <2>1, <2>2
<1>7. Draining'
  <2>1. \A m \in Node : Ptr(m, 0)' = Ptr(m, 0)
    BY <1>1 DEF Ptr
  <2>2. \A n \in Node : 0 \in linked[n] => freed'[n] = IF n \in given' THEN 1 ELSE 0
    BY <1>0, <1>2, <1>3 DEF Draining
  <2>3. \A n \in given' : 0 \in linked[n]
    BY <1>0, <1>2 DEF Draining
  <2>4. \A m \in Node : 0 \in linked[m] /\ Ptr(m, 0) # Null =>
            /\ 0 \in linked[Ptr(m, 0)]
            /\ \A o \in Node : 0 \in linked[o] /\ Ptr(o, 0) = Ptr(m, 0) => o = m
    BY <1>0 DEF Draining
  <2> QED BY <1>1, <1>4, <1>5, <1>6, <2>1, <2>2, <2>3, <2>4 DEF Draining
<1>8. FreedOnce' /\ \A n \in Node : retired'[n] <= freed'[n]
  BY <1>0, <1>1, <1>3 DEF FreedOnce
<1>9. ReclaimTypeOK'
  <2>1. MemoryTypeOK' /\ LocalTypeOK'
    BY <1>0, <1>1 DEF CursorTypeOK, TypeOK, MemoryTypeOK, LocalTypeOK, vars, memory, locals,
       request, walk, removal
  <2>2. freed' \in [Node -> Nat] /\ given' \subseteq Node
    BY <1>0, <1>1, <1>3 DEF ReclaimTypeOK
  <2> QED BY <1>0, <1>1, <1>4, <2>1, <2>2 DEF ReclaimTypeOK, CursorTypeOK, TypeOK, cursor
<1>10. RemovedLeftBase'
  BY <1>0 DEF ReclaimInvariant, RemovedLeftBase, cursorVars, vars, memory, cursor
<1> QED BY <1>0, <1>7, <1>8, <1>9, <1>10 DEF ReclaimInvariant, TakenOnce

-----------------------------------------------------------------------------
(* The invariant *)

(* The first states satisfy the invariant.                                 *)
LEMMA ReclaimInvInit == ReclaimInit => ReclaimInvariant
<1> SUFFICES ASSUME ReclaimInit PROVE ReclaimInvariant
  OBVIOUS
<1>1. CursorInvariant /\ CursorTypeOK /\ CompletionInvariant
  BY CursorsInit, CompletionInit DEF ReclaimInit, CursorInvariant
<1>2. \A n \in Node : freed[n] = 0 /\ retired[n] = 0 /\ freed[n] <= retired[n]
  BY DEF ReclaimInit, CursorInit, Init, MemoryInit
<1>3. KeptSafe
  BY <1>2 DEF KeptSafe, Kept
<1>4. ReclaimTypeOK
  BY <1>1, ConstantFacts DEF ReclaimTypeOK, ReclaimInit
<1>5. TakersInv
  BY DEF TakersInv, TakenOnce, Takes, ReclaimInit, CursorInit, Init, LocalInit
<1> QED BY <1>1, <1>2, <1>3, <1>4, <1>5 DEF ReclaimInvariant, SharedInv, ReclaimInit

(* A step that changes nothing keeps it.                                   *)
LEMMA ReclaimStutters ==
    ASSUME ReclaimInvariant, UNCHANGED reclaimVars
    PROVE  ReclaimInvariant'
<1>0. /\ UNCHANGED cursorVars /\ UNCHANGED <<freed, list, rest, given, takers>>
      /\ UNCHANGED <<memory, locals, pc, cursor>> /\ UNCHANGED <<next, linked, retired>>
  BY DEF reclaimVars, owner, cursorVars, vars, memory
<1>1. CASE list = "shared"
  <2>1. CursorInvariant' /\ CompletionInvariant'
    BY <1>0, <1>1, CursorsStep, CompletionStep DEF ReclaimInvariant, SharedInv
  <2>2. KeptSafe'
    BY <1>0, <1>1 DEF ReclaimInvariant, SharedInv, KeptSafe, Kept, Holding, Building,
       Walking, New, memory, locals, request, walk, removal, cursor
  <2>3. TakersInv'
    BY <1>0, <1>1 DEF ReclaimInvariant, SharedInv, TakersInv, TakenOnce, Takes, memory, locals,
       request, removal
  <2> QED BY <1>0, <1>1, <2>1, <2>2, <2>3
      DEF ReclaimInvariant, SharedInv, ReclaimTypeOK, CursorInvariant
<1>2. CASE list # "shared"
  <2>1. ReclaimTypeOK'
    BY <1>0 DEF ReclaimInvariant, ReclaimTypeOK, CursorTypeOK, TypeOK, MemoryTypeOK, LocalTypeOK,
       memory, locals, request, walk, removal, cursor
  <2> QED BY <1>0, <1>2, <2>1 DEF ReclaimInvariant, Draining, FreedOnce, Ptr, RemovedLeftBase,
      TakenOnce, memory, cursor
<1> QED BY <1>1, <1>2

(* Every step of the threads, of the domain and of the owner keeps the     *)
(* invariant.                                                              *)
LEMMA ReclaimStep == ReclaimInvariant /\ [ReclaimNext]_reclaimVars => ReclaimInvariant'
<1> SUFFICES ASSUME ReclaimInvariant, [ReclaimNext]_reclaimVars PROVE ReclaimInvariant'
  OBVIOUS
<1>1. CASE UNCHANGED reclaimVars
  BY <1>1, ReclaimStutters
<1>2. ASSUME list = "shared", CursorInvariant', CompletionInvariant', UNCHANGED <<freed, owner>>,
             \A n \in Node : freed'[n] <= retired'[n], KeptSafe', TakersInv',
             takers' \in [Node -> SUBSET (Thread \X (0 .. MaxCalls))]
      PROVE  ReclaimInvariant'
  BY <1>2 DEF ReclaimInvariant, SharedInv, ReclaimTypeOK, owner, CursorInvariant
<1>3. ASSUME list = "shared", CursorNextState, RecordTakers, UNCHANGED <<freed, owner>>
      PROVE  ReclaimInvariant'
  <2>1. CursorInvariant' /\ CompletionInvariant'
    BY <1>3, CursorsStep, CompletionStep DEF ReclaimInvariant, SharedInv
  <2>2. CASE CursorsTerminating
    <3>1. UNCHANGED cursorVars
      BY <2>2 DEF CursorsTerminating
    <3>2. TakersInv' /\ takers' \in [Node -> SUBSET (Thread \X (0 .. MaxCalls))]
      BY <1>3, <2>1, <3>1, TakersKept DEF ReclaimInvariant, SharedInv, CursorInvariant, Inv, TypeOK,
         Takes, cursorVars, vars, memory, locals, request, removal
    <3>3. KeptSafe' /\ \A n \in Node : freed'[n] <= retired'[n]
      BY <1>3, <3>1 DEF ReclaimInvariant, SharedInv, KeptSafe, Kept, Holding, Building, Walking,
         New, owner, cursorVars, vars, memory, locals, request, walk, removal, cursor
    <3> QED BY <1>2, <1>3, <2>1, <3>2, <3>3
  <2>3. ASSUME NEW t \in Thread, SharedStep(t)
        PROVE  ReclaimInvariant'
    <3>1. \A n \in Node : freed'[n] <= retired'[n]
      BY <1>3, <2>3, SharedKept DEF ReclaimInvariant, owner
    <3>2. KeptSafe'
      BY <1>3, <2>3, SharedKept DEF ReclaimInvariant, owner
    <3>3. TakersInv' /\ takers' \in [Node -> SUBSET (Thread \X (0 .. MaxCalls))]
      BY <1>3, <2>1, <2>3, SharedTakers DEF ReclaimInvariant, SharedInv
    <3> QED BY <1>2, <1>3, <2>1, <3>1, <3>2, <3>3
  <2> QED BY <1>3, <2>2, <2>3 DEF CursorNextState, SharedStep
<1>4. ASSUME list = "shared", NEW t \in Thread, DropEntry(t), RecordTakers,
             UNCHANGED <<freed, owner>>
      PROVE  ReclaimInvariant'
  <2>1. CursorInvariant /\ CursorInvariant' /\ CompletionInvariant'
    BY <1>4, DropEntryKeeps DEF ReclaimInvariant, SharedInv
  <2>2. \A n \in Node : freed'[n] <= retired'[n]
    BY <1>4 DEF ReclaimInvariant, SharedInv, DropEntry, memory
  <2>3. KeptSafe'
    BY <1>4, <2>1, DropEntryKept DEF ReclaimInvariant, SharedInv, KeptSafe, owner
  <2>4. TakersInv' /\ takers' \in [Node -> SUBSET (Thread \X (0 .. MaxCalls))]
    <3>1. LocalTypeOK /\ LocalTypeOK' /\ ReclaimTypeOK /\ TakersInv
      BY <1>4, <2>1 DEF ReclaimInvariant, SharedInv, CursorInvariant, Inv, TypeOK
    <3>2. UNCHANGED <<har, call, calls>> /\ \A u \in Thread : result'[u] \in {result[u], Null}
      BY <1>4, <3>1 DEF DropEntry, LocalTypeOK, memory, request
    <3> QED BY <1>4, <3>1, <3>2, TakersKept DEF Takes
  <2> QED BY <1>2, <1>4, <2>1, <2>2, <2>3, <2>4
<1> QED BY <1>1, <1>3, <1>4, ReclaimKeeps, DropKeeps, IntoIterKeeps, IntoIterNextKeeps,
           ReclaimStutters DEF ReclaimNext, Ended

(* ReclaimInvariant holds for any number of threads, calls, keys and       *)
(* levels, whatever the domain frees and however the list ends.            *)
THEOREM ReclaimInvariance == ReclaimSpec => []ReclaimInvariant
BY ReclaimInvInit, ReclaimStep, PTL DEF ReclaimSpec

(* ReclaimTypeOK, the type of every variable, that of the iterator and of  *)
(* the domain included.                                                    *)
THEOREM ReclaimTypeCorrect == ReclaimSpec => []ReclaimTypeOK
<1>1. ReclaimInvariant => ReclaimTypeOK
  BY DEF ReclaimInvariant
<1> QED BY <1>1, ReclaimInvariance, PTL

(* KeptAreNotFreed: what a thread keeps across its steps is never freed    *)
(* under it, nor a node unlink_level is about to take out: the tower       *)
(* before it, if it is untagged, is in the list, and what follows it is    *)
(* linked there and not retired.                                           *)
THEOREM KeptAreNeverFreed == ReclaimSpec => []KeptAreNotFreed
<1>1. ReclaimInvariant => KeptAreNotFreed
  <2> SUFFICES ASSUME ReclaimInvariant, NEW t \in Thread, NEW n \in Kept(t) \cup Exchanging(t)
               PROVE  freed[n] = 0
    BY DEF KeptAreNotFreed
  <2>1. list = "shared" /\ SharedInv /\ ReclaimTypeOK /\ n \in Node
    BY DEF ReclaimInvariant, Kept, Exchanging, Holding
  <2>2. /\ CursorInvariant /\ LocalTypeOK /\ MemoryTypeOK /\ Inv /\ Shape /\ HeldAt(t)
        /\ CursorAt(t) /\ at[t] \in Tower /\ 0 \in Level
    BY <2>1, CursorLocals DEF SharedInv
  <2>3. CASE n \in Kept(t)
    BY <2>1, <2>3 DEF SharedInv, KeptSafe
  <2>4. ASSUME NEW p \in Tower, NEW l \in Level, ReachedTo(p, l), CanExchange(p, l, n)
        PROVE  freed[n] = 0
    <3>0. Ptr(p, l) = n /\ Tag(p, l) # 1 /\ n # Null
      <4>1. n # Null
        BY <2>1, ConstantFacts
      <4> QED BY <2>4, <4>1 DEF CanExchange, Ptr, Tag
    <3>1. InList(p, l)
      <4>1. CASE p = head
        BY <4>1 DEF InList
      <4>2. CASE p # head
        <5>1. p \in Node
          BY <4>2, ConstantFacts
        <5>2. l \in linked[p]
          BY <2>2, <2>4, <3>0, <5>1, UntaggedLinked
        <5> QED BY <5>1, <5>2 DEF InList
      <4> QED BY <4>1, <4>2
    <3>2. l \in linked[n]
      <4>1. SuccessorsLinked
        BY <2>2 DEF Shape
      <4> QED BY <2>4, <3>0, <3>1, <4>1 DEF SuccessorsLinked
    <3>3. retired[n] = 0
      BY <2>1, <2>2, <3>2, NotRetired
    <3>4. freed[n] \in Nat /\ freed[n] <= retired[n]
      BY <2>1 DEF SharedInv, ReclaimTypeOK
    <3> QED BY <3>3, <3>4
  <2>5. CASE pc[t] = "help" /\ CanExchange(curr[t], level[t] - 1, n)
    <3>1. curr[t] \in Tower /\ level[t] - 1 \in Level /\ ReachedTo(curr[t], level[t] - 1)
      BY <2>2, <2>5, Locals DEF HeldAt, LocalTypeOK
    <3> QED BY <2>4, <2>5, <3>1
  <2>6. CASE pc[t] = "curHelp" /\ CanExchange(at[t], 0, n)
    BY <2>2, <2>4, <2>6 DEF CursorAt
  <2> QED BY <2>3, <2>5, <2>6 DEF Exchanging
<1> QED BY <1>1, ReclaimInvariance, PTL

(* FreedOnce, "We do not want to drop a node twice!": neither the domain   *)
(* and Drop, nor the domain and IntoIter, free one node between them.      *)
THEOREM NodesFreedOnce == ReclaimSpec => []FreedOnce
<1>1. ReclaimInvariant => FreedOnce
  <2>1. CASE list = "shared"
    <3>1. ReclaimInvariant => /\ RetiredOnceAndOut
                              /\ \A n \in Node : /\ freed[n] \in Nat /\ retired[n] \in Nat
                                                 /\ freed[n] <= retired[n]
      BY <2>1 DEF ReclaimInvariant, SharedInv, CursorInvariant, References, ReclaimTypeOK,
         CursorTypeOK, TypeOK, MemoryTypeOK
    <3> QED BY <3>1 DEF FreedOnce, RetiredOnceAndOut
  <2>2. CASE list # "shared"
    BY <2>2 DEF ReclaimInvariant
  <2> QED BY <2>1, <2>2
<1> QED BY <1>1, ReclaimInvariance, PTL

(* LinkedAreNotFreed: no pointer of a level that is in the list leads to   *)
(* freed memory.                                                           *)
THEOREM LinkedAreNeverFreed == ReclaimSpec => []LinkedAreNotFreed
<1>1. ReclaimInvariant => LinkedAreNotFreed
  <2> SUFFICES ASSUME ReclaimInvariant, list = "shared", NEW l \in Level, NEW m \in Tower,
                      m = head \/ l \in linked[m], Ptr(m, l) # Null
               PROVE  freed[Ptr(m, l)] = 0
    BY DEF LinkedAreNotFreed
  <2>1. CursorInvariant /\ MemoryTypeOK /\ SuccessorsLinked /\ Ptr(m, l) \in Node
    BY PtrType, ConstantFacts DEF ReclaimInvariant, SharedInv, CursorInvariant, Inv, TypeOK, Shape
  <2>2. l \in linked[Ptr(m, l)]
    BY <2>1, ConstantFacts DEF SuccessorsLinked, InList
  <2>3. retired[Ptr(m, l)] = 0
    BY <2>1, <2>2, NotRetired
  <2>4. freed[Ptr(m, l)] \in Nat /\ freed[Ptr(m, l)] <= retired[Ptr(m, l)]
    BY <2>1 DEF ReclaimInvariant, SharedInv, ReclaimTypeOK
  <2> QED BY <2>3, <2>4
<1> QED BY <1>1, ReclaimInvariance, PTL

(* DrainedWereLeft: into_iter hands out no entry that insert or remove has *)
(* returned, because none of them returns before the node it removed is    *)
(* out of the base level.                                                  *)
THEOREM DrainedWereNeverTaken == ReclaimSpec => []DrainedWereLeft
<1>1. ReclaimInvariant => DrainedWereLeft
  <2>1. CASE list = "iterator"
    BY <2>1 DEF ReclaimInvariant, ReclaimTypeOK, Draining, RemovedLeftBase, DrainedWereLeft
  <2>2. CASE list # "iterator"
    BY <2>2 DEF ReclaimInvariant, ReclaimTypeOK, SharedInv, DrainedWereLeft
  <2> QED BY <2>1, <2>2
<1> QED BY <1>1, ReclaimInvariance, PTL

(* TakenOnce: remove, replacing inserts and pop take an entry once in the  *)
(* life of the list, also when callers drop what they got and call again.  *)
THEOREM TakenOnceToTheEnd == ReclaimSpec => []TakenOnce
<1>1. ReclaimInvariant => TakenOnce
  BY DEF ReclaimInvariant, SharedInv, TakersInv
<1> QED BY <1>1, ReclaimInvariance, PTL

(* What the list promises while it is shared goes on to hold: its end      *)
(* moves no thread.                                                        *)
LEMMA NoPanicKept ==
    ASSUME ReclaimInvariant, NoPanic, [ReclaimNext]_reclaimVars
    PROVE  NoPanic'
<1>1. ReclaimInvariant'
  BY ReclaimStep
<1>2. CASE list' = "shared"
  BY <1>1, <1>2 DEF ReclaimInvariant, SharedInv, CursorInvariant, References
<1>3. CASE list' # "shared"
  <2>1. UNCHANGED pc
    BY <1>3 DEF ReclaimNext, ReclaimInvariant, owner, Reclaim, Reclaimable, Drop, AtRest, IntoIter,
       IntoIterNext, Ended, reclaimVars, cursorVars, vars
  <2> QED BY <2>1 DEF NoPanic
<1> QED BY <1>2, <1>3

(* NoPanic, when entries are dropped, nodes freed, and the list ends.      *)
THEOREM NoPanicToTheEnd == ReclaimSpec => []NoPanic
<1>1. ReclaimInit => NoPanic
  BY CursorsInit DEF ReclaimInit, CursorInvariant, References
<1>2. ReclaimInvariant /\ NoPanic /\ [ReclaimNext]_reclaimVars => NoPanic'
  BY NoPanicKept
<1> QED BY <1>1, <1>2, ReclaimInvariance, PTL DEF ReclaimSpec

(* CursorsSkipNothing, when entries are dropped and nodes freed.           *)
THEOREM CursorsPassOverNothingShared == ReclaimSpec => CursorsSkipNothing
<1> DEFINE Good == \A t \in Thread : Moves(t) =>
                      /\ Found(t) # Null /\ at[t] # head => key[at[t]] < key[Found(t)]
                      /\ \A n \in Steady(t) :
                            \/ at[t] # head /\ key[n] <= key[at[t]]
                            \/ Found(t) # Null /\ key[Found(t)] <= key[n]
<1>1. ReclaimInvariant /\ [ReclaimNext]_reclaimVars => [Good]_cursorVars
  <2> SUFFICES ASSUME ReclaimInvariant, [ReclaimNext]_reclaimVars, NEW t \in Thread, Moves(t)
               PROVE  /\ Found(t) # Null /\ at[t] # head => key[at[t]] < key[Found(t)]
                      /\ \A n \in Steady(t) :
                            \/ at[t] # head /\ key[n] <= key[at[t]]
                            \/ Found(t) # Null /\ key[Found(t)] <= key[n]
    OBVIOUS
  <2>1. pc' # pc
    BY DEF Moves
  <2>2. list = "shared" /\ CursorNextState
    BY <2>1 DEF ReclaimNext, DropEntry, Reclaim, Drop, IntoIter, IntoIterNext, Ended, reclaimVars,
       cursorVars, vars
  <2> QED BY <2>2, EveryMoveSkipsNothing DEF ReclaimInvariant, SharedInv
<1> QED BY <1>1, ReclaimInvariance, PTL DEF ReclaimSpec, CursorsSkipNothing

(* GetReturnsLive, when entries are dropped and nodes freed.               *)
THEOREM GetsReturnLiveShared == ReclaimSpec => GetReturnsLive
<1> DEFINE Good == \A t \in Thread :
                      Returns(t) /\ call[t].op = "get" /\ result'[t] # Null
                          => result'[t] \in Live /\ key[result'[t]] = call[t].key
<1>1. ReclaimInvariant /\ [ReclaimNext]_reclaimVars => [Good]_vars
  <2> SUFFICES ASSUME ReclaimInvariant, [ReclaimNext]_reclaimVars, NEW t \in Thread,
                      Returns(t), call[t].op = "get", result'[t] # Null
               PROVE  result'[t] \in Live /\ key[result'[t]] = call[t].key
    OBVIOUS
  <2>1. pc' # pc
    BY DEF Returns
  <2>2. list = "shared" /\ CursorNextState
    BY <2>1 DEF ReclaimNext, DropEntry, Reclaim, Drop, IntoIter, IntoIterNext, Ended, reclaimVars,
       cursorVars, vars
  <2> QED BY <2>2, GetReturnsBesideCursors DEF ReclaimInvariant, SharedInv
<1> QED BY <1>1, ReclaimInvariance, PTL DEF ReclaimSpec, GetReturnsLive

=============================================================================
