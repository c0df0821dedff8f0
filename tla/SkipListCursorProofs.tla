-------------------------- MODULE SkipListCursorProofs --------------------------
(***************************************************************************)
(* The cursors beside the calls of the list: the invariant of              *)
(* SkipListCursorInv.tla is inductive for SkipListCursor.tla.              *)
(*                                                                         *)
(* A step of a cursor does to the shared memory only what steps of the     *)
(* list do: it takes a node out, drops a reference or tags a level.        *)
(* CursorFrame and CursorChains say so once; the parts of the list's       *)
(* invariant then follow from them, not from the single actions.           *)
(***************************************************************************)
EXTENDS SkipListCursorInv, SyncSkipListRefsProofs, SyncSkipListOrderProofs

CursorAction(t) == BeginCursor(t) \/ CursorStep(t)

-----------------------------------------------------------------------------
(* What the steps of a cursor do *)

(* What the invariant says of the thread that steps.                       *)
LEMMA CursorLocals ==
    ASSUME CursorInvariant, NEW t \in Thread
    PROVE  /\ MemoryTypeOK /\ LocalTypeOK /\ Inv /\ Shape /\ Order /\ References
           /\ ControlAt(t) /\ RemovalAt(t) /\ HeldAt(t) /\ LinkingAt(t) /\ OwnerAt(t)
           /\ KeyAt(t) /\ CursorAt(t) /\ TakenAt(t) /\ UseAt(t) /\ SightAt(t)
           /\ at[t] \in Tower /\ at \in [Thread -> Tower] /\ 0 \in Level
           /\ pc[t] \in AheadLabel => nxt[t] \in Node /\ nxt[t] \in Tower
           /\ pc[t] \in {"load", "tag"} => target[t] \in Node
           /\ pc[t] = "tag" => down[t] \in Level
BY Locals, ConstantFacts DEF CursorInvariant, CursorTypeOK, Inv, TypeOK, Control, Removal, Shape,
   Order, CursorsHold, RemoveLabel, Level

(* A step changes the local variables of one thread only.                  *)
LEMMA CursorOthers ==
    ASSUME CursorInvariant, NEW t \in Thread, CursorAction(t), NEW u \in Thread, u # t
    PROVE  /\ pc'[u] = pc[u] /\ call'[u] = call[u] /\ calls'[u] = calls[u]
           /\ ret'[u] = ret[u] /\ level'[u] = level[u] /\ curr'[u] = curr[u]
           /\ nxt'[u] = nxt[u] /\ prev'[u] = prev[u] /\ target'[u] = target[u]
           /\ up'[u] = up[u] /\ down'[u] = down[u] /\ New(u)' = New(u)
           /\ result'[u] = result[u] /\ before'[u] = before[u]
           /\ at'[u] = at[u]
<1> LocalTypeOK /\ at \in [Thread -> Tower] /\ CursorAt(t)
  BY CursorLocals
<1> USE DEF LocalTypeOK, Goto, locals, request, walk, removal, cursor
<1>1. CASE BeginCursor(t)
  BY <1>1 DEF BeginCursor, New
<1>2. CASE CursorTag(t)
  BY <1>2 DEF CursorTag, SearchClosest, New
<1>3. CASE CursorNext(t) \/ CursorSubRef(t)
  BY <1>3 DEF CursorNext, CursorSubRef, Follow, Finish, New
<1>4. CASE CursorCheck(t)
  <2>1. ret[t] \in CursorCall
    BY <1>4 DEF CursorCheck, CursorAt, SteppingLabel, CursorLabel
  <2>2. CASE Arrive(t, nxt[t])
    <3>1. CASE ret[t] = "first"
      BY <1>4, <2>2, <3>1 DEF CursorCheck, Arrive, Finish, New
    <3>2. CASE ret[t] = "last"
      BY <1>4, <2>2, <3>2 DEF CursorCheck, Arrive, Finish, New
    <3>3. CASE ret[t] = "pop"
      BY <1>4, <2>2, <3>3 DEF CursorCheck, Arrive, Finish, New
    <3> QED BY <2>1, <3>1, <3>2, <3>3 DEF CursorCall
  <2>3. CASE ~Arrive(t, nxt[t])
    BY <1>4, <2>3 DEF CursorCheck, New
  <2> QED BY <2>2, <2>3
<1>5. CASE CursorHelp(t)
  BY <1>5 DEF CursorHelp, SearchClosest, New
<1>6. CASE ClosestFault(t) \/ TagEntry(t)
  BY <1>6 DEF ClosestFault, TagEntry, New
<1> QED BY <1>1, <1>2, <1>3, <1>4, <1>5, <1>6 DEF CursorAction, CursorStep

(* Keys, heights, removed bits and tagged levels stay as they are.         *)
LEMMA CursorFrame ==
    ASSUME CursorInvariant, NEW t \in Thread, CursorAction(t)
    PROVE  /\ UNCHANGED <<key, len, maxHeight>>
           /\ \A n \in Node : /\ har'[n].height = har[n].height
                              /\ har'[n].removed = har[n].removed
           /\ Allocated' = Allocated
           /\ \A m \in Tower, l \in Level : Tag(m, l) = 1 => next'[m][l] = next[m][l]
           /\ \A m \in Tower, l \in Level :
                 Tag(m, l)' = Tag(m, l) \/ (TagEntry(t) /\ m = target[t] /\ l = down[t])
<1> MemoryTypeOK /\ RemovalAt(t) /\ CursorAt(t) /\ at[t] \in Tower /\ 0 \in Level
  BY CursorLocals
<1> USE DEF memory
<1>1. UNCHANGED <<key, len, maxHeight>>
  BY DEF CursorAction, CursorStep, BeginCursor, CursorTag, CursorNext, CursorCheck, CursorHelp,
     CursorSubRef, ClosestFault, TagEntry
<1>2. \A n \in Node : har'[n].height = har[n].height /\ har'[n].removed = har[n].removed
  <2>1. CASE CursorSubRef(t)
    <3>1. nxt[t] \in Node /\ SubRefAndRetire(nxt[t])
      BY <2>1, CursorLocals DEF CursorSubRef, AheadLabel
    <3> QED BY <3>1, RefSteps
  <2>2. CASE ~CursorSubRef(t)
    <3>1. UNCHANGED har
      BY <2>2 DEF CursorAction, CursorStep, BeginCursor, CursorTag, CursorNext, CursorCheck,
         CursorHelp, ClosestFault, TagEntry
    <3> QED BY <3>1
  <2> QED BY <2>1, <2>2
<1>3. Allocated' = Allocated
  BY <1>2 DEF Allocated
<1>4. /\ \A m \in Tower, l \in Level : Tag(m, l) = 1 => next'[m][l] = next[m][l]
      /\ \A m \in Tower, l \in Level :
            Tag(m, l)' = Tag(m, l) \/ (TagEntry(t) /\ m = target[t] /\ l = down[t])
  <2>1. CASE UNCHANGED next
    BY <2>1 DEF Tag
  <2>2. CASE CursorHelp(t) /\ CanExchange(at[t], 0, nxt[t])
             /\ Exchange(at[t], 0, Ptr(nxt[t], 0))
    <3>1. next[at[t]][0].tag = 0
      BY <2>2 DEF CanExchange
    <3> QED BY <2>2, <3>1 DEF Exchange, MemoryTypeOK, Tag
  <2>3. CASE TagEntry(t) /\ SetTag(target[t], down[t]) /\ Tag(target[t], down[t]) = 0
    <3>1. target[t] \in Node /\ target[t] \in Tower /\ down[t] \in Level
      BY <2>3, CursorLocals, ConstantFacts DEF TagEntry
    <3>2. next[target[t]][down[t]] \in MaybeTagged
      BY <3>1, PtrType
    <3> QED BY <2>3, <3>1, <3>2, PtrAfterSetTag DEF SetTag, MemoryTypeOK, Tag, MaybeTagged
  <2> QED BY <2>1, <2>2, <2>3 DEF CursorAction, CursorStep, BeginCursor, CursorTag, CursorNext,
          CursorCheck, CursorHelp, CursorSubRef, ClosestFault, TagEntry
<1> QED BY <1>1, <1>2, <1>3, <1>4

(* How a cursor's own thread moves.                                        *)
LEMMA CursorMoves ==
    ASSUME CursorInvariant, NEW t \in Thread, CursorAction(t)
    PROVE  /\ ret'[t] \in CursorCall \cup {"closest"}
           /\ pc'[t] \in CursorLabel => pc'[t] = "fault" \/ ret'[t] \in CursorCall
           /\ ret'[t] \in CursorCall \/ pc'[t] \in {"find", "fault"}
           /\ pc'[t] \in SteppingLabel \cup {"find", "load", "tag", "return", "panic", "fault"}
           /\ prev' = prev /\ up' = up /\ level' = level /\ curr' = curr
           /\ calls'[t] \in {calls[t], calls[t] + 1} /\ calls'[t] >= 1
           /\ calls'[t] = calls[t] + 1 => pc[t] = "idle" /\ calls[t] < MaxCalls
           /\ pc'[t] \in AheadLabel => nxt'[t] # Null
           /\ pc'[t] \in RemoveLabel => target'[t] # Null
<1> LocalTypeOK /\ ControlAt(t) /\ CursorAt(t) /\ MemoryTypeOK /\ 0 \in Level
    /\ (pc[t] \in {"load", "tag"} => target[t] \in Node)
  BY CursorLocals
<1> USE DEF LocalTypeOK, Goto, locals, request, walk, removal, cursor, CursorLabel, SteppingLabel,
        CursorCall, AheadLabel, RemoveLabel
<1>1. CASE BeginCursor(t)
  <2>1. PICK op \in CursorScript[t][calls[t] + 1] :
             call' = [call EXCEPT ![t] = [@ EXCEPT !.op = op]] /\ ret' = [ret EXCEPT ![t] = op]
    BY <1>1 DEF BeginCursor
  <2>2. calls[t] + 1 \in 1 .. MaxCalls
    BY <1>1, MemoryAssumption DEF BeginCursor, HasCursorCall
  <2>3. op \in CursorCall
    <3> HIDE DEF CursorCall
    <3>1. CursorScript[t] \in [1 .. MaxCalls -> SUBSET CursorCall]
      BY CursorAssumption
    <3> QED BY <2>1, <2>2, <3>1
  <2>4. calls'[t] = calls[t] + 1 /\ calls[t] < MaxCalls /\ pc[t] = "idle" /\ calls[t] >= 0
    BY <1>1 DEF BeginCursor, HasCursorCall
  <2>5. ret'[t] \in CursorCall /\ pc'[t] \in {"return", "curTag"}
    BY <1>1, <2>1, <2>3 DEF BeginCursor
  <2> QED BY <1>1, <2>4, <2>5 DEF BeginCursor
<1>2. CASE CursorTag(t)
  BY <1>2 DEF CursorTag, SearchClosest, ControlAt, CursorAt
<1>3. CASE CursorNext(t)
  BY <1>3 DEF CursorNext, Follow, Finish, ControlAt, CursorAt
<1>4. CASE CursorSubRef(t)
  BY <1>4 DEF CursorSubRef, Follow, Finish, ControlAt, CursorAt
<1>5. CASE CursorCheck(t)
  <2>1. ret[t] \in CursorCall /\ nxt[t] # Null /\ pc[t] = "curCheck" /\ calls[t] >= 1
        /\ calls' = calls /\ ret' = ret /\ prev' = prev /\ up' = up /\ level' = level /\ curr' = curr
    BY <1>5 DEF CursorCheck, CursorAt, ControlAt
  <2>2. CASE Arrive(t, nxt[t]) /\ ret[t] = "first"
    BY <2>1, <2>2 DEF Arrive, Finish
  <2>3. CASE Arrive(t, nxt[t]) /\ ret[t] = "last"
    BY <2>1, <2>3 DEF Arrive
  <2>4. CASE Arrive(t, nxt[t]) /\ ret[t] = "pop"
    BY <2>1, <2>4 DEF Arrive
  <2>5. CASE ~Arrive(t, nxt[t])
    BY <1>5, <2>1, <2>5 DEF CursorCheck
  <2> QED BY <2>1, <2>2, <2>3, <2>4, <2>5
<1>6. CASE CursorHelp(t)
  BY <1>6 DEF CursorHelp, SearchClosest, ControlAt, CursorAt
<1>7. CASE ClosestFault(t)
  BY <1>7 DEF ClosestFault, ControlAt
<1>8. CASE TagEntry(t)
  BY <1>8 DEF TagEntry, ControlAt
<1> QED BY <1>1, <1>2, <1>3, <1>4, <1>5, <1>6, <1>7, <1>8 DEF CursorAction, CursorStep

(* Where the pointers a cursor holds come from.                            *)
LEMMA CursorValues ==
    ASSUME CursorInvariant, NEW t \in Thread, CursorAction(t)
    PROVE  /\ \/ nxt'[t] \in {nxt[t], Null}
              \/ pc[t] = "curNext" /\ nxt'[t] = Ptr(at[t], 0)
              \/ pc[t] = "curSub" /\ nxt'[t] = Ptr(nxt[t], 0)
           /\ \/ target'[t] = target[t]
              \/ CursorCheck(t) /\ Arrive(t, nxt[t]) /\ ret[t] = "pop" /\ target'[t] = nxt[t]
           /\ \/ at'[t] \in {at[t], head}
              \/ CursorCheck(t) /\ ret[t] = "last" /\ at'[t] = nxt[t]
           /\ pc'[t] = "tag" => TagEntry(t) /\ Tag(target[t], down[t]) = 0
                                /\ down[t] # 0 /\ down'[t] = down[t] - 1
           /\ pc'[t] = "curCheck" =>
                 \/ pc[t] = "curNext" /\ nxt'[t] = Ptr(at[t], 0)
                 \/ pc[t] = "curSub" /\ nxt'[t] = Ptr(nxt[t], 0)
           /\ pc'[t] \in {"curCheck", "curHelp", "curSub"} => at'[t] = at[t]
           /\ pc'[t] = "curHelp" => CursorCheck(t) /\ Tag(nxt[t], 0) = 1 /\ nxt'[t] = nxt[t]
           /\ pc'[t] = "curSub" => CursorHelp(t) /\ nxt'[t] = nxt[t]
           /\ pc'[t] = "panic" => \/ CursorSubRef(t) /\ WillUnderflow(nxt[t])
                                  \/ TagEntry(t) /\ Tag(target[t], down[t]) # 0
<1> LocalTypeOK /\ CursorAt(t) /\ at \in [Thread -> Tower]
  BY CursorLocals
<1> USE DEF LocalTypeOK, Goto, locals, request, walk, removal, cursor, memory
<1>1. CASE BeginCursor(t)
  BY <1>1 DEF BeginCursor
<1>2. CASE CursorTag(t) \/ ClosestFault(t)
  BY <1>2 DEF CursorTag, SearchClosest, ClosestFault
<1>3. CASE CursorNext(t)
  BY <1>3 DEF CursorNext, Follow, Finish
<1>4. CASE CursorCheck(t)
  <2>1. ret[t] \in CursorCall
    BY <1>4 DEF CursorCheck, CursorAt, SteppingLabel, CursorLabel
  <2>2. CASE Arrive(t, nxt[t]) /\ ret[t] = "first"
    BY <1>4, <2>2 DEF CursorCheck, Arrive, Finish
  <2>3. CASE Arrive(t, nxt[t]) /\ ret[t] = "last"
    BY <1>4, <2>3 DEF CursorCheck, Arrive
  <2>4. CASE Arrive(t, nxt[t]) /\ ret[t] = "pop"
    BY <1>4, <2>4 DEF CursorCheck, Arrive
  <2>5. CASE ~Arrive(t, nxt[t])
    BY <1>4, <2>5 DEF CursorCheck
  <2> QED BY <2>1, <2>2, <2>3, <2>4, <2>5 DEF CursorCall
<1>5. CASE CursorHelp(t)
  BY <1>5 DEF CursorHelp, SearchClosest
<1>6. CASE CursorSubRef(t)
  BY <1>6 DEF CursorSubRef, Follow, Finish
<1>7. CASE TagEntry(t)
  BY <1>7 DEF TagEntry
<1> QED BY <1>1, <1>2, <1>3, <1>4, <1>5, <1>6, <1>7 DEF CursorAction, CursorStep

(* A cursor changes the chains only by taking out the node after the one   *)
(* it stands on.                                                           *)
LEMMA CursorChains ==
    ASSUME CursorInvariant, NEW t \in Thread, CursorAction(t)
    PROVE  \/ CursorHelp(t) /\ pc'[t] = "curSub" /\ TakesOut(at[t], nxt[t], 0)
           \/ /\ \A o \in Tower, i \in Level : Ptr(o, i)' = Ptr(o, i)
              /\ UNCHANGED linked /\ pc'[t] # "curSub"
<1> MemoryTypeOK /\ LocalTypeOK /\ RemovalAt(t) /\ CursorAt(t) /\ at[t] \in Tower /\ 0 \in Level
  BY CursorLocals
<1> USE DEF memory
<1>1. CASE UNCHANGED <<next, linked>> /\ pc'[t] # "curSub"
  BY <1>1 DEF Ptr
<1>2. CASE /\ CursorHelp(t) /\ CanExchange(at[t], 0, nxt[t])
           /\ Exchange(at[t], 0, Ptr(nxt[t], 0))
           /\ linked' = [linked EXCEPT ![nxt[t]] = @ \ {0}]
           /\ Goto(t, "curSub")
  <2>1. nxt[t] \in Node /\ nxt[t] \in Tower
    BY <1>2, CursorLocals DEF CursorHelp, AheadLabel
  <2>2. InList(at[t], 0) /\ Ptr(at[t], 0) = nxt[t] /\ Tag(at[t], 0) = 0
    BY <1>2, ExchangedInList DEF CursorAt
  <2>3. 0 \in linked[nxt[t]]
    BY <2>1, <2>2, CursorLocals, ConstantFacts DEF Shape, SuccessorsLinked
  <2>4. Tag(nxt[t], 0) = 1
    BY <1>2 DEF CursorHelp, RemovalAt
  <2>5. \A o \in Tower, i \in Level :
           Ptr(o, i)' = IF o = at[t] /\ i = 0 THEN Ptr(nxt[t], 0) ELSE Ptr(o, i)
    BY <1>2, PtrAfterExchange
  <2>6. \A o \in Node : linked'[o] = IF o = nxt[t] THEN linked[o] \ {0} ELSE linked[o]
    BY <1>2, <2>1 DEF MemoryTypeOK
  <2> QED BY <1>2, <2>2, <2>3, <2>4, <2>5, <2>6 DEF TakesOut, Goto, LocalTypeOK
<1>3. CASE TagEntry(t) /\ SetTag(target[t], down[t])
  <2>1. target[t] \in Node /\ down[t] \in Level
    BY <1>3, CursorLocals DEF TagEntry
  <2>2. pc'[t] # "curSub"
    BY <1>3, CursorValues DEF TagEntry, CursorHelp
  <2> QED BY <1>3, <2>1, <2>2, PtrAfterSetTag DEF TagEntry
<1>4. pc'[t] = "curSub" => CursorHelp(t) /\ ~SearchClosest(t)
  BY CursorValues DEF SearchClosest, Goto, LocalTypeOK
<1>5. CASE CursorHelp(t)
  BY <1>1, <1>2, <1>4, <1>5 DEF CursorHelp
<1> QED BY <1>1, <1>3, <1>4, <1>5 DEF CursorAction, CursorStep, BeginCursor, CursorTag, CursorNext,
        CursorCheck, CursorSubRef, ClosestFault, TagEntry


-----------------------------------------------------------------------------
(* The invariant of SyncSkipListInv.tla *)

(* The shared memory keeps its types.                                      *)
LEMMA CursorMemoryTypes ==
    ASSUME CursorInvariant, NEW t \in Thread, CursorAction(t)
    PROVE  MemoryTypeOK'
<1> MemoryTypeOK /\ RemovalAt(t) /\ at[t] \in Tower /\ 0 \in Level
  BY CursorLocals
<1>1. next' \in [Tower -> [Level -> MaybeTagged]]
  <2>1. CASE UNCHANGED next
    BY <2>1 DEF MemoryTypeOK
  <2>2. CASE CursorHelp(t) /\ Exchange(at[t], 0, Ptr(nxt[t], 0))
    <3>1. nxt[t] \in Tower /\ Ptr(nxt[t], 0) \in NodeOrNull
      BY <2>2, CursorLocals, PtrType DEF CursorHelp, AheadLabel
    <3> QED BY <2>2, <3>1, ExchangeType
  <2>3. CASE TagEntry(t) /\ SetTag(target[t], down[t])
    BY <2>3, CursorLocals, SetTagType DEF TagEntry
  <2> QED BY <2>1, <2>2, <2>3 DEF CursorAction, CursorStep, BeginCursor, CursorTag, CursorNext,
          CursorCheck, CursorHelp, CursorSubRef, ClosestFault, TagEntry, memory
<1>2. har' \in [Node -> Word] /\ retired' \in [Node -> Nat]
  <2>1. CASE UNCHANGED <<har, retired>>
    BY <2>1 DEF MemoryTypeOK
  <2>2. CASE CursorSubRef(t)
    <3>1. nxt[t] \in Node /\ SubRefAndRetire(nxt[t])
      BY <2>2, CursorLocals DEF CursorSubRef, AheadLabel
    <3>2. har' \in [Node -> Word]
      BY <3>1, WordType
    <3>3. retired' \in [Node -> Nat]
      BY <3>1 DEF SubRefAndRetire, MemoryTypeOK
    <3> QED BY <3>2, <3>3
  <2> QED BY <2>1, <2>2 DEF CursorAction, CursorStep, BeginCursor, CursorTag, CursorNext,
          CursorCheck, CursorHelp, CursorSubRef, ClosestFault, TagEntry, memory
<1>3. linked' \in [Node -> SUBSET Level]
  BY CursorChains DEF TakesOut, MemoryTypeOK, CursorAction, CursorStep, BeginCursor, CursorTag,
     CursorNext, CursorCheck, CursorHelp, CursorSubRef, ClosestFault, TagEntry, memory
<1> QED BY <1>1, <1>2, <1>3, CursorFrame DEF MemoryTypeOK

(* So do the local variables, those of the cursor included.                *)
LEMMA CursorLocalTypes ==
    ASSUME CursorInvariant, NEW t \in Thread, CursorAction(t)
    PROVE  LocalTypeOK' /\ at' \in [Thread -> Tower] /\ popped' \subseteq Node
<1> LocalTypeOK /\ MemoryTypeOK /\ 0 \in Level /\ at \in [Thread -> Tower] /\ at[t] \in Tower
    /\ popped \subseteq Node
  BY CursorLocals DEF CursorInvariant, CursorTypeOK
<1> /\ pc[t] \in {"curCheck", "curHelp", "curSub"} => nxt[t] \in Node /\ nxt[t] \in Tower
    /\ pc[t] = "tag" => target[t] \in Node /\ down[t] \in Level
  BY CursorLocals DEF AheadLabel
<1> ret[t] \in Use /\ nxt[t] \in NodeOrNull /\ pc[t] # "idle" /\ pc[t] \in SteppingLabel => ret[t] \in CursorCall
  BY CursorLocals DEF LocalTypeOK, CursorAt
<1>0. CursorCall \subseteq Use /\ CursorCall \subseteq Operation \cup CursorCall /\ "closest" \in Use
      /\ SteppingLabel \subseteq Label /\ {"find", "load", "tag", "return", "panic", "fault"} \subseteq Label
  BY DEF Use, Label, FindLabel, SteppingLabel, CursorLabel
<1> USE DEF LocalTypeOK, Goto, locals, request, walk, removal, cursor, memory
<1>1. CASE BeginCursor(t)
  <2>1. PICK op \in CursorScript[t][calls[t] + 1] :
             call' = [call EXCEPT ![t] = [@ EXCEPT !.op = op]] /\ ret' = [ret EXCEPT ![t] = op]
    BY <1>1 DEF BeginCursor
  <2>2. op \in CursorCall
    BY <1>1, <2>1, CursorMoves DEF BeginCursor
  <2>3. [call[t] EXCEPT !.op = op] \in Request
    BY <2>2 DEF Request
  <2>4. call' \in [Thread -> Request] /\ ret' \in [Thread -> Use]
    BY <1>0, <2>1, <2>2, <2>3
  <2>5. calls[t] + 1 \in 0 .. MaxCalls
    BY <1>1, MemoryAssumption DEF BeginCursor, HasCursorCall
  <2>6. pc' \in [Thread -> Label] /\ calls' \in [Thread -> 0 .. MaxCalls]
    BY <1>1, <2>5 DEF BeginCursor, Label, CursorLabel
  <2>7. result' \in [Thread -> NodeOrNull] /\ before' \in [Thread -> SUBSET Node]
        /\ at' \in [Thread -> Tower]
    BY <1>1, ConstantFacts DEF BeginCursor, Live
  <2> QED BY <1>1, <2>4, <2>6, <2>7 DEF BeginCursor
<1>2. ASSUME SearchClosest(t)
      PROVE  pc' \in [Thread -> Label] /\ call' \in [Thread -> Request] /\ ret' \in [Thread -> Use]
  <2>1. PICK k \in Key : call' = [call EXCEPT ![t].key = k]
    BY <1>2 DEF SearchClosest
  <2>2. [call[t] EXCEPT !.key = k] \in Request
    BY DEF Request
  <2>3. call' \in [Thread -> Request]
    BY <2>1, <2>2
  <2>4. pc' \in [Thread -> Label] /\ ret' \in [Thread -> Use]
    BY <1>0, <1>2 DEF SearchClosest
  <2> QED BY <2>3, <2>4
<1>3. ASSUME NEW n \in NodeOrNull, Finish(t, n)
      PROVE  /\ result' \in [Thread -> NodeOrNull] /\ at' \in [Thread -> Tower]
             /\ before' \in [Thread -> SUBSET Node] /\ pc' \in [Thread -> Label]
  BY <1>0, <1>3, ConstantFacts DEF Finish
<1>4. ASSUME NEW n \in NodeOrNull, Follow(t, n)
      PROVE  /\ nxt' \in [Thread -> NodeOrNull] /\ pc' \in [Thread -> Label]
             /\ result' \in [Thread -> NodeOrNull] /\ at' \in [Thread -> Tower]
             /\ before' \in [Thread -> SUBSET Node]
  <2>1. nxt' \in [Thread -> NodeOrNull]
    BY <1>4 DEF Follow
  <2>2. CASE n = Null
    <3>1. (IF at[t] = head THEN Null ELSE at[t]) \in NodeOrNull
      BY ConstantFacts
    <3> QED BY <1>3, <1>4, <2>1, <2>2, <3>1 DEF Follow
  <2>3. CASE n # Null
    BY <1>4, <2>1, <2>3 DEF Follow, Label, CursorLabel
  <2> QED BY <2>2, <2>3
<1>5. CASE CursorTag(t)
  <2>1. CASE SearchClosest(t)
    BY <1>2, <1>5, <2>1 DEF CursorTag
  <2>2. CASE ~SearchClosest(t)
    BY <1>5, <2>2 DEF CursorTag, Label, CursorLabel
  <2> QED BY <2>1, <2>2
<1>6. CASE CursorNext(t)
  <2>1. Ptr(at[t], 0) \in NodeOrNull
    BY PtrType
  <2> QED BY <1>4, <1>6, <2>1 DEF CursorNext
<1>7. CASE CursorCheck(t)
  <2>1. nxt[t] \in Node /\ nxt[t] \in Tower /\ ret[t] \in CursorCall /\ nxt' \in [Thread -> NodeOrNull]
        /\ nxt[t] \in NodeOrNull
    BY <1>7, ConstantFacts DEF CursorCheck, SteppingLabel, CursorLabel
  <2>2. CASE Arrive(t, nxt[t])
    <3>1. CASE ret[t] = "first"
      BY <1>3, <1>7, <2>1, <2>2, <3>1 DEF CursorCheck, Arrive
    <3>2. CASE ret[t] = "last"
      <4>1. at' \in [Thread -> Tower] /\ pc' = [pc EXCEPT ![t] = "curTag"]
            /\ UNCHANGED <<target, result, before>>
        BY <2>1, <2>2, <3>2 DEF Arrive
      <4>2. pc' \in [Thread -> Label]
        BY <4>1 DEF Label, CursorLabel
      <4> QED BY <1>7, <2>1, <4>1, <4>2 DEF CursorCheck
    <3>3. CASE ret[t] = "pop"
      BY <1>7, <2>1, <2>2, <3>3 DEF CursorCheck, Arrive, Label
    <3> QED BY <2>1, <3>1, <3>2, <3>3 DEF CursorCall
  <2>3. CASE ~Arrive(t, nxt[t])
    BY <1>7, <2>1, <2>3 DEF CursorCheck, Label, CursorLabel
  <2> QED BY <2>2, <2>3
<1>8. CASE CursorHelp(t)
  <2>1. CASE SearchClosest(t)
    BY <1>2, <1>8, <2>1, ConstantFacts DEF CursorHelp
  <2>2. CASE ~SearchClosest(t)
    BY <1>8, <2>2 DEF CursorHelp, Label, CursorLabel
  <2> QED BY <2>1, <2>2
<1>9. CASE CursorSubRef(t)
  <2>1. Ptr(nxt[t], 0) \in NodeOrNull
    BY <1>9, PtrType DEF CursorSubRef
  <2>2. CASE WillUnderflow(nxt[t])
    BY <1>0, <1>9, <2>2 DEF CursorSubRef
  <2>3. CASE ~WillUnderflow(nxt[t])
    BY <1>4, <1>9, <2>1, <2>3 DEF CursorSubRef
  <2> QED BY <2>2, <2>3
<1>10. CASE ClosestFault(t)
  BY <1>0, <1>10 DEF ClosestFault
<1>11. CASE TagEntry(t)
  <2>1. target[t] \in Node /\ down[t] \in Level
    BY <1>11 DEF TagEntry
  <2>2. (IF down[t] = 0 THEN 0 ELSE down[t] - 1) \in 0 .. HEIGHT
    BY <2>1, ConstantFacts DEF Level
  <2>3. down' \in [Thread -> 0 .. HEIGHT] /\ popped' \subseteq Node
    BY <1>11, <2>1, <2>2 DEF TagEntry
  <2>4. pc' \in [Thread -> Label]
    BY <1>0, <1>11 DEF TagEntry, Label
  <2> QED BY <1>11, <2>3, <2>4 DEF TagEntry
<1> QED BY <1>1, <1>5, <1>6, <1>7, <1>8, <1>9, <1>10, <1>11 DEF CursorAction, CursorStep

(* A cursor takes its pointers from memory, where they lead to allocated   *)
(* nodes.                                                                  *)
LEMMA CursorPointers ==
    ASSUME CursorInvariant, NEW t \in Thread, CursorAction(t)
    PROVE  PointersAllocated' /\ at'[t] \in Allocated' \cup {head}
<1>0. /\ MemoryTypeOK /\ CursorAt(t) /\ at[t] \in Tower /\ PointersAllocated /\ 0 \in Level
      /\ LocalTypeOK' /\ Allocated' = Allocated
      /\ nxt[t] \in Allocated \cup {Null}
      /\ pc[t] \in AheadLabel => nxt[t] \in Tower /\ nxt[t] \in Node
      /\ Ptr(at[t], 0) \in Allocated \cup {Null}
      /\ pc[t] \in AheadLabel => Ptr(nxt[t], 0) \in Allocated \cup {Null}
  BY CursorLocals, CursorLocalTypes, CursorFrame DEF Inv, PointersAllocated
<1>1. \A m \in Tower, l \in Level : Ptr(m, l)' \in Allocated \cup {Null}
  BY <1>0, CursorChains DEF PointersAllocated, TakesOut, CursorHelp, AheadLabel
<1>2. nxt'[t] \in Allocated \cup {Null}
  BY <1>0, CursorValues DEF AheadLabel
<1>3. target'[t] \in Allocated \cup {Null}
  BY <1>0, CursorValues DEF PointersAllocated
<1>4. /\ nxt' \in [Thread -> Allocated \cup {Null}]
      /\ target' \in [Thread -> Allocated \cup {Null}]
  <2>1. \A u \in Thread : nxt'[u] \in Allocated \cup {Null} /\ target'[u] \in Allocated \cup {Null}
    BY <1>0, <1>2, <1>3, CursorOthers DEF PointersAllocated
  <2> QED BY <1>0, <2>1 DEF LocalTypeOK
<1>5. curr' = curr /\ prev' = prev
  BY CursorMoves
<1>6. at'[t] \in Allocated \cup {head}
  BY <1>0, CursorValues, ConstantFacts DEF CursorAt, CursorCheck, AheadLabel
<1> QED BY <1>0, <1>1, <1>4, <1>5, <1>6 DEF PointersAllocated

(* A cursor call allocates nothing: the node of its call stays             *)
(* unallocated.                                                            *)
LEMMA CursorFresh ==
    ASSUME CursorInvariant, NEW t \in Thread, CursorAction(t)
    PROVE  Fresh'
<1>0. Fresh /\ Allocated' = Allocated /\ LocalTypeOK
  BY CursorLocals, CursorFrame DEF Inv
<1>1. \A n \in Node : n \notin Allocated' => ~har'[n].removed
  BY <1>0, CursorFrame DEF Fresh
<1>2. \A u \in Thread : calls[u] \in Nat /\ calls'[u] \in Nat /\ calls'[u] >= calls[u]
  <2> SUFFICES ASSUME NEW u \in Thread
               PROVE  calls[u] \in Nat /\ calls'[u] \in Nat /\ calls'[u] >= calls[u]
    OBVIOUS
  <2>1. calls[u] \in Nat
    BY <1>0, MemoryAssumption DEF LocalTypeOK
  <2>2. calls'[u] \in {calls[u], calls[u] + 1}
    BY CursorOthers, CursorMoves
  <2> QED BY <2>1, <2>2
<1>3. \A u \in Thread, c \in 1 .. MaxCalls : c > calls'[u] => <<u, c>> \notin Allocated
  BY <1>0, <1>2, MemoryAssumption DEF Fresh
<1>4. ASSUME NEW u \in Thread, pc'[u] \in SearchLabel, ret'[u] = "insert"
      PROVE  New(u)' \notin Allocated
  <2>1. u # t
    BY <1>4, CursorMoves DEF CursorCall
  <2> QED BY <1>0, <1>4, <2>1, CursorOthers DEF Fresh
<1> QED BY <1>0, <1>1, <1>3, <1>4 DEF Fresh

(* What a thread relies on at each label, after a step of a cursor.        *)
LEMMA CursorControl ==
    ASSUME CursorInvariant, NEW t \in Thread, CursorAction(t)
    PROVE  Control'
<1>1. ASSUME NEW u \in Thread, u # t PROVE ControlAt(u)'
  <2>1. ControlAt(u) /\ Allocated' = Allocated
    BY CursorLocals, CursorFrame DEF Inv, Control
  <2>2. \A n \in Node : har'[n].height = har[n].height
    BY CursorFrame
  <2>3. /\ pc[u] \in RemoveLabel => target[u] \in Node
        /\ pc[u] # "idle" => New(u) \in Node
    BY CursorLocals, Locals
  <2> QED BY <1>1, <2>1, <2>2, <2>3, CursorOthers
          DEF ControlAt, Linking, RemoveLabel, LinkLabel, SearchLabel, FindLabel
<1>2. ControlAt(t)'
  <2>1. ControlAt(t) /\ \A n \in Node : har'[n].height = har[n].height
    BY CursorLocals, CursorFrame
  <2>2. pc'[t] = "tag" => target'[t] = target[t] /\ target[t] \in Node /\ down'[t] < har[target[t]].height
    <3>1. pc'[t] = "tag" => pc[t] = "tag" /\ target'[t] = target[t] /\ target[t] \in Node
                            /\ down'[t] = down[t] - 1 /\ down[t] \in Level
                            /\ down[t] < har[target[t]].height
                            /\ har[target[t]].height \in Int
      BY <2>1, CursorLocals, CursorValues DEF TagEntry, walk, ControlAt, MemoryTypeOK, Word, CursorCheck
    <3> QED BY <3>1 DEF Level
  <2>3. /\ pc'[t] \notin {"init", "lower", "next", "check", "help", "helpSub", "finalCheck", "new", "unlink", "unlinkSub"}
        /\ pc'[t] \notin BuildLabel /\ pc'[t] \notin LinkLabel /\ ret'[t] # "relink"
    BY CursorMoves DEF SteppingLabel, CursorLabel, BuildLabel, LinkLabel, CursorCall
  <2> QED BY <2>1, <2>2, <2>3, CursorMoves DEF ControlAt, Linking, LinkLabel
<1> QED BY <1>1, <1>2 DEF Control

(* A cursor unlinks a node at the base level after it found the tag there, *)
(* and pop tags what it removed.                                           *)
LEMMA CursorRemoval ==
    ASSUME CursorInvariant, NEW t \in Thread, CursorAction(t)
    PROVE  TaggedAreRemoved' /\ Removal'
<1>0. /\ MemoryTypeOK /\ MemoryTypeOK' /\ TaggedAreRemoved /\ 0 \in Level /\ head \notin Node
      /\ \A n \in Node : har'[n].height = har[n].height /\ har'[n].removed = har[n].removed
      /\ \A m \in Tower, l \in Level : Tag(m, l) = 1 => Tag(m, l)' = 1
  BY CursorLocals, CursorFrame, CursorMemoryTypes, ConstantFacts DEF Inv, Tag
<1>1. TaggedAreRemoved'
  <2>1. TagEntry(t) => target[t] \in Node /\ har[target[t]].removed
    BY CursorLocals DEF TagEntry, RemovalAt
  <2> QED BY <1>0, <2>1, CursorFrame, ConstantFacts DEF TaggedAreRemoved
<1>2. ASSUME NEW u \in Thread, u # t PROVE RemovalAt(u)'
  <2>1. RemovalAt(u) /\ MemoryTypeOK
    BY CursorLocals
  <2>2. /\ pc[u] = "help" => nxt[u] \in Tower /\ level[u] - 1 \in Level
        /\ pc[u] \in {"curHelp", "curSub"} => nxt[u] \in Tower
        /\ pc[u] \in {"tag", "unlink", "unlinkSub"} => target[u] \in Node /\ target[u] \in Tower
    BY CursorLocals, Locals, ConstantFacts DEF AheadLabel, RemoveLabel
  <2> QED BY <1>0, <1>2, <2>1, <2>2, CursorOthers DEF RemovalAt
<1>3. RemovalAt(t)'
  <2>1. ASSUME pc'[t] \in {"curHelp", "curSub"}
        PROVE  Tag(nxt[t], 0)' = 1
    <3>1. nxt'[t] = nxt[t] /\ Tag(nxt[t], 0) = 1 /\ nxt[t] \in Tower
      BY <2>1, CursorLocals, CursorValues DEF CursorCheck, CursorHelp, RemovalAt, AheadLabel
    <3> QED BY <1>0, <3>1
  <2>2. ASSUME pc'[t] = "tag"
        PROVE  /\ har'[target'[t]].removed
               /\ \A l \in Level : down'[t] < l /\ l < har'[target'[t]].height
                     => Tag(target[t], l)' = 1
    <3>1. PICK n \in Node, d \in Level : n = target[t] /\ d = down[t] /\ n \in Tower
      BY <2>2, CursorLocals, CursorValues, ConstantFacts DEF TagEntry
    <3>2. /\ TagEntry(t) /\ pc[t] = "tag" /\ SetTag(n, d) /\ target'[t] = n
          /\ d # 0 /\ down'[t] = d - 1
      BY <2>2, <3>1, CursorValues DEF TagEntry
    <3>3. Tag(n, d)' = 1
      BY <1>0, <3>1, <3>2, PtrAfterSetTag
    <3>4. /\ har[n].removed
          /\ \A l \in Level : d < l /\ l < har[n].height => Tag(n, l) = 1
      BY <3>1, <3>2, CursorLocals DEF RemovalAt
    <3>5. \A l \in Level : d - 1 < l => l = d \/ d < l
      BY <3>1 DEF Level
    <3> QED BY <1>0, <3>1, <3>2, <3>3, <3>4, <3>5
  <2>3. pc'[t] \notin {"help", "unlink", "unlinkSub"}
    BY CursorMoves DEF SteppingLabel, CursorLabel
  <2> QED BY <2>1, <2>2, <2>3 DEF RemovalAt
<1> QED BY <1>1, <1>2, <1>3 DEF Removal

(* The parts together.                                                     *)
LEMMA CursorInv ==
    ASSUME CursorInvariant, NEW t \in Thread, CursorAction(t)
    PROVE  Inv'
BY CursorMemoryTypes, CursorLocalTypes, CursorPointers, CursorFresh, CursorControl, CursorRemoval
   DEF Inv, TypeOK

-----------------------------------------------------------------------------
(* The invariant of SyncSkipListShape.tla *)

(* A level that has been in the list stays so, and a cursor links nothing. *)
LEMMA CursorReached ==
    ASSUME CursorInvariant, NEW t \in Thread, CursorAction(t)
    PROVE  /\ \A n \in Node, l \in Level : Reached(n, l) => Reached(n, l)'
           /\ \A l \in Level : \A m : ReachedTo(m, l) => ReachedTo(m, l)'
           /\ \A n \in Node : linked'[n] \subseteq linked[n]
<1>1. ASSUME NEW n \in Node, NEW l \in Level, Reached(n, l)
      PROVE  Reached(n, l)'
  <2>1. Tag(n, l) = 1 => Tag(n, l)' = 1
    BY <1>1, CursorFrame, ConstantFacts DEF Tag
  <2>2. l \in linked[n] => l \in linked'[n] \/ Tag(n, l) = 1
    BY CursorChains DEF TakesOut
  <2> QED BY <1>1, <2>1, <2>2 DEF Reached
<1>2. \A n \in Node : linked'[n] \subseteq linked[n]
  BY CursorChains DEF TakesOut
<1>3. \A l \in Level : \A i \in 0 .. l : i \in Level
  BY ConstantFacts DEF Level
<1> QED BY <1>1, <1>2, <1>3 DEF ReachedTo

(* Pointers in memory keep leading to levels that have been in the list.   *)
LEMMA CursorReaches ==
    ASSUME CursorInvariant, NEW t \in Thread, CursorAction(t)
    PROVE  /\ \A n \in Node : n \notin Allocated' => linked'[n] = {}
           /\ BaseFirst' /\ PointersReached'
<1>0. MemoryTypeOK /\ Shape /\ 0 \in Level /\ Allocated' = Allocated
  BY CursorLocals, CursorFrame
<1>1. \A n \in Node : n \notin Allocated' => linked'[n] = {}
  BY <1>0, CursorReached DEF Shape
<1>2. ASSUME NEW n \in Node, ~Reached(n, 0)'
      PROVE  linked'[n] = {} /\ ~har'[n].removed /\ retired'[n] = 0
  <2>1. ~Reached(n, 0) /\ linked[n] = {} /\ ~har[n].removed /\ retired[n] = 0
    BY <1>0, <1>2, CursorReached DEF Shape, BaseFirst
  <2>2. retired'[n] = retired[n]
    <3>1. CASE CursorSubRef(t)
      <4>1. nxt[t] \in Node /\ Tag(nxt[t], 0) = 1 /\ SubRefAndRetire(nxt[t])
        BY <3>1, CursorLocals DEF CursorSubRef, RemovalAt, AheadLabel
      <4>2. n # nxt[t]
        BY <2>1, <4>1 DEF Reached
      <4> QED BY <1>0, <4>1, <4>2 DEF SubRefAndRetire, MemoryTypeOK
    <3>2. CASE ~CursorSubRef(t)
      BY <3>2 DEF CursorAction, CursorStep, BeginCursor, CursorTag, CursorNext, CursorCheck,
         CursorHelp, ClosestFault, TagEntry, memory
    <3> QED BY <3>1, <3>2
  <2> QED BY <2>1, <2>2, CursorReached, CursorFrame
<1>3. ASSUME NEW m \in Tower, NEW l \in Level
      PROVE  ReachedTo(Ptr(m, l), l)'
  <2>1. \/ Ptr(m, l)' = Ptr(m, l)
        \/ l = 0 /\ Ptr(m, l)' = Ptr(nxt[t], 0) /\ nxt[t] \in Tower
    BY <1>0, CursorChains, CursorLocals DEF TakesOut, CursorHelp, AheadLabel
  <2>2. \E o : o = Ptr(m, l)' /\ ReachedTo(o, l)
    BY <1>0, <2>1 DEF Shape, PointersReached
  <2>3. PICK o : o = Ptr(m, l)' /\ ReachedTo(o, l)
    BY <2>2
  <2>4. ReachedTo(o, l)'
    BY <2>3, CursorReached
  <2> QED BY <2>3, <2>4 DEF ReachedTo, Reached
<1> QED BY <1>1, <1>2, <1>3 DEF BaseFirst, PointersReached

(* So do the pointers of every thread, and what a thread links stays as it *)
(* is.                                                                     *)
LEMMA CursorHeld ==
    ASSUME CursorInvariant, NEW t \in Thread, CursorAction(t), NEW u \in Thread
    PROVE  HeldAt(u)' /\ LinkingAt(u)'
<1>0. MemoryTypeOK /\ Shape /\ Inv /\ 0 \in Level /\ LocalTypeOK /\ CursorAt(t) /\ at[t] \in Tower
  BY CursorLocals
<1>1. CASE u = t
  <2>1. HeldAt(t) /\ \A m \in Tower, l \in Level : ReachedTo(Ptr(m, l), l)
    BY <1>0 DEF Shape, PointersReached
  <2>2. pc'[t] \in AheadLabel => ReachedTo(nxt'[t], 0)
    BY <1>0, <2>1, CursorValues, CursorLocals DEF HeldAt, AheadLabel, CursorCheck, CursorHelp
  <2>3. ReachedTo(target'[t], 0)
    BY <2>1, CursorValues DEF HeldAt, CursorCheck, AheadLabel
  <2>4. pc'[t] \notin {"next", "check", "help", "helpSub", "finalCheck"}
        /\ pc'[t] \notin BuildLabel /\ pc'[t] \notin LinkLabel /\ ret'[t] # "relink"
        /\ prev' = prev
    BY CursorMoves DEF SteppingLabel, CursorLabel, BuildLabel, LinkLabel, CursorCall
  <2>5. \A l \in Level : ReachedTo(prev[t][l].node, l)' /\ ReachedTo(prev[t][l].next, l)'
    <3> SUFFICES ASSUME NEW l \in Level
                 PROVE  ReachedTo(prev[t][l].node, l)' /\ ReachedTo(prev[t][l].next, l)'
      OBVIOUS
    <3>1. PICK a, b : a = prev[t][l].node /\ b = prev[t][l].next
      OBVIOUS
    <3>2. ReachedTo(a, l)' /\ ReachedTo(b, l)'
      BY <2>1, <3>1, CursorReached DEF HeldAt
    <3> QED BY <2>4, <3>1, <3>2
  <2>6. ASSUME NEW a, a = nxt'[t], pc'[t] \in AheadLabel PROVE ReachedTo(a, 0)'
    BY <1>0, <2>2, <2>6, CursorReached
  <2>7. ASSUME NEW a, a = target'[t] PROVE ReachedTo(a, 0)'
    BY <1>0, <2>3, <2>7, CursorReached
  <2>8. (pc'[t] \in AheadLabel => ReachedTo(nxt[t], 0)') /\ ReachedTo(target[t], 0)'
    BY <2>6, <2>7 DEF ReachedTo, Reached
  <2> QED BY <1>1, <2>4, <2>5, <2>8 DEF HeldAt, LinkingAt, Linking, LinkLabel
<1>2. CASE u # t
  <2>1. HeldAt(u) /\ LinkingAt(u)
    BY <1>0 DEF Shape
  <2>2. HeldAt(u)'
    <3>1. /\ pc[u] \in {"next", "check", "help", "helpSub"} => level[u] - 1 \in Level
          /\ curr'[u] = curr[u] /\ nxt'[u] = nxt[u] /\ prev'[u] = prev[u] /\ target'[u] = target[u]
          /\ level'[u] = level[u] /\ pc'[u] = pc[u]
      BY <1>0, <1>2, CursorOthers, Locals
    <3>2. ASSUME NEW a, NEW l \in Level, ReachedTo(a, l) PROVE ReachedTo(a, l)'
      BY <3>2, CursorReached
    <3> QED BY <1>0, <2>1, <3>1, <3>2 DEF HeldAt, ReachedTo, Reached
  <2>3. LinkingAt(u)'
    <3>1. /\ pc'[u] = pc[u] /\ ret'[u] = ret[u] /\ up'[u] = up[u] /\ prev'[u] = prev[u]
          /\ New(u)' = New(u)
      BY <1>0, <1>2, CursorOthers
    <3>2. Linking(u)' <=> Linking(u)
      BY <3>1 DEF Linking
    <3>3. pc[u] \in BuildLabel \/ Linking(u) => New(u) \in Node
      BY <1>0, Locals DEF Linking, BuildLabel, LinkLabel, SearchLabel, FindLabel, RemoveLabel
    <3>4. ASSUME NEW n \in Node, n = New(u), pc[u] \in BuildLabel
          PROVE  linked'[n] = {} /\ ~har'[n].removed
      BY <2>1, <3>4, CursorReached, CursorFrame DEF LinkingAt
    <3>5. ASSUME NEW n \in Node, n = New(u), Linking(u)
          PROVE  /\ \A l \in Level : IF l < up[u] THEN Reached(n, l)' ELSE l \notin linked'[n]
                 /\ up[u] = 0 => ~har'[n].removed
      BY <2>1, <3>5, CursorReached, CursorFrame DEF LinkingAt
    <3>6. ASSUME NEW n \in Node, n = New(u), pc[u] \in {"addRef", "linkIn"}
          PROVE  \E i \in Level : i = up[u] /\ Ptr(n, i)' = prev[u][i].next
      <4>1. up[u] \in Level /\ Linking(u)
        BY <1>0, <3>6, Locals DEF Linking, LinkLabel
      <4>2. PICK i \in Level : i = up[u] /\ i \notin linked[n]
        BY <2>1, <3>6, <4>1 DEF LinkingAt, Level
      <4>3. Ptr(n, i)' = Ptr(n, i)
        BY <4>2, CursorChains, ConstantFacts DEF TakesOut, InList
      <4> QED BY <2>1, <3>6, <4>2, <4>3 DEF LinkingAt
    <3>7. pc[u] \in {"addRef", "linkIn"} => Linking(u)
      BY DEF Linking, LinkLabel
    <3> QED BY <3>1, <3>2, <3>3, <3>4, <3>5, <3>6, <3>7 DEF LinkingAt, Reached
  <2> QED BY <2>2, <2>3
<1> QED BY <1>1, <1>2

(* pop owns the removal it has begun, and nobody else does.                *)
LEMMA CursorOwner ==
    ASSUME CursorInvariant, NEW t \in Thread, CursorAction(t), NEW u \in Thread
    PROVE  OwnerAt(u)'
<1>0. Shape /\ 0 \in Level /\ \A v \in Thread : OwnerAt(v)
  BY CursorLocals DEF Shape
<1>1. ASSUME NEW v \in Thread, pc'[v] \in OwnerLabel
      PROVE  /\ pc[v] \in OwnerLabel /\ target'[v] = target[v] /\ target[v] \in Node
             /\ pc'[v] = "tag" => /\ pc[v] = "tag" /\ down[v] \in Level
                                  /\ IF v = t THEN down'[v] = down[v] - 1 ELSE down'[v] = down[v]
             /\ v = t => TagEntry(t)
  <2>1. CASE v = t
    <3>1. pc'[t] = "tag"
      BY <1>1, <2>1, CursorMoves DEF OwnerLabel, SteppingLabel, CursorLabel
    <3> QED BY <2>1, <3>1, CursorValues, CursorLocals DEF OwnerLabel, TagEntry, walk
  <2>2. CASE v # t
    <3>1. pc'[v] = pc[v] /\ target'[v] = target[v] /\ down'[v] = down[v]
      BY <2>2, CursorOthers
    <3>2. target[v] \in Node
      BY <1>0, <1>1, <3>1, CursorLocals, ConstantFacts DEF OwnerAt, LocalTypeOK
    <3>3. pc[v] = "tag" => down[v] \in Level
      BY CursorLocals, Locals
    <3> QED BY <1>1, <2>2, <3>1, <3>2, <3>3
  <2> QED BY <2>1, <2>2
<1>2. pc'[u] \in OwnerLabel => target'[u] # Null /\ har'[target'[u]].removed
  BY <1>0, <1>1, CursorFrame, ConstantFacts DEF OwnerAt
<1>3. ASSUME pc'[u] = "tag", NEW l \in Level, l <= down'[u]
      PROVE  Tag(target[u], l)' = 0
  <2>1. PICK n \in Node, d \in Level :
           /\ n = target[u] /\ target'[u] = n /\ d = down[u] /\ pc[u] = "tag"
           /\ IF u = t THEN down'[u] = d - 1 ELSE down'[u] = d
    BY <1>1, <1>3 DEF OwnerLabel
  <2>2. l <= d /\ (u = t => l # d)
    BY <1>3, <2>1 DEF Level
  <2>3. Tag(n, l) = 0
    BY <1>0, <2>1, <2>2 DEF OwnerAt
  <2>4. u # t /\ pc[t] = "tag" => target[t] # n
    BY <1>0, <2>1 DEF OwnerAt, OwnerLabel
  <2>5. Tag(n, l)' = 0
    BY <2>1, <2>2, <2>3, <2>4, CursorFrame, ConstantFacts DEF TagEntry
  <2> QED BY <2>1, <2>5
<1>4. \A v \in Thread : v # u /\ pc'[u] \in OwnerLabel /\ pc'[v] \in OwnerLabel
                           => target'[v] # target'[u]
  BY <1>0, <1>1 DEF OwnerAt
<1> QED BY <1>2, <1>3, <1>4 DEF OwnerAt

(* The parts together: the list keeps its shape under a cursor.            *)
LEMMA CursorShape ==
    ASSUME CursorInvariant, NEW t \in Thread, CursorAction(t)
    PROVE  Shape'
<1>1. SuccessorsLinked' /\ OnePredecessor'
  <2>1. CASE \E p \in Tower, n \in Node, l \in Level : TakesOut(p, n, l)
    BY <2>1, ChainTakenOut, CursorLocals DEF Shape
  <2>2. CASE (\A o \in Tower, i \in Level : Ptr(o, i)' = Ptr(o, i)) /\ UNCHANGED linked
    <3>1. \A n \in Node, l \in Level : linked[n] \subseteq Level
      BY CursorLocals DEF MemoryTypeOK
    <3> QED BY <2>2, <3>1, CursorLocals DEF Shape, SuccessorsLinked, OnePredecessor, InList, MemoryTypeOK
  <2>3. CursorHelp(t) => nxt[t] \in Node /\ at[t] \in Tower /\ 0 \in Level
    BY CursorLocals DEF CursorHelp, AheadLabel
  <2> QED BY <2>1, <2>2, <2>3, CursorChains
<1> QED BY <1>1, CursorReaches, CursorHeld, CursorOwner DEF Shape

-----------------------------------------------------------------------------
(* The order of the base level, and the reference counts *)

(* The base level stays in order, and a search a cursor begins stands at   *)
(* the head.                                                               *)
LEMMA CursorOrder ==
    ASSUME CursorInvariant, NEW t \in Thread, CursorAction(t)
    PROVE  Order'
<1>0. MemoryTypeOK /\ Inv /\ Order /\ 0 \in Level /\ LocalTypeOK /\ CursorAt(t) /\ key' = key
  BY CursorLocals, CursorFrame
<1>1. Sorted' /\ NoneBetween'
  <2>1. CASE TakesOut(at[t], nxt[t], 0) /\ nxt[t] \in Node
    <3>1. /\ \A m \in Tower : \A r : InList(m, 0)' /\ r = Ptr(m, 0)' => Ok(m, r)
          /\ \A m \in Tower, n \in Node : \A r :
                InList(m, 0)' /\ 0 \in linked'[n] /\ n # m /\ r = Ptr(m, 0)' => Gap(m, r, n)
      BY <1>0, <2>1, GapsTakenOut, CursorLocals DEF Order
    <3> QED BY <1>0, <3>1, ConstantFacts DEF Sorted, NoneBetween, Ok, Gap, InList
  <2>2. CASE (\A o \in Tower, i \in Level : Ptr(o, i)' = Ptr(o, i)) /\ UNCHANGED linked
    BY <1>0, <2>2, ConstantFacts DEF Order, Sorted, NoneBetween, InList
  <2>3. CursorHelp(t) => nxt[t] \in Node
    BY CursorLocals DEF CursorHelp, AheadLabel
  <2> QED BY <2>1, <2>2, <2>3, CursorChains
<1>2. ASSUME NEW u \in Thread, u # t PROVE KeyAt(u)'
  <2>1. KeyAt(u)
    BY <1>0 DEF Order
  <2>2. Linking(u)' <=> Linking(u)
    BY <1>2, CursorOthers DEF Linking
  <2> QED BY <1>0, <1>2, <2>1, <2>2, CursorOthers DEF KeyAt, Before
<1>3. KeyAt(t)'
  <2>1. KeyAt(t)
    BY <1>0 DEF Order
  <2>2. \/ call'[t].key = call[t].key
        \/ pc[t] \in SteppingLabel
    <3>1. CASE BeginCursor(t)
      BY <1>0, <3>1 DEF BeginCursor, LocalTypeOK, Request
    <3>2. CASE ~BeginCursor(t)
      BY <3>2 DEF CursorAction, CursorStep, CursorTag, CursorNext, CursorCheck, CursorHelp,
         CursorSubRef, ClosestFault, TagEntry, SteppingLabel, CursorLabel, locals, request
    <3> QED BY <3>1, <3>2
  <2>3. \A l \in Level : Before(prev[t][l].node, call'[t].key)
    <3>1. CASE pc[t] \in SteppingLabel
      BY <1>0, <3>1, ConstantFacts DEF CursorAt, Before
    <3>2. CASE call'[t].key = call[t].key
      BY <2>1, <3>2 DEF KeyAt
    <3> QED BY <2>2, <3>1, <3>2
  <2>4. /\ pc'[t] \notin {"idle", "next", "check", "help", "helpSub", "finalCheck"}
        /\ pc'[t] \notin BuildLabel /\ pc'[t] \notin LinkLabel /\ ret'[t] # "relink"
        /\ prev' = prev
    BY CursorMoves DEF SteppingLabel, CursorLabel, BuildLabel, LinkLabel, CursorCall
  <2> QED BY <1>0, <2>3, <2>4 DEF KeyAt, Before, Linking, LinkLabel
<1> QED BY <1>1, <1>2, <1>3 DEF Order

(* A step of a cursor does to a reference count, and to its holders, one   *)
(* of three things.                                                        *)
LEMMA CursorRefs ==
    ASSUME CursorInvariant, NEW t \in Thread, CursorAction(t), NEW n \in Node
    PROVE  SameRefs(t, n) \/ UnlinksLevel(t, n) \/ DropsRef(t, n)
<1>0. MemoryTypeOK /\ LocalTypeOK /\ 0 \in Level
  BY CursorLocals
<1>1. ~Adds(t, n) /\ ~Adds(t, n)' /\ ~LinkIn(t) /\ ~Count(t)
  <2>1. pc[t] \notin {"linkIn", "undo", "count"}
    BY DEF CursorAction, CursorStep, BeginCursor, CursorTag, CursorNext, CursorCheck, CursorHelp,
       CursorSubRef, ClosestFault, TagEntry
  <2>2. pc'[t] \notin {"linkIn", "undo", "count"}
    BY CursorMoves DEF SteppingLabel, CursorLabel
  <2> QED BY <2>1, <2>2 DEF Adds, LinkIn, Count
<1>2. CASE CursorSubRef(t)
  <2>1. nxt[t] \in Node /\ SubRefAndRetire(nxt[t]) /\ linked' = linked /\ pc[t] = "curSub"
    BY <1>2, CursorLocals DEF CursorSubRef, AheadLabel
  <2>2. ~Drops(t, n)'
    <3>1. pc'[t] \notin {"helpSub", "curSub", "unlinkSub"}
      BY <2>1, CursorMoves, CursorValues DEF SteppingLabel, CursorLabel, CursorHelp
    <3> QED BY <3>1 DEF Drops
  <2>3. CASE n = nxt[t]
    BY <1>0, <1>1, <2>1, <2>2, <2>3 DEF DropsRef, Drops, SubRefAndRetire, MemoryTypeOK, Word
  <2>4. CASE n # nxt[t]
    BY <1>0, <1>1, <2>1, <2>2, <2>4 DEF SameRefs, Drops, SubRefAndRetire, MemoryTypeOK
  <2> QED BY <2>3, <2>4
<1>3. CASE ~CursorSubRef(t)
  <2>1. UNCHANGED <<har, retired>>
    BY <1>3 DEF CursorAction, CursorStep, BeginCursor, CursorTag, CursorNext, CursorCheck,
       CursorHelp, ClosestFault, TagEntry, memory
  <2>2. pc[t] \notin {"helpSub", "curSub", "unlinkSub"}
    BY <1>3 DEF CursorAction, CursorStep, BeginCursor, CursorTag, CursorNext, CursorCheck,
       CursorHelp, ClosestFault, TagEntry
  <2>3. CASE CursorHelp(t) /\ pc'[t] = "curSub" /\ TakesOut(at[t], nxt[t], 0)
    <3>1. nxt'[t] = nxt[t]
      BY <2>3, CursorValues
    <3>2. CASE n = nxt[t]
      BY <1>1, <2>1, <2>2, <2>3, <3>1, <3>2 DEF UnlinksLevel, Drops, DroppedLevel, TakesOut
    <3>3. CASE n # nxt[t]
      BY <1>1, <2>1, <2>2, <2>3, <3>1, <3>3 DEF SameRefs, Drops, TakesOut
    <3> QED BY <3>2, <3>3
  <2>4. CASE UNCHANGED linked /\ ~(CursorHelp(t) /\ pc'[t] = "curSub")
    <3>1. pc'[t] \notin {"helpSub", "curSub", "unlinkSub"}
      BY <2>4, CursorMoves, CursorValues DEF SteppingLabel, CursorLabel
    <3> QED BY <1>1, <2>1, <2>2, <2>4, <3>1 DEF SameRefs, Drops
  <2> QED BY <2>3, <2>4, CursorChains
<1> QED BY <1>2, <1>3

(* So the counts agree with the references there are, and none falls below *)
(* 0.                                                                      *)
LEMMA CursorReferences ==
    ASSUME CursorInvariant, NEW t \in Thread, CursorAction(t)
    PROVE  References'
<1>0. Inv /\ Shape /\ References
  BY CursorLocals
<1>1. ASSUME NEW n \in Node
      PROVE  /\ IsFiniteSet(Adding(n)') /\ IsFiniteSet(Dropping(n)')
             /\ har'[n].refs = Cardinality(linked'[n]) + Cardinality(Adding(n)')
                                 + Cardinality(Dropping(n)')
             /\ retired'[n] > 0 => retired'[n] = 1 /\ linked'[n] = {} /\ har'[n].refs = 0
  <2>1. /\ \A u : u # t => (u \in Adding(n)' <=> u \in Adding(n))
        /\ \A u : u # t => (u \in Dropping(n)' <=> u \in Dropping(n))
    BY CursorOthers DEF Adding, Dropping
  <2> QED BY <1>0, <2>1, CursorRefs, CountsMoved
<1>2. NoPanic'
  <2>1. pc'[t] # "panic"
    <3>1. CursorSubRef(t) => ~WillUnderflow(nxt[t])
      <4>1. CursorSubRef(t) => nxt[t] \in Node /\ Drops(t, nxt[t])
        BY CursorLocals DEF CursorSubRef, AheadLabel, Drops
      <4> QED BY <1>0, <4>1, HolderCounts DEF WillUnderflow
    <3>2. TagEntry(t) => Tag(target[t], down[t]) = 0
      BY CursorLocals DEF TagEntry, OwnerAt, Level
    <3> QED BY <3>1, <3>2, CursorValues
  <2> QED BY <1>0, <2>1, CursorOthers DEF References, NoPanic
<1> QED BY <1>1, <1>2 DEF References, RefsCountLinks, RetiredOnceAndOut

-----------------------------------------------------------------------------
(* Where a cursor stands, and what was taken *)

(* What the calls of the list leave alone: how a call's use of find goes   *)
(* on, and what it has taken.                                              *)
LEMMA ListUses ==
    ASSUME CursorInvariant, NEW t \in Thread, Begin(t) \/ Step(t)
    PROVE  /\ \/ Begin(t) /\ call'[t].op \in Operation /\ ret'[t] = call'[t].op
                          /\ result'[t] = Null
              \/ Step(t) /\ call'[t] = call[t] /\ ret'[t] \in {ret[t], "cleanup", "relink"}
           /\ \/ result'[t] \in {result[t], Null}
              \/ ret[t] = "get" /\ Step(t)
              \/ /\ result'[t] = target[t] /\ target[t] \in Node
                 /\ ~har[target[t]].removed /\ har'[target[t]].removed
<1> Inv /\ LocalTypeOK /\ MemoryTypeOK
  BY CursorLocals
<1>1. CASE Begin(t)
  <2>1. calls[t] + 1 \in 1 .. MaxCalls
    BY <1>1, MemoryAssumption DEF Begin, HasCall, LocalTypeOK
  <2>2. PICK c \in Script[t][calls[t] + 1] :
            call' = [call EXCEPT ![t] = c] /\ ret' = [ret EXCEPT ![t] = c.op]
    BY <1>1 DEF Begin
  <2>3. c.op \in Operation
    BY <2>1, <2>2, ScriptedCalls DEF Call
  <2>4. result'[t] = Null
    BY <1>1 DEF Begin, LocalTypeOK
  <2> QED BY <1>1, <2>2, <2>3, <2>4 DEF LocalTypeOK
<1>2. CASE Step(t)
  <2>1. call' = call
    BY <1>2, CallKept
  <2>2. ret'[t] \in {ret[t], "cleanup", "relink"}
    BY <1>2 DEF Step, FindStep, RemoveStep, InsertStep, Leave, FindInit, InitLevel, StartSearch, LowerLevel, ReadNext,
       CheckTag, HelpUnlink, HelpSubRef, FinalRead, FinalCheck, LoadHar, CasHar, TagLevel,
       Unlink, UnlinkSubRef, UnlinkLen, NewNode, CompareMax, StoreMax, Count, LinkCheck, LinkRecheck,
       LinkOwn, LinkAddRef, LinkIn, LinkUndo, LinkEnd, Relink, locals, LocalTypeOK
  <2>3. \/ result'[t] \in {result[t], Null}
        \/ ret[t] = "get"
        \/ /\ result'[t] = target[t] /\ target[t] \in Node
           /\ ~har[target[t]].removed /\ har'[target[t]].removed
    <3>1. CASE /\ CasHar(t) /\ CanSetRemoved(target[t], seen[t])
               /\ SetRemoved(target[t]) /\ result'[t] = target[t]
      <4>1. target[t] \in Node
        BY <3>1, Locals DEF CasHar, RemoveLabel
      <4>2. har'[target[t]].removed
        BY <3>1, <4>1, RemovedStep
      <4> QED BY <3>1, <4>1, <4>2 DEF CanSetRemoved
    <3> QED BY <1>2, <3>1, ResultStep
  <2> QED BY <1>2, <2>1, <2>2, <2>3
<1> QED BY <1>1, <1>2

(* A call of the list leaves a cursor where it stands.                     *)
LEMMA ListCursorAt ==
    ASSUME CursorInvariant, NEW t \in Thread, Begin(t) \/ Step(t), UNCHANGED at,
           NEW u \in Thread
    PROVE  CursorAt(u)'
<1>0. Inv /\ CursorAt(u) /\ 0 \in Level /\ LocalTypeOK
  BY CursorLocals
<1>1. at[u] \in Allocated' \cup {head} /\ ReachedTo(at[u], 0)'
  <2>1. PICK a : a = at[u] /\ a \in Allocated \cup {head} /\ ReachedTo(a, 0)
    BY <1>0 DEF CursorAt
  <2>2. a \in Allocated' \cup {head} /\ ReachedTo(a, 0)'
    BY <1>0, <2>1, AllocatedGrows, ReachedToKept
  <2> QED BY <2>1, <2>2
<1>2. CASE u = t
  <2>1. pc'[t] \notin SteppingLabel
    BY <1>0, ListLabels DEF SteppingLabel
  <2> QED BY <1>0, <1>1, <1>2, <2>1, ListUses DEF CursorAt, Operation, CursorCall
<1>3. CASE u # t
  BY <1>0, <1>1, <1>3, OthersKept DEF CursorAt
<1> QED BY <1>2, <1>3

(* A call of the list takes an entry by setting its removed bit.           *)
LEMMA ListTakes ==
    ASSUME CursorInvariant, NEW t \in Thread, Begin(t) \/ Step(t)
    PROVE  Takes(t)' => \/ Takes(t) /\ result'[t] = result[t]
                        \/ /\ result'[t] = target[t] /\ target[t] \in Node
                           /\ ~har[target[t]].removed /\ har'[target[t]].removed
<1>1. Inv /\ LocalTypeOK /\ CursorAt(t)
  BY CursorLocals
<1> QED BY <1>1, ListUses DEF Takes, CursorAt

(* So two calls of the list never take the same entry.                     *)
LEMMA ListTaken ==
    ASSUME CursorInvariant, NEW t \in Thread, Begin(t) \/ Step(t)
    PROVE  (\A u \in Thread : TakenAt(u)') /\ TakenByOne'
<1>0. /\ Inv /\ LocalTypeOK /\ CursorAt(t) /\ TakenByOne /\ \A u \in Thread : TakenAt(u)
      /\ \A u \in Thread : result[u] # Null => result[u] \in Node
  BY CursorLocals, ConstantFacts DEF CursorInvariant, LocalTypeOK
<1>1. \A n \in Node : har[n].removed => har'[n].removed
  BY <1>0, WordKept
<1>2. \A u \in Thread : u # t => /\ result'[u] = result[u] /\ (Takes(u)' <=> Takes(u))
  BY <1>0, OthersKept DEF Takes
<1>3. Takes(t)' => \/ Takes(t) /\ result'[t] = result[t]
                   \/ /\ result'[t] = target[t] /\ target[t] \in Node
                      /\ ~har[target[t]].removed /\ har'[target[t]].removed
  BY ListTakes
<1>4. \A u \in Thread : TakenAt(u)'
  BY <1>0, <1>1, <1>2, <1>3 DEF TakenAt, Takes
<1>5. TakenByOne'
  <2>1. ASSUME NEW u \in Thread, u # t, Takes(u)', Takes(t)'
        PROVE  result'[u] # result'[t]
    BY <1>0, <1>2, <1>3, <2>1 DEF TakenByOne, TakenAt
  <2> QED BY <1>0, <1>2, <2>1 DEF TakenByOne
<1> QED BY <1>4, <1>5

(* A cursor that moves stands on a node that has been in the list.         *)
LEMMA OwnCursorAt ==
    ASSUME CursorInvariant, NEW t \in Thread, CursorAction(t), NEW u \in Thread
    PROVE  CursorAt(u)'
<1>0. Inv /\ CursorAt(u) /\ CursorAt(t) /\ 0 \in Level /\ LocalTypeOK /\ HeldAt(t) /\ KeyAt(t)
  BY CursorLocals
<1>1. CASE u # t
  <2>1. ReachedTo(at[u], 0) /\ at[u] \in Allocated'
        \cup {head}
    BY <1>0, CursorFrame DEF CursorAt
  <2>2. PICK a : a = at[u] /\ a = at'[u] /\ ReachedTo(a, 0)
    BY <1>1, <2>1, CursorOthers
  <2>3. ReachedTo(a, 0)'
    BY <1>0, <2>2, CursorReached
  <2> QED BY <1>0, <1>1, <2>1, <2>2, <2>3, CursorOthers DEF CursorAt, ReachedTo, Reached
<1>2. CASE u = t
  <2>1. at'[t] \in Allocated' \cup {head}
    BY CursorPointers
  <2>2. PICK a : a = at'[t] /\ ReachedTo(a, 0)
    BY <1>0, CursorValues, ConstantFacts DEF CursorAt, HeldAt, CursorCheck, AheadLabel, ReachedTo
  <2>3. ReachedTo(a, 0)'
    BY <1>0, <2>2, CursorReached
  <2>4. /\ pc'[t] \in SteppingLabel => pc[t] \in SteppingLabel \cup {"idle"}
        /\ \/ ret'[t] = "closest" /\ call'[t].op = call[t].op
           \/ ret'[t] = ret[t] /\ call'[t] = call[t]
           \/ at'[t] = head /\ call'[t].op = ret'[t]
    <3>1. CASE BeginCursor(t)
      <4>1. PICK op : call' = [call EXCEPT ![t] = [@ EXCEPT !.op = op]]
                      /\ ret' = [ret EXCEPT ![t] = op]
        BY <3>1 DEF BeginCursor
      <4>2. call'[t].op = op /\ ret'[t] = op
        BY <1>0, <4>1 DEF LocalTypeOK, Request
      <4> QED BY <3>1, <4>2, CursorLocals DEF BeginCursor
    <3>2. CASE TagEntry(t) \/ ClosestFault(t)
      BY <1>0, <3>2 DEF TagEntry, ClosestFault, LocalTypeOK, Goto, SteppingLabel, CursorLabel,
         request, locals
    <3>3. CASE CursorTag(t) \/ CursorHelp(t)
      BY <1>0, <3>3 DEF CursorTag, CursorHelp, SearchClosest, LocalTypeOK, SteppingLabel,
         CursorLabel, Request
    <3>4. CASE CursorNext(t) \/ CursorCheck(t) \/ CursorSubRef(t)
      BY <1>0, <3>4 DEF CursorNext, CursorCheck, CursorSubRef, SteppingLabel, CursorLabel, request
    <3> QED BY <3>1, <3>2, <3>3, <3>4 DEF CursorAction, CursorStep
  <2>5. pc'[t] \in SteppingLabel => /\ ret'[t] \in CursorCall
                                    /\ \A l \in Level : prev'[t][l].node = head
    BY <1>0, <2>4, CursorMoves DEF CursorAt, KeyAt, SteppingLabel
  <2>6. ret'[t] \in CursorCall \cup {"get"} => call'[t].op = ret'[t]
    BY <1>0, <2>4 DEF CursorAt, CursorCall
  <2>7. call'[t].op = "pop" => at'[t] = head
    BY <1>0, <2>4, CursorMoves, CursorValues DEF CursorAt, CursorCheck, SteppingLabel, CursorLabel
  <2> QED BY <1>2, <2>1, <2>2, <2>3, <2>5, <2>6, <2>7 DEF CursorAt, ReachedTo, Reached
<1> QED BY <1>1, <1>2

(* A cursor is no get, before a step and after it.                         *)
LEMMA CursorUses ==
    ASSUME CursorInvariant, NEW t \in Thread, CursorAction(t), NEW u \in Thread
    PROVE  UseAt(u)'
<1>0. LocalTypeOK /\ CursorAt(t) /\ UseAt(t) /\ UseAt(u)
  BY CursorLocals
<1>1. CASE u # t
  BY <1>0, <1>1, CursorOthers DEF UseAt
<1>2. ret'[t] # "get"
  BY CursorMoves DEF CursorCall
<1>3. CASE BeginCursor(t)
  <2>1. calls[t] + 1 \in 1 .. MaxCalls
    BY <1>0, <1>3, MemoryAssumption DEF BeginCursor, HasCursorCall, LocalTypeOK
  <2>2. PICK op \in CursorScript[t][calls[t] + 1] :
           call' = [call EXCEPT ![t] = [@ EXCEPT !.op = op]]
    BY <1>3 DEF BeginCursor
  <2>3. op \in CursorCall
    BY <2>1, <2>2, CursorAssumption
  <2>4. call'[t].op = op
    BY <1>0, <2>2 DEF LocalTypeOK, Request
  <2> QED BY <1>1, <1>2, <2>3, <2>4 DEF UseAt, CursorCall
<1>4. CASE CursorStep(t)
  <2>1. call[t].op # "get"
    BY <1>0, <1>4 DEF CursorStep, CursorTag, CursorNext, CursorCheck, CursorHelp, CursorSubRef,
       ClosestFault, TagEntry, CursorAt, UseAt, SteppingLabel, CursorLabel, CursorCall
  <2>2. call'[t].op = call[t].op
    BY <1>0, <1>4 DEF CursorStep, CursorTag, CursorNext, CursorCheck, CursorHelp, CursorSubRef,
       ClosestFault, TagEntry, SearchClosest, LocalTypeOK, Request, request, locals
  <2> QED BY <1>1, <1>2, <2>1, <2>2 DEF UseAt
<1> QED BY <1>3, <1>4 DEF CursorAction

(* A cursor takes no entry: pop has its entry from the removal it goes on  *)
(* with, and the other cursor calls take none.                             *)
LEMMA CursorTakes ==
    ASSUME CursorInvariant, NEW t \in Thread, CursorAction(t)
    PROVE  Takes(t)' => Takes(t) /\ result'[t] = result[t]
<1>0. LocalTypeOK /\ CursorAt(t)
  BY CursorLocals
<1> USE <1>0 DEF LocalTypeOK, Takes, Goto, locals, request, removal, walk
<1>1. CASE BeginCursor(t)
  BY <1>1 DEF BeginCursor
<1>2. CASE CursorTag(t) \/ CursorHelp(t)
  BY <1>2 DEF CursorTag, CursorHelp, SearchClosest, Request
<1>3. CASE CursorNext(t) \/ CursorSubRef(t)
  BY <1>3 DEF CursorNext, CursorSubRef, Follow, Finish, CursorAt, SteppingLabel, CursorLabel,
     CursorCall
<1>4. CASE CursorCheck(t)
  <2>1. ret[t] \in CursorCall /\ call'[t] = call[t] /\ call[t].op = ret[t]
    BY <1>4 DEF CursorCheck, CursorAt, SteppingLabel, CursorLabel
  <2>2. CASE Arrive(t, nxt[t]) /\ ret[t] = "first"
    BY <2>1, <2>2
  <2>3. CASE Arrive(t, nxt[t]) /\ ret[t] \in {"last", "pop"}
    BY <2>1, <2>3 DEF Arrive
  <2>4. CASE ~Arrive(t, nxt[t])
    BY <1>4, <2>1, <2>4 DEF CursorCheck
  <2> QED BY <2>1, <2>2, <2>3, <2>4 DEF CursorCall
<1>5. CASE ClosestFault(t) \/ TagEntry(t)
  BY <1>5 DEF ClosestFault, TagEntry
<1> QED BY <1>1, <1>2, <1>3, <1>4, <1>5 DEF CursorAction, CursorStep

(* So the entries taken remain taken once beside the cursors.              *)
LEMMA CursorTaken ==
    ASSUME CursorInvariant, NEW t \in Thread, CursorAction(t)
    PROVE  (\A u \in Thread : TakenAt(u)') /\ TakenByOne'
<1>0. /\ LocalTypeOK /\ TakenByOne /\ \A u \in Thread : TakenAt(u)
      /\ \A u \in Thread : result[u] # Null => result[u] \in Node
  BY CursorLocals, ConstantFacts DEF CursorInvariant, LocalTypeOK
<1>1. \A n \in Node : har'[n].removed = har[n].removed
  BY CursorFrame
<1>2. \A u \in Thread : u # t => /\ result'[u] = result[u] /\ (Takes(u)' <=> Takes(u))
  BY CursorOthers DEF Takes
<1>3. Takes(t)' => Takes(t) /\ result'[t] = result[t]
  BY CursorTakes
<1>4. \A u \in Thread : TakenAt(u)'
  BY <1>0, <1>1, <1>2, <1>3 DEF TakenAt, Takes
<1>5. TakenByOne'
  BY <1>0, <1>2, <1>3 DEF TakenByOne
<1> QED BY <1>4, <1>5

-----------------------------------------------------------------------------
(* What a cursor has seen *)

(* A tower that is in the base level can be counted as seen: the level is  *)
(* in order, and what follows a tower of the list is in the list.          *)
LEMMA InListSeen ==
    ASSUME Inv', Shape', Order', NEW E, E \subseteq Node, \A n \in E : 0 \in linked'[n],
           NEW S, {m \in Tower : InList(m, 0)'} \subseteq S,
           NEW m \in Tower, InList(m, 0)'
    PROVE  Sees(E, S, m)'
<1>0. /\ MemoryTypeOK' /\ SuccessorsLinked' /\ Sorted' /\ NoneBetween' /\ 0 \in Level
      /\ Null \notin Node /\ head \notin Node /\ Tower = Node \cup {head} /\ Node \subseteq Tower
  BY ConstantFacts DEF Inv, TypeOK, Shape, Order, Level
<1>1. \A n \in Node : key'[n] \in Int
  BY <1>0, MemoryAssumption DEF MemoryTypeOK
<1>2. PICK s : s = Ptr(m, 0)'
  OBVIOUS
<1>3. s # Null => s \in Node /\ 0 \in linked'[s] /\ s \in S
  <2>1. s \in NodeOrNull
    BY <1>0, <1>2 DEF MemoryTypeOK, MaybeTagged, Ptr
  <2>2. s # Null => 0 \in linked'[s]
    BY <1>0, <1>2 DEF SuccessorsLinked
  <2> QED BY <1>0, <2>1, <2>2 DEF NodeOrNull, InList
<1>4. m # head => m \in Node /\ 0 \in linked'[m]
  BY <1>0 DEF InList
<1>5. ReachedTo(m, 0)'
  BY <1>0, <1>4 DEF ReachedTo, Reached
<1>6. m # head /\ s # Null => key'[m] < key'[s]
  BY <1>0, <1>2, <1>4 DEF Sorted
<1>7. ASSUME NEW n \in E
      PROVE  /\ \/ m # head /\ key'[n] <= key'[m]
                \/ s # Null /\ key'[s] <= key'[n]
             /\ m # head /\ key'[m] = key'[n] => m = n
  <2>1. n \in Node /\ 0 \in linked'[n]
    BY <1>7
  <2>2. n # m => \/ m # head /\ key'[n] < key'[m]
                 \/ s # Null /\ key'[s] <= key'[n]
    BY <1>0, <1>2, <2>1 DEF NoneBetween
  <2> QED BY <1>0, <1>1, <1>3, <1>4, <1>6, <2>1, <2>2
<1> QED BY <1>2, <1>3, <1>5, <1>6, <1>7 DEF Sees, BehindOrAhead

(* What the sight of a thread rests on: keys, removed bits and tagged      *)
(* levels stay, and only removed and tagged nodes leave the base level.    *)
SightFrame ==
    /\ \A n \in Allocated : key'[n] = key[n]
    /\ \A n \in Node : har[n].removed => har'[n].removed
    /\ \A n \in Node : 0 \in linked[n] /\ 0 \notin linked'[n] => har[n].removed /\ Tag(n, 0) = 1
    /\ \A m \in Tower : Tag(m, 0) = 1 => next'[m][0] = next[m][0]
    /\ \A m : ReachedTo(m, 0) => ReachedTo(m, 0)'

(* So whatever step is made, a thread sees more and forgets nothing.       *)
LEMMA SightGrows ==
    ASSUME Inv, Shape, Inv', Shape', Order', SightFrame,
           NEW E, NEW F, F \subseteq E, E \subseteq Node,
           \A n \in E : 0 \in linked[n], \A n \in F : 0 \in linked'[n],
           NEW S \in SUBSET Tower, Sight(E, S)
    PROVE  \E T \in SUBSET Tower :
              /\ S \subseteq T /\ Sight(F, T)'
              /\ \A m \in S : m # head => key'[m] = key[m]
              /\ \A n \in E : key'[n] = key[n]
<1>0. /\ MemoryTypeOK /\ 0 \in Level
      /\ Null \notin Node /\ head \notin Node /\ Tower = Node \cup {head} /\ Node \subseteq Tower
  BY ConstantFacts DEF Inv, TypeOK, Level
<1>1. PICK T \in SUBSET Tower : T = S \cup {m \in Tower : InList(m, 0)'}
  OBVIOUS
<1>2. \A n \in Node : 0 \in linked[n] \/ har[n].removed => key'[n] = key[n]
  BY <1>0 DEF SightFrame, Inv, Fresh, Shape
<1>3. \A m \in S : m # head => key'[m] = key[m]
  <2> SUFFICES ASSUME NEW m \in S, m # head PROVE key'[m] = key[m]
    OBVIOUS
  <2>1. m \in Node /\ ReachedTo(m, 0)
    BY <1>0 DEF Sight, Sees
  <2>2. 0 \in linked[m] \/ Tag(m, 0) = 1
    BY <2>1 DEF ReachedTo, Reached
  <2> QED BY <1>0, <1>2, <2>1, <2>2 DEF Inv, TaggedAreRemoved
<1>4. \A n \in E : key'[n] = key[n]
  BY <1>2
<1>5. ASSUME NEW m \in T PROVE Sees(F, T, m)'
  <2>1. CASE InList(m, 0)'
    BY <1>1, <2>1, InListSeen
  <2>2. CASE ~InList(m, 0)'
    <3>1. m \in S /\ m \in Node /\ m # head /\ Sees(E, S, m)
      BY <1>0, <1>1, <2>2 DEF Sight, InList
    <3>2. Tag(m, 0) = 1
      BY <1>0, <2>2, <3>1 DEF Sees, ReachedTo, Reached, InList, SightFrame
    <3>3. PICK s : s = Ptr(m, 0) /\ s = Ptr(m, 0)'
      BY <1>0, <3>1, <3>2 DEF SightFrame, Ptr
    <3>4. s # Null => s \in S /\ s # head /\ key'[s] = key[s]
      <4>1. s # Null => s \in S
        BY <3>1, <3>3 DEF Sees
      <4>2. s \in NodeOrNull
        BY <1>0, <3>1, <3>3, PtrType
      <4> QED BY <1>0, <1>3, <4>1, <4>2, ConstantFacts
    <3>5. key'[m] = key[m] /\ ReachedTo(m, 0)'
      BY <1>3, <3>1 DEF Sees, SightFrame
    <3>6. \A n \in F : key'[n] = key[n] /\ n \in E
      BY <1>4
    <3> QED BY <1>1, <3>1, <3>3, <3>4, <3>5, <3>6 DEF Sees, BehindOrAhead
  <2> QED BY <2>1, <2>2
<1>6. Sight(F, T)'
  BY <1>1, <1>5 DEF Sight
<1> QED BY <1>1, <1>3, <1>4, <1>6

(* So it is with a cursor.                                                 *)
LEMMA SightKept ==
    ASSUME CursorInvariant, Inv', Shape', Order', SightFrame,
           NEW t \in Thread, pc[t] \in SteppingLabel, before'[t] = before[t]
    PROVE  /\ Steady(t)' \subseteq Steady(t) /\ Steady(t)' \subseteq Live'
           /\ \E S \in SUBSET Tower, T \in SUBSET Tower :
                 /\ SeenBy(t, S) /\ S \subseteq T
                 /\ Sight(Steady(t), T)'
                 /\ \A m \in S : m # head => key'[m] = key[m]
                 /\ \A n \in Steady(t) : key'[n] = key[n]
<1>0. MemoryTypeOK /\ Inv /\ Shape /\ SightAt(t) /\ LocalTypeOK
  BY CursorLocals
<1>1. Steady(t)' \subseteq Steady(t) /\ Steady(t) \subseteq Live /\ Steady(t) \subseteq Node
  BY <1>0 DEF SightAt, SightFrame, Steady, LocalTypeOK
<1>2. Steady(t)' \subseteq Live'
  BY <1>0, <1>1 DEF SightFrame, Steady, Live
<1>3. PICK S \in SUBSET Tower : SeenBy(t, S)
  BY <1>0 DEF SightAt, BaseTowers
<1>4. PICK F : F = Steady(t)'
  OBVIOUS
<1>5. PICK T \in SUBSET Tower :
         /\ S \subseteq T /\ Sight(F, T)'
         /\ \A m \in S : m # head => key'[m] = key[m]
         /\ \A n \in Steady(t) : key'[n] = key[n]
  <2>1. Sight(Steady(t), S)
    BY <1>3 DEF SeenBy
  <2>2. (\A n \in Steady(t) : 0 \in linked[n]) /\ \A n \in F : 0 \in linked'[n]
    BY <1>1, <1>2, <1>4 DEF Live
  <2> QED BY <1>0, <1>1, <1>4, <2>1, <2>2, SightGrows
<1>6. Sight(Steady(t), T)'
  BY <1>4, <1>5 DEF Sight, Sees
<1> QED BY <1>1, <1>2, <1>3, <1>5, <1>6

(* A step of a call of the list keeps to that.                             *)
LEMMA ListSightFrame ==
    ASSUME CursorInvariant, NEW t \in Thread, Begin(t) \/ Step(t)
    PROVE  SightFrame
<1>1. Inv /\ 0 \in Level
  BY ConstantFacts DEF CursorInvariant, Level
<1> QED BY <1>1, KeyKept, WordKept, UnlinkedTagged, TagsKept, ReachedToKept DEF SightFrame

(* And so does a step of a cursor.                                         *)
LEMMA CursorSightFrame ==
    ASSUME CursorInvariant, NEW t \in Thread, CursorAction(t)
    PROVE  SightFrame
<1>1. Inv /\ 0 \in Level
  BY ConstantFacts DEF CursorInvariant, Level
<1>2. \A n \in Node : 0 \in linked[n] /\ 0 \notin linked'[n] => har[n].removed /\ Tag(n, 0) = 1
  BY <1>1, CursorChains DEF TakesOut, Inv, TaggedAreRemoved
<1> QED BY <1>1, <1>2, CursorFrame, CursorReached DEF SightFrame

(* The sight of a cursor that does not move.                               *)
LEMMA OthersSight ==
    ASSUME CursorInvariant, Inv', Shape', Order', SightFrame, NEW u \in Thread,
           pc'[u] = pc[u], before'[u] = before[u], at'[u] = at[u], nxt'[u] = nxt[u]
    PROVE  SightAt(u)'
<1> SUFFICES ASSUME pc[u] \in SteppingLabel
             PROVE  (Steady(u) \subseteq Live)' /\ \E T \in SUBSET Tower : SeenBy(u, T)'
  BY DEF SightAt, SeenBy, Sight, Sees, BaseTowers
<1>1. /\ Steady(u)' \subseteq Steady(u) /\ Steady(u)' \subseteq Live'
      /\ \E S \in SUBSET Tower, T \in SUBSET Tower :
            /\ SeenBy(u, S) /\ S \subseteq T
            /\ Sight(Steady(u), T)'
            /\ \A m \in S : m # head => key'[m] = key[m]
            /\ \A n \in Steady(u) : key'[n] = key[n]
  BY SightKept
<1>2. PICK S \in SUBSET Tower, T \in SUBSET Tower :
            /\ SeenBy(u, S) /\ S \subseteq T
            /\ Sight(Steady(u), T)'
            /\ \A m \in S : m # head => key'[m] = key[m]
            /\ \A n \in Steady(u) : key'[n] = key[n]
  BY <1>1
<1>3. pc[u] \in AheadLabel => nxt[u] \in Node /\ nxt[u] # head
  BY CursorLocals, ConstantFacts
<1>4. SeenBy(u, T)'
  BY <1>1, <1>2, <1>3 DEF SeenBy, BehindOrAhead
<1> QED BY <1>1, <1>4

(* A cursor call that begins sees what is in the base level.               *)
LEMMA BeginSight ==
    ASSUME CursorInvariant, Inv', Shape', Order', NEW t \in Thread, BeginCursor(t)
    PROVE  SightAt(t)'
<1>0. LocalTypeOK /\ 0 \in Level /\ Node \subseteq Tower /\ head \in Tower
      /\ LocalTypeOK' /\ at \in [Thread -> Tower]
  BY CursorLocals, ConstantFacts DEF Inv, TypeOK
<1>1. (Steady(t) \subseteq Live)'
  BY <1>0 DEF BeginCursor, Steady, Live, LocalTypeOK, memory
<1>2. PICK S \in SUBSET Tower : S = {m \in Tower : InList(m, 0)'}
  OBVIOUS
<1>3. Sight(Steady(t), S)'
  <2>1. PICK F : F = Steady(t)'
    OBVIOUS
  <2>2. F \subseteq Node /\ \A n \in F : 0 \in linked'[n]
    BY <1>1, <2>1 DEF Live
  <2>3. \A m \in S : Sees(F, S, m)'
    BY <1>2, <2>2, InListSeen
  <2> QED BY <1>2, <2>1, <2>3 DEF Sight, Sees
<1>4. at'[t] = head /\ pc'[t] \in {"return", "curTag"}
  BY <1>0 DEF BeginCursor, Goto, LocalTypeOK
<1>5. SeenBy(t, S)'
  BY <1>0, <1>2, <1>3, <1>4 DEF SeenBy, AheadLabel, InList
<1>6. S \in SUBSET BaseTowers'
  BY <1>2, <1>3 DEF Sight, Sees, BaseTowers
<1> QED BY <1>1, <1>5, <1>6 DEF SightAt

(* A cursor moves to a tower it has seen, and looks at the next of it.     *)
LEMMA OwnSight ==
    ASSUME CursorInvariant, Inv', Shape', Order', NEW t \in Thread, CursorStep(t)
    PROVE  SightAt(t)'
<1> SUFFICES ASSUME pc'[t] \in SteppingLabel
             PROVE  (Steady(t) \subseteq Live)' /\ \E T \in SUBSET Tower : SeenBy(t, T)'
  BY DEF SightAt, SeenBy, Sight, Sees, BaseTowers
<1>0. /\ LocalTypeOK /\ MemoryTypeOK /\ 0 \in Level /\ CursorAt(t) /\ RemovalAt(t) /\ TaggedAreRemoved
      /\ at \in [Thread -> Tower] /\ at[t] \in Tower /\ CursorAction(t) /\ KeyAt(t)
      /\ pc[t] \in AheadLabel => nxt[t] \in Node /\ nxt[t] # head /\ nxt[t] \in Tower
      /\ Null \notin Node /\ head \notin Node
  BY CursorLocals, ConstantFacts DEF CursorAction, Inv
<1>1. pc[t] \in SteppingLabel /\ before'[t] = before[t]
  <2> USE <1>0 DEF LocalTypeOK, Goto, SteppingLabel, CursorLabel
  <2>1. CASE CursorTag(t)
    BY <2>1 DEF CursorTag, walk
  <2>2. CASE CursorNext(t) \/ CursorSubRef(t)
    BY <2>2 DEF CursorNext, CursorSubRef, Follow, Finish
  <2>3. CASE CursorCheck(t)
    <3>1. CASE Arrive(t, nxt[t]) /\ ret[t] = "first"
      BY <2>3, <3>1 DEF Arrive, Finish
    <3>2. CASE Arrive(t, nxt[t]) /\ ret[t] \in {"last", "pop"}
      BY <2>3, <3>2 DEF Arrive, CursorCheck
    <3>3. CASE ~Arrive(t, nxt[t])
      BY <2>3, <3>3 DEF CursorCheck
    <3> QED BY <2>3, <3>1, <3>2, <3>3 DEF CursorCheck, CursorAt, CursorCall
  <2>4. CASE CursorHelp(t)
    BY <2>4 DEF CursorHelp
  <2>5. CASE ClosestFault(t) \/ TagEntry(t)
    BY <2>5 DEF ClosestFault, TagEntry
  <2> QED BY <2>1, <2>2, <2>3, <2>4, <2>5 DEF CursorStep
<1>2. SightFrame
  BY <1>0, CursorSightFrame
<1>3. /\ Steady(t)' \subseteq Steady(t) /\ Steady(t)' \subseteq Live'
      /\ \E S \in SUBSET Tower, T \in SUBSET Tower :
            /\ SeenBy(t, S) /\ S \subseteq T
            /\ Sight(Steady(t), T)'
            /\ \A m \in S : m # head => key'[m] = key[m]
            /\ \A n \in Steady(t) : key'[n] = key[n]
  BY <1>1, <1>2, SightKept
<1>4. PICK S \in SUBSET Tower, T \in SUBSET Tower :
            /\ SeenBy(t, S) /\ S \subseteq T
            /\ Sight(Steady(t), T)'
  BY <1>3
<1>5. key' = key
  BY <1>0, CursorFrame
<1>6. SUFFICES /\ at'[t] \in T
               /\ pc'[t] \in AheadLabel =>
                     /\ nxt'[t] \in T
                     /\ at'[t] # head => key[at'[t]] < key[nxt'[t]]
                     /\ \A n \in Steady(t)' : BehindOrAhead(at'[t], n, nxt'[t])
  <2>1. SeenBy(t, T)'
    BY <1>4, <1>5, <1>6 DEF SeenBy, BehindOrAhead
  <2> QED BY <1>3, <2>1
<1>7. at[t] \in S /\ at[t] \in T
  BY <1>4 DEF SeenBy
<1>8. pc[t] \in AheadLabel =>
          /\ nxt[t] \in S /\ nxt[t] \in T
          /\ at[t] # head => key[at[t]] < key[nxt[t]]
          /\ \A n \in Steady(t)' : BehindOrAhead(at[t], n, nxt[t])
  BY <1>3, <1>4 DEF SeenBy
<1>9. at'[t] \in T
  <2>1. head \in T
    BY <1>4, ConstantFacts DEF InList, Sight
  <2>2. pc[t] = "curCheck" => nxt[t] \in T
    BY <1>8 DEF AheadLabel
  <2> QED BY <1>0, <1>7, <2>1, <2>2, CursorValues DEF CursorCheck
<1>10. ASSUME pc'[t] \in AheadLabel
       PROVE  /\ nxt'[t] \in T
              /\ at[t] # head => key[at[t]] < key[nxt'[t]]
              /\ \A n \in Steady(t)' : BehindOrAhead(at[t], n, nxt'[t])
  <2>1. CASE pc'[t] \in {"curHelp", "curSub"}
    BY <1>0, <1>8, <2>1, CursorValues DEF AheadLabel, CursorCheck, CursorHelp
  <2>2. CASE pc'[t] = "curCheck" /\ pc[t] = "curNext" /\ nxt'[t] = Ptr(at[t], 0)
    <3>1. next' = next
      BY <1>0, <2>2 DEF CursorStep, CursorTag, CursorNext, CursorCheck, CursorHelp, CursorSubRef,
         ClosestFault, TagEntry, memory
    <3>2. PICK a \in Tower : a = at[t] /\ Ptr(a, 0)' = Ptr(a, 0)
      BY <1>0, <3>1 DEF Ptr
    <3>3. PICK s : s = Ptr(a, 0) /\ s = Ptr(a, 0)'
      BY <3>2
    <3>4. Sees(Steady(t), T, a)'
      BY <1>4, <1>7, <3>2 DEF Sight
    <3>5. nxt'[t] = s /\ s # Null
      BY <1>0, <2>2, <3>2, <3>3, CursorMoves DEF AheadLabel
    <3> QED BY <1>5, <3>2, <3>3, <3>4, <3>5 DEF Sees, BehindOrAhead
  <2>3. CASE pc'[t] = "curCheck" /\ pc[t] = "curSub" /\ nxt'[t] = Ptr(nxt[t], 0)
    <3>1. next' = next
      BY <1>0, <2>3 DEF CursorStep, CursorTag, CursorNext, CursorCheck, CursorHelp, CursorSubRef,
         ClosestFault, TagEntry, memory
    <3>2. PICK m \in Node : m = nxt[t] /\ Ptr(m, 0)' = Ptr(m, 0) /\ m # head
      BY <1>0, <2>3, <3>1 DEF Ptr, AheadLabel
    <3>3. PICK s : s = Ptr(m, 0) /\ s = Ptr(m, 0)'
      BY <3>2
    <3>4. Sees(Steady(t), T, m)'
      BY <1>4, <1>8, <2>3, <3>2 DEF AheadLabel, Sight
    <3>5. nxt'[t] = s /\ s # Null /\ s \in Node
      BY <1>0, <2>3, <3>2, <3>3, CursorMoves, PtrType, ConstantFacts DEF AheadLabel
    <3>6. har[m].removed
      BY <1>0, <2>3, <3>2 DEF RemovalAt, TaggedAreRemoved
    <3>7. \A n \in Steady(t)' : n # m /\ n \in Node
      BY <1>3, <3>6 DEF Steady, Live
    <3>8. s \in T /\ key[m] < key[s]
      BY <1>5, <3>2, <3>3, <3>4, <3>5 DEF Sees
    <3>9. \A n \in Node : key[n] \in Int
      BY <1>0, KeyType DEF CursorInvariant
    <3>10. at[t] # head => key[at[t]] < key[m] /\ at[t] \in Node
      BY <1>0, <1>8, <2>3, <3>2, ConstantFacts DEF AheadLabel
    <3>11. ASSUME NEW n \in Steady(t)'
           PROVE  BehindOrAhead(at[t], n, s)
      <4>1. n # m /\ n \in Node
        BY <3>7, <3>11
      <4>2. BehindOrAhead(at[t], n, m)
        BY <1>8, <2>3, <3>2, <3>11 DEF AheadLabel
      <4>3. (key[n] <= key[m] \/ key[s] <= key[n]) /\ key[m] # key[n]
        BY <1>5, <3>2, <3>3, <3>4, <3>11, <4>1 DEF Sees, BehindOrAhead
      <4> QED BY <3>5, <3>9, <4>1, <4>2, <4>3 DEF BehindOrAhead
    <3> QED BY <3>5, <3>8, <3>9, <3>10, <3>11
  <2> QED BY <1>0, <1>10, <2>1, <2>2, <2>3, CursorValues DEF AheadLabel
<1>11. pc'[t] \in AheadLabel => at'[t] = at[t]
  BY <1>0, CursorValues DEF AheadLabel
<1> QED BY <1>9, <1>10, <1>11


-----------------------------------------------------------------------------
(* The invariant *)

(* The first states satisfy the invariant.                                 *)
LEMMA CursorsInit == CursorInit => CursorInvariant
<1> SUFFICES ASSUME CursorInit PROVE CursorInvariant
  OBVIOUS
<1>1. Inv /\ Shape /\ Order /\ References
  BY InvInit, ShapeInit, OrderInit, ReferencesInit DEF CursorInit
<1>2. CursorTypeOK
  BY <1>1, ConstantFacts DEF CursorInit, CursorTypeOK, Inv
<1>3. \A t \in Thread : /\ pc[t] = "idle" /\ at[t] = head /\ result[t] = Null
                        /\ call[t].op = "get" /\ ret[t] = "get"
  BY DEF CursorInit, Init, LocalInit
<1>4. CursorsHold
  BY <1>3, ConstantFacts DEF CursorsHold, CursorAt, TakenAt, SightAt, UseAt, Takes, SteppingLabel,
     CursorLabel, ReachedTo, CursorCall, RemoveLabel, BuildLabel, LinkLabel
<1>5. TakenByOne
  BY <1>3 DEF TakenByOne, Takes
<1> QED BY <1>1, <1>2, <1>4, <1>5 DEF CursorInvariant

(* A step of a call of the list, and one of a cursor.                      *)
LEMMA CursorsListStep ==
    ASSUME CursorInvariant, NEW t \in Thread, Begin(t) \/ Step(t), UNCHANGED cursor
    PROVE  CursorInvariant'
<1>1. Inv /\ Shape /\ Order /\ References /\ [Next]_vars /\ LocalTypeOK /\ UNCHANGED at
  BY CursorLocals DEF Next, cursor
<1>2. Inv' /\ Shape' /\ Order' /\ References'
  BY <1>1, InvStep, ShapeStep, OrderStep, ReferencesStep
<1>3. CursorTypeOK'
  BY <1>2 DEF CursorInvariant, CursorTypeOK, Inv, cursor
<1>4. ASSUME NEW u \in Thread PROVE SightAt(u)'
  <2>1. CASE u = t
    BY <1>1, <2>1, ListLabels DEF SightAt, SteppingLabel
  <2>2. CASE u # t
    <3>1. pc'[u] = pc[u] /\ before'[u] = before[u] /\ at'[u] = at[u] /\ nxt'[u] = nxt[u]
      BY <1>1, <2>2, OthersKept
    <3> QED BY <1>2, <3>1, ListSightFrame, OthersSight
  <2> QED BY <2>1, <2>2
<1>5. ASSUME NEW u \in Thread PROVE UseAt(u)'
  <2>1. UseAt(u)
    BY CursorLocals
  <2> QED BY <1>1, <2>1, UseStep, OthersKept DEF UseAt
<1> QED BY <1>1, <1>2, <1>3, <1>4, <1>5, ListCursorAt, ListTaken DEF CursorInvariant, CursorsHold

(* The parts of the invariant after a step of a cursor.                    *)
LEMMA CursorsOwnStep ==
    ASSUME CursorInvariant, NEW t \in Thread, CursorAction(t)
    PROVE  CursorInvariant'
<1>1. Inv' /\ Shape' /\ Order' /\ References'
  BY CursorInv, CursorShape, CursorOrder, CursorReferences
<1>2. CursorTypeOK'
  BY <1>1, CursorLocalTypes DEF CursorTypeOK, Inv
<1>3. ASSUME NEW u \in Thread PROVE SightAt(u)'
  <2>1. CASE u = t
    BY <1>1, <2>1, BeginSight, OwnSight DEF CursorAction
  <2>2. CASE u # t
    <3>1. pc'[u] = pc[u] /\ before'[u] = before[u] /\ at'[u] = at[u] /\ nxt'[u] = nxt[u]
      BY <2>2, CursorOthers
    <3> QED BY <1>1, <3>1, CursorSightFrame, OthersSight
  <2> QED BY <2>1, <2>2
<1> QED BY <1>1, <1>2, <1>3, OwnCursorAt, CursorUses, CursorTaken DEF CursorInvariant, CursorsHold

(* Every step keeps the invariant.                                         *)
LEMMA CursorsStep == CursorInvariant /\ [CursorNextState]_cursorVars => CursorInvariant'
<1> SUFFICES ASSUME CursorInvariant, [CursorNextState]_cursorVars PROVE CursorInvariant'
  OBVIOUS
<1>1. CASE UNCHANGED cursorVars
  <2>1. UNCHANGED vars /\ UNCHANGED cursor
    BY <1>1 DEF cursorVars
  <2>2. Inv' /\ Shape' /\ Order' /\ References'
    BY <2>1, InvStep, ShapeStep, OrderStep, ReferencesStep DEF CursorInvariant
  <2>3. CursorTypeOK' /\ CursorsHold' /\ TakenByOne'
    BY <2>1, <2>2 DEF CursorInvariant, CursorTypeOK, Inv, CursorsHold, CursorAt, TakenAt, UseAt, SightAt,
       TakenByOne, Takes, SeenBy, Sight, Sees, BaseTowers, Steady, Live, InList, ReachedTo, Reached, Ptr, Tag,
       Allocated, BehindOrAhead, vars, memory, locals, request, walk, removal, cursor
  <2> QED BY <2>2, <2>3 DEF CursorInvariant
<1>2. ASSUME NEW t \in Thread, \/ Begin(t) /\ UNCHANGED cursor
                               \/ BeginCursor(t) \/ ListStep(t) \/ CursorStep(t)
      PROVE  CursorInvariant'
  BY <1>2, CursorsListStep, CursorsOwnStep DEF ListStep, CursorAction
<1> QED BY <1>1, <1>2 DEF CursorNextState, CursorsTerminating

(* CursorInvariant: what the calls of the list promise one another they    *)
(* also promise, and are promised by, the cursors that run beside them.    *)
THEOREM CursorInvariance == CursorSpec => []CursorInvariant
BY CursorsInit, CursorsStep, PTL DEF CursorSpec

(* NoPanic, with cursors: Entry::remove never meets a tag after it set the *)
(* removed bit, and next_node never drops a reference that is not there.   *)
THEOREM CursorsNeverPanic == CursorSpec => []NoPanic
<1>1. CursorInvariant => NoPanic
  BY DEF CursorInvariant, References
<1> QED BY <1>1, CursorInvariance, PTL

(* ReachableIsLinked, with cursors that unlink the nodes they meet.        *)
THEOREM CursorsKeepReachable == CursorSpec => []ReachableIsLinked
<1>1. CursorInit => Connected
  BY DEF CursorInit, Init, MemoryInit, Connected
<1>2. CursorInvariant /\ Connected /\ [CursorNextState]_cursorVars => Connected'
  <2> SUFFICES ASSUME CursorInvariant, Connected, [CursorNextState]_cursorVars
               PROVE  Connected'
    OBVIOUS
  <2>1. CASE UNCHANGED memory
    BY <2>1 DEF memory, Connected, Closed, Ptr
  <2>2. ASSUME NEW t \in Thread, Begin(t) \/ Step(t)
        PROVE  Connected'
    BY <2>2, ConnectedKept DEF CursorInvariant
  <2>3. ASSUME NEW t \in Thread, CursorAction(t)
        PROVE  Connected'
    <3>1. MemoryTypeOK /\ SuccessorsLinked /\ at[t] \in Tower /\ 0 \in Level
      BY CursorLocals DEF Shape
    <3>2. CASE CursorHelp(t) /\ TakesOut(at[t], nxt[t], 0)
      <4>1. nxt[t] \in Node
        BY <3>2, CursorLocals DEF CursorHelp, AheadLabel
      <4> QED BY <3>1, <3>2, <4>1, ConnectedTakenOut
    <3>3. CASE (\A o \in Tower, i \in Level : Ptr(o, i)' = Ptr(o, i)) /\ UNCHANGED linked
      BY <3>3, ConstantFacts DEF Connected, Closed
    <3> QED BY <2>3, <3>2, <3>3, CursorChains
  <2> QED BY <2>1, <2>2, <2>3 DEF CursorNextState, CursorsTerminating, CursorAction, ListStep,
          cursorVars, vars
<1>3. CursorInvariant /\ Connected => ReachableIsLinked
  BY ConnectedReachable DEF CursorInvariant, Inv, TypeOK, Shape
<1> QED BY <1>1, <1>2, <1>3, CursorInvariance, PTL DEF CursorSpec

(* A cursor that moves passes over no entry: what it knows of the node     *)
(* ahead, and of the tower it stands on, says so.                          *)
LEMMA MovesSkipNothing ==
    ASSUME CursorInvariant, NEW t \in Thread, CursorAction(t), Moves(t)
    PROVE  /\ Found(t) # Null /\ at[t] # head => key[at[t]] < key[Found(t)]
           /\ \A n \in Steady(t) :
                 \/ at[t] # head /\ key[n] <= key[at[t]]
                 \/ Found(t) # Null /\ key[Found(t)] <= key[n]
<1>0. /\ pc[t] \in SteppingLabel /\ SightAt(t) /\ LocalTypeOK /\ MemoryTypeOK /\ 0 \in Level
      /\ RemovalAt(t) /\ TaggedAreRemoved /\ CursorAt(t) /\ at[t] \in Tower
      /\ pc[t] \in AheadLabel => nxt[t] \in Node /\ nxt[t] # head /\ nxt[t] # Null
  BY CursorLocals, ConstantFacts DEF Moves, SteppingLabel, CursorLabel, Inv
<1>1. PICK S \in SUBSET Tower : SeenBy(t, S)
  BY <1>0 DEF SightAt, BaseTowers
<1>2. CASE pc[t] = "curCheck"
  BY <1>0, <1>1, <1>2 DEF Found, SeenBy, BehindOrAhead, AheadLabel
<1>3. CASE pc[t] = "curNext"
  <2>1. Ptr(at[t], 0) = Null
    BY <1>0, <1>3 DEF CursorAction, CursorStep, BeginCursor, CursorTag, CursorNext, Follow,
       CursorCheck, CursorHelp, CursorSubRef, ClosestFault, TagEntry, Moves, Goto, LocalTypeOK
  <2> QED BY <1>0, <1>1, <1>3, <2>1 DEF Found, SeenBy, Sight, Sees, BehindOrAhead
<1>4. CASE pc[t] = "curSub"
  <2>1. Ptr(nxt[t], 0) = Null
    BY <1>0, <1>4 DEF CursorAction, CursorStep, BeginCursor, CursorTag, CursorNext, Follow,
       CursorCheck, CursorHelp, CursorSubRef, ClosestFault, TagEntry, Moves, Goto, LocalTypeOK
  <2>2. Found(t) = Null /\ har[nxt[t]].removed /\ Sees(Steady(t), S, nxt[t])
    BY <1>0, <1>1, <1>4 DEF Found, SeenBy, Sight, AheadLabel, RemovalAt, TaggedAreRemoved
  <2>3. ASSUME NEW n \in Steady(t) PROVE at[t] # head /\ key[n] <= key[at[t]]
    <3>1. n \in Node /\ n # nxt[t] /\ key[n] \in Int /\ key[nxt[t]] \in Int
      BY <1>0, <1>4, <2>2, KeyType DEF SightAt, Steady, Live, AheadLabel, CursorInvariant
    <3>2. key[n] <= key[nxt[t]] /\ key[n] # key[nxt[t]]
      BY <1>0, <1>4, <2>1, <2>2, <3>1 DEF Sees, BehindOrAhead, AheadLabel
    <3>3. BehindOrAhead(at[t], n, nxt[t])
      BY <1>1, <1>4 DEF SeenBy, AheadLabel
    <3> QED BY <3>1, <3>2, <3>3 DEF BehindOrAhead
  <2> QED BY <2>2, <2>3
<1>5. CASE pc[t] = "curHelp"
  BY <1>0, <1>5 DEF CursorAction, CursorStep, BeginCursor, CursorTag, CursorNext, CursorCheck,
     CursorHelp, SearchClosest, CursorSubRef, ClosestFault, TagEntry, Moves, Goto, LocalTypeOK
<1> QED BY <1>2, <1>3, <1>4, <1>5 DEF Moves

(* And a cursor moves by a step of its own.                                *)
LEMMA EveryMoveSkipsNothing ==
    ASSUME CursorInvariant, [CursorNextState]_cursorVars, NEW t \in Thread, Moves(t)
    PROVE  /\ Found(t) # Null /\ at[t] # head => key[at[t]] < key[Found(t)]
           /\ \A n \in Steady(t) :
                 \/ at[t] # head /\ key[n] <= key[at[t]]
                 \/ Found(t) # Null /\ key[Found(t)] <= key[n]
<1>1. LocalTypeOK /\ pc[t] \in CursorLabel /\ pc'[t] # pc[t]
  BY CursorLocals DEF Moves, CursorLabel
<1>2. ~CursorsTerminating /\ ~UNCHANGED cursorVars
  BY <1>1 DEF CursorsTerminating, cursorVars, vars
<1>3. ASSUME NEW u \in Thread, \/ Begin(u) /\ UNCHANGED cursor
                               \/ BeginCursor(u) \/ ListStep(u) \/ CursorStep(u)
      PROVE  CursorAction(t)
  <2>1. CASE Begin(u) \/ ListStep(u)
    <3>1. u # t
      BY <1>1, <2>1, InProgress DEF Begin, ListStep, CursorLabel
    <3> QED BY <1>1, <2>1, <3>1, OthersKept DEF ListStep
  <2>2. CASE BeginCursor(u) \/ CursorStep(u)
    BY <1>1, <2>2, CursorOthers DEF CursorAction
  <2> QED BY <1>3, <2>1, <2>2
<1>4. PICK u \in Thread : \/ Begin(u) /\ UNCHANGED cursor
                          \/ BeginCursor(u) \/ ListStep(u) \/ CursorStep(u)
  BY <1>2 DEF CursorNextState
<1>5. CursorAction(t)
  BY <1>3, <1>4
<1> QED BY <1>5, MovesSkipNothing

(* CursorsSkipNothing: get_first, get_last, Iter and pop pass over no      *)
(* entry that was in the list since their call began, for any number of    *)
(* threads that insert and remove under them.                              *)
THEOREM CursorsPassOverNothing == CursorSpec => CursorsSkipNothing
<1> DEFINE Good == \A t \in Thread : Moves(t) =>
                      /\ Found(t) # Null /\ at[t] # head => key[at[t]] < key[Found(t)]
                      /\ \A n \in Steady(t) :
                            \/ at[t] # head /\ key[n] <= key[at[t]]
                            \/ Found(t) # Null /\ key[Found(t)] <= key[n]
<1>1. CursorInvariant /\ [CursorNextState]_cursorVars => [Good]_cursorVars
  BY EveryMoveSkipsNothing
<1> QED BY <1>1, CursorInvariance, PTL DEF CursorSpec, CursorsSkipNothing

(* A get that returns beside cursors.                                      *)
LEMMA GetReturnsBesideCursors ==
    ASSUME CursorInvariant, [CursorNextState]_cursorVars, NEW t \in Thread,
           Returns(t), call[t].op = "get", result'[t] # Null
    PROVE  result'[t] \in Live /\ key[result'[t]] = call[t].key
<1>0. LocalTypeOK /\ Inv /\ Shape /\ Order /\ UseAt(t) /\ CursorAt(t)
  BY CursorLocals
<1>1. pc'[t] # pc[t]
  BY DEF Returns
<1>2. PICK u \in Thread : Begin(u) \/ ListStep(u) \/ CursorAction(u)
  BY <1>1 DEF CursorNextState, CursorsTerminating, cursorVars, vars, CursorAction
<1>3. u = t
  BY <1>0, <1>1, <1>2, OthersKept, CursorOthers DEF ListStep
<1>4. CASE CursorAction(t)
  <2>1. BeginCursor(t)
    BY <1>0, <1>4 DEF CursorAction, CursorStep, CursorTag, CursorNext, CursorCheck, CursorHelp,
       CursorSubRef, ClosestFault, TagEntry, CursorAt, UseAt, SteppingLabel, CursorLabel, CursorCall
  <2> QED BY <1>0, <2>1 DEF BeginCursor, LocalTypeOK
<1>5. CASE Begin(t) \/ Step(t)
  BY <1>0, <1>5, GetReturns
<1> QED BY <1>2, <1>3, <1>4, <1>5 DEF ListStep

(* GetReturnsLive, when cursors and queues work on the list beside get.    *)
THEOREM GetsReturnLiveBesideCursors == CursorSpec => GetReturnsLive
<1> DEFINE Good == \A t \in Thread :
                      Returns(t) /\ call[t].op = "get" /\ result'[t] # Null
                          => result'[t] \in Live /\ key[result'[t]] = call[t].key
<1>1. CursorInvariant /\ [CursorNextState]_cursorVars => [Good]_vars
  BY GetReturnsBesideCursors
<1> QED BY <1>1, CursorInvariance, PTL DEF CursorSpec, GetReturnsLive

-----------------------------------------------------------------------------
(* Removals go on *)

(* The order of the tags, and the height of what is linked.                *)
LEMMA TagsFromTopStep ==
    ASSUME CursorInvariant, TagsFromTop, NEW t \in Thread, Begin(t) \/ Step(t) \/ CursorAction(t)
    PROVE  TagsFromTop'
<1>0. /\ Inv /\ Shape /\ MemoryTypeOK /\ RemovalAt(t) /\ ControlAt(t) /\ 0 \in Level
      /\ Node \subseteq Tower
  BY CursorLocals, ConstantFacts
<1>1. \A n \in Allocated : har'[n].height = har[n].height
  BY <1>0, WordKept, CursorFrame DEF Allocated
<1>2. ASSUME NEW n \in Node, NEW l \in Level
      PROVE  /\ Tag(n, l) = 1 => Tag(n, l)' = 1
             /\ Tag(n, l)' = 1 /\ Tag(n, l) # 1 =>
                   pc[t] = "tag" /\ n = target[t] /\ l = down[t]
  <2>1. CASE Begin(t) \/ Step(t)
    BY <1>0, <2>1, TagsKept DEF Tag, TagLevel
  <2>2. CASE CursorAction(t)
    BY <1>0, <2>2, CursorFrame DEF Tag, TagEntry
  <2> QED BY <2>1, <2>2
<1>3. ASSUME NEW n \in Node, NEW l \in Level, Tag(n, l)' = 1,
             NEW i \in Level, l < i, i < har'[n].height
      PROVE  Tag(n, i)' = 1
  <2>1. n \in Allocated
    <3>1. Tag(n, l) = 1 => har[n].removed
      BY <1>0 DEF Inv, TaggedAreRemoved
    <3>2. pc[t] = "tag" => target[t] \in Allocated
      BY <1>0, Locals DEF RemoveLabel, Inv, PointersAllocated, ControlAt
    <3> QED BY <1>0, <1>2, <1>3, <3>1, <3>2 DEF Inv, Fresh
  <2>2. i < har[n].height
    BY <1>1, <1>3, <2>1
  <2>3. CASE Tag(n, l) = 1
    BY <1>2, <1>3, <2>2, <2>3 DEF TagsFromTop
  <2>4. CASE Tag(n, l) # 1
    <3>1. pc[t] = "tag" /\ n = target[t] /\ l = down[t]
      BY <1>2, <1>3, <2>4
    <3>2. Tag(n, i) = 1
      BY <1>0, <1>3, <2>2, <3>1 DEF RemovalAt
    <3> QED BY <1>2, <3>2
  <2> QED BY <2>3, <2>4
<1>4. ASSUME NEW n \in Node, NEW l \in Level, l \in linked'[n]
      PROVE  l < har'[n].height
  <2>1. CASE l \in linked[n]
    <3>1. n \in Allocated
      BY <1>0, <2>1 DEF Shape
    <3> QED BY <1>1, <2>1, <3>1 DEF TagsFromTop
  <2>2. CASE l \notin linked[n]
    <3>1. Begin(t) \/ Step(t)
      BY <1>4, <2>2, CursorReached
    <3>2. ~\E p \in Tower, o \in Node, i \in Level : TakesOut(p, o, i)
      BY <1>4, <2>2 DEF TakesOut
    <3>3. PICK p \in Tower, i \in Level : PutsIn(t, p, i)
      BY <1>0, <1>4, <2>2, <3>1, <3>2, ChainStep
    <3>4. n = New(t) /\ l = up[t] /\ pc[t] = "linkIn"
      BY <1>4, <2>2, <3>3 DEF PutsIn, LinkIn
    <3>5. n \in Allocated /\ l < har[n].height
      BY <1>0, <3>4 DEF ControlAt, Linking, LinkLabel
    <3> QED BY <1>1, <3>5
  <2> QED BY <2>1, <2>2
<1> QED BY <1>3, <1>4 DEF TagsFromTop

(* The target of a call has its key.                                       *)
LEMMA RemovesItsKeyOthers ==
    ASSUME CursorInvariant, SightFrame, NEW u \in Thread, RemovesItsKey(u),
           pc'[u] = pc[u], ret'[u] = ret[u], target'[u] = target[u], call'[u] = call[u]
    PROVE  RemovesItsKey(u)'
<1>1. pc[u] \in RemoveLabel => target[u] \in Allocated
  BY CursorLocals, Locals, ConstantFacts DEF Inv, PointersAllocated, Control, ControlAt
<1> QED BY <1>1 DEF SightFrame, RemovesItsKey

(* A step of a thread leads it to an entry of its key.                      *)
LEMMA RemovesItsKeyStep ==
    ASSUME CursorInvariant, SightFrame, NEW t \in Thread, RemovesItsKey(t),
           Begin(t) \/ ListStep(t) \/ CursorAction(t)
    PROVE  RemovesItsKey(t)'
<1>0. /\ Inv /\ LocalTypeOK /\ MemoryTypeOK /\ KeyAt(t) /\ CursorAt(t) /\ ControlAt(t)
      /\ LocalTypeOK' /\ Allocated \subseteq Node
  <2>1. LocalTypeOK'
    BY CursorLocals, LocalTypeStep, CursorLocalTypes DEF ListStep
  <2> QED BY <2>1, CursorLocals DEF Allocated
<1>1. CASE CursorAction(t)
  <2>1. pc'[t] \in RemoveLabel => ret'[t] = "pop" /\ pc'[t] \in {"load", "tag"}
    <3> USE <1>0 DEF LocalTypeOK, Goto, RemoveLabel, CursorCall, SteppingLabel, CursorLabel
    <3>1. CASE BeginCursor(t) \/ CursorTag(t) \/ ClosestFault(t) \/ TagEntry(t)
      BY <3>1 DEF BeginCursor, CursorTag, SearchClosest, ClosestFault, TagEntry
    <3>2. CASE CursorNext(t) \/ CursorSubRef(t) \/ CursorHelp(t)
      BY <3>2 DEF CursorNext, CursorSubRef, CursorHelp, SearchClosest, Follow, Finish
    <3>3. CASE CursorCheck(t)
      <4>1. ret[t] \in CursorCall /\ ret' = ret
        BY <3>3 DEF CursorCheck, CursorAt
      <4>2. CASE Arrive(t, nxt[t]) /\ ret[t] = "pop"
        BY <3>3, <4>1, <4>2 DEF CursorCheck, Arrive
      <4>3. CASE Arrive(t, nxt[t]) /\ ret[t] = "first"
        BY <3>3, <4>1, <4>3 DEF CursorCheck, Arrive, Finish
      <4>4. CASE Arrive(t, nxt[t]) /\ ret[t] = "last"
        BY <3>3, <4>1, <4>4 DEF CursorCheck, Arrive
      <4>5. CASE ~Arrive(t, nxt[t])
        BY <3>3, <4>1, <4>5 DEF CursorCheck
      <4> QED BY <4>1, <4>2, <4>3, <4>4, <4>5
    <3> QED BY <1>1, <3>1, <3>2, <3>3 DEF CursorAction, CursorStep
  <2> QED BY <2>1 DEF RemovesItsKey, RemoveLabel
<1>2. CASE Begin(t)
  <2>1. pc'[t] \in {"return", "find"}
    BY <1>0, <1>2 DEF Begin, Goto, LocalTypeOK
  <2> QED BY <2>1 DEF RemovesItsKey, RemoveLabel
<1>3. CASE ListStep(t)
  <2> USE <1>0 DEF LocalTypeOK, Goto, locals, request, walk, removal, RemoveLabel
  <2>1. ASSUME pc'[t] \in RemoveLabel, ret'[t] # "pop"
        PROVE  /\ call'[t] = call[t]
               /\ \/ target'[t] = target[t] /\ pc[t] \in RemoveLabel /\ ret[t] # "pop"
                  \/ pc[t] = "finalCheck" /\ target'[t] = nxt[t]
    <3> USE <2>1
    <3>1. CASE FinalCheck(t)
      <4>1. pc'[t] = Resume(t, IF har[nxt[t]].removed THEN Null ELSE nxt[t])
        BY <3>1 DEF FinalCheck, Return
      <4>2. ret[t] \in {"insert", "relink", "remove"} /\ ~har[nxt[t]].removed
        BY <4>1 DEF Resume
      <4> QED BY <3>1, <4>2 DEF FinalCheck, Return
    <3>2. CASE FinalRead(t)
      BY <3>2 DEF FinalRead, Return, Resume
    <3>3. CASE LoadHar(t) \/ CasHar(t)
      BY <3>3 DEF LoadHar, CasHar, GiveUp
    <3>4. CASE TagLevel(t)
      BY <3>4 DEF TagLevel, GiveUp
    <3>5. CASE Unlink(t) \/ UnlinkSubRef(t) \/ UnlinkLen(t)
      BY <3>5 DEF Unlink, UnlinkSubRef, UnlinkLen
    <3>6. CASE FindInit(t) \/ InitLevel(t) \/ StartSearch(t) \/ LowerLevel(t) \/ ReadNext(t) \/ CheckTag(t)
      BY <3>6 DEF FindInit, InitLevel, StartSearch, LowerLevel, ReadNext, CheckTag, Consider, Advance, Descend
    <3>7. CASE HelpUnlink(t) \/ HelpSubRef(t)
      BY <3>7 DEF HelpUnlink, HelpSubRef, Consider, Descend
    <3>8. CASE InsertStep(t) \/ Leave(t)
      BY <3>8 DEF InsertStep, NewNode, CompareMax, StoreMax, Count, LinkCheck, LinkRecheck, LinkOwn, LinkAddRef,
         LinkIn, LinkUndo, LinkEnd, Relink, Leave
    <3> QED BY <1>3, <3>1, <3>2, <3>3, <3>4, <3>5, <3>6, <3>7, <3>8
            DEF ListStep, Step, FindStep, RemoveStep
  <2>2. ASSUME pc'[t] \in {"unlink", "unlinkSub"}
        PROVE  ret'[t] # "pop"
    <3> USE <2>2
    <3>1. CASE TagLevel(t)
      BY <1>3, <3>1 DEF TagLevel, GiveUp, ListStep
    <3>2. CASE Unlink(t) \/ UnlinkSubRef(t)
      BY <3>2 DEF Unlink, UnlinkSubRef, RemovesItsKey
    <3>3. CASE LoadHar(t) \/ CasHar(t) \/ UnlinkLen(t)
      BY <3>3 DEF LoadHar, CasHar, GiveUp, UnlinkLen
    <3>4. CASE FindInit(t) \/ InitLevel(t) \/ StartSearch(t) \/ LowerLevel(t) \/ ReadNext(t) \/ CheckTag(t)
      BY <3>4 DEF FindInit, InitLevel, StartSearch, LowerLevel, ReadNext, CheckTag, Consider, Advance, Descend
    <3>5. CASE HelpUnlink(t) \/ HelpSubRef(t) \/ FinalRead(t) \/ FinalCheck(t)
      BY <3>5 DEF HelpUnlink, HelpSubRef, Consider, Descend, FinalRead, FinalCheck, Return, Resume
    <3>6. CASE InsertStep(t) \/ Leave(t)
      BY <3>6 DEF InsertStep, NewNode, CompareMax, StoreMax, Count, LinkCheck, LinkRecheck, LinkOwn, LinkAddRef,
         LinkIn, LinkUndo, LinkEnd, Relink, Leave
    <3> QED BY <1>3, <3>1, <3>2, <3>3, <3>4, <3>5, <3>6 DEF ListStep, Step, FindStep, RemoveStep
  <2>3. pc[t] \in RemoveLabel => target[t] \in Allocated
    BY Locals, ConstantFacts DEF Inv, PointersAllocated
  <2>4. pc[t] = "finalCheck" => nxt[t] \in Allocated /\ key[nxt[t]] = call[t].key
    BY Locals, ConstantFacts DEF Inv, PointersAllocated, KeyAt
  <2>5. ASSUME pc'[t] \in RemoveLabel, ret'[t] # "pop"
        PROVE  key'[target'[t]] = call'[t].key
    <3>1. CASE target'[t] = target[t] /\ pc[t] \in RemoveLabel /\ ret[t] # "pop"
      BY <2>1, <2>3, <2>5, <3>1 DEF RemovesItsKey, SightFrame
    <3>2. CASE pc[t] = "finalCheck" /\ target'[t] = nxt[t]
      BY <2>1, <2>4, <2>5, <3>2 DEF SightFrame
    <3> QED BY <2>1, <2>5, <3>1, <3>2
  <2> QED BY <2>2, <2>5 DEF RemovesItsKey
<1> QED BY <1>1, <1>2, <1>3

(* What a search for the key of a removed node has seen, after any step.   *)
LEMMA SearchGrows ==
    ASSUME CursorInvariant, Inv', Shape', Order', SightFrame,
           NEW n \in Node, 0 \in linked[n], 0 \in linked'[n],
           NEW S \in SUBSET BaseTowers, Sight({n}, S)
    PROVE  \E T \in SUBSET Tower :
              /\ S \subseteq T /\ Sight({n}, T)' /\ T \subseteq BaseTowers'
              /\ \A m \in S : m # head => key'[m] = key[m]
<1>1. S \in SUBSET Tower /\ Inv /\ Shape
  BY DEF BaseTowers, CursorInvariant
<1>2. PICK E : E = {n}
  OBVIOUS
<1>3. \E T \in SUBSET Tower :
         /\ S \subseteq T /\ Sight(E, T)'
         /\ \A m \in S : m # head => key'[m] = key[m]
         /\ \A m \in E : key'[m] = key[m]
  <2>1. PICK F : F = E
    OBVIOUS
  <2>2. F \subseteq E /\ E \subseteq Node /\ Sight(E, S)
    BY <1>2, <2>1
  <2>3. (\A o \in E : 0 \in linked[o]) /\ \A o \in F : 0 \in linked'[o]
    BY <1>2, <2>1
  <2>4. \E T \in SUBSET Tower :
           /\ S \subseteq T /\ Sight(F, T)'
           /\ \A m \in S : m # head => key'[m] = key[m]
           /\ \A m \in E : key'[m] = key[m]
    BY <1>1, <2>2, <2>3, SightGrows
  <2> QED BY <2>1, <2>4
<1>4. PICK T \in SUBSET Tower :
         /\ S \subseteq T /\ Sight({n}, T)'
         /\ \A m \in S : m # head => key'[m] = key[m]
  BY <1>2, <1>3
<1>5. T \subseteq BaseTowers'
  BY <1>4 DEF Sight, Sees, BaseTowers
<1> QED BY <1>4, <1>5

(* A removed node of the base level keeps its key and its tag.             *)
LEMMA RemovedKept ==
    ASSUME CursorInvariant, SightFrame, NEW n \in Node, 0 \in linked[n]
    PROVE  /\ key'[n] = key[n] /\ key[n] \in Int
           /\ Tag(n, 0) = 1 => Tag(n, 0)' = 1
<1>1. n \in Allocated /\ n \in Tower
  BY ConstantFacts DEF CursorInvariant, Shape
<1>2. key[n] \in Int
  BY MemoryAssumption DEF CursorInvariant, Inv, TypeOK, MemoryTypeOK
<1> QED BY <1>1, <1>2 DEF SightFrame, Tag

(* A thread that does not step is still removing what it was.              *)
LEMMA OthersRemoving ==
    ASSUME CursorInvariant, Inv', Shape', Order', SightFrame, NEW u \in Thread, NEW n \in Node,
           0 \in linked[n], 0 \in linked'[n], Removing(u, n),
           pc'[u] = pc[u], call'[u] = call[u], level'[u] = level[u], curr'[u] = curr[u],
           nxt'[u] = nxt[u], target'[u] = target[u], down'[u] = down[u]
    PROVE  Removing(u, n)'
<1>1. CASE ~Cleaning(u, n)
  BY <1>1 DEF Removing
<1>2. CASE Cleaning(u, n)
  <2>1. call'[u].key = key'[n] /\ Tag(n, 0)' = 1
    BY <1>2, RemovedKept DEF Cleaning
  <2>2. CASE pc[u] \in StartLabels
    BY <2>1, <2>2 DEF Removing, Cleaning
  <2>3. CASE pc[u] \notin StartLabels
    <3>1. PICK S \in SUBSET BaseTowers : SearchSees(u, n, S)
      BY <1>2, <2>3 DEF Cleaning
    <3>2. PICK T \in SUBSET Tower :
             /\ S \subseteq T /\ Sight({n}, T)' /\ T \subseteq BaseTowers'
             /\ \A m \in S : m # head => key'[m] = key[m]
      BY <3>1, SearchGrows DEF SearchSees
    <3>3. pc[u] \in {"check", "help", "helpSub"} => nxt[u] # head
      BY CursorLocals, Locals, ConstantFacts
    <3>4. key'[n] = key[n]
      BY RemovedKept
    <3>5. SearchSees(u, n, T)'
      BY <1>2, <2>3, <3>1, <3>2, <3>3, <3>4 DEF SearchSees, BehindOrAhead, Cleaning, SearchLabels
    <3>6. Cleaning(u, n)'
      BY <1>2, <2>1, <2>3, <3>2, <3>5 DEF Cleaning
    <3> QED BY <3>6 DEF Removing
  <2> QED BY <2>2, <2>3
<1> QED BY <1>1, <1>2

(* A search for the key of a removed node that comes upon the node x next  *)
(* to where it stands.                                                     *)
LEMMA ConsiderGoesOn ==
    ASSUME CursorInvariant, Inv', Shape', Order', SightFrame, NEW t \in Thread, NEW n \in Node,
           0 \in linked[n], 0 \in linked'[n], call'[t] = call[t],
           call[t].key = key[n], Tag(n, 0) = 1,
           pc[t] \in {"next", "helpSub"},
           NEW S \in SUBSET BaseTowers, SearchSees(t, n, S),
           NEW x \in NodeOrNull, Consider(t, x),
           level[t] = 1 => (x # Null => x \in S) /\ BehindOrAhead(curr[t], n, x)
    PROVE  Cleaning(t, n)'
<1>0. LocalTypeOK /\ KeyAt(t) /\ ControlAt(t) /\ Null \notin Node /\ head \notin Node
      /\ curr[t] \in Tower /\ Tower = Node \cup {head} /\ level[t] \in Int
      /\ NodeOrNull = Node \cup {Null}
  BY CursorLocals, ConstantFacts DEF LocalTypeOK
<1>1. PICK T \in SUBSET Tower :
         /\ S \subseteq T /\ Sight({n}, T)' /\ T \subseteq BaseTowers'
         /\ \A m \in S : m # head => key'[m] = key[m]
  BY SearchGrows DEF SearchSees
<1>2. key'[n] = key[n] /\ key[n] \in Int /\ Tag(n, 0)' = 1
  BY RemovedKept
<1>3. curr'[t] = curr[t] /\ curr[t] \in S
  BY <1>0 DEF Consider, Descend, SearchSees
<1>4. CASE x = Null
  <2>1. level[t] # 1
    <3>1. \A m \in Node : key[m] \in Int
      BY MemoryAssumption DEF CursorInvariant, Inv, TypeOK, MemoryTypeOK
    <3> QED BY <1>0, <1>2, <1>4, <3>1 DEF KeyAt, Before, BehindOrAhead
  <2>2. pc'[t] = "next"
    BY <1>0, <1>4, <2>1 DEF Consider, Descend, Goto, LocalTypeOK
  <2>3. SearchSees(t, n, T)'
    BY <1>1, <1>3, <2>2 DEF SearchSees
  <2> QED BY <1>1, <1>2, <2>2, <2>3 DEF Cleaning, SearchLabels
<1>5. CASE x # Null
  <2>1. pc'[t] = "check" /\ nxt'[t] = x /\ level'[t] = level[t]
    BY <1>0, <1>5 DEF Consider, Goto, LocalTypeOK
  <2>2. SearchSees(t, n, T)'
    BY <1>0, <1>1, <1>2, <1>3, <1>5, <2>1 DEF SearchSees, BehindOrAhead
  <2> QED BY <1>1, <1>2, <2>1, <2>2 DEF Cleaning, SearchLabels
<1> QED BY <1>4, <1>5

(* Above the base level a search advances to nodes of the base level.      *)
LEMMA UntaggedInBase ==
    ASSUME Inv, Shape, TagsFromTop, NEW m \in Node, NEW l \in Level, ReachedTo(m, l), Tag(m, l) = 0
    PROVE  0 \in linked[m]
<1>1. 0 \in 0 .. l /\ l \in 0 .. l /\ 0 \in Level /\ l \in Int /\ l >= 0
  BY ConstantFacts DEF Level
<1>2. Reached(m, 0) /\ l \in linked[m]
  BY <1>1 DEF ReachedTo, Reached
<1>3. l < har[m].height
  BY <1>2 DEF TagsFromTop
<1>4. l # 0 /\ Tag(m, 0) = 1 => Tag(m, l) = 1
  BY <1>1, <1>3 DEF TagsFromTop
<1> QED BY <1>1, <1>2, <1>4 DEF Reached

(* A search for the key of a removed node goes on until the node is out.   *)
LEMMA CleaningGoesOn ==
    ASSUME CursorInvariant, TagsFromTop, Inv', Shape', Order', NoPanic', NEW t \in Thread, Step(t),
           NEW n \in Node, 0 \in linked[n], 0 \in linked'[n], Cleaning(t, n)
    PROVE  Cleaning(t, n)'
<1>0. /\ LocalTypeOK /\ MemoryTypeOK /\ Inv /\ Shape /\ KeyAt(t) /\ HeldAt(t) /\ RemovalAt(t)
      /\ Null \notin Node /\ head \notin Node /\ head \in Tower /\ curr[t] \in Tower
      /\ Tower = Node \cup {head} /\ 0 \in Level /\ level[t] \in Int
      /\ NodeOrNull = Node \cup {Null} /\ ControlAt(t)
  BY CursorLocals, ConstantFacts DEF LocalTypeOK
<1>1. SightFrame /\ call'[t] = call[t]
  BY ListSightFrame, ListUses DEF Begin, Cleaning, StartLabels, SearchLabels
<1>2. key'[n] = key[n] /\ key[n] \in Int /\ Tag(n, 0)' = 1 /\ Tag(n, 0) = 1
      /\ call[t].key = key[n] /\ call'[t].key = key'[n] /\ n \in Tower
  BY <1>0, <1>1, RemovedKept DEF Cleaning
<1>3. CASE pc[t] \in StartLabels /\ pc'[t] \in StartLabels
  BY <1>2, <1>3 DEF Cleaning
<1>4. CASE pc[t] \in StartLabels /\ pc'[t] \notin StartLabels
  <2>1. StartSearch(t) \/ LowerLevel(t)
    <3>1. FindInit(t) \/ InitLevel(t) \/ StartSearch(t) \/ LowerLevel(t)
      BY <1>4 DEF StartLabels, Step, FindStep, RemoveStep, InsertStep, ReadNext, CheckTag,
         HelpUnlink, HelpSubRef, FinalRead, FinalCheck, LoadHar, CasHar, TagLevel, Unlink,
         UnlinkSubRef, UnlinkLen, NewNode, CompareMax, StoreMax, Count, LinkCheck,
         LinkRecheck, LinkOwn, LinkAddRef, LinkIn, LinkUndo, LinkEnd, Leave
    <3> QED BY <1>0, <1>4, <3>1 DEF StartLabels, FindInit, InitLevel, Goto, LocalTypeOK
  <2>2. pc'[t] = "next" /\ curr'[t] = head
    BY <1>0, <1>4, <2>1 DEF StartLabels, StartSearch, LowerLevel, Goto, LocalTypeOK, ControlAt
  <2>3. PICK S \in SUBSET Tower : S = {m \in Tower : InList(m, 0)'}
    OBVIOUS
  <2>4. Sight({n}, S)'
    <3>1. PICK E : E = {n}
      OBVIOUS
    <3>2. E \subseteq Node /\ \A o \in E : 0 \in linked'[o]
      BY <3>1
    <3>3. \A m \in S : Sees(E, S, m)'
      BY <2>3, <3>2, InListSeen
    <3> QED BY <2>3, <3>1, <3>3 DEF Sight
  <2>5. S \in SUBSET BaseTowers' /\ head \in S
    BY <1>0, <2>3, <2>4 DEF Sight, Sees, BaseTowers, InList
  <2>6. SearchSees(t, n, S)'
    BY <2>2, <2>4, <2>5 DEF SearchSees
  <2> QED BY <1>2, <2>2, <2>5, <2>6 DEF Cleaning, SearchLabels
<1>5. CASE pc[t] \in SearchLabels
  <2>1. ReadNext(t) \/ CheckTag(t) \/ HelpUnlink(t) \/ HelpSubRef(t)
    BY <1>5 DEF Step, FindStep, RemoveStep, InsertStep, FindInit, InitLevel, StartSearch, LowerLevel,
       FinalRead, FinalCheck, LoadHar, CasHar, TagLevel, Unlink,
       UnlinkSubRef, UnlinkLen, NewNode, CompareMax, StoreMax, Count, LinkCheck, LinkRecheck, LinkOwn,
       LinkAddRef, LinkIn, LinkUndo, LinkEnd, Leave, SearchLabels
  <2>2. PICK S \in SUBSET BaseTowers : SearchSees(t, n, S)
    BY <1>5 DEF Cleaning, StartLabels, SearchLabels
  <2>3. PICK T \in SUBSET Tower :
           /\ S \subseteq T /\ Sight({n}, T)' /\ T \subseteq BaseTowers'
           /\ \A m \in S : m # head => key'[m] = key[m]
    BY <1>1, <2>2, SearchGrows DEF SearchSees
  <2>4. level[t] - 1 \in Level /\ (pc[t] # "next" => nxt[t] \in Node /\ nxt[t] \in Tower)
    BY <1>0, <1>5, Locals DEF SearchLabels
  <2>5. Sees({n}, S, curr[t]) /\ curr[t] \in S
    BY <2>2 DEF SearchSees, Sight
  <2>6. \A m \in Node : key[m] \in Int
    BY <1>0, MemoryAssumption DEF MemoryTypeOK
  <2>7. Before(curr[t], key[n])
    BY <1>0, <1>2, <1>5 DEF KeyAt, SearchLabels
  <2>8. CASE ReadNext(t)
    <3>1. pc[t] = "next" /\ Consider(t, Ptr(curr[t], level[t] - 1))
      BY <2>8 DEF ReadNext
    <3>2. Ptr(curr[t], level[t] - 1) \in NodeOrNull
      BY <1>0, <2>4, PtrType
    <3>3. level[t] = 1 => /\ Ptr(curr[t], level[t] - 1) # Null => Ptr(curr[t], level[t] - 1) \in S
                          /\ BehindOrAhead(curr[t], n, Ptr(curr[t], level[t] - 1))
      BY <2>5 DEF Sees
    <3> QED BY <1>1, <1>2, <2>2, <3>1, <3>2, <3>3, ConsiderGoesOn
  <2>9. CASE HelpSubRef(t)
    <3>1. pc[t] = "helpSub" /\ Consider(t, Ptr(nxt[t], level[t] - 1))
      BY <1>0, <2>9 DEF HelpSubRef, Goto, LocalTypeOK, NoPanic
    <3>2. Ptr(nxt[t], level[t] - 1) \in NodeOrNull
      BY <1>0, <2>4, <3>1, PtrType
    <3>3. ASSUME level[t] = 1
          PROVE  /\ Ptr(nxt[t], level[t] - 1) # Null => Ptr(nxt[t], level[t] - 1) \in S
                 /\ BehindOrAhead(curr[t], n, Ptr(nxt[t], level[t] - 1))
      <4>1. level[t] - 1 = 0 /\ nxt[t] # n /\ nxt[t] \in S /\ BehindOrAhead(curr[t], n, nxt[t])
        BY <2>2, <3>1, <3>3 DEF SearchSees, Cleaning, StartLabels
      <4>2. Sees({n}, S, nxt[t])
        BY <2>2, <4>1 DEF SearchSees, Sight
      <4>3. key[nxt[t]] <= key[n] /\ key[nxt[t]] # key[n]
        BY <1>0, <1>2, <2>4, <2>6, <2>7, <3>1, <4>1, <4>2 DEF BehindOrAhead, Before, Sees
      <4> QED BY <1>2, <2>4, <2>6, <3>1, <4>1, <4>2, <4>3 DEF BehindOrAhead, Sees
    <3> QED BY <1>1, <1>2, <2>2, <3>1, <3>2, <3>3, ConsiderGoesOn
  <2>10. CASE HelpUnlink(t)
    <3>1. CASE pc'[t] = "search"
      BY <1>2, <3>1 DEF Cleaning, StartLabels
    <3>2. CASE pc'[t] # "search"
      <4>1. /\ pc[t] = "help" /\ pc'[t] = "helpSub"
            /\ linked' = [linked EXCEPT ![nxt[t]] = @ \ {level[t] - 1}]
            /\ curr' = curr /\ nxt' = nxt /\ level' = level
        BY <1>0, <2>10, <3>2 DEF HelpUnlink, Goto, LocalTypeOK, locals, walk
      <4>2. level[t] = 1 => nxt[t] # n
        BY <1>0, <2>4, <4>1 DEF MemoryTypeOK
      <4>3. SearchSees(t, n, T)'
        BY <1>0, <1>2, <2>2, <2>3, <2>4, <4>1 DEF SearchSees, BehindOrAhead
      <4> QED BY <1>2, <2>3, <4>1, <4>2, <4>3 DEF Cleaning, SearchLabels
    <3> QED BY <3>1, <3>2
  <2>11. CASE CheckTag(t)
    <3>1. pc[t] = "check" /\ UNCHANGED memory
      BY <2>11 DEF CheckTag
    <3>2. CASE Tag(nxt[t], level[t] - 1) = 0 /\ key[nxt[t]] < call[t].key /\ Advance(t, nxt[t])
      <4>1. pc'[t] = "next" /\ curr'[t] = nxt[t]
        BY <1>0, <2>4, <3>1, <3>2 DEF Advance, Goto, LocalTypeOK
      <4>2. 0 \in linked[nxt[t]]
        BY <1>0, <2>4, <3>1, <3>2, UntaggedInBase DEF HeldAt
      <4>3. nxt[t] \in T
        BY <2>3, <2>4, <3>1, <4>2 DEF Sight, InList, memory
      <4>4. SearchSees(t, n, T)'
        BY <2>3, <4>1, <4>3 DEF SearchSees
      <4> QED BY <1>2, <2>3, <4>1, <4>4 DEF Cleaning, SearchLabels
    <3>3. CASE Tag(nxt[t], level[t] - 1) = 0 /\ key[nxt[t]] >= call[t].key /\ Descend(t, nxt[t])
      <4>1. level[t] # 1
        <5> SUFFICES ASSUME level[t] = 1 PROVE FALSE
          OBVIOUS
        <5>1. BehindOrAhead(curr[t], n, nxt[t]) /\ nxt[t] \in S
          BY <2>2, <3>1 DEF SearchSees
        <5>2. Sees({n}, S, nxt[t])
          BY <2>2, <5>1 DEF SearchSees, Sight
        <5>3. key[nxt[t]] = key[n]
          BY <1>0, <1>2, <2>4, <2>6, <2>7, <3>1, <3>3, <5>1 DEF BehindOrAhead, Before
        <5>4. nxt[t] = n
          BY <1>0, <2>4, <3>1, <5>2, <5>3 DEF Sees
        <5> QED BY <1>2, <3>3, <5>4
      <4>2. pc'[t] = "next" /\ curr'[t] = curr[t]
        BY <1>0, <3>3, <4>1 DEF Descend, Goto, LocalTypeOK
      <4>3. SearchSees(t, n, T)'
        BY <2>3, <2>5, <4>2 DEF SearchSees
      <4> QED BY <1>2, <2>3, <4>2, <4>3 DEF Cleaning, SearchLabels
    <3>4. CASE Goto(t, "help") /\ UNCHANGED <<level, curr, nxt, prev>>
      <4>1. pc'[t] = "help" /\ curr' = curr /\ nxt' = nxt /\ level' = level
        BY <1>0, <3>4 DEF Goto, LocalTypeOK
      <4>2. SearchSees(t, n, T)'
        BY <1>0, <1>2, <2>2, <2>3, <2>4, <3>1, <4>1 DEF SearchSees, BehindOrAhead
      <4> QED BY <1>2, <2>3, <4>1, <4>2 DEF Cleaning, SearchLabels
    <3> QED BY <2>11, <3>2, <3>3, <3>4 DEF CheckTag
  <2> QED BY <2>1, <2>8, <2>9, <2>10, <2>11
<1> QED BY <1>3, <1>4, <1>5 DEF Cleaning

(* The owner of a removal goes on until the node is out of the base level, *)
(* unless it is a pop, which only tags the node.                           *)
LEMMA RemovalGoesOn ==
    ASSUME NEW t \in Thread, CursorInvariant, RemovesItsKey(t), Inv', References',
           ListStep(t) \/ CursorAction(t),
           NEW n \in Node, 0 \in linked[n], 0 \in linked'[n], target[t] = n,
           \/ pc[t] \in {"tag", "unlink"}
           \/ pc[t] = "unlinkSub" /\ down[t] > 0
    PROVE  Removing(t, n)' \/ n \in popped'
<1>0. /\ LocalTypeOK /\ MemoryTypeOK /\ Inv /\ OwnerAt(t) /\ RemovalAt(t) /\ ControlAt(t)
      /\ down[t] \in Level /\ 0 \in Level /\ popped \subseteq Node /\ down[t] \in Int /\ down[t] >= 0
  BY CursorLocals, Locals, ConstantFacts DEF CursorInvariant, CursorTypeOK, Level
<1>1. CASE CursorAction(t)
  <2>1. TagEntry(t)
    BY <1>1 DEF CursorAction, CursorStep, BeginCursor, CursorTag, CursorNext, CursorCheck,
       CursorHelp, CursorSubRef, ClosestFault
  <2>2. Tag(n, down[t]) = 0
    BY <1>0, <2>1 DEF TagEntry, OwnerAt
  <2> QED BY <2>1, <2>2 DEF TagEntry
<1>2. CASE ListStep(t)
  <2>0. TagLevel(t) \/ Unlink(t) \/ UnlinkSubRef(t)
    BY <1>2 DEF ListStep, Step, FindStep, RemoveStep, InsertStep, FindInit, InitLevel, StartSearch, LowerLevel, ReadNext,
       CheckTag, HelpUnlink, HelpSubRef, FinalRead, FinalCheck, LoadHar, CasHar, UnlinkLen, NewNode, CompareMax,
       StoreMax, Count, LinkCheck, LinkRecheck, LinkOwn, LinkAddRef, LinkIn, LinkUndo, LinkEnd, Leave
  <2>1. CASE TagLevel(t)
    <3>1. Tag(n, down[t]) = 0
      BY <1>0, <2>1 DEF TagLevel, OwnerAt
    <3>2. pc'[t] \in {"tag", "unlink"} /\ target'[t] = n
      BY <1>0, <2>1, <3>1 DEF TagLevel, Goto, LocalTypeOK
    <3> QED BY <3>2 DEF Removing
  <2>2. CASE Unlink(t)
    <3>1. CASE pc'[t] = "unlinkSub"
      <4>1. /\ linked' = [linked EXCEPT ![n] = @ \ {down[t]}]
            /\ target' = target /\ down' = down
        BY <1>0, <2>2, <3>1 DEF Unlink, Goto, LocalTypeOK, removal
      <4>2. down[t] # 0
        BY <1>0, <4>1 DEF MemoryTypeOK
      <4> QED BY <1>0, <3>1, <4>1, <4>2 DEF Removing
    <3>2. CASE pc'[t] # "unlinkSub"
      <4>1. pc'[t] = "find" /\ UNCHANGED <<next, key>> /\ call' = call /\ pc[t] = "unlink"
        BY <1>0, <2>2, <3>2 DEF Unlink, Goto, LocalTypeOK, request
      <4>2. call[t].key = key[n]
        BY <4>1 DEF RemovesItsKey, RemoveLabel
      <4>3. Tag(n, 0) = 1
        BY <1>0, <4>1 DEF RemovalAt, ControlAt, Level, MemoryTypeOK, Word
      <4> QED BY <4>1, <4>2, <4>3 DEF Removing, Cleaning, StartLabels, Tag
    <3> QED BY <3>1, <3>2
  <2>3. CASE UnlinkSubRef(t)
    <3>1. har[n].refs # 0
      BY <1>0, <2>3 DEF UnlinkSubRef, WillUnderflow, References, NoPanic, Goto, LocalTypeOK
    <3>2. har[n].refs # 1
      <4>1. har[n].refs = 1 => retired'[n] = retired[n] + 1 /\ retired[n] \in Nat
        BY <1>0, <2>3 DEF UnlinkSubRef, SubRefAndRetire, MemoryTypeOK
      <4> QED BY <4>1 DEF References, RetiredOnceAndOut
    <3>3. pc'[t] = "unlink" /\ target' = target
      BY <1>0, <2>3, <3>1, <3>2 DEF UnlinkSubRef, WillUnderflow, Goto, LocalTypeOK
    <3> QED BY <3>3 DEF Removing
  <2> QED BY <2>0, <2>1, <2>2, <2>3
<1> QED BY <1>1, <1>2

(* Whoever removes a node of the base level begins to take it out.         *)
LEMMA RemovalBegins ==
    ASSUME CursorInvariant, NEW t \in Thread, Begin(t) \/ ListStep(t) \/ CursorAction(t),
           NEW n \in Node, har'[n].removed, 0 \in linked'[n]
    PROVE  \/ har[n].removed /\ 0 \in linked[n]
           \/ Removing(t, n)'
<1>0. /\ LocalTypeOK /\ MemoryTypeOK /\ Inv /\ Shape /\ LinkingAt(t) /\ 0 \in Level
      /\ \A l \in Level : linked[n] \subseteq Level
  BY CursorLocals DEF MemoryTypeOK
<1>1. CASE CursorAction(t)
  BY <1>1, CursorFrame, CursorReached
<1>2. CASE Begin(t) \/ ListStep(t)
  <2>0. Begin(t) \/ Step(t)
    BY <1>2 DEF ListStep
  <2>1. CASE ~har[n].removed
    <3>1. CasHar(t) /\ n = target[t]
      BY <1>0, <2>0, <2>1, WordKept
    <3>2. pc'[t] = "tag" /\ target' = target
      BY <1>0, <2>1, <3>1 DEF CasHar, GiveUp, Goto, LocalTypeOK
    <3> QED BY <3>1, <3>2 DEF Removing
  <2>2. CASE har[n].removed /\ 0 \notin linked[n]
    <3>1. ~\E p \in Tower, o \in Node, i \in Level : TakesOut(p, o, i)
      BY <2>2 DEF TakesOut
    <3>2. PICK p \in Tower, i \in Level : PutsIn(t, p, i)
      BY <1>0, <2>0, <2>2, <3>1, ChainStep
    <3>3. n = New(t) /\ up[t] = 0 /\ pc[t] = "linkIn"
      <4>1. LinkIn(t) /\ i = up[t] /\ linked'[n] = IF n = New(t) THEN linked[n] \cup {i} ELSE linked[n]
        BY <3>2 DEF PutsIn
      <4> QED BY <2>2, <4>1 DEF LinkIn
    <3> QED BY <1>0, <2>2, <3>3 DEF LinkingAt, Linking, LinkLabel
  <2> QED BY <2>1, <2>2
<1> QED BY <1>1, <1>2

(* Every removal goes on in every step.                                    *)
LEMMA RemovalsGoOnStep ==
    ASSUME CursorInvariant, CompletionInvariant, CursorInvariant', NEW t \in Thread,
           \/ (Begin(t) \/ ListStep(t)) /\ UNCHANGED cursor
           \/ CursorAction(t)
    PROVE  RemovalsGoOn'
<1>0. /\ LocalTypeOK /\ Inv' /\ Shape' /\ Order' /\ References' /\ NoPanic' /\ popped \subseteq popped'
      /\ Begin(t) \/ Step(t) \/ CursorAction(t)
      /\ TagsFromTop /\ RemovesItsKey(t)
  <2>1. popped \subseteq popped'
    BY DEF cursor, CursorAction, CursorStep, BeginCursor, CursorTag, CursorNext, CursorCheck,
       CursorHelp, CursorSubRef, ClosestFault, TagEntry
  <2> QED BY <2>1, CursorLocals DEF CursorInvariant, CompletionInvariant, ListStep, References
<1>1. SightFrame
  BY <1>0, ListSightFrame, CursorSightFrame DEF ListStep
<1>2. ASSUME NEW n \in Node, (har[n].removed /\ 0 \in linked[n])', har[n].removed, 0 \in linked[n]
      PROVE  n \in popped' \/ \E u \in Thread : Removing(u, n)'
  <2>1. CASE n \in popped
    BY <1>0, <2>1
  <2>2. CASE n \notin popped
    <3>1. PICK u \in Thread : Removing(u, n)
      BY <1>2, <2>2 DEF CompletionInvariant, RemovalsGoOn
    <3>2. CASE u # t
      <4>1. /\ pc'[u] = pc[u] /\ call'[u] = call[u] /\ level'[u] = level[u] /\ curr'[u] = curr[u]
            /\ nxt'[u] = nxt[u] /\ target'[u] = target[u] /\ down'[u] = down[u]
        BY <1>0, <3>2, OthersKept, CursorOthers DEF ListStep
      <4> QED BY <1>0, <1>1, <1>2, <3>1, <4>1, OthersRemoving
    <3>3. CASE u = t /\ Cleaning(t, n)
      <4>1. Step(t)
        BY <3>3 DEF Cleaning, StartLabels, SearchLabels, CursorAction, CursorStep, BeginCursor, CursorTag, CursorNext,
           CursorCheck, CursorHelp, CursorSubRef, ClosestFault, TagEntry, Begin, ListStep
      <4>2. Cleaning(t, n)'
        BY <1>0, <1>2, <3>3, <4>1, CleaningGoesOn
      <4> QED BY <4>2 DEF Removing
    <3>4. CASE u = t /\ ~Cleaning(t, n)
      <4>1. target[t] = n /\ \/ pc[t] \in {"tag", "unlink"}
                             \/ pc[t] = "unlinkSub" /\ down[t] > 0
        BY <3>1, <3>4 DEF Removing
      <4>2. ListStep(t) \/ CursorAction(t)
        BY <4>1 DEF Begin
      <4> QED BY <1>0, <1>2, <4>1, <4>2, RemovalGoesOn
    <3> QED BY <3>2, <3>3, <3>4
  <2> QED BY <2>1, <2>2
<1>3. ASSUME NEW n \in Node, (har[n].removed /\ 0 \in linked[n])'
      PROVE  n \in popped' \/ \E u \in Thread : Removing(u, n)'
  BY <1>2, <1>3, RemovalBegins
<1> QED BY <1>3 DEF RemovalsGoOn

(* At the start nothing is linked, tagged, or removed.                     *)
LEMMA CompletionInit == CursorInit => CompletionInvariant
<1> SUFFICES ASSUME CursorInit PROVE CompletionInvariant
  OBVIOUS
<1>1. TagsFromTop
  BY ConstantFacts DEF CursorInit, Init, MemoryInit, TagsFromTop, Tag
<1>2. \A t \in Thread : RemovesItsKey(t)
  BY DEF CursorInit, Init, LocalInit, RemovesItsKey, RemoveLabel
<1>3. RemovalsGoOn
  BY DEF CursorInit, Init, MemoryInit, RemovalsGoOn
<1> QED BY <1>1, <1>2, <1>3 DEF CompletionInvariant

(* Every step of a call keeps it that every removal goes on.               *)
LEMMA CompletionStep ==
    ASSUME CursorInvariant, CompletionInvariant, CursorInvariant', [CursorNextState]_cursorVars
    PROVE  CompletionInvariant'
<1>1. CASE UNCHANGED cursorVars
  <2>1. UNCHANGED vars /\ UNCHANGED cursor
    BY <1>1 DEF cursorVars
  <2> QED BY <2>1 DEF CompletionInvariant, TagsFromTop, RemovesItsKey, RemovalsGoOn, Removing, Cleaning,
      SearchSees, Sight, Sees, BaseTowers, BehindOrAhead, InList, ReachedTo, Reached, Ptr, Tag, vars,
      memory, locals, request, walk, removal, cursor
<1>2. ASSUME NEW t \in Thread, \/ (Begin(t) \/ ListStep(t)) /\ UNCHANGED cursor
                            \/ CursorAction(t)
      PROVE  CompletionInvariant'
  <2>1. /\ LocalTypeOK /\ Inv
        /\ Begin(t) \/ Step(t) \/ CursorAction(t)
        /\ TagsFromTop
        /\ \A u \in Thread : RemovesItsKey(u)
    BY <1>2, CursorLocals DEF CompletionInvariant, ListStep
  <2>2. SightFrame
    BY <2>1, ListSightFrame, CursorSightFrame
  <2>3. ASSUME NEW u \in Thread PROVE RemovesItsKey(u)'
    <3>1. CASE u = t
      BY <1>2, <2>1, <2>2, <3>1, RemovesItsKeyStep
    <3>2. CASE u # t
      <4>1. pc'[u] = pc[u] /\ ret'[u] = ret[u] /\ target'[u] = target[u] /\ call'[u] = call[u]
        BY <2>1, <3>2, OthersKept, CursorOthers
      <4> QED BY <2>1, <2>2, <4>1, RemovesItsKeyOthers
    <3> QED BY <3>1, <3>2
  <2>4. TagsFromTop'
    BY <1>2, <2>1, TagsFromTopStep
  <2>5. RemovalsGoOn'
    BY <1>2, RemovalsGoOnStep
  <2> QED BY <2>3, <2>4, <2>5 DEF CompletionInvariant
<1> QED BY <1>1, <1>2 DEF CursorNextState, CursorsTerminating, ListStep, CursorAction

(* RemovalsGoOn, of all the calls of the list, its cursors and its queues: *)
(* a removed node is in the base level only while a thread that will not   *)
(* return before it is out still runs, unless it was popped.               *)
THEOREM RemovalsAreFinished == CursorSpec => []RemovalsGoOn
<1>1. CursorInit => CursorInvariant /\ CompletionInvariant
  BY CursorsInit, CompletionInit
<1>2. CursorInvariant /\ CompletionInvariant /\ [CursorNextState]_cursorVars
      => (CursorInvariant /\ CompletionInvariant)'
  BY CursorsStep, CompletionStep
<1>3. CursorInvariant /\ CompletionInvariant => RemovalsGoOn
  BY DEF CompletionInvariant
<1> QED BY <1>1, <1>2, <1>3, PTL DEF CursorSpec

=============================================================================
