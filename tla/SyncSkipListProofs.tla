--------------------------- MODULE SyncSkipListProofs ---------------------------
(***************************************************************************)
(* The invariant of SyncSkipListInv.tla is inductive, and what follows     *)
(* from it: type correctness, that tags freeze a level, and that only      *)
(* removed and tagged nodes are unlinked.  The proofs go one part of the   *)
(* invariant at a time: types, pointers, control, tags, removals.          *)
(***************************************************************************)
EXTENDS SyncSkipListInv, TLAPS

-----------------------------------------------------------------------------
(* Types *)

(* What the assumptions say of the heights, the head and the null pointer. *)
LEMMA ConstantFacts ==
    /\ HEIGHT \in Nat /\ HEIGHT > 0
    /\ Null \notin Tower /\ Null \notin Node /\ head \notin Node
    /\ head \in Tower /\ Node \subseteq Tower /\ Tower = Node \cup {head}
    /\ Null \in NodeOrNull /\ Node \subseteq NodeOrNull
    /\ NodeOrNull = Node \cup {Null}
BY MemoryAssumption DEF Tower, NodeOrNull

(* What the invariant lets a thread use as a node or as a level, by label. *)
LEMMA Locals ==
    ASSUME Inv, NEW t \in Thread
    PROVE  /\ pc[t] = "init" => level[t] \in Level /\ level[t] + 1 \in 0 .. HEIGHT
           /\ pc[t] \in {"lower", "next", "check", "help", "helpSub"} =>
                  level[t] - 1 \in Level
           /\ pc[t] \in {"check", "help", "helpSub", "finalCheck"} \cup AheadLabel =>
                  nxt[t] \in Node
           /\ pc[t] \in RemoveLabel => target[t] \in Node
           /\ pc[t] \in {"tag", "unlink", "unlinkSub"} => down[t] \in Level
           /\ pc[t] # "idle" => New(t) \in Node
           /\ pc[t] \in BuildLabel \cup LinkLabel => har[New(t)].height \in 1 .. HEIGHT
           /\ pc[t] \in {"recheck", "linkOwn", "addRef", "linkIn", "undo"} => up[t] \in Level
<1> USE ConstantFacts
<1>1. Control /\ LocalTypeOK /\ MemoryTypeOK
  BY DEF Inv, TypeOK
<1>2. level[t] \in 0 .. HEIGHT /\ down[t] \in 0 .. HEIGHT /\ up[t] \in 0 .. HEIGHT
      /\ nxt[t] \in NodeOrNull /\ target[t] \in NodeOrNull /\ calls[t] \in 0 .. MaxCalls
  BY <1>1 DEF LocalTypeOK
<1>3. \A n \in Node : har[n].height \in 0 .. HEIGHT
  BY <1>1 DEF MemoryTypeOK, Word
<1>4. pc[t] \in {"lower", "next", "check", "help", "helpSub"} => level[t] - 1 \in Level
  BY <1>1, <1>2 DEF Control, ControlAt, Level
<1>12. pc[t] = "init" => level[t] \in Level /\ level[t] + 1 \in 0 .. HEIGHT
  BY <1>1, <1>2 DEF Control, ControlAt, Level
<1>5. pc[t] \in {"check", "help", "helpSub", "finalCheck"} \cup AheadLabel => nxt[t] \in Node
  BY <1>1, <1>2 DEF Control, ControlAt
<1>6. pc[t] \in RemoveLabel => target[t] \in Node
  BY <1>1, <1>2 DEF Control, ControlAt
<1>7. pc[t] \in {"tag", "unlink", "unlinkSub"} => down[t] \in Level
  BY <1>1, <1>2, <1>3, <1>6 DEF Control, ControlAt, Level, RemoveLabel
<1>8. pc[t] # "idle" => New(t) \in Node
  BY <1>1, <1>2, MemoryAssumption DEF Control, ControlAt, New, Node
<1>9. pc[t] \in BuildLabel \cup LinkLabel => New(t) \in Allocated
  BY <1>1 DEF Control, ControlAt, Linking
<1>10. pc[t] \in BuildLabel \cup LinkLabel => har[New(t)].height \in 1 .. HEIGHT
  BY <1>3, <1>9 DEF Allocated
<1>11. pc[t] \in {"recheck", "linkOwn", "addRef", "linkIn", "undo"} => up[t] \in Level
  BY <1>1, <1>2, <1>10 DEF Control, ControlAt, LinkLabel, Level
<1> QED BY <1>4, <1>5, <1>6, <1>7, <1>8, <1>10, <1>11, <1>12

(* Every level of every tower holds a tagged pointer to a node, or null.   *)
LEMMA PtrType ==
    ASSUME MemoryTypeOK, NEW m \in Tower, NEW l \in Level
    PROVE  /\ Ptr(m, l) \in NodeOrNull
           /\ next[m][l] \in MaybeTagged
BY DEF MemoryTypeOK, MaybeTagged, Ptr

(* A compare-exchange of a level keeps the type of the towers.             *)
LEMMA ExchangeType ==
    ASSUME MemoryTypeOK, NEW m \in Tower, NEW l \in Level, NEW n \in NodeOrNull,
           Exchange(m, l, n)
    PROVE  next' \in [Tower -> [Level -> MaybeTagged]]
<1>1. [ptr |-> n, tag |-> 0] \in MaybeTagged
  BY DEF MaybeTagged
<1> QED BY <1>1 DEF MemoryTypeOK, Exchange

(* Tagging a level keeps the type of the towers.                           *)
LEMMA SetTagType ==
    ASSUME MemoryTypeOK, NEW n \in Node, NEW l \in Level, SetTag(n, l)
    PROVE  next' \in [Tower -> [Level -> MaybeTagged]]
<1>1. n \in Tower
  BY ConstantFacts
<1>2. [next[n][l] EXCEPT !.tag = 1] \in MaybeTagged
  BY <1>1, PtrType DEF MaybeTagged
<1> QED BY <1>1, <1>2 DEF MemoryTypeOK, SetTag

(* Every operation on height_and_removed keeps the type of the word.       *)
LEMMA WordType ==
    ASSUME MemoryTypeOK, NEW n \in Node,
           \/ AddRef(n) \/ SubRef(n) \/ SubRefAndRetire(n) \/ SetRemoved(n)
    PROVE  har' \in [Node -> Word]
<1>1. har[n] \in Word /\ har[n].refs \in Int
  BY DEF MemoryTypeOK, Word
<1>2. /\ [har[n] EXCEPT !.refs = @ + 1] \in Word
      /\ [har[n] EXCEPT !.refs = @ - 1] \in Word
      /\ [har[n] EXCEPT !.refs = 0] \in Word
  BY <1>1 DEF Word
<1>7. [har[n] EXCEPT !.removed = TRUE] \in Word
  BY <1>1 DEF Word
<1>3. CASE AddRef(n)
  BY <1>1, <1>2, <1>3 DEF AddRef, MemoryTypeOK
<1>4. CASE SubRef(n)
  BY <1>1, <1>2, <1>4 DEF SubRef, MemoryTypeOK
<1>5. CASE SubRefAndRetire(n)
  <2>1. CASE har[n].refs = 0
    BY <1>2, <1>5, <2>1 DEF SubRefAndRetire, MemoryTypeOK
  <2>2. CASE har[n].refs # 0
    BY <1>2, <1>5, <2>2 DEF SubRefAndRetire, MemoryTypeOK
  <2> QED BY <2>1, <2>2
<1>6. CASE SetRemoved(n)
  BY <1>7, <1>6 DEF SetRemoved, MemoryTypeOK
<1> QED BY <1>3, <1>4, <1>5, <1>6

(* Every step keeps the types of the shared memory.                        *)
LEMMA MemoryTypeStep ==
    ASSUME Inv, NEW t \in Thread, Begin(t) \/ Step(t)
    PROVE  MemoryTypeOK'
<1> USE ConstantFacts DEF MemoryTypeOK, memory
<1> MemoryTypeOK /\ LocalTypeOK
  BY DEF Inv, TypeOK
<1>1. CASE UNCHANGED memory
  BY <1>1
<1>3. ASSUME NEW n \in Node, UNCHANGED <<next, key, len, maxHeight, linked>>,
             SubRefAndRetire(n)
      PROVE  MemoryTypeOK'
  <2>1. har' \in [Node -> Word]
    BY <1>3, WordType
  <2>2. retired' \in [Node -> Nat]
    BY <1>3 DEF SubRefAndRetire
  <2> QED BY <1>3, <2>1, <2>2
<1>4. ASSUME NEW n \in Node, AddRef(n) \/ SubRef(n) \/ SetRemoved(n)
      PROVE  har' \in [Node -> Word]
  BY <1>4, WordType
<1>5. CASE HelpUnlink(t)
  <2>1. curr[t] \in Tower /\ nxt[t] \in Node /\ level[t] - 1 \in Level
    BY <1>5, Locals DEF HelpUnlink, LocalTypeOK
  <2>2. Ptr(nxt[t], level[t] - 1) \in NodeOrNull
    BY <2>1, PtrType
  <2>3. next' \in [Tower -> [Level -> MaybeTagged]]
    BY <1>5, <2>1, <2>2, ExchangeType DEF HelpUnlink
  <2>4. linked' \in [Node -> SUBSET Level]
    BY <1>5, <2>1 DEF HelpUnlink
  <2> QED BY <1>5, <2>3, <2>4 DEF HelpUnlink
<1>6. CASE HelpSubRef(t)
  BY <1>3, <1>6, Locals DEF HelpSubRef
<1>7. CASE CasHar(t)
  BY <1>4, <1>7, Locals DEF CasHar, RemoveLabel
<1>8. CASE TagLevel(t)
  <2>1. target[t] \in Node /\ down[t] \in Level
    BY <1>8, Locals DEF TagLevel, RemoveLabel
  <2>2. SetTag(target[t], down[t]) => next' \in [Tower -> [Level -> MaybeTagged]]
    BY <2>1, SetTagType
  <2> QED BY <1>8, <2>2 DEF TagLevel
<1>9. CASE Unlink(t)
  <2>1. target[t] \in Node /\ down[t] \in Level
    BY <1>9, Locals DEF Unlink, RemoveLabel
  <2>2. prev[t][down[t]].node \in Tower
    BY <2>1 DEF LocalTypeOK
  <2>3. Ptr(target[t], down[t]) \in NodeOrNull
    BY <2>1, PtrType
  <2>4. next' \in [Tower -> [Level -> MaybeTagged]]
    BY <1>9, <2>1, <2>2, <2>3, ExchangeType DEF Unlink
  <2>5. linked' \in [Node -> SUBSET Level]
    BY <1>9, <2>1 DEF Unlink
  <2> QED BY <1>9, <2>4, <2>5 DEF Unlink
<1>10. CASE UnlinkSubRef(t)
  BY <1>3, <1>10, Locals DEF UnlinkSubRef, RemoveLabel
<1>11. CASE UnlinkLen(t)
  BY <1>11 DEF UnlinkLen
<1>12. CASE NewNode(t)
  <2>1. New(t) \in Node /\ call[t].key \in Key
    BY <1>12, Locals DEF NewNode, LocalTypeOK, Request
  <2> QED BY <1>12, <2>1 DEF NewNode, Word
<1>13. CASE StoreMax(t)
  BY <1>13, Locals DEF StoreMax, BuildLabel
<1>14. CASE Count(t)
  BY <1>14 DEF Count
<1>15. CASE LinkOwn(t)
  <2>1. New(t) \in Node /\ up[t] \in Level
    BY <1>15, Locals DEF LinkOwn
  <2>2. prev[t][up[t]].next \in NodeOrNull
    BY <2>1 DEF LocalTypeOK
  <2>3. next' \in [Tower -> [Level -> MaybeTagged]]
    BY <1>15, <2>1, <2>2, ExchangeType DEF LinkOwn
  <2> QED BY <1>15, <2>3 DEF LinkOwn
<1>16. CASE LinkAddRef(t)
  BY <1>4, <1>16, Locals DEF LinkAddRef
<1>17. CASE LinkIn(t)
  <2>1. New(t) \in Node /\ up[t] \in Level
    BY <1>17, Locals DEF LinkIn
  <2>2. prev[t][up[t]].node \in Tower
    BY <2>1 DEF LocalTypeOK
  <2>3. next' \in [Tower -> [Level -> MaybeTagged]]
    BY <1>17, <2>1, <2>2, ExchangeType DEF LinkIn
  <2>4. linked' \in [Node -> SUBSET Level]
    BY <1>17, <2>1 DEF LinkIn
  <2> QED BY <1>17, <2>3, <2>4 DEF LinkIn
<1>18. CASE LinkUndo(t)
  BY <1>4, <1>18, Locals DEF LinkUndo
<1>19. CASE \/ Begin(t) \/ Leave(t) \/ FindInit(t) \/ InitLevel(t) \/ StartSearch(t)
            \/ LowerLevel(t) \/ ReadNext(t) \/ CheckTag(t) \/ FinalRead(t)
            \/ FinalCheck(t) \/ LoadHar(t) \/ CompareMax(t) \/ LinkCheck(t)
            \/ LinkRecheck(t) \/ LinkEnd(t)
  BY <1>1, <1>19 DEF Begin, Leave, FindInit, InitLevel, StartSearch, LowerLevel, ReadNext,
       CheckTag, FinalRead, FinalCheck, LoadHar, CompareMax, LinkCheck, LinkRecheck, LinkEnd
<1> QED
  BY <1>5, <1>6, <1>7, <1>8, <1>9, <1>10, <1>11, <1>12, <1>13, <1>14, <1>15,
     <1>16, <1>17, <1>18, <1>19 DEF Step, FindStep, RemoveStep, InsertStep

(* Scripts consist of calls.                                               *)
LEMMA ScriptedCalls ==
    ASSUME NEW t \in Thread, NEW c \in 1 .. MaxCalls
    PROVE  Script[t][c] \subseteq Call
<1>1. Script[t] \in [1 .. MaxCalls -> SUBSET Call]
  BY ScriptAssumption
<1> QED BY <1>1

(* The level below a level other than 0 is a level.                        *)
LEMMA LevelBelow ==
    ASSUME NEW l \in 0 .. HEIGHT, l # 0
    PROVE  l - 1 \in 0 .. HEIGHT
BY ConstantFacts

(* Every step keeps the types of the local variables of the threads.       *)
LEMMA LocalTypeStep ==
    ASSUME Inv, NEW t \in Thread, Begin(t) \/ Step(t)
    PROVE  LocalTypeOK'
<1> USE DEF LocalTypeOK, request, walk, removal, locals, Goto
<1> LocalTypeOK /\ MemoryTypeOK
  BY DEF Inv, TypeOK
<1>1. /\ Null \in NodeOrNull /\ head \in Tower /\ Node \subseteq Tower
      /\ NodeOrNull = Node \cup {Null}
      /\ 0 \in 0 .. HEIGHT /\ HEIGHT \in Nat
  BY ConstantFacts
<1>2. ASSUME NEW n \in NodeOrNull, Descend(t, n), level[t] - 1 \in Level
      PROVE  /\ prev' \in [Thread -> [Level -> [node : Tower, next : NodeOrNull]]]
             /\ level' \in [Thread -> 0 .. HEIGHT]
             /\ curr' \in [Thread -> Tower]
             /\ nxt' \in [Thread -> NodeOrNull]
             /\ pc' \in [Thread -> Label]
  <2>1. level[t] - 1 \in 0 .. HEIGHT
    BY <1>1, <1>2 DEF Level
  <2>2. [node |-> curr[t], next |-> n] \in [node : Tower, next : NodeOrNull]
    BY <1>2
  <2> QED BY <1>1, <1>2, <2>1, <2>2 DEF Descend, Label, FindLabel
<1>3. ASSUME NEW n \in NodeOrNull, Consider(t, n), level[t] - 1 \in Level
      PROVE  /\ prev' \in [Thread -> [Level -> [node : Tower, next : NodeOrNull]]]
             /\ level' \in [Thread -> 0 .. HEIGHT]
             /\ curr' \in [Thread -> Tower]
             /\ nxt' \in [Thread -> NodeOrNull]
             /\ pc' \in [Thread -> Label]
  <2>1. CASE Descend(t, n)
    BY <1>2, <1>3, <2>1
  <2>2. CASE ~Descend(t, n)
    <3>1. /\ nxt' = [nxt EXCEPT ![t] = n]
          /\ pc' = [pc EXCEPT ![t] = "check"]
          /\ UNCHANGED <<level, curr, prev>>
      BY ONLY <1>3, <2>2 DEF Consider, Goto
    <3>2. nxt' \in [Thread -> NodeOrNull]
      BY <3>1
    <3>3. pc' \in [Thread -> Label]
      BY <3>1 DEF Label, FindLabel
    <3> QED BY <3>1, <3>2, <3>3
  <2> QED BY <2>1, <2>2
<1>4. ASSUME NEW n \in NodeOrNull, Return(t, n)
      PROVE  /\ target' \in [Thread -> NodeOrNull]
             /\ result' \in [Thread -> NodeOrNull]
             /\ nxt' \in [Thread -> NodeOrNull]
             /\ before' \in [Thread -> SUBSET Node]
             /\ pc' \in [Thread -> Label]
  <2>1. Resume(t, n) \in Label
    BY DEF Resume, Label
  <2> QED BY <1>1, <1>4, <2>1 DEF Return
<1>5. CASE Begin(t)
  <2>1. calls[t] + 1 \in 1 .. MaxCalls /\ calls[t] + 1 \in 0 .. MaxCalls
    BY <1>5, MemoryAssumption DEF Begin, HasCall
  <2>2. Script[t][calls[t] + 1] \subseteq Call
    BY <2>1, ScriptedCalls
  <2>3. PICK c \in Script[t][calls[t] + 1] :
            /\ call' = [call EXCEPT ![t] = c]
            /\ ret' = [ret EXCEPT ![t] = c.op]
            /\ Goto(t, IF c.op = "get" /\ len < 1 THEN "return" ELSE "find")
    BY <1>5 DEF Begin
  <2>4. c \in Request /\ c.op \in Use
    BY <2>2, <2>3 DEF Call, Request, Use
  <2>5. pc' \in [Thread -> Label]
    BY <2>3 DEF Label, FindLabel
  <2>6. call' \in [Thread -> Request] /\ ret' \in [Thread -> Use]
    BY <2>3, <2>4
  <2>7. calls' \in [Thread -> 0 .. MaxCalls] /\ result' \in [Thread -> NodeOrNull]
    BY <1>1, <1>5, <2>1 DEF Begin
  <2> QED BY <1>5, <2>5, <2>6, <2>7 DEF Begin
<1>6. CASE Leave(t)
  BY <1>1, <1>6 DEF Leave, NoPrev, Label
<1>7. CASE FindInit(t)
  <2>1. \A l \in Level : Ptr(head, l) \in NodeOrNull
    BY <1>1, PtrType
  <2>2. prev' \in [Thread -> [Level -> [node : Tower, next : NodeOrNull]]]
    BY <1>1, <1>7, <2>1 DEF FindInit
  <2>3. before' \in [Thread -> SUBSET Node]
    BY <1>7 DEF FindInit, Live
  <2>4. 1 \in 0 .. HEIGHT
    BY ConstantFacts
  <2> QED BY <1>7, <2>2, <2>3, <2>4 DEF FindInit, Label, FindLabel
<1>32. CASE InitLevel(t)
  <2>1. level[t] \in Level /\ level[t] + 1 \in 0 .. HEIGHT
    BY <1>32, Locals DEF InitLevel
  <2>2. Ptr(head, level[t]) \in NodeOrNull
    BY <1>1, <2>1, PtrType
  <2>5. prev[t][level[t]] \in [node : Tower, next : NodeOrNull]
    BY <2>1
  <2>3. [prev[t][level[t]] EXCEPT !.next = Ptr(head, level[t])]
            \in [node : Tower, next : NodeOrNull]
    BY <2>2, <2>5
  <2>4. prev' \in [Thread -> [Level -> [node : Tower, next : NodeOrNull]]]
    BY <1>32, <2>1, <2>3 DEF InitLevel
  <2> QED BY <1>32, <2>1, <2>4 DEF InitLevel, Label, FindLabel
<1>8. CASE StartSearch(t)
  <2>1. maxHeight \in 0 .. HEIGHT
    BY <1>1 DEF MemoryTypeOK
  <2> QED BY <1>1, <1>8, <2>1 DEF StartSearch, Label, FindLabel
<1>33. CASE LowerLevel(t)
  <2>1. level[t] - 1 \in 0 .. HEIGHT
    BY <1>1, <1>33, Locals DEF LowerLevel, Level
  <2>2. level' \in [Thread -> 0 .. HEIGHT]
    BY <1>33, <2>1 DEF LowerLevel
  <2>3. pc' \in [Thread -> Label]
    BY <1>33 DEF LowerLevel, Label, FindLabel
  <2> QED BY <1>33, <2>2, <2>3 DEF LowerLevel
<1>9. CASE ReadNext(t)
  <2>1. level[t] - 1 \in Level
    BY <1>9, Locals DEF ReadNext
  <2>2. Ptr(curr[t], level[t] - 1) \in NodeOrNull
    BY <2>1, PtrType
  <2> QED BY <1>3, <1>9, <2>1, <2>2 DEF ReadNext
<1>10. CASE CheckTag(t)
  <2>1. level[t] - 1 \in Level /\ nxt[t] \in Node /\ nxt[t] \in Tower /\ nxt[t] \in NodeOrNull
    BY <1>1, <1>10, Locals DEF CheckTag
  <2>2. CASE Advance(t, nxt[t])
    <3>1. [node |-> curr[t], next |-> nxt[t]] \in [node : Tower, next : NodeOrNull]
      BY <2>1
    <3> QED BY <1>1, <1>10, <2>1, <2>2, <3>1 DEF CheckTag, Advance, Label, FindLabel
  <2>3. CASE Descend(t, nxt[t])
    BY <1>2, <1>10, <2>1, <2>3 DEF CheckTag
  <2>4. CASE Goto(t, "help") /\ UNCHANGED <<level, curr, nxt, prev>>
    BY <1>10, <2>4 DEF CheckTag, Label, FindLabel
  <2> QED BY <1>10, <2>2, <2>3, <2>4 DEF CheckTag
<1>11. CASE HelpUnlink(t)
  BY <1>11 DEF HelpUnlink, Label, FindLabel
<1>12. CASE HelpSubRef(t)
  <2>1. level[t] - 1 \in Level /\ nxt[t] \in Tower
    BY <1>1, <1>12, Locals DEF HelpSubRef
  <2>2. Ptr(nxt[t], level[t] - 1) \in NodeOrNull
    BY <2>1, PtrType
  <2>3. CASE Consider(t, Ptr(nxt[t], level[t] - 1))
    BY <1>3, <1>12, <2>1, <2>2, <2>3 DEF HelpSubRef
  <2>4. CASE WillUnderflow(nxt[t])
    BY <1>12, <2>4 DEF HelpSubRef, Label
  <2> QED BY <1>12, <2>3, <2>4 DEF HelpSubRef
<1>13. CASE FinalRead(t)
  <2>1. 0 \in Level
    BY <1>1, ConstantFacts DEF Level
  <2>2. Ptr(prev[t][0].node, 0) \in NodeOrNull
    BY <2>1, PtrType
  <2>3. CASE Return(t, Null)
    BY <1>1, <1>4, <1>13, <2>3 DEF FinalRead
  <2>4. CASE /\ nxt' = [nxt EXCEPT ![t] = Ptr(prev[t][0].node, 0)]
             /\ Goto(t, "finalCheck")
             /\ UNCHANGED <<target, result, before>>
    BY <1>13, <2>2, <2>4 DEF FinalRead, Label, FindLabel
  <2> QED BY <1>13, <2>3, <2>4 DEF FinalRead
<1>14. CASE FinalCheck(t)
  <2>1. (IF har[nxt[t]].removed THEN Null ELSE nxt[t]) \in NodeOrNull
    BY <1>1
  <2> QED BY <1>4, <1>14, <2>1 DEF FinalCheck
<1>15. ASSUME GiveUp(t)
       PROVE  pc' \in [Thread -> Label]
  BY <1>15 DEF GiveUp, Label
<1>16. CASE LoadHar(t)
  <2>1. har[target[t]].refs \in Int
    BY <1>16, Locals DEF LoadHar, RemoveLabel, MemoryTypeOK, Word
  <2> QED BY <1>15, <1>16, <2>1 DEF LoadHar, Label
<1>17. CASE CasHar(t)
  <2>1. target[t] \in Node /\ target[t] \in NodeOrNull
    BY <1>1, <1>17, Locals DEF CasHar, RemoveLabel
  <2>2. har[target[t]].height - 1 \in 0 .. HEIGHT
    <3>1. target[t] \in Allocated
      BY <2>1, ConstantFacts DEF Inv, PointersAllocated
    <3>2. har[target[t]].height \in 1 .. HEIGHT
      BY <3>1 DEF Allocated, MemoryTypeOK, Word
    <3> QED BY <1>1, <3>2
  <2>3. pc' \in [Thread -> Label]
    BY <1>15, <1>17 DEF CasHar, Label
  <2>4. down' \in [Thread -> 0 .. HEIGHT] /\ result' \in [Thread -> NodeOrNull]
    <3>1. \/ /\ down' = [down EXCEPT ![t] = har[target[t]].height - 1]
             /\ result' = [result EXCEPT ![t] = target[t]]
          \/ UNCHANGED <<down, result>>
      BY <1>17 DEF CasHar
    <3> QED BY <2>1, <2>2, <3>1
  <2>5. seen' \in [Thread -> Int]
    BY <1>17 DEF CasHar
  <2>6. UNCHANGED <<request, ret, walk, target, up>>
    BY <1>17 DEF CasHar
  <2> QED BY <2>3, <2>4, <2>5, <2>6
<1>18. CASE TagLevel(t)
  <2>1. target[t] \in Node /\ down[t] \in Level
    BY <1>18, Locals DEF TagLevel, RemoveLabel
  <2>2. har[target[t]].height - 1 \in 0 .. HEIGHT
    <3>1. target[t] \in Allocated
      BY <2>1, ConstantFacts DEF Inv, PointersAllocated
    <3>2. har[target[t]].height \in 1 .. HEIGHT
      BY <3>1 DEF Allocated, MemoryTypeOK, Word
    <3> QED BY <1>1, <3>2
  <2>3. down[t] # 0 => down[t] - 1 \in 0 .. HEIGHT
    BY LevelBelow
  <2>4. pc' \in [Thread -> Label]
    BY <1>15, <1>18 DEF TagLevel, Label
  <2>5. down' \in [Thread -> 0 .. HEIGHT]
    BY <1>18, <2>2, <2>3 DEF TagLevel
  <2> QED BY <1>18, <2>4, <2>5 DEF TagLevel
<1>19. CASE Unlink(t)
  BY <1>19 DEF Unlink, Label, FindLabel, Use
<1>20. CASE UnlinkSubRef(t)
  <2>1. down[t] # 0 => down[t] - 1 \in 0 .. HEIGHT
    BY LevelBelow
  <2>2. down' \in [Thread -> 0 .. HEIGHT]
    BY <1>1, <1>20, <2>1 DEF UnlinkSubRef
  <2> QED BY <1>20, <2>2 DEF UnlinkSubRef, Label
<1>21. CASE UnlinkLen(t)
  BY <1>21 DEF UnlinkLen, Label, FindLabel
<1>22. CASE NewNode(t)
  BY <1>22 DEF NewNode, Label
<1>34. CASE CompareMax(t)
  BY <1>34 DEF CompareMax, Label
<1>23. CASE StoreMax(t)
  BY <1>23 DEF StoreMax, Label
<1>24. CASE Count(t)
  BY <1>1, <1>24 DEF Count, Label
<1>25. CASE LinkCheck(t)
  BY <1>25 DEF LinkCheck, Label
<1>26. CASE LinkRecheck(t)
  BY <1>26 DEF LinkRecheck, Label
<1>27. CASE LinkOwn(t)
  BY <1>27 DEF LinkOwn, Relink, Label, FindLabel, Use
<1>28. CASE LinkAddRef(t)
  BY <1>28 DEF LinkAddRef, Label
<1>29. CASE LinkIn(t)
  <2>1. up[t] + 1 \in 0 .. HEIGHT
    BY <1>1, <1>29, Locals DEF LinkIn, Level
  <2>2. up' \in [Thread -> 0 .. HEIGHT]
    BY <1>29, <2>1 DEF LinkIn
  <2>3. pc' \in [Thread -> Label]
    BY <1>29 DEF LinkIn, Label
  <2> QED BY <1>29, <2>2, <2>3 DEF LinkIn
<1>30. CASE LinkUndo(t)
  BY <1>30 DEF LinkUndo, Relink, Label, FindLabel, Use
<1>31. CASE LinkEnd(t)
  BY <1>31 DEF LinkEnd, Label, FindLabel, Use
<1> QED
  BY <1>5, <1>6, <1>7, <1>8, <1>9, <1>10, <1>11, <1>12, <1>13, <1>14, <1>16,
     <1>17, <1>18, <1>19, <1>20, <1>21, <1>22, <1>23, <1>24, <1>25, <1>26,
     <1>27, <1>28, <1>29, <1>30, <1>31, <1>32, <1>33, <1>34
  DEF Step, FindStep, RemoveStep, InsertStep


-----------------------------------------------------------------------------
(* What the steps do *)

(* What a compare-exchange that succeeds leaves in the towers.             *)
LEMMA PtrAfterExchange ==
    ASSUME MemoryTypeOK, NEW m \in Tower, NEW l \in Level, NEW n, Exchange(m, l, n),
           NEW o \in Tower, NEW i \in Level
    PROVE  /\ Ptr(o, i)' = IF o = m /\ i = l THEN n ELSE Ptr(o, i)
           /\ Tag(o, i)' = IF o = m /\ i = l THEN 0 ELSE Tag(o, i)
BY DEF Exchange, MemoryTypeOK, Ptr, Tag

(* What tagging a level leaves in the towers.                              *)
LEMMA PtrAfterSetTag ==
    ASSUME MemoryTypeOK, NEW n \in Node, NEW l \in Level, SetTag(n, l),
           NEW o \in Tower, NEW i \in Level
    PROVE  /\ Ptr(o, i)' = Ptr(o, i)
           /\ Tag(o, i)' = IF o = n /\ i = l THEN 1 ELSE Tag(o, i)
<1>1. n \in Tower /\ next[o][i] \in MaybeTagged /\ next[n][l] \in MaybeTagged
  BY ConstantFacts, PtrType
<1> QED BY <1>1 DEF SetTag, MemoryTypeOK, Ptr, Tag, MaybeTagged

(* Counting references changes neither the height nor the removed bit.     *)
LEMMA RefSteps ==
    ASSUME MemoryTypeOK, NEW n \in Node, NEW o \in Node,
           AddRef(n) \/ SubRef(n) \/ SubRefAndRetire(n)
    PROVE  /\ har'[o].height = har[o].height
           /\ har'[o].removed = har[o].removed
           /\ o # n => har'[o] = har[o]
<1>1. har[o] \in Word /\ har[n] \in Word
  BY DEF MemoryTypeOK
<1>2. CASE AddRef(n)
  BY <1>1, <1>2 DEF AddRef, MemoryTypeOK, Word
<1>3. CASE SubRef(n)
  BY <1>1, <1>3 DEF SubRef, MemoryTypeOK, Word
<1>4. CASE SubRefAndRetire(n)
  BY <1>1, <1>4 DEF SubRefAndRetire, MemoryTypeOK, Word
<1> QED BY <1>2, <1>3, <1>4

(* Setting the removed bit changes nothing else.                           *)
LEMMA RemovedStep ==
    ASSUME MemoryTypeOK, NEW n \in Node, NEW o \in Node, SetRemoved(n)
    PROVE  /\ har'[o].height = har[o].height
           /\ har'[o].removed = (o = n \/ har[o].removed)
<1>1. har[o] \in Word /\ har[n] \in Word
  BY DEF MemoryTypeOK
<1> QED BY <1>1 DEF SetRemoved, MemoryTypeOK, Word

(* A node keeps its height once it has one, and its removed bit once it is *)
(* set; only CasHar sets the bit.                                          *)
LEMMA WordKept ==
    ASSUME Inv, NEW t \in Thread, Begin(t) \/ Step(t), NEW n \in Node
    PROVE  /\ n \in Allocated => har'[n].height = har[n].height
           /\ ~(NewNode(t) /\ n = New(t)) => har'[n].height = har[n].height
           /\ har[n].removed => har'[n].removed
           /\ har'[n].removed => \/ har[n].removed
                                 \/ CasHar(t) /\ n = target[t]
<1> MemoryTypeOK
  BY DEF Inv, TypeOK
<1>1. CASE NewNode(t)
  <2>1. New(t) \in Node /\ New(t) \notin Allocated /\ ~har[New(t)].removed
    <3>1. New(t) \in Node
      BY <1>1, Locals DEF NewNode
    <3> QED BY <1>1, <3>1 DEF NewNode, Inv, Fresh, Control, ControlAt, SearchLabel
  <2>2. n # New(t) => har'[n] = har[n]
    BY <1>1, <2>1 DEF NewNode, MemoryTypeOK
  <2>3. ~har'[New(t)].removed
    BY <1>1, <2>1 DEF NewNode, MemoryTypeOK
  <2> QED BY <1>1, <2>1, <2>2, <2>3
<1>2. CASE HelpSubRef(t)
  BY <1>2, Locals, RefSteps DEF HelpSubRef
<1>3. CASE CasHar(t)
  <2>1. target[t] \in Node
    BY <1>3, Locals DEF CasHar, RemoveLabel
  <2> QED BY <1>3, <2>1, RemovedStep DEF CasHar
<1>4. CASE UnlinkSubRef(t)
  BY <1>4, Locals, RefSteps DEF UnlinkSubRef, RemoveLabel
<1>5. CASE LinkAddRef(t)
  BY <1>5, Locals, RefSteps DEF LinkAddRef
<1>6. CASE LinkUndo(t)
  BY <1>6, Locals, RefSteps DEF LinkUndo
<1>7. CASE ~(NewNode(t) \/ HelpSubRef(t) \/ CasHar(t) \/ UnlinkSubRef(t)
             \/ LinkAddRef(t) \/ LinkUndo(t))
  <2>1. UNCHANGED har
    BY <1>7 DEF Step, FindStep, RemoveStep, InsertStep, Begin, Leave, FindInit, InitLevel,
         StartSearch, LowerLevel, ReadNext, CheckTag, HelpUnlink, FinalRead, FinalCheck,
         LoadHar, TagLevel, Unlink, UnlinkLen, CompareMax, StoreMax, Count, LinkCheck,
         LinkRecheck, LinkOwn, LinkIn, LinkEnd, memory
  <2> QED BY <1>7, <2>1
<1> QED BY <1>1, <1>2, <1>3, <1>4, <1>5, <1>6, <1>7

(* Allocated nodes stay allocated.                                         *)
LEMMA AllocatedGrows ==
    ASSUME Inv, NEW t \in Thread, Begin(t) \/ Step(t)
    PROVE  Allocated \subseteq Allocated'
BY WordKept DEF Allocated

(* Every step keeps every pointer leading to an allocated node.            *)
LEMMA PointersStep ==
    ASSUME Inv, NEW t \in Thread, Begin(t) \/ Step(t)
    PROVE  PointersAllocated'
<1> DEFINE Ref == Allocated \cup {Null}
           Pred == Allocated \cup {head}
<1> HIDE DEF Ref, Pred
<1> LocalTypeOK /\ MemoryTypeOK /\ PointersAllocated
  BY DEF Inv, TypeOK
<1>1. /\ Allocated \subseteq Node /\ Ref \subseteq NodeOrNull /\ Pred \subseteq Tower
      /\ Null \in Ref /\ head \in Pred /\ Allocated \subseteq Ref /\ Allocated \subseteq Pred
      /\ \A r \in Ref : r # Null => r \in Allocated
  BY ConstantFacts DEF Ref, Pred, Allocated
<1>2. /\ \A m \in Tower, l \in Level : Ptr(m, l) \in Ref
      /\ curr \in [Thread -> Pred]
      /\ nxt \in [Thread -> Ref]
      /\ target \in [Thread -> Ref]
      /\ prev \in [Thread -> [Level -> [node : Pred, next : Ref]]]
  BY DEF PointersAllocated, Ref, Pred
<1>3. ASSUME NEW m \in Tower, NEW l \in Level, NEW n \in Ref, Exchange(m, l, n)
      PROVE  \A o \in Tower, i \in Level : Ptr(o, i)' \in Ref
  BY <1>2, <1>3, PtrAfterExchange
<1>4. \A m \in Tower, l \in Level : Ptr(m, l)' \in Ref
  <2>1. CASE HelpUnlink(t)
    <3>1. curr[t] \in Tower /\ nxt[t] \in Node /\ nxt[t] \in Tower /\ level[t] - 1 \in Level
      BY <2>1, Locals, ConstantFacts DEF HelpUnlink, LocalTypeOK
    <3>2. CASE UNCHANGED next
      BY <1>2, <3>2 DEF Ptr
    <3>3. CASE Exchange(curr[t], level[t] - 1, Ptr(nxt[t], level[t] - 1))
      BY <1>2, <1>3, <3>1, <3>3
    <3> QED BY <2>1, <3>2, <3>3 DEF HelpUnlink
  <2>2. CASE TagLevel(t)
    <3>1. target[t] \in Node /\ down[t] \in Level
      BY <2>2, Locals DEF TagLevel, RemoveLabel
    <3>2. CASE UNCHANGED next
      BY <1>2, <3>2 DEF Ptr
    <3>3. CASE SetTag(target[t], down[t])
      BY <1>2, <3>1, <3>3, PtrAfterSetTag
    <3> QED BY <2>2, <3>2, <3>3 DEF TagLevel
  <2>3. CASE Unlink(t)
    <3>1. target[t] \in Tower /\ down[t] \in Level
      BY <2>3, Locals, ConstantFacts DEF Unlink, RemoveLabel
    <3>2. prev[t][down[t]].node \in Tower
      BY <3>1 DEF LocalTypeOK
    <3>3. CASE UNCHANGED next
      BY <1>2, <3>3 DEF Ptr
    <3>4. CASE Exchange(prev[t][down[t]].node, down[t], Ptr(target[t], down[t]))
      BY <1>2, <1>3, <3>1, <3>2, <3>4
    <3> QED BY <2>3, <3>3, <3>4 DEF Unlink
  <2>4. CASE LinkOwn(t)
    <3>1. New(t) \in Tower /\ up[t] \in Level
      BY <2>4, Locals, ConstantFacts DEF LinkOwn
    <3>2. prev[t][up[t]].next \in Ref
      BY <1>2, <3>1
    <3>3. CASE UNCHANGED next
      BY <1>2, <3>3 DEF Ptr
    <3>4. CASE Exchange(New(t), up[t], prev[t][up[t]].next)
      BY <1>3, <3>1, <3>2, <3>4
    <3> QED BY <2>4, <3>3, <3>4 DEF LinkOwn
  <2>5. CASE LinkIn(t)
    <3>1. New(t) \in Ref /\ up[t] \in Level
      <4>1. New(t) \in Allocated
        BY <2>5 DEF LinkIn, Inv, Control, ControlAt, Linking, LinkLabel
      <4> QED BY <1>1, <2>5, <4>1, Locals DEF LinkIn
    <3>2. prev[t][up[t]].node \in Tower
      BY <3>1 DEF LocalTypeOK
    <3>3. CASE UNCHANGED next
      BY <1>2, <3>3 DEF Ptr
    <3>4. CASE Exchange(prev[t][up[t]].node, up[t], New(t))
      BY <1>3, <3>1, <3>2, <3>4
    <3> QED BY <2>5, <3>3, <3>4 DEF LinkIn
  <2>6. CASE ~(HelpUnlink(t) \/ TagLevel(t) \/ Unlink(t) \/ LinkOwn(t) \/ LinkIn(t))
    <3>1. UNCHANGED next
      BY <2>6 DEF Step, FindStep, RemoveStep, InsertStep, Begin, Leave, FindInit, InitLevel,
           StartSearch, LowerLevel, ReadNext, CheckTag, HelpSubRef, FinalRead, FinalCheck,
           LoadHar, CasHar, UnlinkSubRef, UnlinkLen, NewNode, CompareMax, StoreMax, Count,
           LinkCheck, LinkRecheck, LinkAddRef, LinkUndo, LinkEnd, memory
    <3> QED BY <1>2, <3>1 DEF Ptr
  <2> QED BY <2>1, <2>2, <2>3, <2>4, <2>5, <2>6
<1>5. /\ curr' \in [Thread -> Pred]
      /\ nxt' \in [Thread -> Ref]
      /\ target' \in [Thread -> Ref]
      /\ prev' \in [Thread -> [Level -> [node : Pred, next : Ref]]]
  <2>1. ASSUME NEW n \in Ref, Descend(t, n), level[t] - 1 \in Level
        PROVE  /\ curr' \in [Thread -> Pred]
               /\ nxt' \in [Thread -> Ref]
               /\ prev' \in [Thread -> [Level -> [node : Pred, next : Ref]]]
    <3>1. [node |-> curr[t], next |-> n] \in [node : Pred, next : Ref]
      BY <1>2, <2>1
    <3> QED BY <1>1, <1>2, <2>1, <3>1 DEF Descend
  <2>2. ASSUME NEW n \in Ref, Consider(t, n), level[t] - 1 \in Level
        PROVE  /\ curr' \in [Thread -> Pred]
               /\ nxt' \in [Thread -> Ref]
               /\ prev' \in [Thread -> [Level -> [node : Pred, next : Ref]]]
    <3>1. CASE Descend(t, n)
      BY <2>1, <2>2, <3>1
    <3>2. CASE nxt' = [nxt EXCEPT ![t] = n] /\ UNCHANGED <<level, curr, prev>>
      BY <1>2, <2>2, <3>2
    <3> QED BY <2>2, <3>1, <3>2 DEF Consider
  <2>3. ASSUME NEW n \in Ref, Return(t, n)
        PROVE  nxt' \in [Thread -> Ref] /\ target' \in [Thread -> Ref]
    BY <1>1, <1>2, <2>3 DEF Return
  <2>4. CASE Leave(t)
    BY <1>1, <1>2, <2>4 DEF Leave, NoPrev
  <2>5. CASE FindInit(t)
    <3>1. \A l \in Level : Ptr(head, l) \in Ref
      BY <1>2, ConstantFacts
    <3> QED BY <1>1, <1>2, <2>5, <3>1 DEF FindInit, removal
  <2>13. CASE InitLevel(t)
    <3>1. level[t] \in Level
      BY <2>13, Locals DEF InitLevel
    <3>2. Ptr(head, level[t]) \in Ref
      BY <1>2, <3>1, ConstantFacts
    <3>3. [prev[t][level[t]] EXCEPT !.next = Ptr(head, level[t])] \in [node : Pred, next : Ref]
      BY <1>2, <3>1, <3>2
    <3> QED BY <1>2, <2>13, <3>1, <3>3 DEF InitLevel, removal
  <2>6. CASE StartSearch(t) \/ LowerLevel(t)
    BY <1>1, <1>2, <2>6 DEF StartSearch, LowerLevel, removal
  <2>7. CASE ReadNext(t)
    <3>1. level[t] - 1 \in Level /\ curr[t] \in Tower
      BY <2>7, Locals DEF ReadNext, LocalTypeOK
    <3> QED BY <1>2, <2>2, <2>7, <3>1 DEF ReadNext, removal
  <2>8. CASE CheckTag(t)
    <3>1. level[t] - 1 \in Level /\ nxt[t] \in Allocated /\ nxt[t] \in Ref
      BY <1>1, <1>2, <2>8, Locals, ConstantFacts DEF CheckTag
    <3>2. CASE Advance(t, nxt[t])
      <4>1. [node |-> curr[t], next |-> nxt[t]] \in [node : Pred, next : Ref]
        BY <1>2, <3>1
      <4> QED BY <1>1, <1>2, <2>8, <3>1, <3>2, <4>1 DEF CheckTag, Advance, removal
    <3>3. CASE Descend(t, nxt[t])
      BY <1>2, <2>1, <2>8, <3>1, <3>3 DEF CheckTag, removal
    <3>4. CASE UNCHANGED <<level, curr, nxt, prev>>
      BY <1>2, <2>8, <3>4 DEF CheckTag, removal
    <3> QED BY <2>8, <3>2, <3>3, <3>4 DEF CheckTag
  <2>9. CASE HelpSubRef(t)
    <3>1. level[t] - 1 \in Level /\ nxt[t] \in Tower
      BY <2>9, Locals, ConstantFacts DEF HelpSubRef
    <3>2. CASE Consider(t, Ptr(nxt[t], level[t] - 1))
      BY <1>2, <2>2, <2>9, <3>1, <3>2 DEF HelpSubRef, removal
    <3>3. CASE UNCHANGED <<level, curr, nxt, prev>>
      BY <1>2, <2>9, <3>3 DEF HelpSubRef, removal
    <3> QED BY <2>9, <3>2, <3>3 DEF HelpSubRef
  <2>10. CASE FinalRead(t)
    <3>1. 0 \in Level
      BY ConstantFacts DEF Level
    <3>2. Ptr(prev[t][0].node, 0) \in Ref
      BY <1>2, <3>1 DEF LocalTypeOK
    <3>3. CASE Return(t, Null)
      BY <1>1, <1>2, <2>3, <2>10, <3>3 DEF FinalRead
    <3>4. CASE /\ nxt' = [nxt EXCEPT ![t] = Ptr(prev[t][0].node, 0)]
               /\ UNCHANGED <<target, result, before>>
      BY <1>2, <2>10, <3>2, <3>4 DEF FinalRead
    <3> QED BY <2>10, <3>3, <3>4 DEF FinalRead
  <2>11. CASE FinalCheck(t)
    <3>1. (IF har[nxt[t]].removed THEN Null ELSE nxt[t]) \in Ref
      BY <1>1, <1>2
    <3> QED BY <1>2, <2>3, <2>11, <3>1 DEF FinalCheck
  <2>12. CASE ~(\/ Leave(t) \/ FindInit(t) \/ InitLevel(t) \/ StartSearch(t)
                \/ LowerLevel(t) \/ ReadNext(t) \/ CheckTag(t) \/ HelpSubRef(t)
                \/ FinalRead(t) \/ FinalCheck(t))
    <3>1. UNCHANGED <<curr, nxt, target, prev>>
      BY <2>12 DEF Step, FindStep, RemoveStep, InsertStep, Begin, HelpUnlink,
           LoadHar, CasHar, TagLevel, Unlink, UnlinkSubRef, UnlinkLen, NewNode, CompareMax,
           StoreMax, Count, LinkCheck, LinkRecheck, LinkOwn, LinkAddRef, LinkIn,
           LinkUndo, LinkEnd, locals, walk, removal
    <3> QED BY <1>2, <3>1
  <2> QED BY <2>4, <2>5, <2>6, <2>7, <2>8, <2>9, <2>10, <2>11, <2>12, <2>13
<1>6. Ref \subseteq Allocated' \cup {Null} /\ Pred \subseteq Allocated' \cup {head}
  BY AllocatedGrows DEF Ref, Pred
<1> QED BY <1>4, <1>5, <1>6 DEF PointersAllocated

(* Only Begin counts a call.                                               *)
LEMMA CallsKept ==
    ASSUME NEW t \in Thread, Step(t)
    PROVE  UNCHANGED calls
BY DEF Step, FindStep, RemoveStep, InsertStep, Leave, FindInit, InitLevel, StartSearch, LowerLevel,
     ReadNext, CheckTag, HelpUnlink, HelpSubRef, FinalRead, FinalCheck, LoadHar,
     CasHar, TagLevel, Unlink, UnlinkSubRef, UnlinkLen, NewNode, CompareMax, StoreMax, Count,
     LinkCheck, LinkRecheck, LinkOwn, LinkAddRef, LinkIn, LinkUndo, LinkEnd,
     locals, request

(* Only a thread in a call of the list takes a step of one.                *)
LEMMA InProgress ==
    ASSUME NEW t \in Thread, Step(t)
    PROVE  pc[t] # "idle" /\ pc[t] \notin CursorLabel
BY DEF CursorLabel, Step, FindStep, RemoveStep, InsertStep, Leave, FindInit, InitLevel,
     StartSearch, LowerLevel, ReadNext, CheckTag, HelpUnlink, HelpSubRef, FinalRead, FinalCheck, LoadHar,
     CasHar, TagLevel, Unlink, UnlinkSubRef, UnlinkLen, NewNode, CompareMax, StoreMax, Count,
     LinkCheck, LinkRecheck, LinkOwn, LinkAddRef, LinkIn, LinkUndo, LinkEnd

(* A step changes the local variables of one thread only.                  *)
LEMMA OthersKept ==
    ASSUME LocalTypeOK, NEW t \in Thread, Begin(t) \/ Step(t), NEW u \in Thread, u # t
    PROVE  /\ pc'[u] = pc[u] /\ call'[u] = call[u] /\ calls'[u] = calls[u]
           /\ ret'[u] = ret[u] /\ level'[u] = level[u] /\ curr'[u] = curr[u]
           /\ nxt'[u] = nxt[u] /\ prev'[u] = prev[u] /\ target'[u] = target[u]
           /\ up'[u] = up[u] /\ down'[u] = down[u] /\ New(u)' = New(u)
           /\ result'[u] = result[u] /\ before'[u] = before[u]
<1> USE DEF LocalTypeOK, Goto, locals, request, walk, removal
<1>1. CASE Begin(t) \/ Leave(t)
  BY <1>1 DEF Begin, Leave, New
<1>2. CASE \/ FindInit(t) \/ InitLevel(t) \/ StartSearch(t) \/ LowerLevel(t)
           \/ ReadNext(t) \/ CheckTag(t)
  BY <1>2 DEF FindInit, InitLevel, StartSearch, LowerLevel, ReadNext, CheckTag, Consider,
       Descend, Advance, New
<1>3. CASE HelpUnlink(t) \/ HelpSubRef(t) \/ FinalRead(t) \/ FinalCheck(t)
  BY <1>3 DEF HelpUnlink, HelpSubRef, FinalRead, FinalCheck, Consider, Descend, Return, New
<1>4. CASE RemoveStep(t)
  BY <1>4 DEF RemoveStep, LoadHar, CasHar, TagLevel, Unlink, UnlinkSubRef, UnlinkLen,
       GiveUp, New
<1>5. CASE InsertStep(t)
  BY <1>5 DEF InsertStep, NewNode, CompareMax, StoreMax, Count, LinkCheck, LinkRecheck, LinkOwn,
       LinkAddRef, LinkIn, LinkUndo, LinkEnd, Relink, New
<1> QED BY <1>1, <1>2, <1>3, <1>4, <1>5 DEF Step, FindStep

(* No step of the list's calls leads into a cursor.                        *)
LEMMA ListLabels ==
    ASSUME LocalTypeOK, NEW t \in Thread, Begin(t) \/ Step(t)
    PROVE  pc'[t] \notin CursorLabel /\ pc'[t] \notin AheadLabel
<1> USE DEF LocalTypeOK, Goto, AheadLabel, CursorLabel
<1>1. CASE Begin(t) \/ Leave(t)
  BY <1>1 DEF Begin, Leave
<1>2. CASE \/ FindInit(t) \/ InitLevel(t) \/ StartSearch(t) \/ LowerLevel(t)
           \/ ReadNext(t) \/ CheckTag(t)
  BY <1>2 DEF FindInit, InitLevel, StartSearch, LowerLevel, ReadNext, CheckTag, Consider,
       Descend, Advance
<1>3. CASE HelpUnlink(t) \/ HelpSubRef(t)
  BY <1>3 DEF HelpUnlink, HelpSubRef, Consider, Descend
<1>4. CASE FinalRead(t) \/ FinalCheck(t)
  <2>1. \A r : Return(t, r) => pc'[t] \in {"load", "return", "new", "link"}
    BY DEF Return, Resume
  <2> QED BY <1>4, <2>1 DEF FinalRead, FinalCheck
<1>5. CASE RemoveStep(t)
  <2>1. GiveUp(t) => pc'[t] \in {"new", "link", "return"}
    BY DEF GiveUp
  <2> QED BY <1>5, <2>1 DEF RemoveStep, LoadHar, CasHar, TagLevel, Unlink, UnlinkSubRef,
       UnlinkLen
<1>6. CASE InsertStep(t)
  BY <1>6 DEF InsertStep, NewNode, CompareMax, StoreMax, Count, LinkCheck, LinkRecheck, LinkOwn,
       LinkAddRef, LinkIn, LinkUndo, LinkEnd, Relink
<1> QED BY <1>1, <1>2, <1>3, <1>4, <1>5, <1>6 DEF Step, FindStep

(* An insert that is searching was searching before the step, and had not  *)
(* built its node.                                                         *)
LEMMA StaysSearching ==
    ASSUME Inv, NEW t \in Thread, Step(t), pc'[t] \in SearchLabel, ret'[t] = "insert"
    PROVE  pc[t] \in SearchLabel /\ ret[t] = "insert" /\ ~NewNode(t)
<1> USE DEF LocalTypeOK, Goto, locals, request, walk, removal, SearchLabel, FindLabel,
        RemoveLabel
<1> LocalTypeOK /\ Control
  BY DEF Inv, TypeOK
<1>1. CASE Leave(t)
  BY <1>1 DEF Leave
<1>2. CASE FindStep(t)
  BY <1>2 DEF FindStep, FindInit, InitLevel, StartSearch, LowerLevel, ReadNext, CheckTag,
       HelpUnlink, HelpSubRef, FinalRead, FinalCheck, NewNode
<1>3. CASE RemoveStep(t)
  BY <1>3 DEF RemoveStep, LoadHar, CasHar, TagLevel, Unlink, UnlinkSubRef, UnlinkLen,
       NewNode
<1>4. CASE InsertStep(t)
  BY <1>4 DEF InsertStep, NewNode, CompareMax, StoreMax, Count, LinkCheck, LinkRecheck, LinkOwn,
       LinkAddRef, LinkIn, LinkUndo, LinkEnd, Relink
<1> QED BY <1>1, <1>2, <1>3, <1>4 DEF Step

(* Every step keeps the nodes of later calls unallocated.                  *)
LEMMA FreshStep ==
    ASSUME Inv, NEW t \in Thread, Begin(t) \/ Step(t)
    PROVE  Fresh'
<1> LocalTypeOK /\ MemoryTypeOK /\ Fresh /\ Control
  BY DEF Inv, TypeOK
<1>1. \A n \in Node : n \notin Allocated' => ~har'[n].removed
  <2>1. CasHar(t) => target[t] \in Allocated
    BY Locals, ConstantFacts DEF CasHar, RemoveLabel, Inv, PointersAllocated
  <2> QED BY <2>1, AllocatedGrows, WordKept DEF Fresh
<1>2. ASSUME NEW n \in Node, n \notin Allocated, ~(NewNode(t) /\ n = New(t))
      PROVE  n \notin Allocated'
  BY <1>2, WordKept DEF Allocated
<1>3. \A u \in Thread : calls'[u] >= calls[u]
  <2>1. \A u \in Thread : calls[u] \in Int
    BY DEF LocalTypeOK
  <2>2. CASE Begin(t)
    BY <2>1, <2>2 DEF Begin, LocalTypeOK
  <2>3. CASE ~Begin(t)
    BY <2>1, <2>3, CallsKept
  <2> QED BY <2>2, <2>3
<1>4. ASSUME NEW u \in Thread, NEW c \in 1 .. MaxCalls, c > calls'[u]
      PROVE  <<u, c>> \notin Allocated'
  <2>1. <<u, c>> \in Node
    BY DEF Node
  <2>2. c > calls[u]
    <3>1. calls[u] \in Int /\ calls'[u] \in Int
      BY LocalTypeStep, MemoryAssumption DEF LocalTypeOK
    <3> QED BY <1>3, <1>4, <3>1
  <2>3. <<u, c>> # New(t)
    BY <2>2 DEF New, LocalTypeOK
  <2> QED BY <1>2, <2>1, <2>2, <2>3 DEF Fresh
<1>5. ASSUME NEW u \in Thread, pc'[u] \in SearchLabel, ret'[u] = "insert"
      PROVE  New(u)' \notin Allocated'
  <2>1. CASE Begin(t) /\ u = t
    <3>1. calls'[t] = calls[t] + 1 /\ calls[t] + 1 \in 1 .. MaxCalls
      BY <2>1, MemoryAssumption DEF Begin, HasCall, LocalTypeOK
    <3>2. New(t)' = <<t, calls[t] + 1>> /\ <<t, calls[t] + 1>> \in Node
      BY <3>1 DEF New, Node
    <3>3. <<t, calls[t] + 1>> \notin Allocated
      BY <3>1 DEF Fresh, LocalTypeOK
    <3>4. ~NewNode(t)
      BY <2>1 DEF Begin, NewNode
    <3> QED BY <1>2, <2>1, <3>2, <3>3, <3>4
  <2>2. CASE u # t
    <3>1. pc'[u] = pc[u] /\ ret'[u] = ret[u] /\ New(u)' = New(u)
      BY <2>2, OthersKept
    <3>2. New(u) # New(t) /\ New(u) \in Node
      BY <1>5, <2>2, <3>1, Locals DEF New, SearchLabel, FindLabel, RemoveLabel
    <3> QED BY <1>2, <1>5, <3>1, <3>2 DEF Fresh
  <2>3. CASE ~Begin(t) /\ u = t
    <3>1. New(t)' = New(t) /\ New(t) \in Node
      BY <1>5, <2>3, CallsKept, InProgress, Locals DEF New
    <3>2. pc[t] \in SearchLabel /\ ret[t] = "insert" /\ ~NewNode(t)
      BY <1>5, <2>3, StaysSearching
    <3> QED BY <1>2, <2>3, <3>1, <3>2 DEF Fresh
  <2> QED BY <2>1, <2>2, <2>3
<1> QED BY <1>1, <1>4, <1>5 DEF Fresh

(* What a thread relies on is not disturbed by a step of another one:      *)
(* heights and allocation are stable.                                      *)
LEMMA OthersControl ==
    ASSUME Inv, NEW t \in Thread, Begin(t) \/ Step(t), NEW u \in Thread, u # t
    PROVE  ControlAt(u)'
<1> LocalTypeOK /\ MemoryTypeOK /\ ControlAt(u)
  BY DEF Inv, TypeOK, Control
<1>1. /\ pc'[u] = pc[u] /\ calls'[u] = calls[u] /\ ret'[u] = ret[u]
      /\ level'[u] = level[u] /\ curr'[u] = curr[u] /\ nxt'[u] = nxt[u]
      /\ target'[u] = target[u] /\ up'[u] = up[u] /\ down'[u] = down[u]
      /\ New(u)' = New(u)
  BY OthersKept
<1>2. pc[u] \in RemoveLabel => har'[target[u]].height = har[target[u]].height
  <2>1. pc[u] \in RemoveLabel => target[u] \in Node /\ target[u] \in Allocated
    BY Locals, ConstantFacts DEF Inv, PointersAllocated
  <2> QED BY <2>1, WordKept
<1>3. New(u) \in Node /\ New(u) \in Allocated =>
         /\ New(u) \in Allocated'
         /\ har'[New(u)].height = har[New(u)].height
  BY AllocatedGrows, WordKept
<1>4. New(u) \in Allocated => New(u) \in Node
  BY DEF Allocated
<1> QED
  BY <1>1, <1>2, <1>3, <1>4
  DEF ControlAt, Linking, BuildLabel, LinkLabel, RemoveLabel, SearchLabel, FindLabel,
      AheadLabel

(* Every step leaves its thread with what it relies on at its next label.  *)
LEMMA ControlStep ==
    ASSUME Inv, NEW t \in Thread, Begin(t) \/ Step(t)
    PROVE  Control'
<1> LocalTypeOK /\ MemoryTypeOK /\ ControlAt(t)
  BY DEF Inv, TypeOK, Control
<1> USE DEF ControlAt, Linking, BuildLabel, LinkLabel, RemoveLabel, SearchLabel,
        FindLabel, AheadLabel, Goto
<1>1. CASE Begin(t)
  <2>1. calls'[t] >= 1
    BY <1>1, MemoryAssumption DEF Begin, HasCall, LocalTypeOK
  <2>2. pc'[t] \in {"find", "return"} /\ ret'[t] \in Operation
    <3>1. Script[t][calls[t] + 1] \subseteq Call
      <4>1. calls[t] + 1 \in 1 .. MaxCalls
        BY <1>1, MemoryAssumption DEF Begin, HasCall, LocalTypeOK
      <4> QED BY <4>1, ScriptedCalls
    <3> QED BY <1>1, <3>1 DEF Begin, LocalTypeOK, Call
  <2> QED BY <2>1, <2>2, OthersControl DEF Control, Operation
<1>2. CASE Leave(t)
  BY <1>2, OthersControl DEF Leave, Control, LocalTypeOK
<1> SUFFICES ASSUME Step(t), ~Leave(t) PROVE ControlAt(t)'
  BY <1>1, <1>2, OthersControl DEF Control
<1>3. /\ calls'[t] = calls[t] /\ calls[t] >= 1 /\ New(t)' = New(t)
      /\ New(t) \in Node
      /\ New(t) \in Allocated =>
            New(t) \in Allocated' /\ har'[New(t)].height = har[New(t)].height
  BY CallsKept, InProgress, Locals, AllocatedGrows, WordKept DEF New
<1>4. \A n \in Node : n \in Allocated => har'[n].height = har[n].height
  BY WordKept
<1>5. /\ level[t] \in Int /\ up[t] \in Int /\ down[t] \in Int
      /\ har[New(t)].height \in Int
      /\ pc[t] \in RemoveLabel => target[t] \in Node /\ target[t] \in Allocated
  BY <1>3, Locals, ConstantFacts DEF LocalTypeOK, MemoryTypeOK, Word, Inv, PointersAllocated
<1>6. CASE FindInit(t)
  BY <1>3, <1>6, ConstantFacts DEF FindInit, LocalTypeOK, removal
<1>36. CASE InitLevel(t)
  <2>1. pc'[t] \in {"init", "search"}
    BY <1>36 DEF InitLevel, LocalTypeOK
  <2>2. pc'[t] = "init" => level'[t] \in 1 .. HEIGHT - 1
    <3>1. level[t] \in 1 .. HEIGHT - 1
      BY <1>36 DEF InitLevel
    <3>2. level'[t] = level[t] + 1 /\ (pc'[t] = "init" => level[t] + 1 # HEIGHT)
      BY <1>36 DEF InitLevel, LocalTypeOK
    <3>3. HEIGHT \in Nat
      BY ConstantFacts
    <3> QED BY ONLY <3>1, <3>2, <3>3
  <2> QED BY <1>3, <1>36, <2>1, <2>2 DEF InitLevel, removal
<1>7. CASE StartSearch(t)
  BY <1>3, <1>7, ConstantFacts DEF StartSearch, LocalTypeOK, MemoryTypeOK, removal
<1>34. CASE LowerLevel(t)
  <2>1. pc'[t] \in {"lower", "next"} /\ curr'[t] = head
    BY <1>34 DEF LowerLevel, LocalTypeOK
  <2>3. level[t] >= 2
    BY <1>34 DEF LowerLevel
  <2>4. \/ level'[t] = level[t] /\ pc'[t] = "next"
        \/ level'[t] = level[t] - 1 /\ (pc'[t] = "lower" => level[t] # 2)
    BY <1>34 DEF LowerLevel, LocalTypeOK
  <2>2. level'[t] >= 1 /\ (pc'[t] = "lower" => level'[t] >= 2)
    BY ONLY <1>5, <2>3, <2>4
  <2> QED BY <1>3, <1>34, <2>1, <2>2 DEF LowerLevel, removal
<1>8. ASSUME NEW n, Descend(t, n), pc[t] \in {"next", "check", "helpSub"},
             UNCHANGED <<request, ret, removal, up>>
      PROVE  ControlAt(t)'
  <2>1. CASE level[t] = 1
    BY <1>3, <1>8, <2>1 DEF Descend, LocalTypeOK, removal
  <2>2. CASE level[t] # 1
    <3>1. level'[t] >= 1 /\ pc'[t] = "next"
      BY <1>5, <1>8, <2>2 DEF Descend, LocalTypeOK
    <3> QED BY <1>3, <1>8, <3>1 DEF removal
  <2> QED BY <2>1, <2>2
<1>9. ASSUME NEW n, Consider(t, n), pc[t] \in {"next", "helpSub"},
             UNCHANGED <<request, ret, removal, up>>
      PROVE  ControlAt(t)'
  <2>1. CASE Descend(t, n)
    BY <1>8, <1>9, <2>1
  <2>2. CASE /\ n # Null
             /\ nxt' = [nxt EXCEPT ![t] = n]
             /\ Goto(t, "check")
             /\ UNCHANGED <<level, curr, prev>>
    BY <1>3, <1>9, <2>2 DEF LocalTypeOK, removal
  <2> QED BY <1>9, <2>1, <2>2 DEF Consider
<1>10. CASE ReadNext(t)
  BY <1>9, <1>10 DEF ReadNext
<1>11. CASE CheckTag(t)
  <2>1. CASE Advance(t, nxt[t])
    BY <1>3, <1>11, <2>1 DEF CheckTag, Advance, LocalTypeOK, removal
  <2>2. CASE Descend(t, nxt[t])
    BY <1>8, <1>11, <2>2 DEF CheckTag
  <2>3. CASE Goto(t, "help") /\ UNCHANGED <<level, curr, nxt, prev>>
    BY <1>3, <1>11, <2>3 DEF CheckTag, LocalTypeOK, removal
  <2> QED BY <1>11, <2>1, <2>2, <2>3 DEF CheckTag
<1>12. CASE HelpUnlink(t)
  BY <1>3, <1>12 DEF HelpUnlink, LocalTypeOK, locals, walk, request, removal
<1>13. CASE HelpSubRef(t)
  <2>1. CASE Goto(t, "panic")
    BY <1>3, <1>13, <2>1 DEF HelpSubRef, LocalTypeOK
  <2>2. CASE Consider(t, Ptr(nxt[t], level[t] - 1))
    BY <1>9, <1>13, <2>2 DEF HelpSubRef
  <2> QED BY <1>13, <2>1, <2>2 DEF HelpSubRef
<1>14. ASSUME NEW n \in NodeOrNull, Return(t, n), pc[t] \in {"final", "finalCheck"},
             UNCHANGED <<ret, up>>
       PROVE ControlAt(t)'
  <2>1. pc'[t] = Resume(t, n)
    BY <1>14 DEF Return, LocalTypeOK
  <2>2. CASE ret[t] \in {"insert", "relink"} /\ Resume(t, n) = "load"
    <3>1. n # Null /\ target'[t] = n
      BY <1>14, <2>2 DEF Resume, Return, LocalTypeOK
    <3> QED BY <1>3, <1>14, <2>1, <2>2, <3>1
  <2>3. CASE ret[t] = "insert" /\ Resume(t, n) = "new"
    BY <1>3, <1>14, <2>1, <2>3
  <2>4. CASE ret[t] = "relink" /\ Resume(t, n) = "link"
    BY <1>3, <1>14, <2>1, <2>4
  <2>5. CASE ret[t] \notin {"insert", "relink"}
    <3>1. Resume(t, n) \in {"return", "load"}
      BY <2>5 DEF Resume
    <3>2. Resume(t, n) = "load" => n # Null /\ target'[t] = n
      BY <1>14, <2>5 DEF Resume, Return, LocalTypeOK
    <3> QED BY <1>3, <1>14, <2>1, <2>5, <3>1, <3>2
  <2>6. ret[t] = "insert" => Resume(t, n) \in {"new", "load"}
    BY DEF Resume
  <2>7. ret[t] = "relink" => Resume(t, n) \in {"link", "load"}
    BY DEF Resume
  <2> QED BY <2>2, <2>3, <2>4, <2>5, <2>6, <2>7
<1>15. CASE FinalRead(t)
  <2>1. CASE Return(t, Null)
    BY <1>14, <1>15, <2>1, ConstantFacts DEF FinalRead
  <2>2. CASE /\ HasKey(Ptr(prev[t][0].node, 0), call[t].key)
             /\ nxt' = [nxt EXCEPT ![t] = Ptr(prev[t][0].node, 0)]
             /\ Goto(t, "finalCheck")
             /\ UNCHANGED <<target, result, before>>
    BY <1>3, <1>15, <2>2 DEF FinalRead, HasKey, LocalTypeOK
  <2> QED BY <1>15, <2>1, <2>2 DEF FinalRead
<1>16. CASE FinalCheck(t)
  <2>1. (IF har[nxt[t]].removed THEN Null ELSE nxt[t]) \in NodeOrNull
    BY ConstantFacts DEF LocalTypeOK
  <2> QED BY <1>14, <1>16, <2>1 DEF FinalCheck
<1>17. ASSUME GiveUp(t), pc[t] \in RemoveLabel,
              UNCHANGED <<request, ret, walk, target, up>>
       PROVE  ControlAt(t)'
  <2>1. CASE ret[t] = "insert"
    BY <1>3, <1>17, <2>1 DEF GiveUp, LocalTypeOK
  <2>2. CASE ret[t] = "relink"
    BY <1>3, <1>17, <2>2 DEF GiveUp, LocalTypeOK
  <2>3. CASE ret[t] \notin {"insert", "relink"}
    BY <1>3, <1>17, <2>3 DEF GiveUp, LocalTypeOK
  <2> QED BY <2>1, <2>2, <2>3
<1>18. CASE LoadHar(t)
  <2>1. CASE GiveUp(t)
    BY <1>17, <1>18, <2>1 DEF LoadHar
  <2>2. CASE Goto(t, "cas")
    BY <1>3, <1>18, <2>2 DEF LoadHar, LocalTypeOK
  <2> QED BY <1>18, <2>1, <2>2 DEF LoadHar
<1>19. CASE CasHar(t)
  <2>1. CASE GiveUp(t)
    BY <1>17, <1>19, <2>1 DEF CasHar
  <2>2. CASE Goto(t, "tag") /\ down' = [down EXCEPT ![t] = har[target[t]].height - 1]
    <3>1. har[target[t]].height \in Int /\ har'[target[t]].height = har[target[t]].height
      BY <1>4, <1>5, <1>19 DEF CasHar, MemoryTypeOK, Word
    <3> QED BY <1>3, <1>19, <2>2, <3>1 DEF CasHar, LocalTypeOK
  <2> QED BY <1>19, <2>1, <2>2 DEF CasHar
<1>20. CASE TagLevel(t)
  <2>1. har[target[t]].height \in Int /\ har'[target[t]].height = har[target[t]].height
    BY <1>4, <1>5, <1>20 DEF TagLevel, MemoryTypeOK, Word
  <2>2. CASE Tag(target[t], down[t]) = 0
    BY <1>3, <1>5, <1>20, <2>1, <2>2 DEF TagLevel, LocalTypeOK
  <2>3. CASE Tag(target[t], down[t]) # 0 /\ GiveUp(t)
    BY <1>17, <1>20, <2>3 DEF TagLevel
  <2>4. CASE Tag(target[t], down[t]) # 0 /\ Goto(t, "panic")
    BY <1>3, <1>20, <2>4 DEF TagLevel, LocalTypeOK
  <2> QED BY <1>20, <2>2, <2>3, <2>4 DEF TagLevel
<1>21. CASE Unlink(t)
  <2>1. har'[target[t]].height = har[target[t]].height
    BY <1>4, <1>5, <1>21 DEF Unlink
  <2>2. CASE Goto(t, "unlinkSub") /\ UNCHANGED ret
    BY <1>3, <1>21, <2>1, <2>2 DEF Unlink, LocalTypeOK, walk, request, removal
  <2>3. CASE Goto(t, "find") /\ ret' = [ret EXCEPT ![t] = IF @ = "remove" THEN "cleanup" ELSE @]
    BY <1>3, <1>21, <2>1, <2>3 DEF Unlink, LocalTypeOK, walk, request, removal
  <2> QED BY <1>21, <2>2, <2>3 DEF Unlink
<1>22. CASE UnlinkSubRef(t)
  <2>1. har[target[t]].height \in Int /\ har'[target[t]].height = har[target[t]].height
    BY <1>4, <1>5, <1>22 DEF UnlinkSubRef, MemoryTypeOK, Word
  <2>2. pc'[t] \in {"panic", "unlinkLen", "unlink"}
    BY <1>22 DEF UnlinkSubRef, LocalTypeOK
  <2>3. down'[t] < har[target[t]].height
    BY <1>5, <1>22, <2>1 DEF UnlinkSubRef, LocalTypeOK
  <2> QED BY <1>3, <1>22, <2>1, <2>2, <2>3 DEF UnlinkSubRef
<1>23. CASE UnlinkLen(t)
  BY <1>3, <1>23 DEF UnlinkLen, LocalTypeOK, locals, walk, request, removal
<1>24. CASE NewNode(t)
  <2>1. New(t) \in Allocated' /\ pc'[t] \in BuildLabel
    BY <1>3, <1>24 DEF NewNode, Allocated, MemoryTypeOK, LocalTypeOK
  <2> QED BY <1>3, <1>24, <2>1 DEF NewNode, locals, request
<1>35. CASE CompareMax(t)
  BY <1>3, <1>35 DEF CompareMax, LocalTypeOK, locals, walk, request, removal
<1>25. CASE StoreMax(t)
  BY <1>3, <1>25 DEF StoreMax, LocalTypeOK, locals, walk, request, removal
<1>26. CASE Count(t)
  <2>1. har'[New(t)].height >= 0
    BY <1>3, <1>26 DEF Count, MemoryTypeOK, Word
  <2> QED BY <1>3, <1>26, <2>1 DEF Count, LocalTypeOK
<1>27. CASE LinkCheck(t)
  <2>1. UNCHANGED <<har, up>> /\ pc'[t] \in {"linkEnd", "recheck", "linkOwn"}
    BY <1>27 DEF LinkCheck, LocalTypeOK, memory, locals
  <2>2. New(t) \in Allocated /\ up[t] <= har[New(t)].height
    BY <1>27 DEF LinkCheck
  <2>3. pc'[t] # "linkEnd" => up[t] # har[New(t)].height
    BY <1>27 DEF LinkCheck, LocalTypeOK
  <2> QED BY <1>3, <1>5, <2>1, <2>2, <2>3
<1>28. CASE LinkRecheck(t)
  BY <1>3, <1>5, <1>28 DEF LinkRecheck, LocalTypeOK, locals, walk, request, removal
<1>29. CASE LinkOwn(t)
  BY <1>3, <1>5, <1>29 DEF LinkOwn, Relink, LocalTypeOK, request, walk, removal
<1>30. CASE LinkAddRef(t)
  BY <1>3, <1>5, <1>30 DEF LinkAddRef, LocalTypeOK, locals, walk, request, removal
<1>31. CASE LinkIn(t)
  <2>1. CASE up' = [up EXCEPT ![t] = @ + 1] /\ Goto(t, "link")
    BY <1>3, <1>5, <1>31, <2>1 DEF LinkIn, LocalTypeOK
  <2>2. CASE UNCHANGED up /\ Goto(t, "undo")
    BY <1>3, <1>5, <1>31, <2>2 DEF LinkIn, LocalTypeOK
  <2> QED BY <1>31, <2>1, <2>2 DEF LinkIn
<1>32. CASE LinkUndo(t)
  BY <1>3, <1>5, <1>32 DEF LinkUndo, Relink, LocalTypeOK, request, walk, removal
<1>33. CASE LinkEnd(t)
  BY <1>3, <1>33 DEF LinkEnd, LocalTypeOK, request, walk, removal
<1> QED
  BY <1>6, <1>7, <1>10, <1>11, <1>12, <1>13, <1>15, <1>16, <1>18, <1>19, <1>20,
     <1>21, <1>22, <1>23, <1>24, <1>25, <1>26, <1>27, <1>28, <1>29, <1>30, <1>31,
     <1>32, <1>33, <1>34, <1>35, <1>36 DEF Step, FindStep, RemoveStep, InsertStep

(* A compare-exchange expects tag 0 and stores tag 0: it neither changes a *)
(* tag nor writes to a tagged level.                                       *)
LEMMA ExchangeKeepsTags ==
    ASSUME MemoryTypeOK, NEW m \in Tower, NEW l \in Level, NEW n, NEW e,
           CanExchange(m, l, e), Exchange(m, l, n),
           NEW o \in Tower, NEW i \in Level
    PROVE  /\ Tag(o, i)' = Tag(o, i)
           /\ Tag(o, i) = 1 => next'[o][i] = next[o][i]
BY DEF CanExchange, Exchange, MemoryTypeOK, Tag

(* No step writes to a tagged level, and only TagLevel changes a tag.      *)
LEMMA TagsKept ==
    ASSUME Inv, NEW t \in Thread, Begin(t) \/ Step(t), NEW o \in Tower, NEW i \in Level
    PROVE  /\ Tag(o, i) = 1 => next'[o][i] = next[o][i]
           /\ Tag(o, i)' # Tag(o, i) =>
                 TagLevel(t) /\ o = target[t] /\ i = down[t] /\ Tag(o, i)' = 1
<1> LocalTypeOK /\ MemoryTypeOK
  BY DEF Inv, TypeOK
<1>1. CASE UNCHANGED next
  BY <1>1 DEF Tag
<1>2. CASE HelpUnlink(t)
  <2>1. curr[t] \in Tower /\ level[t] - 1 \in Level
    BY <1>2, Locals DEF HelpUnlink, LocalTypeOK
  <2>2. CASE /\ CanExchange(curr[t], level[t] - 1, nxt[t])
             /\ Exchange(curr[t], level[t] - 1, Ptr(nxt[t], level[t] - 1))
    BY <2>1, <2>2, ExchangeKeepsTags
  <2> QED BY <1>1, <1>2, <2>2 DEF HelpUnlink
<1>3. CASE TagLevel(t)
  <2>1. target[t] \in Node /\ target[t] \in Tower /\ down[t] \in Level
    BY <1>3, Locals, ConstantFacts DEF TagLevel, RemoveLabel
  <2>2. CASE Tag(target[t], down[t]) = 0 /\ SetTag(target[t], down[t])
    <3>1. Tag(o, i)' = IF o = target[t] /\ i = down[t] THEN 1 ELSE Tag(o, i)
      BY <2>1, <2>2, PtrAfterSetTag
    <3>2. Tag(o, i) = 1 => o # target[t] \/ i # down[t]
      BY <2>2
    <3>3. o # target[t] \/ i # down[t] => next'[o][i] = next[o][i]
      BY <2>1, <2>2 DEF SetTag, MemoryTypeOK
    <3> QED BY <1>3, <3>1, <3>2, <3>3
  <2> QED BY <1>1, <1>3, <2>2 DEF TagLevel
<1>4. CASE Unlink(t)
  <2>1. down[t] \in Level /\ prev[t][down[t]].node \in Tower
    BY <1>4, Locals DEF Unlink, LocalTypeOK
  <2>2. CASE /\ CanExchange(prev[t][down[t]].node, down[t], target[t])
             /\ Exchange(prev[t][down[t]].node, down[t], Ptr(target[t], down[t]))
    BY <2>1, <2>2, ExchangeKeepsTags
  <2> QED BY <1>1, <1>4, <2>2 DEF Unlink
<1>5. CASE LinkOwn(t)
  <2>1. New(t) \in Tower /\ up[t] \in Level
    BY <1>5, Locals, ConstantFacts DEF LinkOwn
  <2>2. CASE /\ CanExchange(New(t), up[t], Ptr(New(t), up[t]))
             /\ Exchange(New(t), up[t], prev[t][up[t]].next)
    BY <2>1, <2>2, ExchangeKeepsTags
  <2> QED BY <1>1, <1>5, <2>2 DEF LinkOwn
<1>6. CASE LinkIn(t)
  <2>1. up[t] \in Level /\ prev[t][up[t]].node \in Tower
    BY <1>6, Locals DEF LinkIn, LocalTypeOK
  <2>2. CASE /\ CanExchange(prev[t][up[t]].node, up[t], prev[t][up[t]].next)
             /\ Exchange(prev[t][up[t]].node, up[t], New(t))
    BY <2>1, <2>2, ExchangeKeepsTags
  <2> QED BY <1>1, <1>6, <2>2 DEF LinkIn
<1>7. CASE ~(HelpUnlink(t) \/ TagLevel(t) \/ Unlink(t) \/ LinkOwn(t) \/ LinkIn(t))
  BY <1>1, <1>7 DEF Step, FindStep, RemoveStep, InsertStep, Begin, Leave, FindInit, InitLevel,
       StartSearch, LowerLevel, ReadNext, CheckTag, HelpSubRef, FinalRead, FinalCheck,
       LoadHar, CasHar, UnlinkSubRef, UnlinkLen, NewNode, CompareMax, StoreMax, Count,
       LinkCheck, LinkRecheck, LinkAddRef, LinkUndo, LinkEnd, memory
<1> QED BY <1>2, <1>3, <1>4, <1>5, <1>6, <1>7

(* Every step keeps tags on removed nodes only.                            *)
LEMMA TaggedStep ==
    ASSUME Inv, NEW t \in Thread, Begin(t) \/ Step(t)
    PROVE  TaggedAreRemoved'
<1> TaggedAreRemoved /\ MemoryTypeOK
  BY DEF Inv, TypeOK
<1>1. TagLevel(t) => target[t] \in Node /\ har[target[t]].removed
  BY Locals DEF TagLevel, RemoveLabel, Inv, Removal, RemovalAt
<1>2. ASSUME NEW l \in Level
      PROVE  Tag(head, l)' = 0
  BY <1>1, TagsKept, ConstantFacts DEF TaggedAreRemoved
<1>3. ASSUME NEW n \in Node, NEW l \in Level, Tag(n, l)' = 1
      PROVE  har'[n].removed
  <2>1. har[n].removed
    BY <1>1, <1>3, TagsKept, ConstantFacts DEF TaggedAreRemoved
  <2> QED BY <2>1, WordKept
<1> QED BY <1>2, <1>3 DEF TaggedAreRemoved

(* How far a removal has got is not undone by a step of another thread.    *)
LEMMA OthersRemoval ==
    ASSUME Inv, NEW t \in Thread, Begin(t) \/ Step(t), NEW u \in Thread, u # t
    PROVE  RemovalAt(u)'
<1> LocalTypeOK /\ MemoryTypeOK /\ RemovalAt(u)
  BY DEF Inv, TypeOK, Removal
<1>1. /\ pc'[u] = pc[u] /\ level'[u] = level[u] /\ nxt'[u] = nxt[u]
      /\ target'[u] = target[u] /\ down'[u] = down[u]
  BY OthersKept
<1>2. /\ pc[u] = "help" => nxt[u] \in Tower /\ level[u] - 1 \in Level
      /\ pc[u] \in {"curHelp", "curSub"} => nxt[u] \in Tower /\ 0 \in Level
  BY Locals, ConstantFacts DEF AheadLabel, Level
<1>3. pc[u] \in {"tag", "unlink", "unlinkSub"} =>
         /\ target[u] \in Node /\ target[u] \in Tower
         /\ har'[target[u]].height = har[target[u]].height
  <2>1. pc[u] \in {"tag", "unlink", "unlinkSub"} =>
           target[u] \in Node /\ target[u] \in Allocated
    BY Locals, ConstantFacts DEF RemoveLabel, Inv, PointersAllocated
  <2> QED BY <2>1, WordKept, ConstantFacts
<1>4. \A o \in Tower, i \in Level : Tag(o, i) = 1 => Tag(o, i)' = 1
  BY TagsKept DEF Tag
<1>5. (pc[u] = "help" => Tag(nxt[u], level[u] - 1) = 1)'
  <2> SUFFICES ASSUME pc[u] = "help" PROVE Tag(nxt[u], level[u] - 1)' = 1
    BY <1>1
  <2>1. Tag(nxt[u], level[u] - 1)' = next'[nxt[u]][level[u] - 1].tag
    BY <1>1 DEF Tag
  <2>2. next'[nxt[u]][level[u] - 1].tag = 1
    BY <1>2, TagsKept DEF RemovalAt, Tag
  <2> QED BY <2>1, <2>2
<1>6. (pc[u] \in {"curHelp", "curSub"} => Tag(nxt[u], 0) = 1)'
  <2> SUFFICES ASSUME pc[u] \in {"curHelp", "curSub"} PROVE next'[nxt[u]][0].tag = 1
    BY <1>1 DEF Tag
  <2> QED BY <1>2, TagsKept DEF RemovalAt, Tag
<1>7. (pc[u] \in {"tag", "unlink", "unlinkSub"} => har[target[u]].removed)'
  BY <1>1, <1>3, WordKept DEF RemovalAt
<1>8. ASSUME NEW l \in Level,
             \/ pc[u] = "tag" /\ down[u] < l
             \/ pc[u] \in {"unlink", "unlinkSub"},
             l < har[target[u]].height
      PROVE  next'[target[u]][l].tag = 1
  BY <1>3, <1>8, TagsKept DEF RemovalAt, Tag
<1>9. (\A l \in Level :
          /\ \/ pc[u] = "tag" /\ down[u] < l
             \/ pc[u] \in {"unlink", "unlinkSub"}
          /\ l < har[target[u]].height
          => Tag(target[u], l) = 1)'
  BY <1>1, <1>3, <1>8 DEF Tag
<1> QED BY <1>5, <1>7, <1>9, <1>6 DEF RemovalAt

(* Every step of a removal leaves the removed bit and the tags it relies   *)
(* on.                                                                     *)
LEMMA RemovalStep ==
    ASSUME Inv, NEW t \in Thread, Begin(t) \/ Step(t)
    PROVE  Removal'
<1> LocalTypeOK /\ MemoryTypeOK /\ RemovalAt(t) /\ ControlAt(t)
  BY DEF Inv, TypeOK, Removal, Control
<1> SUFFICES RemovalAt(t)'
  BY OthersRemoval DEF Removal
<1> USE DEF Goto
<1>10. pc'[t] \notin AheadLabel
  BY ListLabels
<1>1. CASE pc'[t] \notin {"help", "tag", "unlink", "unlinkSub"}
  BY <1>1, <1>10 DEF RemovalAt, AheadLabel
<1>2. CASE CheckTag(t)
  <2>1. CASE pc'[t] = "help"
    <3>1. /\ Tag(nxt[t], level[t] - 1) = 1
          /\ UNCHANGED <<level, nxt, next>>
      BY <1>2, <2>1 DEF CheckTag, Advance, Descend, memory, LocalTypeOK
    <3> QED BY <2>1, <3>1 DEF RemovalAt, Tag
  <2>2. CASE pc'[t] # "help"
    BY <1>1, <1>2, <2>2 DEF CheckTag, Advance, Descend, LocalTypeOK
  <2> QED BY <2>1, <2>2
<1>3. CASE CasHar(t)
  <2>1. target[t] \in Node /\ target[t] \in Allocated
    BY <1>3, Locals, ConstantFacts DEF CasHar, RemoveLabel, Inv, PointersAllocated
  <2>2. CASE SetRemoved(target[t]) /\ down' = [down EXCEPT ![t] = har[target[t]].height - 1]
             /\ Goto(t, "tag")
    <3>1. har'[target[t]].removed /\ har'[target[t]].height = har[target[t]].height
      BY <2>1, <2>2, RemovedStep
    <3>2. target' = target /\ down'[t] = har[target[t]].height - 1 /\ pc'[t] = "tag"
      BY <1>3, <2>2 DEF CasHar, LocalTypeOK
    <3>3. har[target[t]].height \in Int /\ \A l \in Level : l \in Int
      BY <2>1 DEF MemoryTypeOK, Word, Level
    <3> QED BY <3>1, <3>2, <3>3 DEF RemovalAt
  <2>3. CASE GiveUp(t)
    BY <1>1, <2>3 DEF GiveUp, LocalTypeOK
  <2> QED BY <1>3, <2>2, <2>3 DEF CasHar
<1>4. CASE TagLevel(t)
  <2>1. /\ target[t] \in Node /\ target[t] \in Tower /\ target[t] \in Allocated
        /\ down[t] \in Level /\ target' = target
    BY <1>4, Locals, ConstantFacts
    DEF TagLevel, RemoveLabel, Inv, PointersAllocated
  <2>2. har'[target[t]] = har[target[t]] /\ har[target[t]].removed
    BY <1>4 DEF TagLevel, RemovalAt
  <2>3. CASE Tag(target[t], down[t]) = 0
    <3>1. \A i \in Level :
             Tag(target[t], i)' = IF i = down[t] THEN 1 ELSE Tag(target[t], i)
      BY <1>4, <2>1, <2>3, PtrAfterSetTag DEF TagLevel
    <3>2. \A l \in Level : down[t] < l /\ l < har[target[t]].height
                              => Tag(target[t], l) = 1
      BY <1>4 DEF TagLevel, RemovalAt
    <3>3. \A l \in Level : l \in Nat
      BY DEF Level
    <3>4. CASE down[t] = 0
      <4>1. pc'[t] = "unlink"
        BY <1>4, <2>3, <3>4 DEF TagLevel, LocalTypeOK
      <4>2. \A l \in Level : l < har[target[t]].height => Tag(target[t], l)' = 1
        BY <3>1, <3>2, <3>3, <3>4
      <4> QED BY <2>1, <2>2, <4>1, <4>2 DEF RemovalAt, Tag
    <3>5. CASE down[t] # 0
      <4>1. pc'[t] = "tag" /\ down'[t] = down[t] - 1
        BY <1>4, <2>3, <3>5 DEF TagLevel, LocalTypeOK
      <4>2. \A l \in Level : down[t] - 1 < l /\ l < har[target[t]].height
                                => Tag(target[t], l)' = 1
        BY <2>1, <3>1, <3>2, <3>3
      <4> QED BY <2>1, <2>2, <4>1, <4>2 DEF RemovalAt, Tag
    <3> QED BY <3>4, <3>5
  <2>4. CASE Tag(target[t], down[t]) # 0
    BY <1>1, <1>4, <2>4 DEF TagLevel, GiveUp, LocalTypeOK
  <2> QED BY <2>3, <2>4
<1>5. CASE Unlink(t)
  <2>1. /\ target[t] \in Node /\ target[t] \in Tower
        /\ UNCHANGED <<target, har>>
    BY <1>5, Locals, ConstantFacts DEF Unlink, RemoveLabel, removal
  <2>2. \A l \in Level : l < har[target[t]].height => next'[target[t]][l].tag = 1
    BY <1>5, <2>1, TagsKept DEF Unlink, RemovalAt, Tag
  <2>3. pc'[t] \in {"unlinkSub", "find"} /\ har[target[t]].removed
    BY <1>5 DEF Unlink, LocalTypeOK, RemovalAt
  <2> QED BY <2>1, <2>2, <2>3 DEF RemovalAt, Tag
<1>6. CASE UnlinkSubRef(t)
  <2>1. target[t] \in Node /\ UNCHANGED <<target, next>>
    BY <1>6, Locals DEF UnlinkSubRef, RemoveLabel
  <2>2. /\ har'[target[t]].height = har[target[t]].height
        /\ har'[target[t]].removed = har[target[t]].removed
    BY <1>6, <2>1, RefSteps DEF UnlinkSubRef
  <2>3. pc'[t] \in {"panic", "unlinkLen", "unlink"}
    BY <1>6 DEF UnlinkSubRef, LocalTypeOK
  <2> QED BY <1>6, <2>1, <2>2, <2>3 DEF UnlinkSubRef, RemovalAt, Tag
<1>7. CASE ~(CheckTag(t) \/ CasHar(t) \/ TagLevel(t) \/ Unlink(t) \/ UnlinkSubRef(t))
  <2>1. CASE Begin(t) \/ Leave(t)
    BY <1>1, <2>1 DEF Begin, Leave, LocalTypeOK
  <2>2. CASE \/ FindInit(t) \/ InitLevel(t) \/ StartSearch(t) \/ LowerLevel(t)
             \/ ReadNext(t) \/ HelpUnlink(t) \/ HelpSubRef(t)
    BY <1>1, <2>2 DEF FindInit, InitLevel, StartSearch, LowerLevel, ReadNext, HelpUnlink,
         HelpSubRef, Consider, Descend, LocalTypeOK
  <2>3. CASE FinalRead(t) \/ FinalCheck(t)
    BY <1>1, <2>3 DEF FinalRead, FinalCheck, Return, Resume, LocalTypeOK
  <2>4. CASE LoadHar(t) \/ UnlinkLen(t)
    BY <1>1, <2>4 DEF LoadHar, GiveUp, UnlinkLen, LocalTypeOK
  <2>5. CASE InsertStep(t)
    BY <1>1, <2>5 DEF InsertStep, NewNode, CompareMax, StoreMax, Count, LinkCheck, LinkRecheck,
         LinkOwn, LinkAddRef, LinkIn, LinkUndo, LinkEnd, Relink, LocalTypeOK
  <2> QED BY <1>7, <2>1, <2>2, <2>3, <2>4, <2>5 DEF Step, FindStep, RemoveStep
<1> QED BY <1>2, <1>3, <1>4, <1>5, <1>6, <1>7

(* Whoever takes a node out of a level has found it tagged there.          *)
LEMMA UnlinkedTagged ==
    ASSUME Inv, NEW t \in Thread, Begin(t) \/ Step(t),
           NEW n \in Node, NEW l \in Level, l \in linked[n] \ linked'[n]
    PROVE  har[n].removed /\ Tag(n, l) = 1
<1> MemoryTypeOK /\ TaggedAreRemoved /\ RemovalAt(t) /\ ControlAt(t)
  BY DEF Inv, TypeOK, Removal, Control
<1>1. CASE HelpUnlink(t)
  <2>1. n = nxt[t] /\ l = level[t] - 1
    BY <1>1, Locals DEF HelpUnlink, MemoryTypeOK
  <2> QED BY <1>1, <2>1 DEF HelpUnlink, RemovalAt, TaggedAreRemoved
<1>2. CASE Unlink(t)
  <2>1. n = target[t] /\ l = down[t]
    BY <1>2, Locals DEF Unlink, RemoveLabel, MemoryTypeOK
  <2>2. l < har[n].height
    BY <1>2, <2>1 DEF Unlink, ControlAt
  <2> QED BY <1>2, <2>1, <2>2 DEF Unlink, RemovalAt
<1>3. CASE LinkIn(t)
  <2>1. New(t) \in Node
    BY <1>3, Locals DEF LinkIn
  <2> QED BY <1>3, <2>1 DEF LinkIn, MemoryTypeOK
<1>4. CASE ~(HelpUnlink(t) \/ Unlink(t) \/ LinkIn(t))
  <2>1. UNCHANGED linked
    BY <1>4 DEF Step, FindStep, RemoveStep, InsertStep, Begin, Leave, FindInit, InitLevel,
         StartSearch, LowerLevel, ReadNext, CheckTag, HelpSubRef, FinalRead, FinalCheck,
         LoadHar, CasHar, TagLevel, UnlinkSubRef, UnlinkLen, NewNode, CompareMax, StoreMax,
         Count, LinkCheck, LinkRecheck, LinkOwn, LinkAddRef, LinkUndo, LinkEnd,
         memory
  <2> QED BY <2>1
<1> QED BY <1>1, <1>2, <1>3, <1>4

-----------------------------------------------------------------------------
(* The theorems *)

(* The first states satisfy the invariant: no call is in progress, and     *)
(* there are no nodes.                                                     *)
THEOREM InvInit == Init => Inv
<1> SUFFICES ASSUME Init PROVE Inv
  OBVIOUS
<1> USE ConstantFacts, MemoryAssumption DEF Init, MemoryInit, LocalInit
<1>1. MemoryTypeOK
  <2>1. [ptr |-> Null, tag |-> 0] \in MaybeTagged
    BY DEF MaybeTagged
  <2>2. [height |-> 0, refs |-> 0, removed |-> FALSE] \in Word
    BY DEF Word
  <2>3. key \in [Node -> Key]
    OBVIOUS
  <2> QED BY <2>1, <2>2, <2>3 DEF MemoryTypeOK
<1>2. LocalTypeOK
  <2>1. [op |-> "get", key |-> CHOOSE k \in Key : TRUE] \in Request
    BY DEF Request, Operation
  <2>2. NoPrev \in [Level -> [node : Tower, next : NodeOrNull]]
    BY DEF NoPrev
  <2>3. pc \in [Thread -> Label] /\ ret \in [Thread -> Use]
    BY DEF Label, Use, Operation
  <2>4. prev \in [Thread -> [Level -> [node : Tower, next : NodeOrNull]]]
    BY <2>2
  <2>5. call \in [Thread -> Request]
    BY <2>1
  <2> QED BY <2>3, <2>4, <2>5 DEF LocalTypeOK
<1>3. Allocated = {}
  BY DEF Allocated
<1>4. PointersAllocated
  BY <1>3 DEF PointersAllocated, Ptr, NoPrev
<1>5. Fresh
  BY <1>3 DEF Fresh, SearchLabel, FindLabel, RemoveLabel
<1>6. Control
  BY DEF Control, ControlAt, BuildLabel, LinkLabel, RemoveLabel, Linking, SearchLabel,
       FindLabel, AheadLabel
<1>7. TaggedAreRemoved
  BY DEF TaggedAreRemoved, Tag
<1>8. Removal
  BY DEF Removal, RemovalAt
<1> QED BY <1>1, <1>2, <1>4, <1>5, <1>6, <1>7, <1>8 DEF Inv, TypeOK

(* Every step of every thread preserves it.                                *)
THEOREM InvStep == Inv /\ [Next]_vars => Inv'
<1> SUFFICES ASSUME Inv, [Next]_vars PROVE Inv'
  OBVIOUS
<1>1. CASE UNCHANGED vars
  BY <1>1 DEF vars, memory, locals, request, walk, removal, Inv, TypeOK, MemoryTypeOK,
       LocalTypeOK, PointersAllocated, Allocated, Ptr, Fresh, New, Control, ControlAt,
       Linking, TaggedAreRemoved, Tag, Removal, RemovalAt
<1>2. ASSUME NEW t \in Thread, Begin(t) \/ Step(t)
      PROVE  Inv'
  BY <1>2, MemoryTypeStep, LocalTypeStep, PointersStep, FreshStep, ControlStep,
     TaggedStep, RemovalStep DEF Inv, TypeOK
<1> QED BY <1>1, <1>2 DEF Next, Terminating

(* TypeOK holds in every reachable state, for any threads, keys, heights   *)
(* and scripts.                                                            *)
THEOREM TypeCorrect == Spec => []TypeOK
<1>1. Inv => TypeOK
  BY DEF Inv
<1> QED BY <1>1, InvInit, InvStep, PTL DEF Spec

(* The invariant itself.                                                   *)
THEOREM Invariance == Spec => []Inv
BY InvInit, InvStep, PTL DEF Spec

(* A tagged level never changes again and a removed node stays removed,    *)
(* whatever other threads exchange, tag, count or build.                   *)
THEOREM TagsStayFrozen == Spec => TagsFreeze
<1> DEFINE Frozen == /\ \A n \in Node, l \in Level :
                            Tag(n, l) = 1 => next'[n][l] = next[n][l]
                     /\ \A n \in Node : har[n].removed => har'[n].removed
<1>1. Inv /\ [Next]_vars => [Frozen]_vars
  <2> SUFFICES ASSUME Inv, NEW t \in Thread, Begin(t) \/ Step(t) PROVE Frozen
    BY DEF Next, Terminating
  <2> QED BY TagsKept, WordKept, ConstantFacts
<1> QED BY <1>1, Invariance, PTL DEF Spec, TagsFreeze

(* A node leaves a level of the list only when it is removed and tagged    *)
(* there: no interleaving of unlink and find takes out a live entry.       *)
THEOREM UnlinkedWereRemoved == Spec => OnlyRemovedAreUnlinked
<1> DEFINE Safe == \A n \in Node, l \in Level :
                       l \in linked[n] \ linked'[n] => har[n].removed /\ Tag(n, l) = 1
<1>1. Inv /\ [Next]_vars => [Safe]_vars
  <2> SUFFICES ASSUME Inv, NEW t \in Thread, Begin(t) \/ Step(t) PROVE Safe
    BY DEF Next, Terminating
  <2> QED BY UnlinkedTagged
<1> QED BY <1>1, Invariance, PTL DEF Spec, OnlyRemovedAreUnlinked

=============================================================================
