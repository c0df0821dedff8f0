------------------------ MODULE SyncSkipListShapeProofs ------------------------
(***************************************************************************)
(* The shape of the list, SyncSkipListShape.tla, is kept by every step.    *)
(* A step changes the chains in one of five ways, which ChainStep lists    *)
(* with all a proof needs to know of each; the rest argues from those.     *)
(***************************************************************************)
EXTENDS SyncSkipListShape, SyncSkipListProofs

(* A level that has been in the list stays so: it leaves only tagged, and  *)
(* tags stay.                                                              *)
LEMMA ReachedKept ==
    ASSUME Inv, NEW t \in Thread, Begin(t) \/ Step(t),
           NEW n \in Node, NEW l \in Level, Reached(n, l)
    PROVE  Reached(n, l)'
<1>1. Tag(n, l) = 1 => Tag(n, l)' = 1
  BY TagsKept, ConstantFacts DEF Tag
<1>2. CASE l \in linked[n]
  BY <1>1, <1>2, UnlinkedTagged DEF Reached
<1> QED BY <1>1, <1>2 DEF Reached

(* The tags of the two kinds of levels.                                    *)
LEMMA TagType ==
    ASSUME MemoryTypeOK, NEW m \in Tower, NEW l \in Level
    PROVE  Tag(m, l) \in {0, 1}
BY DEF MemoryTypeOK, MaybeTagged, Tag

(* The node reached by a compare-exchange that expects it, and what the    *)
(* exchange shows of the tower it was made on.                             *)
LEMMA ExchangedInList ==
    ASSUME MemoryTypeOK, NEW m \in Tower, NEW l \in Level, NEW n,
           ReachedTo(m, l), CanExchange(m, l, n)
    PROVE  InList(m, l) /\ Ptr(m, l) = n /\ Tag(m, l) = 0
<1>1. Ptr(m, l) = n /\ Tag(m, l) = 0
  BY DEF CanExchange, Ptr, Tag
<1>2. l \in 0 .. l
  BY DEF Level
<1>3. m # head => m \in Node
  BY ConstantFacts
<1> QED BY <1>1, <1>2, <1>3 DEF ReachedTo, Reached, InList

(* Taking node n out after tower p, on level l.                            *)
TakesOut(p, n, l) ==
    /\ InList(p, l) /\ Ptr(p, l) = n /\ Tag(p, l) = 0
    /\ l \in linked[n] /\ Tag(n, l) = 1
    /\ \A o \in Tower, i \in Level :
          Ptr(o, i)' = IF o = p /\ i = l THEN Ptr(n, l) ELSE Ptr(o, i)
    /\ \A o \in Node : linked'[o] = IF o = n THEN linked[o] \ {l} ELSE linked[o]

(* Putting the new node of thread t in after tower p, on level l.          *)
PutsIn(t, p, l) ==
    /\ LinkIn(t) /\ l = up[t] /\ p = prev[t][l].node
    /\ InList(p, l) /\ Tag(p, l) = 0
    /\ l \notin linked[New(t)] /\ Ptr(New(t), l) = Ptr(p, l)
    /\ \A o \in Tower, i \in Level :
          Ptr(o, i)' = IF o = p /\ i = l THEN New(t) ELSE Ptr(o, i)
    /\ \A o \in Node :
          linked'[o] = IF o = New(t) THEN linked[o] \cup {l} ELSE linked[o]

(* Pointing level l of the new node of thread t at its successor.          *)
Points(t, l) ==
    /\ LinkOwn(t) /\ l = up[t]
    /\ l \notin linked[New(t)]
    /\ \A o \in Tower, i \in Level :
          Ptr(o, i)' = IF o = New(t) /\ i = l THEN prev[t][l].next ELSE Ptr(o, i)

(* What a step does to the chains.                                         *)
LEMMA ChainStep ==
    ASSUME Inv, Shape, NEW t \in Thread, Begin(t) \/ Step(t)
    PROVE  \/ \E p \in Tower, n \in Node, l \in Level : TakesOut(p, n, l)
           \/ \E p \in Tower, l \in Level : PutsIn(t, p, l)
           \/ (\E l \in Level : Points(t, l)) /\ UNCHANGED linked
           \/ (\A o \in Tower, i \in Level : Ptr(o, i)' = Ptr(o, i)) /\ UNCHANGED linked
<1> MemoryTypeOK /\ LocalTypeOK /\ SuccessorsLinked /\ HeldAt(t) /\ LinkingAt(t)
    /\ RemovalAt(t) /\ ControlAt(t) /\ TaggedAreRemoved
  BY DEF Inv, TypeOK, Shape, Removal, Control
<1>1. ASSUME NEW p \in Tower, NEW n \in Node, NEW l \in Level, ReachedTo(p, l),
             Tag(n, l) = 1, CanExchange(p, l, n), Exchange(p, l, Ptr(n, l)),
             linked' = [linked EXCEPT ![n] = @ \ {l}]
      PROVE  TakesOut(p, n, l)
  <2>1. InList(p, l) /\ Ptr(p, l) = n /\ Tag(p, l) = 0
    BY <1>1, ExchangedInList
  <2>2. l \in linked[n]
    BY <2>1, ConstantFacts DEF SuccessorsLinked
  <2>3. \A o \in Tower, i \in Level :
            Ptr(o, i)' = IF o = p /\ i = l THEN Ptr(n, l) ELSE Ptr(o, i)
    BY <1>1, PtrAfterExchange
  <2>4. \A o \in Node : linked'[o] = IF o = n THEN linked[o] \ {l} ELSE linked[o]
    BY <1>1 DEF MemoryTypeOK
  <2> QED BY <1>1, <2>1, <2>2, <2>3, <2>4 DEF TakesOut
<1>2. CASE HelpUnlink(t)
  <2>1. nxt[t] \in Node /\ curr[t] \in Tower /\ level[t] - 1 \in Level
    BY <1>2, Locals DEF HelpUnlink, LocalTypeOK
  <2>2. CASE UNCHANGED <<next, linked>>
    BY <2>2 DEF Ptr
  <2>3. CASE /\ CanExchange(curr[t], level[t] - 1, nxt[t])
             /\ Exchange(curr[t], level[t] - 1, Ptr(nxt[t], level[t] - 1))
             /\ linked' = [linked EXCEPT ![nxt[t]] = @ \ {level[t] - 1}]
    <3>1. ReachedTo(curr[t], level[t] - 1) /\ Tag(nxt[t], level[t] - 1) = 1
      BY <1>2 DEF HelpUnlink, HeldAt, RemovalAt
    <3>2. TakesOut(curr[t], nxt[t], level[t] - 1)
      BY <1>1, <2>1, <2>3, <3>1
    <3> QED BY <2>1, <3>2
  <2> QED BY <1>2, <2>2, <2>3 DEF HelpUnlink
<1>3. CASE Unlink(t)
  <2>1. target[t] \in Node /\ down[t] \in Level /\ prev[t][down[t]].node \in Tower
    BY <1>3, Locals DEF Unlink, LocalTypeOK, RemoveLabel
  <2>2. CASE UNCHANGED <<next, linked>>
    BY <2>2 DEF Ptr
  <2>3. CASE /\ CanExchange(prev[t][down[t]].node, down[t], target[t])
             /\ Exchange(prev[t][down[t]].node, down[t], Ptr(target[t], down[t]))
             /\ linked' = [linked EXCEPT ![target[t]] = @ \ {down[t]}]
    <3>1. ReachedTo(prev[t][down[t]].node, down[t]) /\ Tag(target[t], down[t]) = 1
      BY <1>3, <2>1 DEF Unlink, HeldAt, RemovalAt, ControlAt
    <3>2. TakesOut(prev[t][down[t]].node, target[t], down[t])
      BY <1>1, <2>1, <2>3, <3>1
    <3> QED BY <2>1, <3>2
  <2> QED BY <1>3, <2>2, <2>3 DEF Unlink
<1>4. CASE LinkIn(t)
  <2>1. New(t) \in Node /\ up[t] \in Level /\ prev[t][up[t]].node \in Tower
    BY <1>4, Locals DEF LinkIn, LocalTypeOK
  <2>2. CASE UNCHANGED <<next, linked>>
    BY <2>2 DEF Ptr
  <2>3. CASE /\ CanExchange(prev[t][up[t]].node, up[t], prev[t][up[t]].next)
             /\ Exchange(prev[t][up[t]].node, up[t], New(t))
             /\ linked' = [linked EXCEPT ![New(t)] = @ \cup {up[t]}]
    <3>1. ReachedTo(prev[t][up[t]].node, up[t])
      BY <2>1 DEF HeldAt
    <3>2. /\ InList(prev[t][up[t]].node, up[t]) /\ Tag(prev[t][up[t]].node, up[t]) = 0
          /\ Ptr(prev[t][up[t]].node, up[t]) = prev[t][up[t]].next
      BY <2>1, <2>3, <3>1, ExchangedInList
    <3>3. up[t] \notin linked[New(t)] /\ Ptr(New(t), up[t]) = prev[t][up[t]].next
      <4>1. Linking(t) /\ ~(up[t] < up[t])
        BY <1>4, <2>1 DEF LinkIn, Linking, LinkLabel, Level
      <4> QED BY <1>4, <2>1, <4>1 DEF LinkIn, LinkingAt
    <3>4. \A o \in Tower, i \in Level :
              Ptr(o, i)' = IF o = prev[t][up[t]].node /\ i = up[t] THEN New(t) ELSE Ptr(o, i)
      BY <2>1, <2>3, PtrAfterExchange
    <3>5. \A o \in Node :
              linked'[o] = IF o = New(t) THEN linked[o] \cup {up[t]} ELSE linked[o]
      BY <2>1, <2>3 DEF MemoryTypeOK
    <3>6. PutsIn(t, prev[t][up[t]].node, up[t])
      BY <1>4, <3>2, <3>3, <3>4, <3>5 DEF PutsIn
    <3> QED BY <2>1, <3>6
  <2> QED BY <1>4, <2>2, <2>3 DEF LinkIn
<1>5. CASE LinkOwn(t)
  <2>1. New(t) \in Node /\ New(t) \in Tower /\ up[t] \in Level
    BY <1>5, Locals, ConstantFacts DEF LinkOwn
  <2>2. CASE UNCHANGED next
    BY <1>5, <2>2 DEF Ptr, LinkOwn
  <2>3. CASE Exchange(New(t), up[t], prev[t][up[t]].next)
    <3>1. up[t] \notin linked[New(t)]
      <4>1. Linking(t) /\ ~(up[t] < up[t])
        BY <1>5, <2>1 DEF LinkOwn, Linking, LinkLabel, Level
      <4> QED BY <1>5, <2>1, <4>1 DEF LinkOwn, LinkingAt
    <3>2. \A o \in Tower, i \in Level :
              Ptr(o, i)' = IF o = New(t) /\ i = up[t] THEN prev[t][up[t]].next ELSE Ptr(o, i)
      BY <2>1, <2>3, PtrAfterExchange
    <3> QED BY <1>5, <2>1, <3>1, <3>2 DEF LinkOwn, Points
  <2> QED BY <1>5, <2>2, <2>3 DEF LinkOwn
<1>6. CASE TagLevel(t)
  <2>1. target[t] \in Node /\ down[t] \in Level
    BY <1>6, Locals DEF TagLevel, RemoveLabel
  <2>2. CASE UNCHANGED next
    BY <1>6, <2>2 DEF TagLevel, Ptr
  <2>3. CASE SetTag(target[t], down[t])
    BY <1>6, <2>1, <2>3, PtrAfterSetTag DEF TagLevel
  <2> QED BY <1>6, <2>2, <2>3 DEF TagLevel
<1>7. CASE ~(HelpUnlink(t) \/ TagLevel(t) \/ Unlink(t) \/ LinkOwn(t) \/ LinkIn(t))
  <2>1. UNCHANGED <<next, linked>>
    BY <1>7 DEF Step, FindStep, RemoveStep, InsertStep, Begin, Leave, FindInit, InitLevel,
         StartSearch, LowerLevel, ReadNext, CheckTag, HelpSubRef, FinalRead, FinalCheck,
         LoadHar, CasHar, UnlinkSubRef, UnlinkLen, NewNode, CompareMax, StoreMax, Count,
         LinkCheck, LinkRecheck, LinkAddRef, LinkUndo, LinkEnd, memory
  <2> QED BY <2>1 DEF Ptr
<1> QED BY <1>2, <1>3, <1>4, <1>5, <1>6, <1>7

(* What is reached at all levels up to one stays reached there.            *)
LEMMA ReachedToKept ==
    ASSUME Inv, NEW t \in Thread, Begin(t) \/ Step(t),
           NEW m, NEW l \in Level, ReachedTo(m, l)
    PROVE  ReachedTo(m, l)'
<1>1. \A i \in 0 .. l : i \in Level
  BY ConstantFacts DEF Level
<1> QED BY <1>1, ReachedKept DEF ReachedTo

(* A removal begins at a node that is linked in the base level, or was.    *)
LEMMA RemovesReached ==
    ASSUME Inv, Shape, NEW t \in Thread, CasHar(t)
    PROVE  Reached(target[t], 0)
<1>1. target[t] \in Node /\ ReachedTo(target[t], 0)
  BY Locals DEF CasHar, RemoveLabel, Shape, HeldAt
<1>2. 0 \in 0 .. 0
  OBVIOUS
<1> QED BY <1>1, <1>2 DEF ReachedTo

(* So no step removes a node that has not been linked.                     *)
LEMMA UnreachedNotRemoved ==
    ASSUME Inv, Shape, NEW t \in Thread, Begin(t) \/ Step(t), NEW n \in Node,
           ~Reached(n, 0), ~har[n].removed
    PROVE  ~har'[n].removed
BY WordKept, RemovesReached

(* A node under construction that has no level linked yet is not reached.  *)
LEMMA UnlinkedNew ==
    ASSUME Inv, Shape, NEW t \in Thread,
           pc[t] \in BuildLabel \/ (Linking(t) /\ up[t] = 0)
    PROVE  New(t) \in Node /\ ~Reached(New(t), 0) /\ ~har[New(t)].removed
<1>1. 0 \in Level /\ New(t) \in Node
  <2>1. pc[t] # "idle"
    BY DEF BuildLabel, Linking, LinkLabel, SearchLabel, FindLabel, RemoveLabel
  <2> QED BY <2>1, Locals, ConstantFacts DEF Level
<1>2. 0 \notin linked[New(t)] /\ ~har[New(t)].removed
  BY <1>1 DEF Shape, LinkingAt
<1> QED BY <1>1, <1>2 DEF Reached, Inv, TaggedAreRemoved

(* A node is linked in its base level first.                               *)
LEMMA BaseFirstStep ==
    ASSUME Inv, Shape, NEW t \in Thread, Begin(t) \/ Step(t)
    PROVE  BaseFirst'
<1> MemoryTypeOK /\ LocalTypeOK
  BY DEF Inv, TypeOK
<1> SUFFICES ASSUME NEW n \in Node, ~Reached(n, 0)'
             PROVE  linked'[n] = {} /\ ~har'[n].removed /\ retired'[n] = 0
  BY DEF BaseFirst
<1>1. 0 \in Level
  BY ConstantFacts DEF Level
<1>2. ~Reached(n, 0)
  BY <1>1, ReachedKept
<1>3. linked[n] = {} /\ ~har[n].removed /\ retired[n] = 0
  BY <1>2 DEF Shape, BaseFirst
<1>4. linked'[n] = {}
  <2>1. CASE \E p \in Tower, o \in Node, l \in Level : TakesOut(p, o, l)
    BY <1>3, <2>1 DEF TakesOut
  <2>2. ASSUME NEW p \in Tower, NEW l \in Level, PutsIn(t, p, l), n = New(t)
        PROVE  FALSE
    <3>1. Linking(t) /\ l = up[t] /\ linked'[n] = linked[n] \cup {l}
      BY <2>2 DEF PutsIn, LinkIn, Linking, LinkLabel
    <3>2. up[t] # 0
      BY <2>2, <3>1 DEF Reached
    <3>3. 0 < up[t]
      BY <3>1, <3>2 DEF Level
    <3> QED BY <1>1, <1>2, <2>2, <3>1, <3>3 DEF Shape, LinkingAt
  <2>3. ASSUME NEW p \in Tower, NEW l \in Level, PutsIn(t, p, l)
        PROVE  linked'[n] = {}
    BY <1>3, <2>2, <2>3 DEF PutsIn
  <2>4. CASE UNCHANGED linked
    BY <1>3, <2>4
  <2> QED BY <2>1, <2>3, <2>4, ChainStep
<1>5. ~har'[n].removed
  BY <1>2, <1>3, UnreachedNotRemoved
<1>6. retired'[n] = 0
  <2>1. ASSUME NEW o \in Node, Reached(o, 0), SubRefAndRetire(o)
        PROVE  retired'[n] = retired[n]
    BY <1>2, <2>1 DEF SubRefAndRetire, MemoryTypeOK
  <2>2. CASE HelpSubRef(t)
    <3>1. nxt[t] \in Node /\ ReachedTo(nxt[t], level[t] - 1) /\ 0 \in 0 .. level[t] - 1
      BY <2>2, Locals DEF HelpSubRef, Shape, HeldAt, Level
    <3> QED BY <1>3, <2>1, <2>2, <3>1 DEF HelpSubRef, ReachedTo
  <2>3. CASE UnlinkSubRef(t)
    <3>1. target[t] \in Node /\ ReachedTo(target[t], 0) /\ 0 \in 0 .. 0
      BY <2>3, Locals DEF UnlinkSubRef, RemoveLabel, Shape, HeldAt
    <3> QED BY <1>3, <2>1, <2>3, <3>1 DEF UnlinkSubRef, ReachedTo
  <2>4. CASE ~(HelpSubRef(t) \/ UnlinkSubRef(t))
    <3>1. UNCHANGED retired
      BY <2>4 DEF Step, FindStep, RemoveStep, InsertStep, Begin, Leave, FindInit, InitLevel,
           StartSearch, LowerLevel, ReadNext, CheckTag, HelpUnlink, FinalRead, FinalCheck,
           LoadHar, CasHar, TagLevel, Unlink, UnlinkLen, NewNode, CompareMax, StoreMax, Count,
           LinkCheck, LinkRecheck, LinkOwn, LinkAddRef, LinkIn, LinkUndo, LinkEnd,
           memory
    <3> QED BY <1>3, <3>1
  <2> QED BY <2>2, <2>3, <2>4
<1> QED BY <1>4, <1>5, <1>6

(* Pointers keep leading to levels that have been in the list.             *)
LEMMA PointersReachedStep ==
    ASSUME Inv, Shape, NEW t \in Thread, Begin(t) \/ Step(t)
    PROVE  PointersReached'
<1> MemoryTypeOK /\ LocalTypeOK
  BY DEF Inv, TypeOK
<1> SUFFICES ASSUME NEW m \in Tower, NEW l \in Level
             PROVE  ReachedTo(Ptr(m, l), l)'
  BY DEF PointersReached
<1>1. PICK r : r = Ptr(m, l)'
  OBVIOUS
<1> SUFFICES ReachedTo(r, l)'
  BY <1>1 DEF ReachedTo, Reached
<1>2. ReachedTo(r, l) => ReachedTo(r, l)'
  BY ReachedToKept
<1>3. \A o \in Tower : ReachedTo(Ptr(o, l), l)
  BY DEF Shape, PointersReached
<1>4. ASSUME NEW p \in Tower, NEW n \in Node, NEW i \in Level, TakesOut(p, n, i)
      PROVE  ReachedTo(r, l)
  BY <1>1, <1>3, <1>4, ConstantFacts DEF TakesOut
<1>5. ASSUME NEW p \in Tower, NEW i \in Level, PutsIn(t, p, i)
      PROVE  ReachedTo(r, l)'
  <2>1. CASE p = m /\ i = l
    <3>1. r = New(t) /\ Linking(t) /\ up[t] = l /\ l \in linked'[New(t)]
      <4>1. New(t) \in Node
        BY <1>5, Locals DEF PutsIn, LinkIn
      <4> QED BY <1>1, <1>5, <2>1, <4>1 DEF PutsIn, LinkIn, Linking, LinkLabel
    <3>2. ASSUME NEW j \in 0 .. l, r \in Node
          PROVE  Reached(r, j)'
      <4>1. j \in Level /\ (j < l \/ j = l)
        BY ConstantFacts DEF Level
      <4>2. CASE j < l
        <5>1. Reached(r, j)
          BY <3>1, <4>1, <4>2 DEF Shape, LinkingAt
        <5> QED BY <3>2, <4>1, <5>1, ReachedKept
      <4>3. CASE j = l
        BY <3>1, <4>3 DEF Reached
      <4> QED BY <4>1, <4>2, <4>3
    <3> QED BY <3>2 DEF ReachedTo
  <2>2. CASE ~(p = m /\ i = l)
    BY <1>1, <1>2, <1>3, <1>5, <2>2 DEF PutsIn
  <2> QED BY <2>1, <2>2
<1>6. ASSUME NEW i \in Level, Points(t, i)
      PROVE  ReachedTo(r, l)
  BY <1>1, <1>3, <1>6 DEF Points, Shape, HeldAt
<1>7. CASE \A o \in Tower, i \in Level : Ptr(o, i)' = Ptr(o, i)
  BY <1>1, <1>2, <1>3, <1>7
<1>8. CASE \E p \in Tower, n \in Node, i \in Level : TakesOut(p, n, i)
  BY <1>2, <1>4, <1>8
<1>9. CASE \E p \in Tower, i \in Level : PutsIn(t, p, i)
  BY <1>5, <1>9
<1>10. CASE \E i \in Level : Points(t, i)
  BY <1>2, <1>6, <1>10
<1> QED BY <1>2, <1>7, <1>8, <1>9, <1>10, ChainStep

(* Taking a node out leaves every level one chain.                         *)
LEMMA ChainTakenOut ==
    ASSUME MemoryTypeOK, SuccessorsLinked, OnePredecessor,
           NEW p \in Tower, NEW n \in Node, NEW l \in Level, TakesOut(p, n, l)
    PROVE  SuccessorsLinked' /\ OnePredecessor'
<1> USE ConstantFacts
<1>0. \A m \in Tower, i \in Level : Ptr(m, i) \in NodeOrNull
  BY PtrType
<1> DEFINE s == Ptr(n, l)
<1>1. p # n /\ s # n
  <2>1. p # n
    BY DEF TakesOut
  <2>2. InList(p, l) /\ InList(n, l) /\ Ptr(p, l) = n /\ l \in linked[n]
    BY DEF TakesOut, InList
  <2> QED BY <2>1, <2>2 DEF OnePredecessor
<1>2. \A o \in Tower : InList(o, l) /\ Ptr(o, l) = n => o = p
  BY DEF TakesOut, OnePredecessor
<1>3. \A o \in Tower : InList(o, l) /\ s # Null /\ Ptr(o, l) = s => o = n
  <2>1. s # Null => s \in Node /\ l \in linked[s]
    BY <1>0 DEF TakesOut, InList, SuccessorsLinked
  <2>2. InList(n, l)
    BY DEF TakesOut, InList
  <2> QED BY <2>1, <2>2 DEF OnePredecessor
<1>4. \A o \in Tower, i \in Level :
          InList(o, i)' <=> InList(o, i) /\ ~(o = n /\ i = l)
  BY DEF TakesOut, InList
<1>5. \A o \in Tower, i \in Level :
          Ptr(o, i)' = IF o = p /\ i = l THEN s ELSE Ptr(o, i)
  BY DEF TakesOut
<1>6. InList(p, l) /\ Ptr(p, l) = n /\ InList(n, l)
  BY DEF TakesOut, InList
<1>7. \A o \in Node, i \in Level : i \in linked'[o] <=> i \in linked[o] /\ ~(o = n /\ i = l)
  BY DEF TakesOut
<1> HIDE DEF s
<1>8. s # Null => s \in Node /\ l \in linked[s]
  BY <1>0, <1>6 DEF s, SuccessorsLinked
<1>9. ASSUME NEW m \in Tower, NEW i \in Level, InList(m, i)', Ptr(m, i)' # Null,
             NEW r, r = Ptr(m, i)'
      PROVE  r \in Node /\ i \in linked'[r]
  <2>1. CASE m = p /\ i = l
    BY <1>1, <1>5, <1>7, <1>8, <1>9, <2>1
  <2>2. CASE ~(m = p /\ i = l)
    <3>1. r = Ptr(m, i) /\ InList(m, i) /\ r # Null
      BY <1>4, <1>5, <1>9, <2>2
    <3>2. r \in Node /\ i \in linked[r]
      BY <1>0, <3>1 DEF SuccessorsLinked
    <3>3. ~(r = n /\ i = l)
      BY <1>2, <2>2, <3>1
    <3> QED BY <1>7, <3>2, <3>3
  <2> QED BY <2>1, <2>2
<1>10. SuccessorsLinked'
  BY <1>9 DEF SuccessorsLinked
<1>11. ASSUME NEW o \in Node, NEW i \in Level, i \in linked'[o]
       PROVE  \E m \in Tower :
                 /\ InList(m, i)' /\ Ptr(m, i)' = o
                 /\ \A q \in Tower : InList(q, i)' /\ Ptr(q, i)' = o => q = m
  <2>1. i \in linked[o] /\ ~(o = n /\ i = l)
    BY <1>7, <1>11
  <2>2. PICK m \in Tower : /\ InList(m, i) /\ Ptr(m, i) = o
                           /\ \A q \in Tower : InList(q, i) /\ Ptr(q, i) = o => q = m
    BY <2>1 DEF OnePredecessor
  <2>3. CASE i = l /\ o = s
    <3>1. InList(p, i)' /\ Ptr(p, i)' = o
      BY <1>1, <1>4, <1>5, <1>6, <2>3
    <3>2. \A q \in Tower : InList(q, i)' /\ Ptr(q, i)' = o => q = p
      BY <1>3, <1>4, <1>5, <2>3
    <3> QED BY <3>1, <3>2
  <2>4. CASE ~(i = l /\ o = s)
    <3>1. ~(m = n /\ i = l) /\ ~(m = p /\ i = l)
      BY <1>6, <2>1, <2>2, <2>4 DEF s
    <3>2. InList(m, i)' /\ Ptr(m, i)' = o
      BY <1>4, <1>5, <2>2, <3>1
    <3>3. \A q \in Tower : InList(q, i)' /\ Ptr(q, i)' = o => q = m
      BY <1>4, <1>5, <2>2, <2>4
    <3> QED BY <3>2, <3>3
  <2> QED BY <2>3, <2>4
<1>12. \A o \in Node : linked'[o] \subseteq Level
  BY DEF TakesOut, MemoryTypeOK
<1>13. OnePredecessor'
  BY <1>11, <1>12 DEF OnePredecessor
<1> QED BY <1>10, <1>13

(* Every level stays one chain.                                            *)
LEMMA ChainKept ==
    ASSUME Inv, Shape, NEW t \in Thread, Begin(t) \/ Step(t)
    PROVE  SuccessorsLinked' /\ OnePredecessor'
<1> MemoryTypeOK /\ LocalTypeOK /\ SuccessorsLinked /\ OnePredecessor
    /\ TaggedAreRemoved
  BY DEF Inv, TypeOK, Shape
<1> USE ConstantFacts
<1>1. \A m \in Tower, l \in Level : Ptr(m, l) \in NodeOrNull
  BY PtrType
<1>2. ASSUME NEW p \in Tower, NEW n \in Node, NEW l \in Level, TakesOut(p, n, l)
      PROVE  SuccessorsLinked' /\ OnePredecessor'
  BY <1>2, ChainTakenOut
<1>3. ASSUME NEW p \in Tower, NEW l \in Level, PutsIn(t, p, l)
      PROVE  SuccessorsLinked' /\ OnePredecessor'
  <2> DEFINE s == Ptr(p, l)
  <2>0. PICK n : n = New(t)
    OBVIOUS
  <2>1. n \in Node /\ l \notin linked[n] /\ InList(p, l) /\ Ptr(n, l) = s
    BY <1>3, <2>0, Locals DEF PutsIn, LinkIn
  <2>2. p # n /\ \A o \in Tower : InList(o, l) => Ptr(o, l) # n
    BY <2>1 DEF InList, SuccessorsLinked
  <2>3. \A o \in Tower, i \in Level :
            Ptr(o, i)' = IF o = p /\ i = l THEN n ELSE Ptr(o, i)
    BY <1>3, <2>0 DEF PutsIn
  <2>4. ASSUME NEW o \in Node
        PROVE  /\ \A i \in Level : i \in linked'[o] <=> i \in linked[o] \/ (o = n /\ i = l)
               /\ linked'[o] \subseteq Level
    <3>1. linked'[o] = IF o = n THEN linked[o] \cup {l} ELSE linked[o]
      BY <1>3, <2>0 DEF PutsIn
    <3>2. linked[o] \subseteq Level
      BY DEF MemoryTypeOK
    <3> QED BY <3>1, <3>2
  <2>5. \A o \in Tower, i \in Level : InList(o, i)' <=> InList(o, i) \/ (o = n /\ i = l)
    BY <2>1, <2>4 DEF InList
  <2>6. n \in Tower
    BY <2>1
  <2>7. s # Null => s \in Node /\ l \in linked[s] /\ s # n
    BY <1>1, <2>1, <2>2 DEF SuccessorsLinked
  <2> HIDE DEF s
  <2>8. ASSUME NEW m \in Tower, NEW i \in Level, InList(m, i)', Ptr(m, i)' # Null,
               NEW r, r = Ptr(m, i)'
        PROVE  r \in Node /\ i \in linked'[r]
    <3>1. CASE m = p /\ i = l
      BY <2>1, <2>3, <2>4, <2>8, <3>1
    <3>2. CASE m = n /\ i = l
      BY <2>1, <2>2, <2>3, <2>4, <2>7, <2>8, <3>2
    <3>3. CASE ~(m = p /\ i = l) /\ ~(m = n /\ i = l)
      <4>1. r = Ptr(m, i) /\ InList(m, i) /\ r # Null
        BY <2>3, <2>5, <2>8, <3>3
      <4> QED BY <1>1, <2>4, <4>1 DEF SuccessorsLinked
    <3> QED BY <3>1, <3>2, <3>3
  <2>9. SuccessorsLinked'
    BY <2>8 DEF SuccessorsLinked
  <2>10. ASSUME NEW o \in Node, NEW i \in Level, i \in linked'[o]
         PROVE  \E m \in Tower :
                   /\ InList(m, i)' /\ Ptr(m, i)' = o
                   /\ \A q \in Tower : InList(q, i)' /\ Ptr(q, i)' = o => q = m
    <3>1. CASE o = n /\ i = l
      <4>1. InList(p, i)' /\ Ptr(p, i)' = o
        BY <2>1, <2>3, <2>5, <3>1
      <4>2. \A q \in Tower : InList(q, i)' /\ Ptr(q, i)' = o => q = p
        BY <2>1, <2>2, <2>3, <2>5, <2>7, <3>1
      <4> QED BY <4>1, <4>2
    <3>2. CASE ~(o = n /\ i = l)
      <4>1. PICK m \in Tower : /\ InList(m, i) /\ Ptr(m, i) = o
                               /\ \A q \in Tower : InList(q, i) /\ Ptr(q, i) = o => q = m
        BY <2>4, <2>10, <3>2 DEF OnePredecessor
      <4>2. CASE m = p /\ i = l
        <5>1. o = s
          BY <4>1, <4>2 DEF s
        <5>2. InList(n, i)' /\ Ptr(n, i)' = o
          BY <2>1, <2>2, <2>3, <2>5, <2>6, <4>2, <5>1
        <5>3. ASSUME NEW q \in Tower, InList(q, i)', Ptr(q, i)' = o
              PROVE  q = n
          <6>1. ~(q = p /\ i = l)
            BY <2>3, <3>2, <5>3
          <6>2. InList(q, i) => q = m
            BY <2>3, <4>1, <5>3, <6>1
          <6> QED BY <2>5, <4>2, <5>3, <6>1, <6>2
        <5> QED BY <2>6, <5>2, <5>3
      <4>3. CASE ~(m = p /\ i = l)
        <5>1. InList(m, i)' /\ Ptr(m, i)' = o
          BY <2>3, <2>5, <4>1, <4>3
        <5>2. i = l => Ptr(n, i) # o
          BY <2>1, <4>1, <4>3 DEF s
        <5>3. \A q \in Tower : InList(q, i)' /\ Ptr(q, i)' = o => q = m
          BY <2>3, <2>5, <3>2, <4>1, <5>2
        <5> QED BY <5>1, <5>3
      <4> QED BY <4>2, <4>3
    <3> QED BY <3>1, <3>2
  <2>11. OnePredecessor'
    BY <2>4, <2>10 DEF OnePredecessor
  <2> QED BY <2>9, <2>11
<1>4. ASSUME NEW l \in Level, Points(t, l), UNCHANGED linked
      PROVE  SuccessorsLinked' /\ OnePredecessor'
  <2>1. New(t) \in Node /\ \A o \in Tower, i \in Level : InList(o, i)' <=> InList(o, i)
    BY <1>4, Locals DEF Points, LinkOwn, InList
  <2>2. \A o \in Tower, i \in Level : InList(o, i) => Ptr(o, i)' = Ptr(o, i)
    BY <1>4, <2>1 DEF Points, InList
  <2>3. SuccessorsLinked'
    BY <1>4, <2>1, <2>2 DEF SuccessorsLinked
  <2>4. \A n \in Node : linked[n] \subseteq Level
    BY DEF MemoryTypeOK
  <2>5. OnePredecessor'
    BY <1>4, <2>1, <2>2, <2>4 DEF OnePredecessor
  <2> QED BY <2>3, <2>5
<1>5. CASE (\A o \in Tower, i \in Level : Ptr(o, i)' = Ptr(o, i)) /\ UNCHANGED linked
  <2>1. \A o \in Tower, i \in Level : InList(o, i)' <=> InList(o, i)
    BY <1>5 DEF InList
  <2>2. \A n \in Node : linked[n] \subseteq Level
    BY DEF MemoryTypeOK
  <2>3. SuccessorsLinked'
    BY <1>5, <2>1 DEF SuccessorsLinked
  <2>4. OnePredecessor'
    BY <1>5, <2>1, <2>2 DEF OnePredecessor
  <2> QED BY <2>3, <2>4
<1> QED BY <1>2, <1>3, <1>4, <1>5, ChainStep

(* Only allocated nodes are ever linked.                                   *)
LEMMA UnallocatedStep ==
    ASSUME Inv, Shape, NEW t \in Thread, Begin(t) \/ Step(t),
           NEW n \in Node, n \notin Allocated'
    PROVE  linked'[n] = {}
<1>1. n \notin Allocated /\ linked[n] = {}
  BY AllocatedGrows DEF Shape
<1>2. CASE \E p \in Tower, o \in Node, l \in Level : TakesOut(p, o, l)
  BY <1>1, <1>2 DEF TakesOut
<1>3. CASE \E p \in Tower, l \in Level : PutsIn(t, p, l)
  <2>1. New(t) \in Allocated
    BY <1>3 DEF PutsIn, LinkIn, Inv, Control, ControlAt, Linking, LinkLabel
  <2> QED BY <1>1, <1>3, <2>1 DEF PutsIn
<1> QED BY <1>1, <1>2, <1>3, ChainStep

(* The pointers a thread holds keep leading to such levels, whoever steps. *)
LEMMA OthersHeld ==
    ASSUME Inv, Shape, NEW t \in Thread, Begin(t) \/ Step(t), NEW u \in Thread, u # t
    PROVE  HeldAt(u)'
<1> LocalTypeOK /\ HeldAt(u)
  BY DEF Inv, TypeOK, Shape
<1>1. /\ pc'[u] = pc[u] /\ level'[u] = level[u] /\ curr'[u] = curr[u]
      /\ nxt'[u] = nxt[u] /\ prev'[u] = prev[u] /\ target'[u] = target[u]
  BY OthersKept
<1> DEFINE RT(m, l) == m \in Node => \A i \in 0 .. l : i \in linked'[m] \/ next'[m][i].tag = 1
<1>2. \A m : \A l \in Level : ReachedTo(m, l) => RT(m, l)
  BY ReachedToKept DEF ReachedTo, Reached, Tag
<1>3. 0 \in Level /\ (pc[u] \in {"next", "check", "help", "helpSub"} => level[u] - 1 \in Level)
  BY Locals, ConstantFacts DEF Level
<1>4. /\ pc[u] \in {"next", "check", "help", "helpSub"} => RT(curr[u], level[u] - 1)
      /\ pc[u] \in {"check", "help", "helpSub"} => RT(nxt[u], level[u] - 1)
      /\ pc[u] \in {"finalCheck"} \cup AheadLabel => RT(nxt[u], 0)
      /\ \A l \in Level : RT(prev[u][l].node, l) /\ RT(prev[u][l].next, l)
      /\ RT(target[u], 0)
  <2> HIDE DEF RT
  <2> QED BY <1>2, <1>3 DEF HeldAt
<1> QED BY <1>1, <1>4 DEF HeldAt, ReachedTo, Reached, Tag

(* A step leaves its thread, too, holding only such pointers.              *)
LEMMA OwnHeld ==
    ASSUME Inv, Shape, NEW t \in Thread, Begin(t) \/ Step(t)
    PROVE  HeldAt(t)'
<1> LocalTypeOK /\ MemoryTypeOK /\ HeldAt(t) /\ ControlAt(t)
  BY DEF Inv, TypeOK, Shape, Control
<1> USE DEF LocalTypeOK, Goto
<1> DEFINE RT(m, l) == m \in Node => \A i \in 0 .. l : i \in linked'[m] \/ next'[m][i].tag = 1
           Search == {"next", "check", "help", "helpSub"}
<1>1. \A m : \A l \in Level : ReachedTo(m, l) => RT(m, l)
  BY ReachedToKept DEF ReachedTo, Reached, Tag
<1>2. SUFFICES
        /\ pc'[t] \in Search => RT(curr'[t], level'[t] - 1)
        /\ pc'[t] \in {"check", "help", "helpSub"} => RT(nxt'[t], level'[t] - 1)
        /\ pc'[t] = "finalCheck" => RT(nxt'[t], 0)
        /\ \A l \in Level : RT(prev'[t][l].node, l) /\ RT(prev'[t][l].next, l)
        /\ RT(target'[t], 0)
  BY ListLabels DEF HeldAt, ReachedTo, Reached, Tag
<1>3. 0 \in Level /\ (pc[t] \in Search => level[t] - 1 \in Level /\ level[t] >= 1)
  BY Locals, ConstantFacts DEF Level, ControlAt
<1>4. \A m, l : m = head \/ m = Null => RT(m, l)
  BY ConstantFacts
<1>5. \A m \in Tower, l \in Level : RT(Ptr(m, l), l)
  BY <1>1 DEF Shape, PointersReached
<1>6. \A m : \A l \in Level, k \in Level : RT(m, l) /\ k <= l => RT(m, k)
  BY DEF Level
<1> HIDE DEF RT
<1>7. /\ pc[t] \in Search => RT(curr[t], level[t] - 1)
      /\ pc[t] \in {"check", "help", "helpSub"} => RT(nxt[t], level[t] - 1)
      /\ pc[t] = "finalCheck" => RT(nxt[t], 0)
      /\ \A l \in Level : RT(prev[t][l].node, l) /\ RT(prev[t][l].next, l)
      /\ RT(target[t], 0)
  BY <1>1, <1>3 DEF HeldAt
<1>8. ASSUME NEW n, pc[t] \in {"next", "check", "helpSub"}, RT(n, level[t] - 1),
             Descend(t, n), UNCHANGED target
      PROVE  /\ pc'[t] \in {"next", "final"}
             /\ pc'[t] \in Search => RT(curr'[t], level'[t] - 1)
             /\ \A l \in Level : RT(prev'[t][l].node, l) /\ RT(prev'[t][l].next, l)
             /\ RT(target'[t], 0)
  <2>1. pc'[t] \in {"next", "final"} /\ level'[t] = level[t] - 1 /\ curr'[t] = curr[t]
    BY <1>8 DEF Descend
  <2>2. pc'[t] \in Search => level'[t] - 1 \in Level /\ level'[t] - 1 <= level[t] - 1
    <3>1. level[t] \in 0 .. HEIGHT /\ level[t] >= 1
      BY <1>3, <1>8
    <3>2. pc'[t] \in Search => level[t] # 1
      BY <1>8 DEF Descend
    <3> QED BY <2>1, <3>1, <3>2, ConstantFacts DEF Level
  <2>3. \A l \in Level : prev'[t][l] = IF l = level[t] - 1 THEN [node |-> curr[t], next |-> n]
                                                       ELSE prev[t][l]
    BY <1>3, <1>8 DEF Descend
  <2>4. \A l \in Level : RT(prev'[t][l].node, l) /\ RT(prev'[t][l].next, l)
    <3>1. RT(curr[t], level[t] - 1)
      BY <1>7, <1>8
    <3>2. ASSUME NEW l \in Level
          PROVE  RT(prev'[t][l].node, l) /\ RT(prev'[t][l].next, l)
      <4>1. CASE l = level[t] - 1
        <5>1. prev'[t][l].node = curr[t] /\ prev'[t][l].next = n
          BY <2>3, <4>1
        <5> QED BY <1>8, <3>1, <4>1, <5>1
      <4>2. CASE l # level[t] - 1
        <5>1. prev'[t][l] = prev[t][l]
          BY <2>3, <4>2
        <5> QED BY <1>7, <5>1
      <4> QED BY <4>1, <4>2
    <3> QED BY <3>2
  <2>5. pc'[t] \in Search => RT(curr'[t], level'[t] - 1)
    <3>1. level[t] - 1 \in Level /\ RT(curr[t], level[t] - 1)
      BY <1>3, <1>7, <1>8
    <3> QED BY <1>6, <2>1, <2>2, <3>1
  <2>6. RT(target'[t], 0)
    BY <1>7, <1>8
  <2> QED BY <2>1, <2>4, <2>5, <2>6
<1>9. ASSUME NEW n, pc[t] \in {"next", "helpSub"}, RT(n, level[t] - 1),
             Consider(t, n), UNCHANGED target
      PROVE  /\ pc'[t] \in {"next", "final", "check"}
             /\ pc'[t] \in Search => RT(curr'[t], level'[t] - 1)
             /\ pc'[t] = "check" => RT(nxt'[t], level'[t] - 1)
             /\ \A l \in Level : RT(prev'[t][l].node, l) /\ RT(prev'[t][l].next, l)
             /\ RT(target'[t], 0)
  <2>1. CASE Descend(t, n)
    BY <1>8, <1>9, <2>1
  <2>2. CASE /\ nxt' = [nxt EXCEPT ![t] = n]
             /\ Goto(t, "check")
             /\ UNCHANGED <<level, curr, prev>>
    BY <1>7, <1>9, <2>2
  <2> QED BY <1>9, <2>1, <2>2 DEF Consider
<1>10. ASSUME NEW n, Return(t, n), RT(n, 0), UNCHANGED prev
       PROVE  /\ pc'[t] \notin Search \cup {"finalCheck"}
              /\ \A l \in Level : RT(prev'[t][l].node, l) /\ RT(prev'[t][l].next, l)
              /\ RT(target'[t], 0)
  BY <1>7, <1>10 DEF Return, Resume
<1>11. CASE Begin(t)
  BY <1>7, <1>11 DEF Begin, walk
<1>12. CASE Leave(t)
  BY <1>4, <1>7, <1>12 DEF Leave, NoPrev
<1>13. CASE FindInit(t)
  <2>1. \A l \in Level :
            prev'[t][l].node = head /\ prev'[t][l].next \in {Ptr(head, l), Null}
    BY <1>13 DEF FindInit
  <2> QED BY <1>4, <1>5, <1>7, <1>13, <2>1, ConstantFacts DEF FindInit, removal
<1>23. CASE InitLevel(t)
  <2>1. level[t] \in Level
    BY <1>23, Locals DEF InitLevel
  <2>2. \A l \in Level :
            /\ prev'[t][l].node = prev[t][l].node
            /\ prev'[t][l].next = IF l = level[t] THEN Ptr(head, l) ELSE prev[t][l].next
    BY <1>23, <2>1 DEF InitLevel
  <2>3. \A l \in Level : RT(prev'[t][l].node, l) /\ RT(prev'[t][l].next, l)
    BY <1>5, <1>7, <2>2, ConstantFacts
  <2> QED BY <1>7, <1>23, <2>3 DEF InitLevel, removal
<1>14. CASE StartSearch(t) \/ LowerLevel(t)
  BY <1>4, <1>7, <1>14 DEF StartSearch, LowerLevel, removal, ControlAt
<1>15. CASE ReadNext(t)
  BY <1>3, <1>5, <1>9, <1>15 DEF ReadNext, removal
<1>16. CASE CheckTag(t)
  <2>1. CASE Advance(t, nxt[t])
    <3>1. \A l \in Level : prev'[t][l] = IF l = level[t] - 1
                                           THEN [node |-> curr[t], next |-> nxt[t]]
                                           ELSE prev[t][l]
      BY <1>3, <1>16, <2>1 DEF CheckTag, Advance
    <3> QED BY <1>7, <1>16, <2>1, <3>1 DEF CheckTag, Advance, removal
  <2>2. CASE Descend(t, nxt[t])
    BY <1>7, <1>8, <1>16, <2>2 DEF CheckTag, removal
  <2>3. CASE Goto(t, "help") /\ UNCHANGED <<level, curr, nxt, prev>>
    BY <1>7, <1>16, <2>3 DEF CheckTag, removal
  <2> QED BY <1>16, <2>1, <2>2, <2>3 DEF CheckTag
<1>17. CASE HelpUnlink(t)
  BY <1>7, <1>17 DEF HelpUnlink, locals, walk, removal
<1>18. CASE HelpSubRef(t)
  <2>1. RT(Ptr(nxt[t], level[t] - 1), level[t] - 1)
    BY <1>3, <1>5, <1>18, Locals, ConstantFacts DEF HelpSubRef
  <2>2. CASE Goto(t, "panic") /\ UNCHANGED <<level, curr, nxt, prev>>
    BY <1>7, <1>18, <2>2 DEF HelpSubRef, removal
  <2>3. CASE Consider(t, Ptr(nxt[t], level[t] - 1))
    BY <1>9, <1>18, <2>1, <2>3 DEF HelpSubRef, removal
  <2> QED BY <1>18, <2>2, <2>3 DEF HelpSubRef
<1>19. CASE FinalRead(t)
  <2>1. CASE Return(t, Null)
    BY <1>4, <1>10, <1>19, <2>1 DEF FinalRead
  <2>2. CASE /\ nxt' = [nxt EXCEPT ![t] = Ptr(prev[t][0].node, 0)]
             /\ Goto(t, "finalCheck")
             /\ UNCHANGED target
    <3>1. RT(Ptr(prev[t][0].node, 0), 0)
      BY <1>3, <1>5
    <3> QED BY <1>7, <1>19, <2>2, <3>1 DEF FinalRead
  <2> QED BY <1>19, <2>1, <2>2 DEF FinalRead
<1>20. CASE FinalCheck(t)
  BY <1>4, <1>7, <1>10, <1>20 DEF FinalCheck
<1>21. CASE RemoveStep(t)
  BY <1>7, <1>21 DEF RemoveStep, LoadHar, CasHar, TagLevel, Unlink, UnlinkSubRef,
       UnlinkLen, GiveUp, locals, walk, removal
<1>22. CASE InsertStep(t)
  BY <1>7, <1>22 DEF InsertStep, NewNode, CompareMax, StoreMax, Count, LinkCheck, LinkRecheck,
       LinkOwn, LinkAddRef, LinkIn, LinkUndo, LinkEnd, Relink, locals, walk, removal
<1> QED BY <1>11, <1>12, <1>13, <1>14, <1>15, <1>16, <1>17, <1>18, <1>19, <1>20,
           <1>21, <1>22, <1>23 DEF Step, FindStep

(* A thread becomes the owner of a removal by setting the removed bit, and *)
(* goes down the levels of its target while it tags them.                  *)
LEMMA OwnerBefore ==
    ASSUME Inv, NEW t \in Thread, Begin(t) \/ Step(t), pc'[t] \in OwnerLabel
    PROVE  /\ target'[t] = target[t]
           /\ \/ pc[t] \in OwnerLabel
              \/ CasHar(t) /\ CanSetRemoved(target[t], seen[t]) /\ SetRemoved(target[t])
           /\ pc'[t] = "tag" /\ pc[t] \in OwnerLabel =>
                 /\ TagLevel(t) /\ Tag(target[t], down[t]) = 0
                 /\ down[t] # 0 /\ down'[t] = down[t] - 1
<1> LocalTypeOK
  BY DEF Inv, TypeOK
<1> USE DEF LocalTypeOK, Goto, OwnerLabel
<1>1. CASE FindStep(t)
  <2>1. ~\E n : Return(t, n)
    BY <1>1 DEF Return, Resume
  <2> QED BY <1>1, <2>1 DEF FindStep, FindInit, InitLevel, StartSearch, LowerLevel, ReadNext,
       CheckTag, HelpUnlink, HelpSubRef, FinalRead, FinalCheck, Consider, Descend, Advance
<1>2. CASE RemoveStep(t)
  BY <1>2 DEF RemoveStep, LoadHar, CasHar, TagLevel, Unlink, UnlinkSubRef, UnlinkLen,
       GiveUp, locals, removal
<1>3. CASE InsertStep(t)
  BY <1>3 DEF InsertStep, NewNode, CompareMax, StoreMax, Count, LinkCheck, LinkRecheck, LinkOwn,
       LinkAddRef, LinkIn, LinkUndo, LinkEnd, Relink
<1>4. CASE Begin(t) \/ Leave(t)
  BY <1>4 DEF Begin, Leave
<1> QED BY <1>1, <1>2, <1>3, <1>4 DEF Step

(* A removed node keeps its one owner, and the levels ahead of the owner   *)
(* stay without tags.                                                      *)
LEMMA OwnerStep ==
    ASSUME Inv, Shape, NEW t \in Thread, Begin(t) \/ Step(t)
    PROVE  \A u \in Thread : OwnerAt(u)'
<1> LocalTypeOK /\ MemoryTypeOK
  BY DEF Inv, TypeOK
<1> DEFINE Owns(u) == pc[u] \in OwnerLabel
           Owns1(u) == pc'[u] \in OwnerLabel
<1>1. \A u \in Thread : OwnerAt(u)
  BY DEF Shape
<1>2. ASSUME NEW u \in Thread, Owns(u)
      PROVE  target[u] \in Node /\ har[target[u]].removed
  BY <1>1, <1>2, ConstantFacts DEF OwnerAt, LocalTypeOK
<1>3. ASSUME NEW u \in Thread, Owns1(u)
      PROVE  /\ target'[u] = target[u] /\ target[u] \in Node
             /\ har'[target[u]].removed
             /\ ~Owns(u) => u = t /\ ~har[target[t]].removed
  <2>1. CASE Owns(u)
    <3>1. target'[u] = target[u]
      BY <1>3, OthersKept, OwnerBefore
    <3> QED BY <1>2, <2>1, <3>1, WordKept
  <2>2. CASE ~Owns(u)
    <3>1. u = t /\ target'[t] = target[t] /\ CasHar(t)
          /\ CanSetRemoved(target[t], seen[t]) /\ SetRemoved(target[t])
      BY <1>3, <2>2, OthersKept, OwnerBefore
    <3>2. target[t] \in Node
      BY <3>1, Locals DEF CasHar, RemoveLabel
    <3>3. har'[target[t]].removed
      BY <3>1, <3>2, RemovedStep
    <3>4. ~har[target[t]].removed
      BY <3>1 DEF CanSetRemoved
    <3> QED BY <3>1, <3>2, <3>3, <3>4
  <2> QED BY <2>1, <2>2
<1>4. ASSUME NEW u \in Thread, NEW v \in Thread, u # v, Owns1(u), Owns1(v)
      PROVE  target'[u] # target'[v]
  <2>1. target'[u] = target[u] /\ target'[v] = target[v]
    BY <1>3, <1>4
  <2>2. CASE Owns(u) /\ Owns(v)
    BY <1>1, <1>4, <2>1, <2>2 DEF OwnerAt
  <2>3. CASE ~(Owns(u) /\ Owns(v))
    BY <1>2, <1>3, <1>4, <2>1, <2>3
  <2> QED BY <2>2, <2>3
<1>5. ASSUME NEW u \in Thread, pc'[u] = "tag", NEW n, n = target[u],
             NEW l \in Level, l <= down'[u]
      PROVE  Tag(n, l)' = 0
  <2>1. Owns1(u) /\ target'[u] = n /\ n \in Node /\ n \in Tower
    BY <1>3, <1>5, ConstantFacts DEF OwnerLabel
  <2>2. CASE u # t
    <3>1. pc[u] = "tag" /\ down'[u] = down[u]
      BY <1>5, <2>2, OthersKept
    <3>2. Tag(n, l) = 0
      BY <1>1, <1>5, <3>1 DEF OwnerAt
    <3>3. ~(TagLevel(t) /\ target[t] = n)
      BY <1>1, <1>5, <2>2, <3>1 DEF OwnerAt, TagLevel, OwnerLabel
    <3> QED BY <2>1, <3>2, <3>3, TagsKept
  <2>3. CASE u = t /\ Owns(u)
    <3>1. TagLevel(t) /\ down[t] # 0 /\ down'[t] = down[t] - 1
      BY <1>5, <2>1, <2>3, OwnerBefore
    <3>2. pc[t] = "tag" /\ down[t] \in Level /\ l < down[t]
      <4>1. pc[t] = "tag" /\ down[t] \in Level
        BY <3>1, Locals DEF TagLevel
      <4> QED BY <1>5, <2>3, <3>1, <4>1, ConstantFacts DEF Level
    <3>3. Tag(n, l) = 0
      BY <1>1, <1>5, <2>3, <3>2, ConstantFacts DEF OwnerAt, Level
    <3> QED BY <2>1, <3>2, <3>3, TagsKept, ConstantFacts DEF Level
  <2>4. CASE u = t /\ ~Owns(u)
    <3>1. ~har[n].removed /\ CasHar(t)
      BY <1>3, <1>5, <2>1, <2>4, OwnerBefore
    <3>2. Tag(n, l) = 0
      BY <2>1, <3>1, TagType DEF Inv, TaggedAreRemoved
    <3>3. ~TagLevel(t)
      BY <3>1 DEF CasHar, TagLevel
    <3> QED BY <2>1, <3>2, <3>3, TagsKept
  <2> QED BY <2>2, <2>3, <2>4, OthersKept
<1>6. ASSUME NEW u \in Thread
      PROVE  OwnerAt(u)'
  <2>1. pc'[u] \in OwnerLabel => target'[u] # Null /\ har'[target'[u]].removed
    BY <1>3, ConstantFacts
  <2>2. ASSUME pc'[u] = "tag", NEW l \in Level, l <= down'[u]
        PROVE  next'[target'[u]][l].tag = 0
    <3>1. PICK n : n = target[u]
      OBVIOUS
    <3>2. Tag(n, l)' = 0
      BY <1>5, <2>2, <3>1
    <3>3. target'[u] = n
      BY <1>3, <2>2, <3>1 DEF OwnerLabel
    <3> QED BY <3>2, <3>3 DEF Tag
  <2>3. \A v \in Thread : v # u /\ Owns1(u) /\ Owns1(v) => target'[v] # target'[u]
    BY <1>4
  <2> HIDE DEF Owns, Owns1
  <2>4. Owns1(u) = (pc'[u] \in OwnerLabel) /\ \A v \in Thread : Owns1(v) = (pc'[v] \in OwnerLabel)
    BY DEF Owns1
  <2> QED BY <2>1, <2>2, <2>3, <2>4 DEF OwnerAt, Tag
<1> QED BY <1>6

(* A node gains a level only by its own thread's LinkIn.                   *)
LEMMA LinkedGrows ==
    ASSUME Inv, Shape, NEW t \in Thread, Begin(t) \/ Step(t), NEW n \in Node
    PROVE  \/ linked'[n] \subseteq linked[n]
           \/ LinkIn(t) /\ n = New(t) /\ linked'[n] = linked[n] \cup {up[t]}
<1>1. CASE \E p \in Tower, o \in Node, l \in Level : TakesOut(p, o, l)
  BY <1>1 DEF TakesOut
<1>2. CASE \E p \in Tower, l \in Level : PutsIn(t, p, l)
  BY <1>2 DEF PutsIn
<1> QED BY <1>1, <1>2, ChainStep

(* The levels of the node under construction, while its thread does not    *)
(* link one, and its next pointer, while its thread does not set it.       *)
LEMMA ConstructionKept ==
    ASSUME Inv, Shape, NEW t \in Thread, Begin(t) \/ Step(t),
           NEW u \in Thread, NEW n \in Node, n = New(u), u = t => ~LinkIn(t)
    PROVE  /\ pc[u] \in BuildLabel => linked'[n] = {} /\ ~har'[n].removed
           /\ Linking(u) =>
                 /\ \A l \in Level : IF l < up[u] THEN Reached(n, l)'
                                                  ELSE l \notin linked'[n]
                 /\ up[u] = 0 => ~har'[n].removed
           /\ Linking(u) /\ (u = t => ~LinkOwn(t)) =>
                 \A i \in Level : i = up[u] => Ptr(n, i)' = Ptr(n, i)
<1> LocalTypeOK /\ LinkingAt(u)
  BY DEF Inv, TypeOK, Shape
<1>1. linked'[n] \subseteq linked[n]
  <2>1. u # t => New(t) # New(u)
    BY DEF New
  <2> QED BY <2>1, LinkedGrows
<1>2. pc[u] \in BuildLabel \/ (Linking(u) /\ up[u] = 0) => ~har'[n].removed
  BY UnlinkedNew, UnreachedNotRemoved
<1>3. pc[u] \in BuildLabel => linked'[n] = {}
  BY <1>1 DEF LinkingAt
<1>4. ASSUME Linking(u), NEW l \in Level
      PROVE  IF l < up[u] THEN Reached(n, l)' ELSE l \notin linked'[n]
  BY <1>1, <1>4, ReachedKept DEF LinkingAt
<1>5. ASSUME Linking(u), u = t => ~LinkOwn(t), NEW i \in Level, i = up[u]
      PROVE  Ptr(n, i)' = Ptr(n, i)
  <2>1. i \notin linked[n] /\ n # head /\ n \in Tower /\ i \in Level
    <3>1. up[u] \in 0 .. HEIGHT
      BY DEF LocalTypeOK
    <3>2. ~(i < up[u])
      BY <1>5, <3>1, ConstantFacts
    <3> QED BY <1>5, <3>2, ConstantFacts DEF LinkingAt
  <2>2. ~InList(n, i)
    BY <2>1 DEF InList
  <2>3. CASE \E p \in Tower, o \in Node, l \in Level : TakesOut(p, o, l)
    BY <2>1, <2>2, <2>3 DEF TakesOut
  <2>4. CASE \E p \in Tower, l \in Level : PutsIn(t, p, l)
    BY <2>1, <2>2, <2>4 DEF PutsIn
  <2>5. CASE \E l \in Level : Points(t, l)
    <3>1. n # New(t)
      BY <1>5, <2>5 DEF Points, New
    <3> QED BY <2>1, <2>5, <3>1 DEF Points
  <2>6. CASE \A o \in Tower, l \in Level : Ptr(o, l)' = Ptr(o, l)
    BY <2>1, <2>6
  <2> QED BY <2>3, <2>4, <2>5, <2>6, ChainStep
<1> QED BY <1>2, <1>3, <1>4, <1>5

(* How a step gets its thread to build or to link a node.                  *)
LEMMA LinkingBefore ==
    ASSUME Inv, NEW t \in Thread, Begin(t) \/ Step(t)
    PROVE  /\ pc'[t] \in BuildLabel =>
                 NewNode(t) \/ (pc[t] \in BuildLabel /\ ~LinkIn(t))
           /\ Linking(t)' =>
                 \/ Count(t)
                 \/ Linking(t) /\ up'[t] = up[t] /\ (~LinkIn(t) \/ UNCHANGED linked)
                 \/ LinkIn(t) /\ up'[t] = up[t] + 1
                       /\ linked' = [linked EXCEPT ![New(t)] = @ \cup {up[t]}]
           /\ pc'[t] \in {"addRef", "linkIn"} =>
                 /\ up'[t] = up[t] /\ prev'[t] = prev[t]
                 /\ \/ LinkOwn(t) /\ Exchange(New(t), up[t], prev[t][up[t]].next)
                    \/ pc[t] \in {"addRef", "linkIn"} /\ ~LinkOwn(t) /\ ~LinkIn(t)
<1> LocalTypeOK /\ ControlAt(t)
  BY DEF Inv, TypeOK, Control
<1> USE DEF LocalTypeOK, Goto, Linking, BuildLabel, LinkLabel, SearchLabel, FindLabel,
        RemoveLabel, locals, request, walk, removal
<1>1. CASE Begin(t)
  <2>1. ret'[t] \in Operation
    <3>1. Script[t][calls[t] + 1] \subseteq Call
      <4>1. calls[t] + 1 \in 1 .. MaxCalls
        BY <1>1, MemoryAssumption DEF Begin, HasCall
      <4> QED BY <4>1, ScriptedCalls
    <3> QED BY <1>1, <3>1 DEF Begin, Call
  <2> QED BY <1>1, <2>1 DEF Begin, Operation
<1>2. CASE Leave(t)
  BY <1>2 DEF Leave
<1>3. CASE \/ FindInit(t) \/ InitLevel(t) \/ StartSearch(t) \/ LowerLevel(t)
           \/ ReadNext(t) \/ CheckTag(t) \/ HelpUnlink(t) \/ HelpSubRef(t)
  BY <1>3 DEF FindInit, InitLevel, StartSearch, LowerLevel, ReadNext, CheckTag, HelpUnlink,
       HelpSubRef, Consider, Descend, Advance, LinkIn
<1>4. CASE FinalRead(t) \/ FinalCheck(t)
  <2>1. \A n : Return(t, n) => pc'[t] \in {"load", "return", "new", "link"}
                               /\ (pc'[t] = "link" => ret[t] = "relink")
    BY DEF Return, Resume
  <2> QED BY <1>4, <2>1 DEF FinalRead, FinalCheck, LinkIn
<1>5. CASE RemoveStep(t)
  BY <1>5 DEF RemoveStep, LoadHar, CasHar, TagLevel, Unlink, UnlinkSubRef, UnlinkLen,
       GiveUp, LinkIn
<1>6. CASE NewNode(t) \/ CompareMax(t) \/ StoreMax(t) \/ Count(t)
  BY <1>6 DEF NewNode, CompareMax, StoreMax, Count, LinkIn
<1>10. CASE LinkCheck(t) \/ LinkRecheck(t)
  BY <1>10 DEF LinkCheck, LinkRecheck, LinkIn
<1>11. CASE LinkEnd(t) \/ LinkUndo(t)
  BY <1>11 DEF LinkEnd, LinkUndo, Relink, LinkIn
<1>7. CASE LinkOwn(t)
  BY <1>7 DEF LinkOwn, Relink, LinkIn
<1>8. CASE LinkAddRef(t)
  BY <1>8 DEF LinkAddRef, LinkIn, LinkOwn
<1>9. CASE LinkIn(t)
  BY <1>9 DEF LinkIn
<1> QED BY <1>1, <1>2, <1>3, <1>4, <1>5, <1>6, <1>7, <1>8, <1>9, <1>10, <1>11
        DEF Step, FindStep, InsertStep

(* A node under construction stays linked exactly below up.                *)
LEMMA LinkingStep ==
    ASSUME Inv, Shape, NEW t \in Thread, Begin(t) \/ Step(t), NEW u \in Thread
    PROVE  LinkingAt(u)'
<1> LocalTypeOK /\ MemoryTypeOK /\ LinkingAt(u)
  BY DEF Inv, TypeOK, Shape
<1>1. CASE pc'[u] \notin BuildLabel /\ ~Linking(u)'
  BY <1>1 DEF LinkingAt, Linking, LinkLabel
<1>2. CASE pc'[u] \in BuildLabel \/ Linking(u)'
  <2>1. pc'[u] # "idle" /\ (u = t => ~Begin(t))
    <3>1. pc'[u] # "idle"
      BY <1>2 DEF BuildLabel, Linking, LinkLabel, SearchLabel, FindLabel, RemoveLabel
    <3>2. Begin(t) => ~LinkIn(t) /\ ~Count(t) /\ ~NewNode(t) /\ pc[t] = "idle"
      BY DEF Begin, LinkIn, Count, NewNode
    <3> QED BY <1>2, <3>1, <3>2, LinkingBefore DEF BuildLabel, Linking, LinkLabel,
            SearchLabel, FindLabel, RemoveLabel
  <2>2. pc[u] # "idle" /\ New(u)' = New(u) /\ New(u) \in Node
    BY <2>1, OthersKept, CallsKept, InProgress, Locals DEF New
  <2>3. PICK n \in Node : n = New(u) /\ n = New(u)'
    BY <2>2
  <2> SUFFICES
        /\ pc'[u] \in BuildLabel => linked'[n] = {} /\ ~har'[n].removed
        /\ Linking(u)' => /\ \A l \in Level : IF l < up'[u] THEN Reached(n, l)'
                                                            ELSE l \notin linked'[n]
                          /\ up'[u] = 0 => ~har'[n].removed
        /\ pc'[u] \in {"addRef", "linkIn"} =>
              \A i \in Level : i = up'[u] => Ptr(n, i)' = prev'[u][i].next
    <3>1. ASSUME pc'[u] \in {"addRef", "linkIn"},
                 NEW i \in Level, i = up'[u], Ptr(n, i)' = prev'[u][i].next
          PROVE  Ptr(New(u), up[u])' = (prev[u][up[u]].next)'
      BY <2>3, <3>1 DEF Ptr
    <3>2. pc'[u] \in {"addRef", "linkIn"} => up'[u] \in Level
      <4>1. Inv'
        BY InvStep DEF Next
      <4>2. /\ up'[u] \in 0 .. HEIGHT /\ har'[n].height \in 0 .. HEIGHT
            /\ pc'[u] \in {"addRef", "linkIn"} => up'[u] < har'[n].height
        BY <2>3, <4>1 DEF Inv, TypeOK, LocalTypeOK, MemoryTypeOK, Word, Control, ControlAt
      <4> QED BY <4>2, ConstantFacts DEF Level
    <3> QED BY <2>3, <3>1, <3>2 DEF LinkingAt, Reached, Tag
  <2>4. CASE u # t
    <3>1. pc'[u] = pc[u] /\ ret'[u] = ret[u] /\ up'[u] = up[u] /\ prev'[u] = prev[u]
      BY <2>4, OthersKept
    <3>2. pc[u] \in {"addRef", "linkIn"} => up[u] \in Level /\ Linking(u)
      BY Locals DEF Linking, LinkLabel
    <3>3. pc[u] \in {"addRef", "linkIn"} =>
            \A i \in Level : i = up[u] => Ptr(n, i) = prev[u][i].next
      BY <2>3 DEF LinkingAt
    <3>4. Linking(u)' <=> Linking(u)
      BY <3>1 DEF Linking
    <3>5. /\ pc[u] \in BuildLabel => linked'[n] = {} /\ ~har'[n].removed
          /\ Linking(u) => /\ \A l \in Level : IF l < up[u] THEN Reached(n, l)'
                                                            ELSE l \notin linked'[n]
                           /\ up[u] = 0 => ~har'[n].removed
          /\ Linking(u) => \A i \in Level : i = up[u] => Ptr(n, i)' = Ptr(n, i)
      BY <2>3, <2>4, ConstructionKept
    <3>6. Linking(u)' => /\ \A l \in Level : IF l < up'[u] THEN Reached(n, l)'
                                                            ELSE l \notin linked'[n]
                         /\ up'[u] = 0 => ~har'[n].removed
      <4> HIDE DEF Linking, Reached
      <4> QED BY <3>1, <3>4, <3>5
    <3>7. ASSUME pc'[u] \in {"addRef", "linkIn"}, NEW i \in Level, i = up'[u]
          PROVE  Ptr(n, i)' = prev'[u][i].next
      <4>1. Ptr(n, i)' = Ptr(n, i)
        BY <3>1, <3>2, <3>5, <3>7
      <4> QED BY <3>1, <3>3, <3>7, <4>1
    <3>8. pc'[u] \in BuildLabel => linked'[n] = {} /\ ~har'[n].removed
      BY <3>1, <3>5
    <3> QED BY <3>6, <3>7, <3>8
  <2>5. ASSUME u = t, pc'[t] \in BuildLabel
        PROVE  linked'[n] = {} /\ ~har'[n].removed
    <3>1. CASE NewNode(t)
      <4>1. n \notin Allocated
        BY <2>3, <2>5, <3>1 DEF NewNode, Inv, Fresh, Control, ControlAt, SearchLabel
      <4>2. linked'[n] = {}
        <5>1. linked[n] = {}
          BY <4>1 DEF Shape
        <5> QED BY <3>1, <5>1 DEF NewNode
      <4>3. ~har'[n].removed
        <5>1. PICK h : har' = [har EXCEPT ![n] =
                                  [height |-> h, refs |-> 0, removed |-> FALSE]]
          BY <2>3, <2>5, <3>1 DEF NewNode
        <5> QED BY <5>1 DEF MemoryTypeOK
      <4> QED BY <4>2, <4>3
    <3>2. CASE pc[t] \in BuildLabel /\ ~LinkIn(t)
      BY <2>3, <2>5, <3>2, ConstructionKept
    <3> QED BY <2>5, <3>1, <3>2, LinkingBefore
  <2>6. ASSUME u = t, Linking(t)'
        PROVE  /\ \A l \in Level : IF l < up'[t] THEN Reached(n, l)' ELSE l \notin linked'[n]
               /\ up'[t] = 0 => ~har'[n].removed
    <3>1. CASE Count(t)
      <4>1. up'[t] = 0 /\ pc[t] \in BuildLabel /\ ~LinkIn(t)
        BY <3>1 DEF Count, BuildLabel, LinkIn, LocalTypeOK
      <4>2. \A l \in Level : ~(l < 0)
        BY ConstantFacts DEF Level
      <4> QED BY <2>3, <2>6, <4>1, <4>2, ConstructionKept
    <3>2. CASE Linking(t) /\ up'[t] = up[t] /\ ~LinkIn(t)
      BY <2>3, <2>6, <3>2, ConstructionKept
    <3>3. CASE Linking(t) /\ up'[t] = up[t] /\ LinkIn(t) /\ UNCHANGED linked
      <4>1. up[t] = 0 => ~har'[n].removed
        BY <2>3, <2>6, <3>3, UnlinkedNew, UnreachedNotRemoved
      <4> QED BY <2>3, <2>6, <3>3, <4>1, ReachedKept DEF LinkingAt
    <3>4. CASE LinkIn(t) /\ up'[t] = up[t] + 1
               /\ linked' = [linked EXCEPT ![New(t)] = @ \cup {up[t]}]
      <4>1. Linking(t) /\ up[t] \in Level
        BY <3>4, Locals DEF LinkIn, Linking, LinkLabel
      <4>2. linked'[n] = linked[n] \cup {up[t]}
        BY <2>3, <2>6, <3>4 DEF MemoryTypeOK
      <4>3. \A l \in Level : IF l < up[t] THEN Reached(n, l)' ELSE l \notin linked[n]
        BY <2>3, <2>6, <4>1, ReachedKept DEF LinkingAt
      <4>4. ASSUME NEW l \in Level
            PROVE  IF l < up'[t] THEN Reached(n, l)' ELSE l \notin linked'[n]
        <5>1. l < up'[t] <=> l < up[t] \/ l = up[t]
          BY <3>4, <4>1, ConstantFacts DEF Level
        <5> QED BY <4>2, <4>3, <5>1 DEF Reached
      <4>5. up'[t] # 0
        BY <3>4, <4>1, ConstantFacts DEF Level
      <4> QED BY <4>4, <4>5
    <3> QED BY <2>6, <3>1, <3>2, <3>3, <3>4, LinkingBefore
  <2>7. ASSUME u = t, pc'[t] \in {"addRef", "linkIn"}, NEW i \in Level, i = up'[t]
        PROVE  Ptr(n, i)' = prev'[t][i].next
    <3>1. up'[t] = up[t] /\ prev'[t] = prev[t]
      BY <2>7, LinkingBefore
    <3>2. CASE LinkOwn(t) /\ Exchange(New(t), up[t], prev[t][up[t]].next)
      <4>1. n \in Tower
        BY ConstantFacts
      <4>2. Exchange(n, i, prev[t][i].next)
        BY <2>3, <2>7, <3>1, <3>2
      <4> QED BY <2>7, <3>1, <4>1, <4>2, PtrAfterExchange
    <3>3. CASE pc[t] \in {"addRef", "linkIn"} /\ ~LinkOwn(t) /\ ~LinkIn(t)
      <4>1. Linking(t) /\ Ptr(n, i) = prev[t][i].next
        BY <2>3, <2>7, <3>1, <3>3 DEF Linking, LinkLabel, LinkingAt
      <4> QED BY <2>3, <2>7, <3>1, <3>3, <4>1, ConstructionKept
    <3> QED BY <2>7, <3>2, <3>3, LinkingBefore
  <2> QED BY <2>4, <2>5, <2>6, <2>7
<1> QED BY <1>1, <1>2

(* The first states have the shape: every level is empty.                  *)
THEOREM ShapeInit == Init => Shape
<1> SUFFICES ASSUME Init PROVE Shape
  OBVIOUS
<1> USE ConstantFacts, MemoryAssumption DEF Init, MemoryInit, LocalInit
<1>1. BaseFirst
  BY DEF BaseFirst
<1>2. PointersReached
  BY DEF PointersReached, ReachedTo, Ptr
<1>3. ASSUME NEW t \in Thread
      PROVE  HeldAt(t) /\ LinkingAt(t) /\ OwnerAt(t)
  <2>1. HeldAt(t)
    BY DEF HeldAt, ReachedTo, NoPrev
  <2>2. LinkingAt(t)
    BY DEF LinkingAt, Linking, BuildLabel, LinkLabel, SearchLabel, FindLabel, RemoveLabel
  <2>3. OwnerAt(t)
    BY DEF OwnerAt, OwnerLabel
  <2> QED BY <2>1, <2>2, <2>3
<1>4. SuccessorsLinked
  BY DEF SuccessorsLinked, Ptr
<1>5. OnePredecessor
  BY DEF OnePredecessor
<1> QED BY <1>1, <1>2, <1>3, <1>4, <1>5 DEF Shape

(* Every step keeps the shape of the list.                                 *)
THEOREM ShapeStep == Inv /\ Shape /\ [Next]_vars => Shape'
<1> SUFFICES ASSUME Inv, Shape, [Next]_vars PROVE Shape'
  OBVIOUS
<1>1. CASE UNCHANGED vars
  BY <1>1 DEF vars, memory, locals, request, walk, removal, Shape, Allocated, BaseFirst,
       PointersReached, HeldAt, LinkingAt, OwnerAt, SuccessorsLinked, OnePredecessor,
       ReachedTo, Reached, InList, Linking, New, Ptr, Tag
<1>2. ASSUME NEW t \in Thread, Begin(t) \/ Step(t)
      PROVE  Shape'
  <2>1. \A n \in Node : n \notin Allocated' => linked'[n] = {}
    BY <1>2, UnallocatedStep
  <2>2. \A u \in Thread : HeldAt(u)'
    BY <1>2, OwnHeld, OthersHeld
  <2>3. \A u \in Thread : LinkingAt(u)'
    BY <1>2, LinkingStep
  <2>4. (\A u \in Thread : OwnerAt(u)') /\ BaseFirst' /\ PointersReached'
    BY <1>2, OwnerStep, BaseFirstStep, PointersReachedStep
  <2>5. SuccessorsLinked' /\ OnePredecessor'
    BY <1>2, ChainKept
  <2> QED BY <2>1, <2>2, <2>3, <2>4, <2>5 DEF Shape
<1> QED BY <1>1, <1>2 DEF Next, Terminating

(* The list keeps its shape in every reachable state: each level is one    *)
(* chain from the head, through linked nodes only, whatever the threads    *)
(* link, unlink and help at the same time.                                 *)
THEOREM ShapeInvariance == Spec => []Shape
BY Invariance, ShapeInit, ShapeStep, PTL DEF Spec

-----------------------------------------------------------------------------
(* Reachability *)

(* What ReachableIsLinked says beyond SuccessorsLinked: whatever set holds *)
(* the successors of the head and of its members holds the linked nodes.   *)
Connected ==
    \A l \in Level, S \in SUBSET Node : Closed(S, l) => \A n \in Node : l \in linked[n] => n \in S

(* With SuccessorsLinked, which gives the other inclusion, it is all of    *)
(* ReachableIsLinked.                                                      *)
LEMMA ConnectedReachable ==
    ASSUME MemoryTypeOK, SuccessorsLinked, Connected
    PROVE  ReachableIsLinked
<1> SUFFICES ASSUME NEW l \in Level
             PROVE  Reachable(l) = {n \in Node : l \in linked[n]}
  BY DEF ReachableIsLinked
<1>1. PICK S \in SUBSET Node : S = {n \in Node : l \in linked[n]}
  OBVIOUS
<1>2. Closed(S, l)
  <2>1. ASSUME NEW m \in S \cup {head}, Ptr(m, l) # Null
        PROVE  Ptr(m, l) \in S
    <3>1. m \in Tower /\ InList(m, l)
      BY <1>1, ConstantFacts DEF InList
    <3> QED BY <1>1, <2>1, <3>1, PtrType DEF SuccessorsLinked, NodeOrNull
  <2> QED BY <2>1 DEF Closed
<1> QED BY <1>1, <1>2 DEF Connected, Reachable

(* Taking a node out cuts off no other.                                    *)
LEMMA ConnectedTakenOut ==
    ASSUME MemoryTypeOK, SuccessorsLinked, Connected,
           NEW p \in Tower, NEW n \in Node, NEW l \in Level, TakesOut(p, n, l)
    PROVE  Connected'
<1> USE ConstantFacts
<1> SUFFICES ASSUME NEW i \in Level, NEW S \in SUBSET Node, Closed(S, i)',
                    NEW o \in Node, i \in linked'[o]
             PROVE  o \in S
  BY DEF Connected
<1>1. \A m \in Tower : Ptr(m, i)' = IF m = p /\ i = l THEN Ptr(n, l) ELSE Ptr(m, i)
  BY DEF TakesOut
<1>2. \A m \in S \cup {head} : Ptr(m, i)' # Null => Ptr(m, i)' \in S
  BY DEF Closed
<1>3. i \in linked[o] /\ ~(o = n /\ i = l)
  BY DEF TakesOut
<1>4. CASE i # l
  <2>1. Closed(S, i)
    BY <1>1, <1>2, <1>4 DEF Closed
  <2> QED BY <1>3, <2>1 DEF Connected
<1>5. CASE i = l
  <2>1. PICK L : L = {m \in Node : l \in linked[m]}
    OBVIOUS
  <2>2. n \in L /\ Ptr(p, l) = n /\ (p = head \/ p \in L)
    BY <2>1 DEF TakesOut, InList
  <2>3. \A m \in L \cup {head} : m \in Tower /\ (Ptr(m, l) # Null => Ptr(m, l) \in L)
    BY <2>1, PtrType DEF SuccessorsLinked, InList, NodeOrNull
  <2>4. Closed((S \cap L) \cup {n}, l)
    <3>1. ASSUME NEW m \in (S \cap L) \cup {head}, Ptr(m, l) # Null
          PROVE  Ptr(m, l) \in (S \cap L) \cup {n}
      BY <1>1, <1>2, <1>5, <2>2, <2>3, <3>1
    <3>2. ASSUME Ptr(n, l) # Null, p \in S \cup {head}
          PROVE  Ptr(n, l) \in S \cap L
      BY <1>1, <1>2, <1>5, <2>2, <2>3, <3>2
    <3>3. CASE p \in S \cup {head}
      BY <3>1, <3>2, <3>3 DEF Closed
    <3>4. CASE p \notin S \cup {head}
      <4>1. Closed(S \cap L, l)
        BY <1>1, <1>2, <1>5, <2>3, <3>4 DEF Closed
      <4>2. p \in S
        BY <2>1, <2>2, <3>4, <4>1 DEF Connected
      <4> QED BY <3>4, <4>2
    <3> QED BY <3>3, <3>4
  <2> QED BY <1>3, <1>5, <2>1, <2>4 DEF Connected
<1> QED BY <1>4, <1>5

(* No step of a call of the list cuts off a node.                          *)
LEMMA ConnectedKept ==
    ASSUME Inv, Shape, Connected, NEW t \in Thread, Begin(t) \/ Step(t)
    PROVE  Connected'
<1> MemoryTypeOK /\ SuccessorsLinked
  BY DEF Inv, TypeOK, Shape
<1> USE ConstantFacts
<1>1. ASSUME NEW p \in Tower, NEW l \in Level, PutsIn(t, p, l),
             NEW i \in Level, NEW S \in SUBSET Node, Closed(S, i)',
             NEW o \in Node, i \in linked'[o]
      PROVE  o \in S
  <2>1. PICK n \in Node : n = New(t)
    BY <1>1, Locals DEF PutsIn, LinkIn, Inv, TypeOK
  <2>2. \A m \in Tower : Ptr(m, i)' = IF m = p /\ i = l THEN n ELSE Ptr(m, i)
    BY <1>1, <2>1 DEF PutsIn
  <2>3. \A m \in S \cup {head} : Ptr(m, i)' # Null => Ptr(m, i)' \in S
    BY <1>1 DEF Closed
  <2>4. i \in linked[o] \/ (o = n /\ i = l)
    <3>1. linked'[o] = IF o = n THEN linked[o] \cup {l} ELSE linked[o]
      BY <1>1, <2>1 DEF PutsIn
    <3> QED BY <1>1, <3>1
  <2>5. InList(p, l) /\ l \notin linked[n] /\ Ptr(n, l) = Ptr(p, l)
    BY <1>1, <2>1 DEF PutsIn
  <2>6. PICK L : L = {m \in Node : i \in linked[m]}
    OBVIOUS
  <2>7. \A m \in L \cup {head} : m \in Tower /\ (Ptr(m, i) # Null => Ptr(m, i) \in L)
    BY <2>6, PtrType DEF SuccessorsLinked, InList, NodeOrNull
  <2>8. CASE i # l
    <3>1. Closed(S, i)
      BY <2>2, <2>3, <2>8 DEF Closed
    <3> QED BY <2>4, <2>8, <3>1 DEF Connected
  <2>9. CASE i = l
    <3>1. n \notin L \cup {head} /\ n \in Tower /\ n # Null /\ p \in L \cup {head}
      BY <2>5, <2>6, <2>9 DEF InList
    <3>2. p \in S \cup {head} => n \in S
      BY <2>2, <2>3, <2>9, <3>1
    <3>3. ASSUME NEW m \in (S \cap L) \cup {head}, Ptr(m, i) # Null
          PROVE  Ptr(m, i) \in S \cap L
      <4>1. CASE m = p
        <5>1. n \in S /\ Ptr(n, i)' = Ptr(m, i)
          BY <2>2, <2>5, <2>9, <3>1, <3>2, <3>3, <4>1
        <5> QED BY <2>3, <2>7, <3>3, <5>1
      <4>2. CASE m # p
        BY <2>2, <2>3, <2>7, <3>3, <4>2
      <4> QED BY <4>1, <4>2
    <3>4. Closed(S \cap L, i)
      BY <3>3 DEF Closed
    <3>5. L \subseteq S
      BY <2>6, <3>4 DEF Connected
    <3> QED BY <2>4, <2>6, <3>1, <3>2, <3>5
  <2> QED BY <2>8, <2>9
<1>2. ASSUME NEW l \in Level, Points(t, l), UNCHANGED linked,
             NEW i \in Level, NEW S \in SUBSET Node, Closed(S, i)',
             NEW o \in Node, i \in linked'[o]
      PROVE  o \in S
  <2>1. PICK n \in Node : n = New(t)
    BY <1>2, Locals DEF Points, LinkOwn, Inv, TypeOK
  <2>2. \A m \in Tower : m # n \/ i # l => Ptr(m, i)' = Ptr(m, i)
    BY <1>2, <2>1 DEF Points
  <2>3. PICK L : L = {m \in Node : i \in linked[m]}
    OBVIOUS
  <2>4. \A m \in L \cup {head} : m \in Tower /\ (Ptr(m, i) # Null => Ptr(m, i) \in L)
    BY <2>3, PtrType DEF SuccessorsLinked, InList, NodeOrNull
  <2>5. i = l => n \notin L \cup {head}
    BY <1>2, <2>1, <2>3 DEF Points
  <2>6. \A m \in S \cup {head} : Ptr(m, i)' # Null => Ptr(m, i)' \in S
    BY <1>2 DEF Closed
  <2>7. Closed(S \cap L, i)
    BY <2>2, <2>4, <2>5, <2>6 DEF Closed
  <2> QED BY <1>2, <2>7 DEF Connected
<1>3. CASE (\A o \in Tower, i \in Level : Ptr(o, i)' = Ptr(o, i)) /\ UNCHANGED linked
  BY <1>3 DEF Connected, Closed
<1>4. CASE \E p \in Tower, n \in Node, l \in Level : TakesOut(p, n, l)
  BY <1>4, ConnectedTakenOut
<1>5. CASE \E p \in Tower, l \in Level : PutsIn(t, p, l)
  BY <1>1, <1>5 DEF Connected
<1>6. CASE (\E l \in Level : Points(t, l)) /\ UNCHANGED linked
  BY <1>2, <1>6 DEF Connected
<1> QED BY <1>3, <1>4, <1>5, <1>6, ChainStep

(* ReachableIsLinked: in every reachable state, and at every level, what   *)
(* the head leads to is what link_nodes has linked and nobody has unlinked *)
(* there, for any number of threads, keys and levels.                      *)
THEOREM ReachableStaysLinked == Spec => []ReachableIsLinked
<1>1. Init => Connected
  BY DEF Init, MemoryInit, Connected
<1>2. Inv /\ Shape /\ Connected /\ [Next]_vars => Connected'
  <2> SUFFICES ASSUME Inv, Shape, Connected, [Next]_vars PROVE Connected'
    OBVIOUS
  <2>1. CASE UNCHANGED vars
    BY <2>1 DEF vars, memory, Connected, Closed, Ptr
  <2> QED BY <2>1, ConnectedKept DEF Next, Terminating
<1>3. Inv /\ Shape /\ Connected => ReachableIsLinked
  BY ConnectedReachable DEF Inv, TypeOK, Shape
<1> QED BY <1>1, <1>2, <1>3, Invariance, ShapeInvariance, PTL DEF Spec

=============================================================================
