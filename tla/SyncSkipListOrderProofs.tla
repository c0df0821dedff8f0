------------------------ MODULE SyncSkipListOrderProofs ------------------------
(***************************************************************************)
(* The contents of the list: its base level is in order, so that a key has *)
(* one node there, and seen from outside the list is the map of            *)
(* EntryMap.tla.  get and remove answer from that map, and the length      *)
(* never hides an entry.                                                   *)
(***************************************************************************)
EXTENDS SyncSkipListOrder, SyncSkipListShapeProofs, FiniteSetTheorems

(* A node keeps its key once it is allocated.                              *)
LEMMA KeyKept ==
    ASSUME Inv, NEW t \in Thread, Begin(t) \/ Step(t), NEW n \in Allocated
    PROVE  key'[n] = key[n]
<1> MemoryTypeOK /\ n \in Node
  BY DEF Inv, TypeOK, Allocated
<1>1. CASE NewNode(t)
  <2>1. n # New(t)
    BY <1>1 DEF NewNode, Inv, Fresh, Control, ControlAt, SearchLabel
  <2> QED BY <1>1, <2>1 DEF NewNode, MemoryTypeOK
<1>2. CASE ~NewNode(t)
  <2>1. UNCHANGED key
    BY <1>2 DEF Step, FindStep, RemoveStep, InsertStep, Begin, Leave, FindInit, InitLevel,
         StartSearch, LowerLevel, ReadNext, CheckTag, HelpUnlink, HelpSubRef, FinalRead,
         FinalCheck, LoadHar, CasHar, TagLevel, Unlink, UnlinkSubRef, UnlinkLen,
         CompareMax, StoreMax, Count,
         LinkCheck, LinkRecheck, LinkOwn, LinkAddRef, LinkIn, LinkUndo, LinkEnd, memory
  <2> QED BY <2>1
<1> QED BY <1>1, <1>2

(* The keys are integers.                                                  *)
LEMMA KeyType ==
    ASSUME Inv
    PROVE  /\ \A n \in Node : key[n] \in Int
           /\ \A t \in Thread : call[t].key \in Int
BY MemoryAssumption DEF Inv, TypeOK, MemoryTypeOK, LocalTypeOK, Request

(* The nodes of the base level, before a step and after it, keep their     *)
(* keys in it.                                                             *)
LEMMA BaseKeysKept ==
    ASSUME Inv, Shape, NEW t \in Thread, Begin(t) \/ Step(t), NEW n \in Node,
           0 \in linked[n] \/ 0 \in linked'[n]
    PROVE  key'[n] = key[n]
<1>1. CASE n \in Allocated
  BY <1>1, KeyKept
<1>2. CASE n \notin Allocated
  <2>1. linked[n] = {}
    BY <1>2 DEF Shape
  <2>2. LinkIn(t) /\ n = New(t)
    BY <2>1, LinkedGrows
  <2> QED BY <1>2, <2>2 DEF LinkIn, Inv, Control, ControlAt, Linking, LinkLabel
<1> QED BY <1>1, <1>2

(* A key has one node in the base level.                                   *)
LEMMA OneNodePerKey ==
    ASSUME Inv, Shape, Order, NEW m \in Node, NEW n \in Node,
           0 \in linked[m], 0 \in linked[n], key[m] = key[n]
    PROVE  m = n
<1> SUFFICES ASSUME m # n PROVE FALSE
  OBVIOUS
<1>1. InList(m, 0) /\ m # head /\ m \in Tower
  BY ConstantFacts DEF InList
<1>2. key[m] \in Int /\ key[n] \in Int /\ (Ptr(m, 0) \in Node => key[Ptr(m, 0)] \in Int)
  BY KeyType
<1>3. Ptr(m, 0) # Null => Ptr(m, 0) \in Node
  <2>1. 0 \in Level
    BY ConstantFacts DEF Level
  <2> QED BY <1>1, <2>1, PtrType, ConstantFacts DEF Inv, TypeOK
<1>4. ~(key[n] < key[m])
  BY <1>2
<1>5. Ptr(m, 0) # Null /\ key[Ptr(m, 0)] <= key[n]
  BY <1>1, <1>4 DEF Order, NoneBetween
<1>6. key[m] < key[Ptr(m, 0)]
  BY <1>5 DEF Order, Sorted
<1> QED BY <1>2, <1>3, <1>5, <1>6

(* A tower and the node after it: their keys are in order, and the key of  *)
(* node n does not lie strictly between them.                              *)
Ok(m, r) == m \in Node /\ r # Null => key[m] < key[r]
Gap(m, r, n) == (m # head /\ key[n] < key[m]) \/ (r # Null /\ key[r] <= key[n])

(* Both stay true of every tower when a node is taken out.                 *)
LEMMA GapsTakenOut ==
    ASSUME Inv, Sorted, NoneBetween,
           NEW p \in Tower, NEW x \in Node, TakesOut(p, x, 0)
    PROVE  /\ \A m \in Tower : \A r : InList(m, 0)' /\ r = Ptr(m, 0)' => Ok(m, r)
           /\ \A m \in Tower, n \in Node : \A r :
                 InList(m, 0)' /\ 0 \in linked'[n] /\ n # m /\ r = Ptr(m, 0)' => Gap(m, r, n)
<1> USE DEF Ok, Gap
<1>1. 0 \in Level /\ Null \notin Node /\ head \notin Node /\ MemoryTypeOK
  BY ConstantFacts DEF Level, Inv, TypeOK
<1>2. /\ \A n \in Node : key[n] \in Int
      /\ \A m \in Tower : Ptr(m, 0) \in NodeOrNull
      /\ \A m \in Tower : m # head => m \in Node
  BY <1>1, KeyType, PtrType, ConstantFacts
<1>3. /\ \A m \in Tower : InList(m, 0) => Ok(m, Ptr(m, 0))
      /\ \A m \in Tower, n \in Node :
            InList(m, 0) /\ 0 \in linked[n] /\ n # m => Gap(m, Ptr(m, 0), n)
  BY <1>1 DEF Sorted, NoneBetween, InList
<1>4. PICK s : s = Ptr(x, 0)
  OBVIOUS
<1>5. /\ InList(p, 0) /\ Ptr(p, 0) = x /\ InList(x, 0) /\ x # Null /\ x # p
      /\ x \in Tower /\ s \in NodeOrNull
  <2>1. InList(p, 0) /\ Ptr(p, 0) = x /\ InList(x, 0) /\ x # Null /\ x \in Tower
    BY <1>1, <1>4, ConstantFacts DEF TakesOut, InList
  <2>2. Ok(x, s) /\ Ok(p, x)
    BY <1>3, <1>4, <2>1
  <2> QED BY <1>2, <1>4, <2>1, <2>2
<1>6. \A m \in Tower : Ptr(m, 0)' = IF m = p THEN s ELSE Ptr(m, 0)
  BY <1>1, <1>4 DEF TakesOut
<1>7. /\ \A n \in Node : 0 \in linked'[n] => 0 \in linked[n] /\ n # x
      /\ \A m \in Tower : InList(m, 0)' => InList(m, 0)
  BY <1>4 DEF TakesOut, InList
<1>8. Ok(p, x) /\ Ok(x, s)
  BY <1>3, <1>4, <1>5
<1>9. Ok(p, s)
  BY <1>2, <1>5, <1>8, ConstantFacts
<1>10. ASSUME NEW n \in Node, 0 \in linked'[n], n # p
      PROVE  Gap(p, s, n)
  <2>1. Gap(p, x, n) /\ Gap(x, s, n)
    BY <1>3, <1>4, <1>5, <1>7, <1>10
  <2> QED BY <1>1, <1>2, <2>1
<1> HIDE DEF Ok, Gap
<1> QED BY <1>3, <1>6, <1>7, <1>9, <1>10

(* The base level stays in order: a node is linked between the two nodes   *)
(* of which the search and link_nodes knew that its key lies between, and  *)
(* both are still in the list next to each other.                          *)
LEMMA BaseOrderStep ==
    ASSUME Inv, Shape, Order, NEW t \in Thread, Begin(t) \/ Step(t)
    PROVE  Sorted' /\ NoneBetween'
<1> MemoryTypeOK /\ LocalTypeOK /\ SuccessorsLinked /\ SuccessorsLinked'
  BY ChainKept DEF Inv, TypeOK, Shape
<1> USE DEF Ok, Gap
<1>1. 0 \in Level /\ Null \notin Node /\ head \notin Node
  BY ConstantFacts DEF Level
<1>2. /\ \A n \in Node : key[n] \in Int
      /\ \A m \in Tower : Ptr(m, 0) \in NodeOrNull
      /\ \A m \in Tower : m # head => m \in Node
  BY <1>1, KeyType, PtrType, ConstantFacts
<1>3. /\ \A m \in Tower : InList(m, 0) => Ok(m, Ptr(m, 0))
      /\ \A m \in Tower, n \in Node :
            InList(m, 0) /\ 0 \in linked[n] /\ n # m => Gap(m, Ptr(m, 0), n)
  BY <1>1 DEF Order, Sorted, NoneBetween, InList
<1>4. SUFFICES
        /\ \A m \in Tower : \A r : InList(m, 0)' /\ r = Ptr(m, 0)' => Ok(m, r)
        /\ \A m \in Tower, n \in Node : \A r :
              InList(m, 0)' /\ 0 \in linked'[n] /\ n # m /\ r = Ptr(m, 0)' => Gap(m, r, n)
  <2>1. \A n \in Node : 0 \in linked'[n] => key'[n] = key[n]
    BY BaseKeysKept
  <2>2. ASSUME NEW m \in Tower, NEW r, InList(m, 0)', r = Ptr(m, 0)', r # Null
        PROVE  r \in Node /\ 0 \in linked'[r]
    <3>1. 0 \in linked'[r]
      BY <1>1, <2>2 DEF SuccessorsLinked
    <3>2. MemoryTypeOK'
      BY MemoryTypeStep
    <3> QED BY <1>1, <2>2, <3>1, <3>2 DEF MemoryTypeOK, MaybeTagged, NodeOrNull, Ptr
  <2>3. ASSUME NEW n \in Node, 0 \in linked'[n], NEW r, r = Ptr(n, 0)', r # Null
        PROVE  key'[n] < key'[r]
    <3>1. n \in Tower /\ InList(n, 0)'
      BY <2>3, ConstantFacts DEF InList
    <3>2. key[n] < key[r]
      BY <1>4, <2>3, <3>1
    <3> QED BY <2>1, <2>2, <2>3, <3>1, <3>2
  <2>4. ASSUME NEW m \in Tower, NEW n \in Node, InList(m, 0)', 0 \in linked'[n], n # m,
               NEW r, r = Ptr(m, 0)'
        PROVE  \/ m # head /\ key'[n] < key'[m]
               \/ r # Null /\ key'[r] <= key'[n]
    <3>1. Gap(m, r, n)
      BY <1>4, <2>4
    <3>2. m # head => m \in Node /\ 0 \in linked'[m]
      BY <1>1, <2>4, ConstantFacts DEF InList
    <3> QED BY <2>1, <2>2, <2>4, <3>1, <3>2
  <2>5. Sorted'
    BY <2>3 DEF Sorted
  <2>6. NoneBetween'
    BY <2>4 DEF NoneBetween
  <2> QED BY <2>5, <2>6
<1>5. CASE \A m \in Tower : (InList(m, 0)' => InList(m, 0)) /\ Ptr(m, 0)' = Ptr(m, 0)
  BY <1>2, <1>3, <1>5, ConstantFacts DEF InList
<1>6. ASSUME \A m \in Tower : InList(m, 0) => Ptr(m, 0)' = Ptr(m, 0),
             \A n \in Node : 0 \in linked'[n] => 0 \in linked[n],
             NEW m \in Tower, InList(m, 0)'
      PROVE  InList(m, 0) /\ Ptr(m, 0)' = Ptr(m, 0)
  BY <1>6 DEF InList
<1>7. ASSUME NEW p \in Tower, NEW x \in Node, TakesOut(p, x, 0)
      PROVE  /\ \A m \in Tower : \A r : InList(m, 0)' /\ r = Ptr(m, 0)' => Ok(m, r)
             /\ \A m \in Tower, n \in Node : \A r :
                   InList(m, 0)' /\ 0 \in linked'[n] /\ n # m /\ r = Ptr(m, 0)' => Gap(m, r, n)
  BY <1>7, GapsTakenOut DEF Order
<1>8. ASSUME NEW p \in Tower, PutsIn(t, p, 0), NEW x \in Node, x = New(t), NEW s, s = Ptr(p, 0)
      PROVE  /\ \A m \in Tower : \A r : InList(m, 0)' /\ r = Ptr(m, 0)' => Ok(m, r)
             /\ \A m \in Tower, n \in Node : \A r :
                   InList(m, 0)' /\ 0 \in linked'[n] /\ n # m /\ r = Ptr(m, 0)' => Gap(m, r, n)
  <2>1. /\ InList(p, 0) /\ ~InList(x, 0) /\ Ptr(x, 0) = s /\ x # p /\ x \in Tower /\ x # Null
        /\ x # head /\ s \in NodeOrNull
    BY <1>1, <1>2, <1>8, ConstantFacts DEF PutsIn, InList
  <2>2. Ok(p, x) /\ Ok(x, s)
    <3>1. Linking(t) /\ up[t] = 0 /\ pc[t] = "linkIn" /\ KeyAt(t) /\ LinkingAt(t)
      BY <1>8 DEF PutsIn, LinkIn, Linking, LinkLabel, Order, Shape
    <3>2. p = prev[t][0].node /\ s = prev[t][0].next /\ key[x] = call[t].key
      BY <1>1, <1>8, <3>1 DEF PutsIn, KeyAt, LinkingAt
    <3> QED BY <1>1, <1>8, <3>1, <3>2 DEF KeyAt, Before
  <2>3. \A m \in Tower : Ptr(m, 0)' = IF m = p THEN x ELSE Ptr(m, 0)
    BY <1>1, <1>8 DEF PutsIn
  <2>4. \A n \in Node : 0 \in linked'[n] <=> 0 \in linked[n] \/ n = x
    BY <1>8 DEF PutsIn
  <2>5. \A m \in Tower : InList(m, 0)' <=> InList(m, 0) \/ m = x
    BY <2>4 DEF InList
  <2>6. ASSUME NEW n \in Node, 0 \in linked[n], n # x, n # p
        PROVE  Gap(p, x, n) /\ Gap(x, s, n)
    <3>1. Gap(p, s, n)
      BY <1>3, <1>8, <2>1, <2>6
    <3> QED BY <1>2, <2>1, <2>2, <3>1, ConstantFacts
  <2>7. p \in Node => Gap(x, s, p)
    BY <2>1, <2>2
  <2>8. ASSUME NEW m \in Tower, InList(m, 0), m # p
        PROVE  Gap(m, Ptr(m, 0), x)
    <3>1. m # x
      BY <2>1, <2>8
    <3>2. CASE p = head
      <4>1. m \in Node /\ 0 \in linked[m] /\ m # head
        BY <2>8, <3>2, ConstantFacts DEF InList
      <4>2. s # Null /\ key[s] <= key[m]
        BY <1>3, <1>8, <2>1, <2>8, <3>2, <4>1
      <4>3. key[x] < key[m]
        BY <1>2, <2>1, <2>2, <4>1, <4>2, ConstantFacts
      <4> QED BY <4>1, <4>3
    <3>3. CASE p \in Node
      <4>1. Gap(m, Ptr(m, 0), p)
        BY <1>1, <1>3, <2>1, <2>8, <3>3 DEF InList
      <4>2. key[p] < key[x]
        BY <2>1, <2>2, <3>3
      <4>3. Ptr(m, 0) # Null => Ptr(m, 0) \in Node
        BY <1>2, ConstantFacts
      <4>4. CASE Ptr(m, 0) # Null /\ key[Ptr(m, 0)] <= key[p]
        BY <1>2, <3>3, <4>2, <4>3, <4>4
      <4>5. CASE m # head /\ key[p] < key[m]
        <5>1. m \in Node /\ 0 \in linked[m]
          BY <2>8, <4>5, ConstantFacts DEF InList
        <5>2. Gap(p, s, m)
          BY <1>3, <1>8, <2>1, <2>8, <5>1
        <5>3. s # Null /\ key[s] <= key[m]
          BY <1>2, <3>3, <4>5, <5>1, <5>2
        <5>4. key[x] < key[m]
          BY <1>2, <2>1, <2>2, <5>1, <5>3, ConstantFacts
        <5> QED BY <4>5, <5>4
      <4> QED BY <4>1, <4>4, <4>5
    <3> QED BY <1>2, <3>2, <3>3
  <2>9. ASSUME NEW m \in Tower, InList(m, 0)', NEW r, r = Ptr(m, 0)'
        PROVE  Ok(m, r)
    <3> HIDE DEF Ok
    <3> QED BY <1>3, <2>1, <2>2, <2>3, <2>5, <2>9
  <2>10. ASSUME NEW m \in Tower, NEW n \in Node, InList(m, 0)', 0 \in linked'[n], n # m,
                NEW r, r = Ptr(m, 0)'
         PROVE  Gap(m, r, n)
    <3> HIDE DEF Gap
    <3>1. CASE m = p
      <4>1. r = x
        BY <2>3, <2>10, <3>1
      <4>2. CASE n = x
        BY <1>2, <2>1, <3>1, <4>1, <4>2 DEF Gap
      <4>3. CASE n # x
        BY <2>4, <2>6, <2>10, <3>1, <4>1, <4>3
      <4> QED BY <4>2, <4>3
    <3>2. CASE m = x
      <4>1. r = s /\ 0 \in linked[n]
        BY <2>1, <2>3, <2>4, <2>10, <3>2
      <4> QED BY <2>6, <2>7, <2>10, <3>2, <4>1
    <3>3. CASE m # p /\ m # x
      BY <1>3, <2>3, <2>4, <2>5, <2>8, <2>10, <3>3
    <3> QED BY <3>1, <3>2, <3>3
  <2> QED BY <2>9, <2>10
<1>9. CASE \E p \in Tower, n \in Node, l \in Level : TakesOut(p, n, l)
  <2>1. PICK p \in Tower, n \in Node, l \in Level : TakesOut(p, n, l)
    BY <1>9
  <2>2. CASE l = 0
    BY <1>7, <2>1, <2>2
  <2>3. CASE l # 0
    <3>1. \A m \in Tower : (InList(m, 0)' => InList(m, 0)) /\ Ptr(m, 0)' = Ptr(m, 0)
      BY <1>1, <2>1, <2>3 DEF TakesOut, InList
    <3> QED BY <1>5, <3>1
  <2> QED BY <2>2, <2>3
<1>10. CASE \E p \in Tower, l \in Level : PutsIn(t, p, l)
  <2>1. PICK p \in Tower, l \in Level : PutsIn(t, p, l)
    BY <1>10
  <2>2. New(t) \in Node
    BY <2>1, Locals DEF PutsIn, LinkIn
  <2>3. CASE l = 0
    BY <1>8, <2>1, <2>2, <2>3
  <2>4. CASE l # 0
    <3>1. \A m \in Tower : (InList(m, 0)' => InList(m, 0)) /\ Ptr(m, 0)' = Ptr(m, 0)
      <4>1. \A o \in Node : 0 \in linked'[o] => 0 \in linked[o]
        BY <2>1, <2>4 DEF PutsIn
      <4>2. \A m \in Tower : Ptr(m, 0)' = Ptr(m, 0)
        BY <1>1, <2>1, <2>4 DEF PutsIn
      <4> QED BY <4>1, <4>2 DEF InList
    <3> QED BY <1>5, <3>1
  <2> QED BY <2>3, <2>4
<1>11. CASE (\E l \in Level : Points(t, l)) /\ UNCHANGED linked
  <2>1. \A m \in Tower : InList(m, 0) => Ptr(m, 0)' = Ptr(m, 0)
    <3>1. New(t) \in Node
      BY <1>11, Locals DEF Points, LinkOwn
    <3> QED BY <1>1, <1>11, <3>1, ConstantFacts DEF Points, InList
  <2>2. \A m \in Tower : InList(m, 0)' => InList(m, 0) /\ Ptr(m, 0)' = Ptr(m, 0)
    BY <1>6, <1>11, <2>1
  <2> QED BY <1>3, <1>11, <2>2
<1>12. CASE (\A o \in Tower, i \in Level : Ptr(o, i)' = Ptr(o, i)) /\ UNCHANGED linked
  BY <1>1, <1>5, <1>12 DEF InList
<1> QED BY <1>9, <1>10, <1>11, <1>12, ChainStep

(* The nodes a thread has pointers to are allocated.                       *)
LEMMA HeldAllocated ==
    ASSUME Inv, NEW t \in Thread
    PROVE  /\ curr[t] \in Allocated \cup {head} /\ nxt[t] \in Allocated \cup {Null}
           /\ target[t] \in Allocated \cup {Null}
           /\ \A l \in Level : /\ prev[t][l].node \in Allocated \cup {head}
                               /\ prev[t][l].next \in Allocated \cup {Null}
           /\ pc[t] \in BuildLabel \/ Linking(t) => New(t) \in Allocated
BY DEF Inv, PointersAllocated, Control, ControlAt

(* What a search knows of keys is not disturbed by another thread.         *)
LEMMA OthersKeys ==
    ASSUME Inv, Order, NEW t \in Thread, Begin(t) \/ Step(t), NEW u \in Thread, u # t
    PROVE  KeyAt(u)'
<1> LocalTypeOK /\ KeyAt(u)
  BY DEF Inv, TypeOK, Order
<1>1. /\ pc'[u] = pc[u] /\ call'[u] = call[u] /\ ret'[u] = ret[u] /\ curr'[u] = curr[u]
      /\ nxt'[u] = nxt[u] /\ prev'[u] = prev[u] /\ up'[u] = up[u] /\ New(u)' = New(u)
  BY OthersKept
<1>2. \A m \in Allocated : key'[m] = key[m]
  BY KeyKept
<1>3. \A m \in Allocated \cup {head} : m \in Node => m \in Allocated
  BY ConstantFacts
<1>4. 0 \in Level
  BY ConstantFacts DEF Level
<1>5. (Linking(u)' <=> Linking(u)) /\ (pc[u] \in {"linkOwn", "addRef", "linkIn"} => Linking(u))
      /\ (pc[u] = "finalCheck" => nxt[u] \in Allocated)
  BY <1>1, HeldAllocated DEF Linking, LinkLabel, Inv, Control, ControlAt
<1>6. /\ curr[u] \in Allocated \cup {head}
      /\ \A l \in Level : prev[u][l].node \in Allocated \cup {head}
      /\ prev[u][0].next # Null => prev[u][0].next \in Allocated
      /\ pc[u] \in BuildLabel \/ Linking(u) => New(u) \in Allocated
  BY <1>4, HeldAllocated
<1>7. \A m \in Allocated \cup {head} : (m \in Node => key[m] < call[u].key) =>
                                       (m \in Node => key'[m] < call[u].key)
  BY <1>2, <1>3
<1>8. pc[u] \in BuildLabel \/ Linking(u) => key'[New(u)] = call[u].key
  BY <1>2, <1>6 DEF KeyAt
<1>9. \A l \in Level : prev[u][l].node \in Node => key'[prev[u][l].node] < call[u].key
  BY <1>6, <1>7 DEF KeyAt, Before
<1>10. /\ pc[u] \in {"next", "check", "help", "helpSub"} =>
             (curr[u] \in Node => key'[curr[u]] < call[u].key)
       /\ pc[u] = "finalCheck" => key'[nxt[u]] = call[u].key
  BY <1>2, <1>5, <1>6, <1>7 DEF KeyAt, Before
<1>11. /\ pc[u] \in {"linkOwn", "addRef", "linkIn"}
       /\ up[u] = 0 /\ prev[u][0].next # Null
       => key'[New(u)] < key'[prev[u][0].next]
  BY <1>2, <1>5, <1>6 DEF KeyAt
<1>12. pc[u] = "idle" => \A l \in Level : prev[u][l].node = head
  BY DEF KeyAt
<1> QED BY <1>1, <1>5, <1>8, <1>9, <1>10, <1>11, <1>12 DEF KeyAt, Before

(* The key of a call does not change while it is in progress.              *)
LEMMA CallKept ==
    ASSUME NEW t \in Thread, Step(t)
    PROVE  UNCHANGED call
BY DEF Step, FindStep, RemoveStep, InsertStep, Leave, FindInit, InitLevel, StartSearch, LowerLevel,
     ReadNext, CheckTag, HelpUnlink, HelpSubRef, FinalRead, FinalCheck, LoadHar,
     CasHar, TagLevel, Unlink, UnlinkSubRef, UnlinkLen, NewNode, CompareMax, StoreMax, Count,
     LinkCheck, LinkRecheck, LinkOwn, LinkAddRef, LinkIn, LinkUndo, LinkEnd,
     locals, request

(* Level 0 of a new node is linked only after a node that came later in    *)
(* the list, or none, was seen to follow it.                               *)
LEMMA OwnBefore ==
    ASSUME Inv, NEW t \in Thread, Step(t), pc'[t] = "linkOwn"
    PROVE  /\ LinkCheck(t) \/ LinkRecheck(t)
           /\ UNCHANGED <<memory, locals>>
           /\ \/ ~Blocked(t)
              \/ har[New(t)].removed
<1> LocalTypeOK
  BY DEF Inv, TypeOK
<1> USE DEF LocalTypeOK, Goto
<1>1. CASE LinkCheck(t) \/ LinkRecheck(t)
  BY <1>1 DEF LinkCheck, LinkRecheck
<1>2. CASE FinalRead(t) \/ FinalCheck(t)
  <2>1. \A r : Return(t, r) => pc'[t] \in {"load", "return", "new", "link"}
    BY DEF Return, Resume
  <2> QED BY <1>2, <2>1 DEF FinalRead, FinalCheck
<1>3. CASE \/ FindInit(t) \/ InitLevel(t) \/ StartSearch(t) \/ LowerLevel(t)
           \/ ReadNext(t) \/ CheckTag(t) \/ HelpUnlink(t) \/ HelpSubRef(t) \/ Leave(t)
  BY <1>3 DEF Leave, FindInit, InitLevel, StartSearch, LowerLevel, ReadNext, CheckTag,
       HelpUnlink, HelpSubRef, Consider, Descend, Advance
<1>4. CASE RemoveStep(t)
  BY <1>4 DEF RemoveStep, LoadHar, CasHar, TagLevel, Unlink, UnlinkSubRef, UnlinkLen, GiveUp
<1>5. CASE \/ NewNode(t) \/ CompareMax(t) \/ StoreMax(t) \/ Count(t) \/ LinkOwn(t)
           \/ LinkAddRef(t) \/ LinkIn(t) \/ LinkUndo(t) \/ LinkEnd(t)
  BY <1>5 DEF NewNode, CompareMax, StoreMax, Count, LinkOwn, LinkAddRef, LinkIn, LinkUndo,
       LinkEnd, Relink
<1> QED BY <1>1, <1>2, <1>3, <1>4, <1>5 DEF Step, FindStep, InsertStep

(* What link_nodes knows of the new node's key.                            *)
LEMMA LinkKeys ==
    ASSUME Inv, Shape, Order, NEW t \in Thread, Step(t)
    PROVE  /\ (pc'[t] \in BuildLabel \/ Linking(t)') => key'[New(t)] = call[t].key
           /\ /\ pc'[t] \in {"linkOwn", "addRef", "linkIn"}
              /\ up'[t] = 0 /\ prev'[t][0].next # Null
              => key'[New(t)] < key'[prev'[t][0].next]
<1> MemoryTypeOK /\ LocalTypeOK /\ KeyAt(t) /\ LinkingAt(t)
  BY DEF Inv, TypeOK, Order, Shape
<1>1. ASSUME pc[t] \in BuildLabel \/ Linking(t)
      PROVE  key'[New(t)] = call[t].key /\ key'[New(t)] = key[New(t)]
  BY <1>1, KeyKept, HeldAllocated DEF KeyAt
<1>2. ASSUME pc'[t] \in BuildLabel \/ Linking(t)'
      PROVE  key'[New(t)] = call[t].key
  <2>1. CASE NewNode(t)
    <3>1. New(t) \in Node
      BY <2>1, Locals DEF NewNode
    <3> QED BY <2>1, <3>1 DEF NewNode, MemoryTypeOK
  <2>2. CASE pc[t] \in BuildLabel \/ Linking(t)
    BY <1>1, <2>2
  <2> QED BY <1>2, <2>1, <2>2, LinkingBefore DEF Count, BuildLabel, LinkIn, Linking, LinkLabel
<1>3. 0 \in Level
  BY ConstantFacts DEF Level
<1>4. prev[t][0].next # Null => /\ prev[t][0].next \in Node
                                /\ key'[prev[t][0].next] = key[prev[t][0].next]
  BY <1>3, HeldAllocated, KeyKept DEF Allocated
<1>5. ASSUME pc'[t] \in {"addRef", "linkIn"}, up'[t] = 0, prev'[t][0].next # Null
      PROVE  key'[New(t)] < key'[prev'[t][0].next]
  <2>1. /\ up[t] = 0 /\ prev'[t] = prev[t] /\ pc[t] \in {"linkOwn", "addRef", "linkIn"}
        /\ Linking(t)
    BY <1>5, LinkingBefore DEF LinkOwn, Linking, LinkLabel
  <2> QED BY <1>1, <1>4, <1>5, <2>1 DEF KeyAt
<1>6. ASSUME pc'[t] = "linkOwn", up'[t] = 0, prev'[t][0].next # Null
      PROVE  key'[New(t)] < key'[prev'[t][0].next]
  <2>1. /\ LinkCheck(t) \/ LinkRecheck(t)
        /\ ~Blocked(t) \/ har[New(t)].removed
        /\ up'[t] = up[t] /\ prev'[t] = prev[t]
    BY <1>6, OwnBefore DEF locals, walk
  <2>2. Linking(t)
    BY <2>1 DEF LinkCheck, LinkRecheck, Linking, LinkLabel
  <2>3. ~Blocked(t)
    BY <1>6, <2>1, <2>2 DEF LinkingAt
  <2>4. New(t) \in Node
    BY <2>2, HeldAllocated DEF Allocated
  <2>5. ~(key[prev[t][0].next] <= key[New(t)])
    BY <1>6, <2>1, <2>3 DEF Blocked
  <2>6. key[New(t)] < key[prev[t][0].next]
    BY <1>4, <1>6, <2>1, <2>4, <2>5, KeyType
  <2> QED BY <1>1, <1>4, <1>6, <2>1, <2>2, <2>6
<1> QED BY <1>2, <1>5, <1>6

(* What a search knows of keys at its next label.                          *)
LEMMA OwnKeys ==
    ASSUME Inv, Shape, Order, NEW t \in Thread, Begin(t) \/ Step(t)
    PROVE  KeyAt(t)'
<1> MemoryTypeOK /\ LocalTypeOK /\ KeyAt(t) /\ ControlAt(t)
  BY DEF Inv, TypeOK, Order, Control
<1> USE DEF LocalTypeOK, Goto
<1>1. CASE Begin(t)
  <2>1. pc'[t] \in {"find", "return"} /\ prev'[t] = prev[t] /\ pc[t] = "idle"
    BY <1>1 DEF Begin, walk
  <2>2. ~Linking(t)' /\ pc'[t] \notin BuildLabel
    <3>1. ~LinkIn(t) /\ ~NewNode(t) /\ ~Count(t) /\ ~Linking(t) /\ pc[t] \notin BuildLabel
      BY <2>1 DEF LinkIn, NewNode, Count, Linking, LinkLabel, SearchLabel, FindLabel,
           RemoveLabel, BuildLabel
    <3> QED BY <1>1, <3>1, LinkingBefore
  <2>3. \A l \in Level : prev'[t][l].node \notin Node
    BY <2>1, ConstantFacts DEF KeyAt
  <2> QED BY <2>1, <2>2, <2>3 DEF KeyAt, Before
<1> SUFFICES ASSUME Step(t) PROVE KeyAt(t)'
  BY <1>1
<1> DEFINE B(m) == m \in Node => key'[m] < call[t].key
           Search == {"next", "check", "help", "helpSub"}
<1>2. call'[t] = call[t] /\ New(t)' = New(t)
  BY CallKept, CallsKept DEF New
<1>3. SUFFICES
        /\ \A l \in Level : B(prev'[t][l].node)
        /\ pc'[t] = "idle" => \A l \in Level : prev'[t][l].node = head
        /\ pc'[t] \in Search => B(curr'[t])
        /\ pc'[t] = "finalCheck" => key'[nxt'[t]] = call[t].key
  BY <1>2, LinkKeys DEF KeyAt, Before
<1>4. \A m \in Allocated \cup {head} : Before(m, call[t].key) => B(m)
  BY KeyKept, ConstantFacts DEF Before
<1>5. B(head)
  BY ConstantFacts
<1> HIDE DEF B
<1>6. /\ \A l \in Level : B(prev[t][l].node)
      /\ pc[t] \in Search => B(curr[t])
      /\ pc[t] = "finalCheck" => key'[nxt[t]] = call[t].key
  <2>1. pc[t] = "finalCheck" => nxt[t] \in Allocated
    BY HeldAllocated DEF ControlAt
  <2> QED BY <1>4, <2>1, HeldAllocated, KeyKept DEF KeyAt
<1>7. pc[t] # "idle"
  BY InProgress
<1>8. ASSUME NEW n, Descend(t, n), pc[t] \in Search
      PROVE  /\ pc'[t] \in {"next", "final"}
             /\ \A l \in Level : B(prev'[t][l].node)
             /\ B(curr'[t])
  <2>1. level[t] - 1 \in Level
    BY <1>8, Locals
  <2>2. \A l \in Level : prev'[t][l] = IF l = level[t] - 1 THEN [node |-> curr[t], next |-> n]
                                                       ELSE prev[t][l]
    BY <1>8, <2>1 DEF Descend
  <2>3. B(curr[t]) /\ curr'[t] = curr[t]
    BY <1>6, <1>8 DEF Descend
  <2>4. ASSUME NEW l \in Level
        PROVE  B(prev'[t][l].node)
    <3>1. CASE l = level[t] - 1
      <4>1. prev'[t][l].node = curr[t]
        BY <2>2, <3>1
      <4> QED BY <2>3, <4>1
    <3>2. CASE l # level[t] - 1
      <4>1. prev'[t][l] = prev[t][l]
        BY <2>2, <3>2
      <4> QED BY <1>6, <4>1
    <3> QED BY <3>1, <3>2
  <2> QED BY <1>8, <2>3, <2>4 DEF Descend
<1>9. ASSUME NEW n, Consider(t, n), pc[t] \in Search
      PROVE  /\ pc'[t] \in {"next", "final", "check"}
             /\ \A l \in Level : B(prev'[t][l].node)
             /\ B(curr'[t])
  BY <1>6, <1>8, <1>9 DEF Consider
<1>10. ASSUME NEW n, Return(t, n), UNCHANGED prev
       PROVE  /\ pc'[t] \in {"load", "return", "new", "link"}
              /\ \A l \in Level : B(prev'[t][l].node)
  BY <1>6, <1>10 DEF Return, Resume
<1>11. CASE Leave(t)
  BY <1>5, <1>11 DEF Leave, NoPrev
<1>12. CASE FindInit(t)
  <2>1. \A l \in Level : prev'[t][l].node = head
    BY <1>12 DEF FindInit
  <2> QED BY <1>5, <1>12, <2>1 DEF FindInit
<1>22. CASE InitLevel(t)
  <2>1. \A l \in Level : prev'[t][l].node = prev[t][l].node
    BY <1>22, Locals DEF InitLevel
  <2> QED BY <1>6, <1>22, <2>1 DEF InitLevel
<1>13. CASE StartSearch(t) \/ LowerLevel(t)
  BY <1>5, <1>6, <1>13 DEF StartSearch, LowerLevel, ControlAt, Control, Inv
<1>14. CASE ReadNext(t)
  BY <1>9, <1>14 DEF ReadNext
<1>15. CASE CheckTag(t)
  <2>1. CASE key[nxt[t]] < call[t].key /\ Advance(t, nxt[t])
    <3>1. level[t] - 1 \in Level /\ nxt[t] \in Allocated
      BY <1>15, Locals, HeldAllocated DEF CheckTag, ControlAt
    <3>2. \A l \in Level : prev'[t][l] = IF l = level[t] - 1
                                           THEN [node |-> curr[t], next |-> nxt[t]]
                                           ELSE prev[t][l]
      BY <2>1, <3>1 DEF Advance
    <3>3. B(curr[t])
      BY <1>6, <1>15 DEF CheckTag
    <3>4. ASSUME NEW l \in Level
          PROVE  B(prev'[t][l].node)
      <4>1. CASE l = level[t] - 1
        <5>1. prev'[t][l].node = curr[t]
          BY <3>2, <4>1
        <5> QED BY <3>3, <5>1
      <4>2. CASE l # level[t] - 1
        <5>1. prev'[t][l] = prev[t][l]
          BY <3>2, <4>2
        <5> QED BY <1>6, <5>1
      <4> QED BY <4>1, <4>2
    <3>5. B(nxt[t])
      BY <1>4, <2>1, <3>1 DEF Before
    <3> QED BY <2>1, <3>4, <3>5 DEF Advance
  <2>2. CASE Descend(t, nxt[t])
    BY <1>8, <1>15, <2>2 DEF CheckTag
  <2>3. CASE Goto(t, "help") /\ UNCHANGED <<level, curr, nxt, prev>>
    BY <1>6, <1>15, <2>3 DEF CheckTag
  <2> QED BY <1>15, <2>1, <2>2, <2>3 DEF CheckTag
<1>16. CASE HelpUnlink(t)
  BY <1>6, <1>16 DEF HelpUnlink, locals, walk
<1>17. CASE HelpSubRef(t)
  <2>1. CASE Goto(t, "panic") /\ UNCHANGED <<level, curr, nxt, prev>>
    BY <1>6, <1>17, <2>1 DEF HelpSubRef
  <2>2. CASE Consider(t, Ptr(nxt[t], level[t] - 1))
    BY <1>9, <1>17, <2>2 DEF HelpSubRef
  <2> QED BY <1>17, <2>1, <2>2 DEF HelpSubRef
<1>18. CASE FinalRead(t)
  <2>1. CASE Return(t, Null)
    BY <1>10, <1>18, <2>1 DEF FinalRead
  <2>2. CASE /\ HasKey(Ptr(prev[t][0].node, 0), call[t].key)
             /\ nxt' = [nxt EXCEPT ![t] = Ptr(prev[t][0].node, 0)]
             /\ Goto(t, "finalCheck")
    <3>1. Ptr(prev[t][0].node, 0) \in Allocated
      <4>1. 0 \in Level /\ prev[t][0].node \in Tower
        BY ConstantFacts DEF Level
      <4> QED BY <2>2, <4>1 DEF HasKey, Inv, PointersAllocated
    <3>2. key'[Ptr(prev[t][0].node, 0)] = call[t].key
      BY <2>2, <3>1, KeyKept DEF HasKey
    <3> QED BY <1>6, <1>18, <2>2, <3>2 DEF FinalRead
  <2> QED BY <1>18, <2>1, <2>2 DEF FinalRead
<1>19. CASE FinalCheck(t)
  BY <1>10, <1>19 DEF FinalCheck
<1>20. CASE RemoveStep(t)
  BY <1>6, <1>20 DEF RemoveStep, LoadHar, CasHar, TagLevel, Unlink, UnlinkSubRef,
       UnlinkLen, GiveUp, locals, walk
<1>21. CASE InsertStep(t)
  BY <1>6, <1>21 DEF InsertStep, NewNode, CompareMax, StoreMax, Count, LinkCheck, LinkRecheck,
       LinkOwn, LinkAddRef, LinkIn, LinkUndo, LinkEnd, Relink, locals, walk
<1> QED BY <1>11, <1>12, <1>13, <1>14, <1>15, <1>16, <1>17, <1>18, <1>19, <1>20, <1>21,
           <1>22
        DEF Step, FindStep

(* The empty list is in order, and nothing is known of keys.               *)
LEMMA OrderInit == Init => Order
<1> SUFFICES ASSUME Init PROVE Order
  OBVIOUS
<1> USE ConstantFacts, MemoryAssumption DEF Init, MemoryInit, LocalInit
<1>1. ASSUME NEW t \in Thread
      PROVE  KeyAt(t)
  BY DEF KeyAt, Before, NoPrev, BuildLabel, Linking, LinkLabel, SearchLabel, FindLabel,
       RemoveLabel
<1>2. Sorted /\ NoneBetween
  BY DEF Sorted, NoneBetween
<1> QED BY <1>1, <1>2 DEF Order

(* Every step keeps the base level in order, and what searches know.       *)
LEMMA OrderStep == Inv /\ Shape /\ Order /\ [Next]_vars => Order'
<1> SUFFICES ASSUME Inv, Shape, Order, [Next]_vars PROVE Order'
  OBVIOUS
<1>1. CASE UNCHANGED vars
  BY <1>1 DEF vars, memory, locals, request, walk, removal, Order, KeyAt, Before, Sorted,
       NoneBetween, InList, Linking, New, Ptr
<1>2. ASSUME NEW t \in Thread, Begin(t) \/ Step(t)
      PROVE  Order'
  <2>1. \A u \in Thread : KeyAt(u)'
    BY <1>2, OwnKeys, OthersKeys
  <2>2. Sorted' /\ NoneBetween'
    BY <1>2, BaseOrderStep
  <2> QED BY <2>1, <2>2 DEF Order
<1> QED BY <1>1, <1>2 DEF Next, Terminating

(* In every reachable state the base level is in order and skips no node.  *)
THEOREM OrderHolds == Spec => []Order
BY Invariance, ShapeInvariance, OrderInit, OrderStep, PTL DEF Spec

(* Sorted, the promise that the base level never holds two nodes of one    *)
(* key, for any number of threads, calls, keys and levels.                 *)
THEOREM BaseLevelIsSorted == Spec => []Sorted
<1>1. Order => Sorted
  BY DEF Order
<1> QED BY <1>1, OrderHolds, PTL

-----------------------------------------------------------------------------
(* Results *)

(* Who changes the result of a call, and when: its start, the end of the   *)
(* search of a get, and the removal of an entry.                           *)
LEMMA ResultStep ==
    ASSUME Inv, NEW t \in Thread, Begin(t) \/ Step(t)
    PROVE  /\ \A u \in Thread : u # t => result'[u] = result[u]
           /\ \/ Begin(t) /\ result'[t] = Null
              \/ Step(t) /\ result'[t] = result[t]
              \/ Step(t) /\ ret[t] = "get" /\ (FinalRead(t) \/ FinalCheck(t))
              \/ Step(t) /\ CasHar(t) /\ CanSetRemoved(target[t], seen[t])
                         /\ SetRemoved(target[t]) /\ result'[t] = target[t]
<1> LocalTypeOK
  BY DEF Inv, TypeOK
<1> USE DEF LocalTypeOK
<1>1. CASE Begin(t)
  BY <1>1 DEF Begin
<1>2. CASE FinalRead(t)
  BY <1>2 DEF FinalRead, Return, Step, FindStep
<1>3. CASE FinalCheck(t)
  BY <1>3 DEF FinalCheck, Return, Step, FindStep
<1>4. CASE CasHar(t)
  BY <1>4 DEF CasHar, Step, RemoveStep
<1>5. CASE Step(t) /\ ~FinalRead(t) /\ ~FinalCheck(t) /\ ~CasHar(t)
  <2>1. UNCHANGED result
    BY <1>5 DEF Step, FindStep, RemoveStep, InsertStep, Leave, FindInit, InitLevel, StartSearch, LowerLevel,
         ReadNext, CheckTag, HelpUnlink, HelpSubRef, LoadHar, TagLevel, Unlink,
         UnlinkSubRef, UnlinkLen, NewNode, CompareMax, StoreMax, Count, LinkCheck, LinkRecheck,
         LinkOwn, LinkAddRef, LinkIn, LinkUndo, LinkEnd, locals, removal, walk
  <2> QED BY <1>5, <2>1
<1> QED BY <1>1, <1>2, <1>3, <1>4, <1>5

-----------------------------------------------------------------------------
(* The list seen from outside: the map it implements *)

(* The entries that have been put into the map, whether or not taken.      *)
Spent == {n \in Node : 0 \in linked[n] \/ har[n].removed}

(* A key has one node in the base level.                                   *)
OnePerKey ==
    \A m, n \in Node : 0 \in linked[m] /\ 0 \in linked[n] /\ key[m] = key[n] => m = n

-----------------------------------------------------------------------------
(* How a step changes the entries *)

PutsEntry(t, x) ==
    /\ LinkIn(t) /\ x = New(t) /\ x \in Node \ Spent
    /\ Live' = Live \cup {x} /\ Spent' = Spent \cup {x}

TakesEntry(t, x) ==
    /\ CasHar(t) /\ CanSetRemoved(x, seen[t]) /\ SetRemoved(x)
    /\ x = target[t] /\ x \in Live
    /\ Live' = Live \ {x} /\ Spent' = Spent

(* Only linking a base level adds an entry, only setting a removed bit     *)
(* takes one, and no other step changes which entries there are: what      *)
(* unlink and the helping searches take out was removed before.            *)
LEMMA LiveStep ==
    ASSUME Inv, Shape, NEW t \in Thread, Begin(t) \/ Step(t)
    PROVE  \/ \E x \in Node : PutsEntry(t, x) \/ TakesEntry(t, x)
           \/ Live' = Live /\ Spent' = Spent
<1> MemoryTypeOK /\ LocalTypeOK /\ LinkingAt(t)
  BY DEF Inv, TypeOK, Shape
<1>1. 0 \in Level
  BY ConstantFacts DEF Level
<1>2. \A n \in Node : 0 \in linked[n] \ linked'[n] => har[n].removed
  BY <1>1, UnlinkedTagged
<1>3. \A n \in Node : har[n].removed => har'[n].removed
  BY WordKept
<1>4. CASE \E n \in Node : 0 \in linked'[n] /\ 0 \notin linked[n]
  <2>1. PICK x \in Node : 0 \in linked'[x] /\ 0 \notin linked[x]
    BY <1>4
  <2>2. LinkIn(t) /\ x = New(t) /\ linked'[x] = linked[x] \cup {up[t]}
    BY <2>1, LinkedGrows
  <2>3. up[t] = 0
    BY <2>1, <2>2
  <2>4. ~har[x].removed
    BY <2>2, <2>3 DEF LinkingAt, LinkIn, Linking, LinkLabel
  <2>5. \A n \in Node : n # x => (0 \in linked'[n] => 0 \in linked[n])
    BY <2>2, LinkedGrows
  <2>6. UNCHANGED har
    BY <2>2 DEF LinkIn
  <2>7. Live' = Live \cup {x}
    BY <1>2, <2>1, <2>4, <2>5, <2>6 DEF Live
  <2>8. Spent' = Spent \cup {x} /\ x \notin Spent
    BY <1>2, <2>1, <2>4, <2>5, <2>6 DEF Spent
  <2>9. PutsEntry(t, x)
    BY <2>2, <2>7, <2>8 DEF PutsEntry
  <2> QED BY <2>9
<1>5. CASE \E n \in Node : har'[n].removed /\ ~har[n].removed
  <2>1. PICK x \in Node : har'[x].removed /\ ~har[x].removed
    BY <1>5
  <2>2. CasHar(t) /\ x = target[t]
    BY <2>1, WordKept
  <2>3. CanSetRemoved(x, seen[t]) /\ SetRemoved(x)
    BY <2>1, <2>2 DEF CasHar
  <2>4. 0 \in linked[x]
    BY <1>1, <2>1, <2>2, RemovesReached DEF Reached, Inv, TaggedAreRemoved
  <2>5. \A n \in Node : har'[n].removed = (n = x \/ har[n].removed)
    BY <2>3, RemovedStep
  <2>6. UNCHANGED linked
    BY <2>2 DEF CasHar
  <2>7. Live' = Live \ {x} /\ x \in Live
    BY <2>1, <2>4, <2>5, <2>6 DEF Live
  <2>8. Spent' = Spent
    BY <2>4, <2>5, <2>6 DEF Spent
  <2>9. TakesEntry(t, x)
    BY <2>2, <2>3, <2>7, <2>8 DEF TakesEntry
  <2> QED BY <2>9
<1>6. CASE /\ \A n \in Node : 0 \in linked'[n] => 0 \in linked[n]
           /\ \A n \in Node : har'[n].removed => har[n].removed
  <2>1. \A n \in Node : \/ (0 \in linked'[n]) = (0 \in linked[n])
                        \/ har[n].removed /\ har'[n].removed
    BY <1>2, <1>3, <1>6
  <2>2. \A n \in Node : har'[n].removed <=> har[n].removed
    BY <1>3, <1>6
  <2>3. Live' = Live
    BY <2>1, <2>2 DEF Live
  <2>4. Spent' = Spent
    BY <2>1, <2>2 DEF Spent
  <2> QED BY <2>3, <2>4
<1> QED BY <1>4, <1>5, <1>6

-----------------------------------------------------------------------------
(* The refinement of EntryMap *)

(* What EntryOf chooses when there is one entry of the key, and when there *)
(* is none.                                                                *)
LEMMA ChosenEntry ==
    ASSUME NEW S, NEW f, NEW k, \A m, n \in S : f[m] = f[n] => m = n
    PROVE  LET e == IF \E n \in S : f[n] = k THEN CHOOSE n \in S : f[n] = k ELSE Null
           IN  /\ \A n \in S : f[n] = k => e = n
               /\ (\A n \in S : f[n] # k) => e = Null
OBVIOUS

(* A key has one node in the base level, whoever inserts it at the same    *)
(* time.                                                                   *)
THEOREM KeysAreUnique == Spec => []OnePerKey
<1>1. Inv /\ Shape /\ Order => OnePerKey
  BY OneNodePerKey DEF OnePerKey
<1> QED BY <1>1, Invariance, ShapeInvariance, OrderHolds, PTL

(* The empty list is the empty map.                                        *)
LEMMA MapInit == Init => Map!Init
<1> SUFFICES ASSUME Init PROVE Map!Init
  OBVIOUS
<1>1. Live = {} /\ Spent = {}
  BY DEF Init, MemoryInit, Live, Spent
<1>2. \A k \in Key : EntryOf(k) = Null
  BY <1>1 DEF EntryOf
<1> QED BY <1>1, <1>2 DEF Map!Init, Spent

(* Every step of the list is a step of the map or changes nothing there.   *)
LEMMA MapStep ==
    Inv /\ Shape /\ OnePerKey /\ OnePerKey' /\ [Next]_vars
        => [Map!Next]_<<[k \in Key |-> EntryOf(k)], Spent>>
<1> SUFFICES ASSUME Inv, Shape, OnePerKey, OnePerKey', [Next]_vars
             PROVE  [Map!Next]_<<[k \in Key |-> EntryOf(k)], Spent>>
  OBVIOUS
<1> MemoryTypeOK
  BY DEF Inv, TypeOK
<1>1. CASE UNCHANGED vars
  BY <1>1 DEF vars, memory, EntryOf, Live, Spent
<1>2. ASSUME NEW t \in Thread, Begin(t) \/ Step(t)
      PROVE  [Map!Next]_<<[k \in Key |-> EntryOf(k)], Spent>>
  <2>1. /\ \A m, n \in Live : key[m] = key[n] => m = n
        /\ \A m, n \in Live' : key'[m] = key'[n] => m = n
    BY DEF OnePerKey, Live
  <2>2. \A k \in Key : /\ \A n \in Live : key[n] = k => EntryOf(k) = n
                       /\ (\A n \in Live : key[n] # k) => EntryOf(k) = Null
    BY <2>1, ChosenEntry DEF EntryOf
  <2>3. \A k \in Key : /\ \A n \in Live' : key'[n] = k => EntryOf(k)' = n
                       /\ (\A n \in Live' : key'[n] # k) => EntryOf(k)' = Null
    BY <2>1, ChosenEntry DEF EntryOf
  <2>4. \A n \in Live \cup Live' : key'[n] = key[n]
    BY <1>2, BaseKeysKept DEF Live
  <2>5. ASSUME NEW x \in Node, PutsEntry(t, x)
        PROVE  Map!Next
    <3>1. Live' = Live \cup {x} /\ x \in Node \ Spent /\ Spent' = Spent \cup {x}
      BY <2>5 DEF PutsEntry
    <3>2. x \notin Live
      BY <3>1 DEF Live, Spent
    <3>3. PICK k \in Key : k = key[x]
      BY DEF MemoryTypeOK
    <3>4. key'[x] = k
      BY <2>4, <3>1, <3>3
    <3>5. \A n \in Live : key[n] # k
      BY <2>1, <2>4, <3>1, <3>2, <3>4
    <3>6. EntryOf(k) = Null /\ EntryOf(k)' = x
      BY <2>2, <2>3, <3>1, <3>4, <3>5
    <3>7. ASSUME NEW j \in Key, j # k
          PROVE  EntryOf(j)' = EntryOf(j)
      <4>1. CASE \E n \in Live : key[n] = j
        BY <2>2, <2>3, <2>4, <3>1, <4>1
      <4>2. CASE \A n \in Live : key[n] # j
        BY <2>2, <2>3, <2>4, <3>1, <3>4, <3>7, <4>2
      <4> QED BY <4>1, <4>2
    <3>8. Map!Put(k)
      BY <3>1, <3>6, <3>7 DEF Map!Put, Spent
    <3> QED BY <3>8 DEF Map!Next
  <2>6. ASSUME NEW x \in Node, TakesEntry(t, x)
        PROVE  Map!Next
    <3>1. Live' = Live \ {x} /\ x \in Live /\ Spent' = Spent
      BY <2>6 DEF TakesEntry
    <3>2. PICK k \in Key : k = key[x]
      BY DEF MemoryTypeOK
    <3>3. \A n \in Live' : key'[n] # k
      BY <2>1, <2>4, <3>1, <3>2
    <3>4. EntryOf(k) = x /\ EntryOf(k)' = Null /\ x # Null
      BY <2>2, <2>3, <3>1, <3>2, <3>3, ConstantFacts
    <3>5. ASSUME NEW j \in Key, j # k
          PROVE  EntryOf(j)' = EntryOf(j)
      <4>1. CASE \E n \in Live : key[n] = j
        BY <2>2, <2>3, <2>4, <3>1, <3>2, <3>5, <4>1
      <4>2. CASE \A n \in Live : key[n] # j
        BY <2>2, <2>3, <2>4, <3>1, <4>2
      <4> QED BY <4>1, <4>2
    <3>6. Map!Take(k)
      BY <3>1, <3>4, <3>5 DEF Map!Take, Spent
    <3> QED BY <3>6 DEF Map!Next
  <2>7. ASSUME Live' = Live, Spent' = Spent
        PROVE  \A k \in Key : EntryOf(k)' = EntryOf(k)
    <3>1. SUFFICES ASSUME NEW k \in Key PROVE EntryOf(k)' = EntryOf(k)
      OBVIOUS
    <3>2. CASE \E n \in Live : key[n] = k
      BY <2>2, <2>3, <2>4, <2>7, <3>2
    <3>3. CASE \A n \in Live : key[n] # k
      BY <2>2, <2>3, <2>4, <2>7, <3>3
    <3> QED BY <3>2, <3>3
  <2> QED BY <1>2, <2>5, <2>6, <2>7, LiveStep
<1> QED BY <1>1, <1>2 DEF Next, Terminating

(* The list implements the map: linking at the base level and setting the  *)
(* removed bit are the instants at which insert and remove take effect,    *)
(* whatever else the threads do meanwhile.                                 *)
THEOREM ListImplementsEntryMap == Spec => ImplementsEntryMap
<1>1. Inv /\ Shape /\ OnePerKey /\ OnePerKey' /\ [Next]_vars
        => [Map!Next]_<<[k \in Key |-> EntryOf(k)],
                        {n \in Node : 0 \in linked[n] \/ har[n].removed}>>
  BY MapStep DEF Spent
<1> QED BY <1>1, MapInit, Invariance, ShapeInvariance, KeysAreUnique, PTL
        DEF Spec, ImplementsEntryMap, Map!Spec

-----------------------------------------------------------------------------
(* What the calls return *)

(* A get only searches; the other calls keep to their own uses of find.    *)
LEMMA UseStep ==
    ASSUME Inv, NEW t \in Thread, Begin(t) \/ Step(t), UseAt(t)
    PROVE  UseAt(t)'
<1> LocalTypeOK
  BY DEF Inv, TypeOK
<1> USE DEF LocalTypeOK, Goto
<1> DEFINE Acts == RemoveLabel \cup {"unlinkLen", "new"} \cup BuildLabel \cup LinkLabel
<1>1. CASE Begin(t)
  <2>1. ret'[t] = call'[t].op /\ pc'[t] \in {"return", "find"}
    BY <1>1 DEF Begin
  <2> QED BY <2>1 DEF UseAt, RemoveLabel, BuildLabel, LinkLabel
<1>2. CASE Step(t)
  <2>1. call' = call
    BY <1>2, CallKept
  <2>2. SUFFICES /\ (ret'[t] = "get") <=> (ret[t] = "get")
                 /\ pc'[t] \in Acts => ret[t] # "get"
    BY <2>1 DEF UseAt
  <2>3. pc[t] \in Acts => ret[t] # "get"
    BY DEF UseAt
  <2> USE DEF RemoveLabel, BuildLabel, LinkLabel
  <2>4. CASE FindStep(t)
    BY <2>4 DEF FindStep, FindInit, InitLevel, StartSearch, LowerLevel, ReadNext, CheckTag, HelpUnlink,
         HelpSubRef, FinalRead, FinalCheck, Consider, Advance, Descend, Return, Resume,
         locals
  <2>5. CASE RemoveStep(t)
    BY <2>3, <2>5 DEF RemoveStep, LoadHar, CasHar, TagLevel, Unlink, UnlinkSubRef,
         UnlinkLen, GiveUp, locals
  <2>6. CASE InsertStep(t)
    BY <2>3, <2>6 DEF InsertStep, NewNode, CompareMax, StoreMax, Count, LinkCheck, LinkRecheck,
         LinkOwn, LinkAddRef, LinkIn, LinkUndo, LinkEnd, Relink, locals
  <2>7. CASE Leave(t)
    BY <2>7 DEF Leave
  <2> QED BY <1>2, <2>4, <2>5, <2>6, <2>7 DEF Step
<1> QED BY <1>1, <1>2

(* An entry is delivered to one call that is not a get: the call that set  *)
(* the removed bit found it not set.                                       *)
LEMMA ResultsStep == Inv /\ Results /\ [Next]_vars => Results'
<1> SUFFICES ASSUME Inv, Results, [Next]_vars PROVE Results'
  OBVIOUS
<1>1. CASE UNCHANGED vars
  BY <1>1 DEF vars, memory, locals, request, walk, removal, Results, ResultAt, UseAt,
       DeliveredOnce
<1>2. ASSUME NEW t \in Thread, Begin(t) \/ Step(t)
      PROVE  Results'
  <2> LocalTypeOK /\ MemoryTypeOK /\ LocalTypeOK' /\ (\A u \in Thread : ResultAt(u))
    BY <1>2, LocalTypeStep DEF Inv, TypeOK, Results
  <2>1. ResultAt(t)
    OBVIOUS
  <2>2. \A n \in Node : har[n].removed => har'[n].removed
    BY <1>2, WordKept
  <2>3. \A u \in Thread : result[u] # Null => result[u] \in Node
    BY DEF LocalTypeOK, NodeOrNull
  <2>4. \A u \in Thread : u # t => /\ result'[u] = result[u] /\ call'[u] = call[u]
                                   /\ ret'[u] = ret[u] /\ pc'[u] = pc[u]
    BY <1>2, ResultStep, OthersKept
  <2>5. /\ result'[t] # Null /\ call'[t].op # "get"
        => \/ result'[t] = result[t] /\ call[t].op # "get"
           \/ /\ result'[t] = target[t] /\ target[t] \in Node
              /\ ~har[target[t]].removed /\ har'[target[t]].removed
    <3>1. CASE Begin(t) /\ result'[t] = Null
      BY <3>1
    <3>2. CASE Step(t) /\ result'[t] = result[t]
      BY <3>2, CallKept
    <3>3. CASE Step(t) /\ ret[t] = "get"
      BY <2>1, <3>3, CallKept DEF ResultAt, UseAt
    <3>4. CASE /\ CasHar(t) /\ CanSetRemoved(target[t], seen[t])
               /\ SetRemoved(target[t]) /\ result'[t] = target[t]
      <4>1. target[t] \in Node
        BY <3>4, Locals DEF CasHar, RemoveLabel
      <4>2. har'[target[t]].removed
        BY <3>4, <4>1, RemovedStep
      <4> QED BY <3>4, <4>1, <4>2 DEF CanSetRemoved
    <3> QED BY <1>2, <3>1, <3>2, <3>3, <3>4, ResultStep
  <2>6. \A u \in Thread : ResultAt(u)'
    <3>1. ResultAt(t)'
      BY <1>2, <2>1, <2>2, <2>3, <2>5, UseStep DEF ResultAt
    <3>2. ASSUME NEW u \in Thread, u # t
          PROVE  ResultAt(u)'
      BY <2>2, <2>3, <2>4, <3>2 DEF ResultAt, UseAt
    <3> QED BY <3>1, <3>2
  <2>7. DeliveredOnce'
    <3>1. ASSUME NEW u \in Thread, u # t, result'[t] # Null, result'[t] = result'[u],
                 call'[t].op # "get", call'[u].op # "get"
          PROVE  FALSE
      <4>1. result[u] = result'[t] /\ call[u].op # "get"
        BY <2>4, <3>1
      <4>2. har[result[u]].removed
        BY <3>1, <4>1 DEF ResultAt
      <4>3. ~(result'[t] = result[t] /\ call[t].op # "get")
        BY <3>1, <4>1 DEF Results, DeliveredOnce
      <4> QED BY <2>5, <3>1, <4>1, <4>2, <4>3
    <3>2. ASSUME NEW v \in Thread, NEW u \in Thread, v # t, u # t, u # v,
                 result'[v] # Null, result'[v] = result'[u]
          PROVE  call'[v].op = "get" \/ call'[u].op = "get"
      BY <2>4, <3>2 DEF Results, DeliveredOnce
    <3> QED BY <3>1, <3>2 DEF DeliveredOnce
  <2> QED BY <2>6, <2>7 DEF Results
<1> QED BY <1>1, <1>2 DEF Next, Terminating

(* No call has a result yet.                                               *)
LEMMA ResultsInit == Init => Results
BY ConstantFacts DEF Init, LocalInit, Results, ResultAt, UseAt, DeliveredOnce, RemoveLabel,
   BuildLabel, LinkLabel

(* Gets keep to searching, and what another call returns is removed.       *)
THEOREM ResultsHold == Spec => []Results
BY Invariance, ResultsInit, ResultsStep, PTL DEF Spec

(* DeliveredOnce: of any number of calls that remove or replace the same   *)
(* entry only one gets it.                                                 *)
THEOREM EntriesDeliveredOnce == Spec => []DeliveredOnce
<1>1. Results => DeliveredOnce
  BY DEF Results
<1> QED BY <1>1, ResultsHold, PTL

(* A get that returns an entry has just read its removed bit.              *)
LEMMA GetReturns ==
    ASSUME Inv, Shape, Order, NEW t \in Thread, Begin(t) \/ Step(t), UseAt(t),
           Returns(t), call[t].op = "get", result'[t] # Null
    PROVE  result'[t] \in Live /\ key[result'[t]] = call[t].key
<1> LocalTypeOK
  BY DEF Inv, TypeOK
<1>1. ret[t] = "get" /\ pc'[t] = "return"
      /\ pc[t] \notin RemoveLabel \cup {"unlinkLen", "new"} \cup BuildLabel \cup LinkLabel
  BY DEF UseAt, Returns
<1>2. FinalRead(t) \/ FinalCheck(t) \/ (Begin(t) /\ result'[t] = Null)
  BY <1>1 DEF Step, FindStep, RemoveStep, InsertStep, Leave, FindInit, InitLevel, StartSearch, LowerLevel,
       ReadNext, CheckTag, HelpUnlink, HelpSubRef, Consider, Advance, Descend, LoadHar,
       CasHar, TagLevel, Unlink, UnlinkSubRef, UnlinkLen, NewNode, CompareMax, StoreMax, Count,
       LinkCheck, LinkRecheck, LinkOwn, LinkAddRef, LinkIn, LinkUndo, LinkEnd, Begin,
       RemoveLabel, BuildLabel, LinkLabel, Goto, LocalTypeOK
<1>3. FinalCheck(t) /\ result'[t] = nxt[t] /\ ~har[nxt[t]].removed
  BY <1>1, <1>2 DEF FinalRead, FinalCheck, Return, Goto, LocalTypeOK
<1>4. nxt[t] \in Node /\ ReachedTo(nxt[t], 0) /\ key[nxt[t]] = call[t].key
  BY <1>3, Locals DEF FinalCheck, Shape, HeldAt, Order, KeyAt
<1>5. 0 \in Level /\ 0 \in 0 .. 0
  BY ConstantFacts DEF Level
<1>6. 0 \in linked[nxt[t]]
  BY <1>3, <1>4, <1>5 DEF ReachedTo, Reached, Inv, TaggedAreRemoved
<1> QED BY <1>3, <1>4, <1>6 DEF Live

(* GetReturnsLive: the entry a get returns is in the list, with the key it *)
(* was asked for, at the moment the get decides.                           *)
THEOREM GetsReturnLive == Spec => GetReturnsLive
<1> DEFINE Good == \A t \in Thread :
                      Returns(t) /\ call[t].op = "get" /\ result'[t] # Null
                          => result'[t] \in Live /\ key[result'[t]] = call[t].key
<1>1. Inv /\ Shape /\ Order /\ Results /\ [Next]_vars => [Good]_vars
  <2> SUFFICES ASSUME Inv, Shape, Order, Results, NEW t \in Thread, Begin(t) \/ Step(t)
               PROVE  Good
    BY DEF Next, Terminating
  <2>1. SUFFICES ASSUME NEW u \in Thread, Returns(u), call[u].op = "get", result'[u] # Null
                 PROVE  result'[u] \in Live /\ key[result'[u]] = call[u].key
    OBVIOUS
  <2>2. u = t
    BY <2>1, OthersKept DEF Returns, Inv, TypeOK
  <2> QED BY <2>1, <2>2, GetReturns DEF Results, ResultAt
<1> QED BY <1>1, Invariance, ShapeInvariance, OrderHolds, ResultsHold, PTL
        DEF Spec, GetReturnsLive

-----------------------------------------------------------------------------
(* The length *)

(* The nodes of the calls of two threads differ.                           *)
LEMMA NewDiffers ==
    ASSUME NEW t \in Thread, NEW u \in Thread, u # t
    PROVE  New(u) # New(t)
BY DEF New

(* The entries counted after a step are those counted before it, plus the  *)
(* one that is counted now, minus the one that was.                        *)
LEMMA CountedKept ==
    ASSUME Inv, Shape, NEW t \in Thread, Begin(t) \/ Step(t), NEW C, CountedBy(C),
           NEW D, IsFiniteSet(D), len' = Cardinality(D), D \subseteq Allocated',
           \A n \in C : n \in D \/ (UnlinkLen(t) /\ n = target[t]),
           \A n \in D : n \in C \/ (Count(t) /\ n = New(t)),
           Count(t) => New(t) \in D
    PROVE  CountedBy(D)'
<1> /\ LocalTypeOK /\ OwnerAt(t)
    /\ Live \subseteq C /\ C \subseteq Allocated /\ Allocated \subseteq Node
  BY DEF Inv, TypeOK, CountedBy, Shape, Allocated
<1>1. /\ UnlinkLen(t) => pc[t] = "unlinkLen"
      /\ Count(t) => pc[t] \in BuildLabel /\ pc'[t] = "link"
  BY DEF UnlinkLen, Count, BuildLabel, Goto, LocalTypeOK
<1>2. UnlinkLen(t) => har[target[t]].removed
  BY <1>1 DEF OwnerAt, OwnerLabel
<1>3. \A n \in Node : har[n].removed => har'[n].removed
  BY WordKept
<1>4. \A u \in Thread :
         /\ pc[u] \in BuildLabel => New(u) \notin C
         /\ Linking(u) /\ ~har[New(u)].removed => New(u) \in C
         /\ pc[u] \in OwnerLabel => target[u] \in C
  BY DEF CountedBy
<1>5. Live' \subseteq D
  <2>1. ASSUME NEW x \in Node, PutsEntry(t, x)
        PROVE  x \in C /\ ~UnlinkLen(t)
    <3>1. Linking(t) /\ ~har[x].removed /\ x = New(t) /\ pc[t] = "linkIn"
      BY <2>1 DEF PutsEntry, Spent, LinkIn, Linking, LinkLabel
    <3> QED BY <1>1, <1>4, <3>1
  <2>2. \A x \in Live' : x \in Live \/ (x \in C /\ ~UnlinkLen(t))
    BY <2>1, LiveStep DEF PutsEntry, TakesEntry
  <2>3. \A x \in Live : x \in C /\ ~(UnlinkLen(t) /\ x = target[t])
    BY <1>2 DEF Live
  <2> QED BY <2>2, <2>3
<1>6. ASSUME NEW u \in Thread, u # t
      PROVE  /\ pc'[u] \in BuildLabel => New(u)' \notin D
             /\ Linking(u)' /\ ~har'[New(u)'].removed => New(u)' \in D
             /\ pc'[u] \in OwnerLabel => target'[u] \in D
  <2>1. /\ pc'[u] = pc[u] /\ ret'[u] = ret[u] /\ target'[u] = target[u] /\ New(u)' = New(u)
        /\ New(u) # New(t)
    BY <1>6, OthersKept, NewDiffers
  <2>2. Linking(u)' => Linking(u)
    BY <2>1 DEF Linking
  <2>3. pc[u] \in BuildLabel => New(u) \notin D
    BY <1>4, <2>1
  <2>4. Linking(u) /\ ~har'[New(u)].removed => New(u) \in D
    <3>1. Linking(u) => New(u) \in Node
      BY DEF Inv, Control, ControlAt, Allocated
    <3>2. SUFFICES ASSUME Linking(u), ~har'[New(u)].removed PROVE New(u) \in D
      OBVIOUS
    <3>3. ~har[New(u)].removed
      BY <1>3, <3>1, <3>2
    <3> QED BY <1>2, <1>4, <3>2, <3>3
  <2>5. pc[u] \in OwnerLabel => target[u] \in D
    <3>1. UnlinkLen(t) /\ pc[u] \in OwnerLabel => target[u] # target[t]
      BY <1>1, <1>6 DEF OwnerAt, OwnerLabel
    <3> QED BY <1>4, <3>1
  <2> QED BY <2>1, <2>2, <2>3, <2>4, <2>5
<1>7. /\ pc'[t] \in BuildLabel => New(t)' \notin D
      /\ Linking(t)' /\ ~har'[New(t)'].removed => New(t)' \in D
      /\ pc'[t] \in OwnerLabel => target'[t] \in D
  <2>1. ASSUME pc'[t] \in BuildLabel
        PROVE  New(t)' \notin D
    <3>1. NewNode(t) \/ (pc[t] \in BuildLabel /\ ~Count(t))
      BY <1>1, <2>1, LinkingBefore DEF BuildLabel
    <3>2. New(t)' = New(t)
      BY <3>1, CallsKept DEF New, Begin, NewNode, BuildLabel
    <3>3. New(t) \notin C
      <4>1. CASE NewNode(t)
        <5>1. New(t) \notin Allocated
          BY <4>1 DEF NewNode, Inv, Fresh, Control, ControlAt, SearchLabel
        <5> QED BY <5>1
      <4> QED BY <1>4, <3>1, <4>1
    <3>4. ~Count(t)
      BY <3>1 DEF NewNode, Count
    <3> QED BY <3>2, <3>3, <3>4
  <2>2. ASSUME Linking(t)', ~har'[New(t)'].removed
        PROVE  New(t)' \in D
    <3>1. Count(t) \/ Linking(t)
      BY <2>2, LinkingBefore DEF LinkIn, Linking, LinkLabel
    <3>2. New(t)' = New(t)
      BY <3>1, CallsKept DEF New, Begin, Count, Linking, LinkLabel, SearchLabel,
         FindLabel, RemoveLabel
    <3>3. CASE Linking(t)
      <4>1. New(t) \in Node
        BY <3>3 DEF Inv, Control, ControlAt, Allocated
      <4>2. ~har[New(t)].removed
        BY <1>3, <2>2, <3>2, <4>1
      <4> QED BY <1>2, <1>4, <3>2, <3>3, <4>2
    <3> QED BY <3>1, <3>2, <3>3
  <2>3. ASSUME pc'[t] \in OwnerLabel
        PROVE  target'[t] \in D
    <3>1. /\ target'[t] = target[t]
          /\ pc[t] \in OwnerLabel \/ (CasHar(t) /\ CanSetRemoved(target[t], seen[t]))
      BY <2>3, OwnerBefore
    <3>2. CASE pc[t] \in OwnerLabel
      <4>1. ~UnlinkLen(t)
        BY <2>3 DEF UnlinkLen, OwnerLabel, Goto, LocalTypeOK
      <4> QED BY <1>4, <3>1, <3>2, <4>1
    <3>3. CASE CasHar(t) /\ CanSetRemoved(target[t], seen[t])
      <4>1. target[t] \in Node /\ 0 \in Level
        BY <3>3, Locals, ConstantFacts DEF CasHar, RemoveLabel, Level
      <4>2. ~har[target[t]].removed
        BY <3>3 DEF CanSetRemoved
      <4>3. 0 \in linked[target[t]]
        BY <3>3, <4>1, <4>2, RemovesReached DEF Reached, Inv, TaggedAreRemoved
      <4>4. target[t] \in Live /\ ~UnlinkLen(t)
        BY <3>3, <4>1, <4>2, <4>3 DEF Live, CasHar, UnlinkLen
      <4> QED BY <3>1, <4>4
    <3> QED BY <3>1, <3>2, <3>3
  <2> QED BY <2>1, <2>2, <2>3
<1>8. \A u \in Thread :
         /\ pc'[u] \in BuildLabel => New(u)' \notin D
         /\ Linking(u)' /\ ~har'[New(u)'].removed => New(u)' \in D
         /\ pc'[u] \in OwnerLabel => target'[u] \in D
  BY <1>6, <1>7
<1> QED BY <1>5, <1>8 DEF CountedBy

(* No entry is counted in the empty list.                                  *)
LEMMA LengthInit == Init => Length
<1> SUFFICES ASSUME Init PROVE Length
  OBVIOUS
<1> USE DEF Init, MemoryInit, LocalInit
<1>1. Live = {}
  BY DEF Live
<1>2. \A t \in Thread : pc[t] = "idle" /\ ~Linking(t)
  BY DEF Linking, LinkLabel, SearchLabel, FindLabel, RemoveLabel
<1>3. IsFiniteSet({}) /\ Cardinality({}) = 0
  BY FS_EmptySet
<1>4. CountedBy({})
  BY <1>1, <1>2, <1>3 DEF CountedBy, BuildLabel, OwnerLabel
<1> QED BY <1>4 DEF Length

(* Every step keeps the length the number of a set of entries that covers  *)
(* the list.                                                               *)
LEMMA LengthStep == Inv /\ Shape /\ Length /\ [Next]_vars => Length'
<1> SUFFICES ASSUME Inv, Shape, Length, [Next]_vars PROVE Length'
  OBVIOUS
<1>1. CASE UNCHANGED vars
  BY <1>1 DEF vars, memory, locals, request, walk, removal, Length, CountedBy, Live,
       Allocated, Linking, New
<1>2. ASSUME NEW t \in Thread, Begin(t) \/ Step(t)
      PROVE  Length'
  <2> LocalTypeOK /\ MemoryTypeOK
    BY DEF Inv, TypeOK
  <2>1. PICK C \in SUBSET Allocated : CountedBy(C)
    BY DEF Length
  <2>2. IsFiniteSet(C) /\ len = Cardinality(C) /\ Cardinality(C) \in Nat
    BY <2>1, FS_CardinalityType DEF CountedBy
  <2>3. Allocated \subseteq Allocated'
    BY <1>2, AllocatedGrows
  <2>4. ASSUME NEW D, D \subseteq Allocated', CountedBy(D)'
        PROVE  Length'
    BY <2>4 DEF Length
  <2>5. C \subseteq Allocated /\ OwnerAt(t)
    BY DEF Shape
  <2>6. CASE Count(t)
    <3>1. PICK n \in Node : n = New(t)
      BY <2>6, Locals DEF Count
    <3>2. n \notin C /\ n \in Allocated
      BY <2>1, <2>6, <3>1 DEF Count, BuildLabel, CountedBy, Inv, Control, ControlAt
    <3>3. IsFiniteSet(C \cup {n}) /\ Cardinality(C \cup {n}) = Cardinality(C) + 1
      BY <2>2, <3>2, FS_AddElement
    <3>4. len' = len + 1 /\ ~UnlinkLen(t)
      BY <2>6 DEF Count, UnlinkLen
    <3>5. PICK D : D = C \cup {n}
      OBVIOUS
    <3>6. D \subseteq Allocated' /\ IsFiniteSet(D) /\ len' = Cardinality(D)
      BY <2>2, <2>3, <2>5, <3>2, <3>3, <3>4, <3>5
    <3>7. /\ \A x \in C : x \in D
          /\ \A x \in D : x \in C \/ (Count(t) /\ x = New(t))
          /\ New(t) \in D
      BY <2>6, <3>1, <3>5
    <3>8. CountedBy(D)'
      BY <1>2, <2>1, <3>6, <3>7, CountedKept
    <3> QED BY <2>4, <3>6, <3>8
  <2>7. CASE UnlinkLen(t)
    <3>1. PICK n : n = target[t]
      OBVIOUS
    <3>2. n \in C
      BY <2>1, <2>7, <3>1 DEF UnlinkLen, OwnerLabel, CountedBy
    <3>3. IsFiniteSet(C \ {n}) /\ Cardinality(C \ {n}) = Cardinality(C) - 1
      BY <2>2, <3>2, FS_RemoveElement
    <3>4. len' = len - 1 /\ ~Count(t)
      BY <2>7 DEF Count, UnlinkLen
    <3>5. CountedBy(C \ {n})'
      BY <1>2, <2>1, <2>2, <2>3, <2>5, <2>7, <3>1, <3>2, <3>3, <3>4, CountedKept
    <3> QED BY <2>3, <2>4, <2>5, <3>5
  <2>8. CASE ~Count(t) /\ ~UnlinkLen(t)
    <3>1. UNCHANGED len
      BY <1>2, <2>8 DEF Step, FindStep, RemoveStep, InsertStep, Begin, Leave, FindInit, InitLevel,
           StartSearch, LowerLevel, ReadNext, CheckTag, HelpUnlink, HelpSubRef, FinalRead, FinalCheck,
           LoadHar, CasHar, TagLevel, Unlink, UnlinkSubRef, NewNode, CompareMax, StoreMax, LinkCheck,
           LinkRecheck, LinkOwn, LinkAddRef, LinkIn, LinkUndo, LinkEnd, memory
    <3>2. CountedBy(C)'
      BY <1>2, <2>1, <2>2, <2>3, <2>5, <2>8, <3>1, CountedKept
    <3> QED BY <2>3, <2>4, <2>5, <3>2
  <2> QED BY <2>6, <2>7, <2>8
<1> QED BY <1>1, <1>2 DEF Next, Terminating

(* len is the number of entries of some set that covers the list.          *)
THEOREM LengthHolds == Spec => []Length
BY Invariance, ShapeInvariance, LengthInit, LengthStep, PTL DEF Spec

(* LenCoversEntries: the length never falls below the number of entries,   *)
(* so that a get that reads 0 and answers None at once is right to do so.  *)
THEOREM LengthCoversEntries == Spec => []LenCoversEntries
<1>1. Length => LenCoversEntries
  <2> SUFFICES ASSUME NEW C \in SUBSET Allocated, CountedBy(C) PROVE LenCoversEntries
    BY DEF Length
  <2>1. IsFiniteSet(C) /\ len = Cardinality(C) /\ Live \subseteq C
    BY DEF CountedBy
  <2>2. Cardinality(Live) <= Cardinality(C) /\ Cardinality(C) \in Nat
        /\ Cardinality(Live) \in Nat
    BY <2>1, FS_Subset, FS_CardinalityType
  <2> QED BY <2>1, <2>2 DEF LenCoversEntries
<1> QED BY <1>1, LengthHolds, PTL

=============================================================================
