------------------------- MODULE SyncSkipListRefsProofs -------------------------
(***************************************************************************)
(* Reference counts: the count of a node is the number of its levels in    *)
(* the list plus the references threads hold, so no thread drops one that  *)
(* is not there, and a node is retired once, when it is out of the list.   *)
(***************************************************************************)
EXTENDS SyncSkipListShapeProofs, SyncSkipListWords, FiniteSetTheorems

(* A set that changes in one element at most.                              *)
LEMMA OneElement ==
    ASSUME NEW A, NEW B, NEW x, IsFiniteSet(A), \A y : y # x => (y \in A <=> y \in B)
    PROVE  /\ IsFiniteSet(B) /\ Cardinality(A) \in Nat /\ Cardinality(B) \in Nat
           /\ (x \in A <=> x \in B) => Cardinality(B) = Cardinality(A)
           /\ x \notin A /\ x \in B => Cardinality(B) = Cardinality(A) + 1
           /\ x \in A /\ x \notin B => Cardinality(B) = Cardinality(A) - 1
<1>1. CASE x \in A <=> x \in B
  <2>1. A = B
    BY <1>1
  <2> QED BY <1>1, <2>1, FS_CardinalityType
<1>2. CASE x \notin A /\ x \in B
  <2>1. B = A \cup {x}
    BY <1>2
  <2> QED BY <1>2, <2>1, FS_AddElement, FS_CardinalityType
<1>3. CASE x \in A /\ x \notin B
  <2>1. B = A \ {x}
    BY <1>3
  <2> QED BY <1>3, <2>1, FS_RemoveElement, FS_CardinalityType
<1> QED BY <1>1, <1>2, <1>3

(* The levels of a tower are finitely many.                                *)
LEMMA LinkedFinite ==
    ASSUME MemoryTypeOK, NEW n \in Node
    PROVE  IsFiniteSet(linked[n])
<1>1. IsFiniteSet(Level)
  BY FS_Interval, ConstantFacts DEF Level
<1> QED BY <1>1, FS_Subset DEF MemoryTypeOK

(* Whether thread t holds a reference of node n, in either way.            *)
Adds(t, n) == pc[t] \in {"linkIn", "undo"} /\ New(t) = n
Drops(t, n) == \/ pc[t] \in {"helpSub", "curSub"} /\ nxt[t] = n
               \/ pc[t] = "unlinkSub" /\ target[t] = n

(* Only the thread that steps takes or drops a reference.                  *)
LEMMA HoldersStep ==
    ASSUME Inv, NEW t \in Thread, Begin(t) \/ Step(t), NEW n \in Node
    PROVE  /\ \A u : u # t => (u \in Adding(n)' <=> u \in Adding(n))
           /\ \A u : u # t => (u \in Dropping(n)' <=> u \in Dropping(n))
           /\ t \in Adding(n) <=> Adds(t, n)
           /\ t \in Dropping(n) <=> Drops(t, n)
           /\ t \in Adding(n)' <=> Adds(t, n)'
           /\ t \in Dropping(n)' <=> Drops(t, n)'
<1> LocalTypeOK
  BY DEF Inv, TypeOK
<1> QED BY OthersKept DEF Adding, Dropping, Adds, Drops

(* What a step does to the references of a node.                           *)
SameRefs(t, n) ==
    /\ har'[n].refs = har[n].refs /\ retired'[n] = retired[n] /\ linked'[n] = linked[n]
    /\ (Adds(t, n)' <=> Adds(t, n)) /\ ~Drops(t, n) /\ ~Drops(t, n)'

FirstRefs(t, n) ==
    /\ n \notin Allocated /\ har'[n].refs = 0 /\ retired'[n] = retired[n]
    /\ linked'[n] = linked[n] /\ ~Adds(t, n)' /\ ~Drops(t, n)'

TakesRef(t, n) ==
    /\ n = New(t) /\ Linking(t) /\ (up[t] = 0 \/ har[n].refs > 0)
    /\ har'[n].refs = har[n].refs + 1 /\ retired'[n] = retired[n] /\ linked'[n] = linked[n]
    /\ ~Adds(t, n) /\ Adds(t, n)' /\ ~Drops(t, n) /\ ~Drops(t, n)'

LinksLevel(t, n) ==
    /\ har'[n].refs = har[n].refs /\ retired'[n] = retired[n]
    /\ up[t] \in Level \ linked[n] /\ linked'[n] = linked[n] \cup {up[t]}
    /\ LinkIn(t) /\ n = New(t)
    /\ Adds(t, n) /\ ~Adds(t, n)' /\ ~Drops(t, n) /\ ~Drops(t, n)'

UnlinksLevel(t, n) ==
    /\ har'[n].refs = har[n].refs /\ retired'[n] = retired[n]
    /\ DroppedLevel(t)' \in linked[n] /\ linked'[n] = linked[n] \ {DroppedLevel(t)'}
    /\ ~LinkIn(t) /\ ~Count(t)
    /\ ~Adds(t, n) /\ ~Adds(t, n)' /\ ~Drops(t, n) /\ Drops(t, n)'

GivesRefBack(t, n) ==
    /\ har'[n].refs = har[n].refs - 1 /\ retired'[n] = retired[n] /\ linked'[n] = linked[n]
    /\ Adds(t, n) /\ ~Adds(t, n)' /\ ~Drops(t, n) /\ ~Drops(t, n)'

DropsRef(t, n) ==
    /\ har'[n].refs = IF har[n].refs = 0 THEN 0 ELSE har[n].refs - 1
    /\ retired'[n] = IF har[n].refs = 1 THEN retired[n] + 1 ELSE retired[n]
    /\ linked'[n] = linked[n]
    /\ ~Adds(t, n) /\ ~Adds(t, n)' /\ Drops(t, n) /\ ~Drops(t, n)'

(* Each step moves the references of a node in one of these ways.          *)
LEMMA RefsMove ==
    ASSUME Inv, Shape, NEW t \in Thread, Begin(t) \/ Step(t), NEW n \in Node
    PROVE  \/ SameRefs(t, n)   \/ FirstRefs(t, n)    \/ TakesRef(t, n)
           \/ LinksLevel(t, n) \/ UnlinksLevel(t, n) \/ GivesRefBack(t, n)
           \/ DropsRef(t, n)
<1> LocalTypeOK /\ MemoryTypeOK /\ HeldAt(t) /\ LinkingAt(t) /\ SuccessorsLinked
  BY DEF Inv, TypeOK, Shape
<1> USE DEF LocalTypeOK, Goto, locals, request, walk, removal, Adds, Drops
<1>1. har[n] \in Word /\ retired[n] \in Nat /\ linked[n] \subseteq Level
  BY DEF MemoryTypeOK
<1>2. ASSUME NEW p \in Tower, NEW o \in Node, NEW l \in Level,
             ReachedTo(p, l), CanExchange(p, l, o)
      PROVE  l \in linked[o]
  BY <1>2, ExchangedInList, ConstantFacts DEF SuccessorsLinked
<1>3. CASE NewNode(t)
  <2>1. New(t)' = New(t) /\ New(t) \in Node /\ pc'[t] \in BuildLabel /\ New(t) \notin Allocated
    BY <1>3, Locals DEF NewNode, New, BuildLabel, Inv, Fresh, Control, ControlAt, SearchLabel
  <2>2. har'[n] = IF n = New(t) THEN har'[New(t)] ELSE har[n]
    BY <1>3, <2>1 DEF NewNode, MemoryTypeOK
  <2>3. har'[New(t)].refs = 0
    BY <1>3, <2>1 DEF NewNode, MemoryTypeOK
  <2>4. ~Adds(t, n) /\ ~Adds(t, n)' /\ ~Drops(t, n) /\ ~Drops(t, n)'
    BY <1>3, <2>1 DEF NewNode, BuildLabel
  <2>5. retired'[n] = retired[n] /\ linked'[n] = linked[n]
    BY <1>3 DEF NewNode
  <2>6. CASE n = New(t)
    BY <2>1, <2>3, <2>4, <2>5, <2>6 DEF FirstRefs
  <2>7. CASE n # New(t)
    BY <2>2, <2>4, <2>5, <2>7 DEF SameRefs
  <2> QED BY <2>6, <2>7
<1>4. CASE LinkAddRef(t)
  <2>1. New(t)' = New(t) /\ New(t) \in Node /\ Linking(t)
    BY <1>4, Locals DEF LinkAddRef, New, Linking, LinkLabel
  <2>2. UNCHANGED <<retired, linked>> /\ ~Adds(t, n) /\ ~Drops(t, n) /\ ~Drops(t, n)'
    BY <1>4 DEF LinkAddRef
  <2>3. CASE (up[t] = 0 \/ har[New(t)].refs > 0) /\ AddRef(New(t)) /\ Goto(t, "linkIn")
    <3>1. har'[n].refs = IF n = New(t) THEN har[n].refs + 1 ELSE har[n].refs
      BY <2>1, <2>3 DEF AddRef, MemoryTypeOK, Word
    <3>2. Adds(t, n)' <=> n = New(t)
      BY <2>1, <2>3
    <3> QED BY <2>1, <2>2, <2>3, <3>1, <3>2 DEF SameRefs, TakesRef
  <2>4. CASE UNCHANGED har /\ Goto(t, "linkEnd")
    BY <2>2, <2>4 DEF SameRefs
  <2> QED BY <1>4, <2>3, <2>4 DEF LinkAddRef
<1>5. CASE LinkIn(t)
  <2>1. New(t)' = New(t) /\ New(t) \in Node /\ up[t] \in Level /\ up[t] \notin linked[New(t)]
    <3>1. Linking(t) /\ New(t) \in Node /\ up[t] \in Level /\ ~(up[t] < up[t])
      BY <1>5, Locals, ConstantFacts DEF LinkIn, Linking, LinkLabel, Level
    <3> QED BY <1>5, <3>1 DEF LinkIn, New, LinkingAt
  <2>2. UNCHANGED <<har, retired>> /\ (Adds(t, n) <=> n = New(t))
        /\ ~Drops(t, n) /\ ~Drops(t, n)'
    BY <1>5 DEF LinkIn
  <2>3. CASE linked' = [linked EXCEPT ![New(t)] = @ \cup {up[t]}] /\ Goto(t, "link")
    <3>1. linked'[n] = IF n = New(t) THEN linked[n] \cup {up[t]} ELSE linked[n]
      BY <2>1, <2>3 DEF MemoryTypeOK
    <3>2. ~Adds(t, n)'
      BY <2>3
    <3> QED BY <1>5, <2>1, <2>2, <3>1, <3>2 DEF SameRefs, LinksLevel
  <2>4. CASE UNCHANGED linked /\ Goto(t, "undo")
    BY <2>1, <2>2, <2>4 DEF SameRefs
  <2> QED BY <1>5, <2>3, <2>4 DEF LinkIn
<1>6. CASE LinkUndo(t)
  <2>1. New(t)' = New(t) /\ New(t) \in Node /\ SubRef(New(t)) /\ pc'[t] = "find" /\ pc[t] = "undo"
        /\ UNCHANGED <<retired, linked>>
    BY <1>6, Locals DEF LinkUndo, Relink, New
  <2>2. har'[n].refs = IF n = New(t) THEN har[n].refs - 1 ELSE har[n].refs
    BY <2>1 DEF SubRef, MemoryTypeOK, Word
  <2> QED BY <2>1, <2>2 DEF SameRefs, GivesRefBack
<1>7. CASE HelpUnlink(t)
  <2>1. nxt[t] \in Node /\ curr[t] \in Tower /\ level[t] - 1 \in Level
        /\ ReachedTo(curr[t], level[t] - 1)
    BY <1>7, Locals DEF HelpUnlink, HeldAt
  <2>2. UNCHANGED <<har, retired>> /\ ~Adds(t, n) /\ ~Adds(t, n)' /\ ~Drops(t, n)
    BY <1>7 DEF HelpUnlink
  <2>3. CASE /\ CanExchange(curr[t], level[t] - 1, nxt[t])
             /\ linked' = [linked EXCEPT ![nxt[t]] = @ \ {level[t] - 1}]
             /\ Goto(t, "helpSub")
    <3>1. level[t] - 1 \in linked[nxt[t]]
      BY <1>2, <2>1, <2>3
    <3>2. linked'[n] = IF n = nxt[t] THEN linked[n] \ {level[t] - 1} ELSE linked[n]
      BY <2>1, <2>3 DEF MemoryTypeOK
    <3>3. Drops(t, n)' <=> n = nxt[t]
      BY <1>7, <2>3 DEF HelpUnlink
    <3>4. DroppedLevel(t)' = level[t] - 1
      BY <1>7, <2>3 DEF HelpUnlink, DroppedLevel
    <3> QED BY <1>7, <2>1, <2>2, <3>1, <3>2, <3>3, <3>4
            DEF SameRefs, UnlinksLevel, HelpUnlink, LinkIn, Count
  <2>4. CASE UNCHANGED linked /\ Goto(t, "search")
    BY <2>2, <2>4 DEF SameRefs
  <2> QED BY <1>7, <2>3, <2>4 DEF HelpUnlink
<1>8. CASE Unlink(t)
  <2>1. target[t] \in Node /\ down[t] \in Level /\ prev[t][down[t]].node \in Tower
        /\ ReachedTo(prev[t][down[t]].node, down[t])
    BY <1>8, Locals DEF Unlink, HeldAt, RemoveLabel
  <2>2. UNCHANGED <<har, retired>> /\ ~Adds(t, n) /\ ~Adds(t, n)' /\ ~Drops(t, n)
    BY <1>8 DEF Unlink
  <2>3. CASE /\ CanExchange(prev[t][down[t]].node, down[t], target[t])
             /\ linked' = [linked EXCEPT ![target[t]] = @ \ {down[t]}]
             /\ Goto(t, "unlinkSub")
    <3>1. down[t] \in linked[target[t]]
      BY <1>2, <2>1, <2>3
    <3>2. linked'[n] = IF n = target[t] THEN linked[n] \ {down[t]} ELSE linked[n]
      BY <2>1, <2>3 DEF MemoryTypeOK
    <3>3. Drops(t, n)' <=> n = target[t]
      BY <1>8, <2>3 DEF Unlink
    <3>4. DroppedLevel(t)' = down[t]
      BY <1>8, <2>3 DEF Unlink, DroppedLevel
    <3> QED BY <1>8, <2>1, <2>2, <3>1, <3>2, <3>3, <3>4
            DEF SameRefs, UnlinksLevel, Unlink, LinkIn, Count
  <2>4. CASE UNCHANGED linked /\ Goto(t, "find")
    BY <2>2, <2>4 DEF SameRefs
  <2> QED BY <1>8, <2>3, <2>4 DEF Unlink
<1>9. ASSUME NEW o \in Node, SubRefAndRetire(o), UNCHANGED linked, Drops(t, n) <=> n = o,
             ~Adds(t, n), ~Adds(t, n)', ~Drops(t, n)'
      PROVE  SameRefs(t, n) \/ DropsRef(t, n)
  <2>1. /\ har'[n].refs = IF n = o THEN IF har[n].refs = 0 THEN 0 ELSE har[n].refs - 1
                                   ELSE har[n].refs
        /\ retired'[n] = IF n = o /\ har[n].refs = 1 THEN retired[n] + 1 ELSE retired[n]
    BY <1>9 DEF SubRefAndRetire, MemoryTypeOK, Word
  <2> QED BY <1>9, <2>1 DEF SameRefs, DropsRef
<1>10. CASE HelpSubRef(t)
  <2>1. nxt[t] \in Node /\ SubRefAndRetire(nxt[t]) /\ UNCHANGED linked /\ pc[t] = "helpSub"
    BY <1>10, Locals DEF HelpSubRef
  <2>2. pc'[t] \in {"panic", "check", "next", "final"}
    BY <1>10 DEF HelpSubRef, Consider, Descend
  <2> QED BY <1>9, <2>1, <2>2
<1>11. CASE UnlinkSubRef(t)
  <2>1. target[t] \in Node /\ SubRefAndRetire(target[t]) /\ UNCHANGED linked
        /\ pc[t] = "unlinkSub"
    BY <1>11, Locals DEF UnlinkSubRef, RemoveLabel
  <2>2. pc'[t] \in {"panic", "unlinkLen", "unlink"}
    BY <1>11 DEF UnlinkSubRef
  <2> QED BY <1>9, <2>1, <2>2
<1>12. ASSUME UNCHANGED <<retired, linked>>, har'[n].refs = har[n].refs,
              pc[t] \notin {"linkIn", "undo", "helpSub", "curSub", "unlinkSub"},
              pc'[t] \notin {"linkIn", "undo", "helpSub", "curSub", "unlinkSub"}
       PROVE  SameRefs(t, n)
  BY <1>12 DEF SameRefs
<1>13. CASE CasHar(t)
  <2>1. target[t] \in Node
    BY <1>13, Locals DEF CasHar, RemoveLabel
  <2>2. har'[n].refs = har[n].refs
    <3>1. SetRemoved(target[t]) \/ UNCHANGED har
      BY <1>13 DEF CasHar
    <3>2. CASE SetRemoved(target[t])
      BY <2>1, <3>2 DEF SetRemoved, MemoryTypeOK, Word
    <3> QED BY <3>1, <3>2
  <2> QED BY <1>12, <1>13, <2>2 DEF CasHar, GiveUp
<1>14. CASE \/ Begin(t) \/ Leave(t) \/ FindInit(t) \/ InitLevel(t) \/ StartSearch(t)
            \/ LowerLevel(t) \/ ReadNext(t) \/ CheckTag(t)
  BY <1>12, <1>14 DEF Begin, Leave, FindInit, InitLevel, StartSearch, LowerLevel, ReadNext,
       CheckTag, Consider, Descend, Advance, memory
<1>15. CASE FinalRead(t) \/ FinalCheck(t)
  <2>1. \A r : Return(t, r) => pc'[t] \in {"load", "return", "new", "link"}
    BY DEF Return, Resume
  <2> QED BY <1>12, <1>15, <2>1 DEF FinalRead, FinalCheck, memory
<1>16. CASE LoadHar(t) \/ TagLevel(t) \/ UnlinkLen(t)
  BY <1>12, <1>16 DEF LoadHar, TagLevel, UnlinkLen, GiveUp, memory
<1>17. CASE CompareMax(t) \/ StoreMax(t) \/ Count(t) \/ LinkCheck(t) \/ LinkRecheck(t)
            \/ LinkOwn(t) \/ LinkEnd(t)
  BY <1>12, <1>17 DEF CompareMax, StoreMax, Count, LinkCheck, LinkRecheck, LinkOwn,
       LinkEnd, Relink, memory
<1> QED BY <1>3, <1>4, <1>5, <1>6, <1>7, <1>8, <1>10, <1>11, <1>13, <1>14, <1>15, <1>16,
           <1>17 DEF Step, FindStep, RemoveStep, InsertStep

(* What the counts say before a step, for the thread that steps.           *)
LEMMA CountsBefore ==
    ASSUME MemoryTypeOK, References, NEW n \in Node
    PROVE  /\ Cardinality(linked[n]) \in Nat /\ Cardinality(Adding(n)) \in Nat
           /\ Cardinality(Dropping(n)) \in Nat
           /\ har[n].refs = Cardinality(linked[n]) + Cardinality(Adding(n))
                              + Cardinality(Dropping(n))
           /\ (Adding(n) # {} => Cardinality(Adding(n)) > 0)
           /\ (Dropping(n) # {} => Cardinality(Dropping(n)) > 0)
           /\ (linked[n] # {} => Cardinality(linked[n]) > 0)
           /\ (retired[n] > 0 => retired[n] = 1 /\ linked[n] = {} /\ har[n].refs = 0)
<1>1. IsFiniteSet(linked[n]) /\ IsFiniteSet(Adding(n)) /\ IsFiniteSet(Dropping(n))
  BY LinkedFinite DEF References
<1>2. \A S : IsFiniteSet(S) => Cardinality(S) \in Nat /\ (S # {} => Cardinality(S) > 0)
  BY FS_CardinalityType, FS_EmptySet
<1> QED BY <1>1, <1>2 DEF References, RefsCountLinks, RetiredOnceAndOut

(* A thread that holds a reference finds the count above 0.                *)
LEMMA HolderCounts ==
    ASSUME Inv, References, NEW t \in Thread, NEW n \in Node, Adds(t, n) \/ Drops(t, n)
    PROVE  har[n].refs > 0
<1> MemoryTypeOK
  BY DEF Inv, TypeOK
<1>1. t \in Adding(n) \/ t \in Dropping(n)
  BY DEF Adding, Dropping, Adds, Drops
<1> QED BY <1>1, CountsBefore

(* The counts after a step that moves the references of an allocated node. *)
LEMMA CountsMoved ==
    ASSUME Inv, Shape, References, NEW t \in Thread, NEW n \in Node,
           \A u : u # t => (u \in Adding(n)' <=> u \in Adding(n)),
           \A u : u # t => (u \in Dropping(n)' <=> u \in Dropping(n)),
           \/ SameRefs(t, n)     \/ TakesRef(t, n)     \/ LinksLevel(t, n)
           \/ UnlinksLevel(t, n) \/ GivesRefBack(t, n) \/ DropsRef(t, n)
    PROVE  /\ IsFiniteSet(Adding(n)') /\ IsFiniteSet(Dropping(n)')
           /\ har'[n].refs = Cardinality(linked'[n]) + Cardinality(Adding(n)')
                               + Cardinality(Dropping(n)')
           /\ retired'[n] > 0 => retired'[n] = 1 /\ linked'[n] = {} /\ har'[n].refs = 0
<1> MemoryTypeOK /\ LocalTypeOK
  BY DEF Inv, TypeOK
<1> DEFINE A == Adding(n)
           D == Dropping(n)
           L == linked[n]
<1>1. PICK a, d, l : a = Adding(n)' /\ d = Dropping(n)' /\ l = linked'[n]
  OBVIOUS
<1>2. /\ IsFiniteSet(A) /\ IsFiniteSet(D) /\ IsFiniteSet(L)
      /\ Cardinality(L) \in Nat /\ Cardinality(A) \in Nat /\ Cardinality(D) \in Nat
      /\ har[n].refs = Cardinality(L) + Cardinality(A) + Cardinality(D)
      /\ retired[n] \in Nat
      /\ retired[n] > 0 => retired[n] = 1 /\ L = {} /\ har[n].refs = 0
  BY CountsBefore, LinkedFinite DEF References, MemoryTypeOK
<1>3. /\ \A u : u # t => (u \in a <=> u \in A)
      /\ \A u : u # t => (u \in d <=> u \in D)
      /\ (t \in A <=> Adds(t, n)) /\ (t \in D <=> Drops(t, n))
      /\ (t \in a <=> Adds(t, n)') /\ (t \in d <=> Drops(t, n)')
  BY <1>1 DEF Adding, Dropping, Adds, Drops
<1>4. /\ IsFiniteSet(a) /\ Cardinality(a) \in Nat
      /\ (t \in A <=> t \in a) => Cardinality(a) = Cardinality(A)
      /\ t \notin A /\ t \in a => Cardinality(a) = Cardinality(A) + 1
      /\ t \in A /\ t \notin a => Cardinality(a) = Cardinality(A) - 1
  BY <1>2, <1>3, OneElement
<1>5. /\ IsFiniteSet(d) /\ Cardinality(d) \in Nat
      /\ (t \in D <=> t \in d) => Cardinality(d) = Cardinality(D)
      /\ t \notin D /\ t \in d => Cardinality(d) = Cardinality(D) + 1
      /\ t \in D /\ t \notin d => Cardinality(d) = Cardinality(D) - 1
  BY <1>2, <1>3, OneElement
<1>6. (Adds(t, n) \/ Drops(t, n)) => har[n].refs > 0
  BY HolderCounts
<1> SUFFICES /\ har'[n].refs = Cardinality(l) + Cardinality(a) + Cardinality(d)
             /\ retired'[n] > 0 => retired'[n] = 1 /\ l = {} /\ har'[n].refs = 0
  BY <1>1, <1>4, <1>5
<1>7. CASE SameRefs(t, n)
  <2>1. Cardinality(a) = Cardinality(A) /\ Cardinality(d) = Cardinality(D) /\ l = L
    BY <1>1, <1>3, <1>4, <1>5, <1>7 DEF SameRefs
  <2> QED BY <1>2, <1>7, <2>1 DEF SameRefs
<1>8. CASE TakesRef(t, n)
  <2>1. Cardinality(a) = Cardinality(A) + 1 /\ Cardinality(d) = Cardinality(D) /\ l = L
    BY <1>1, <1>3, <1>4, <1>5, <1>8 DEF TakesRef
  <2>2. retired[n] = 0
    <3>1. CASE up[t] = 0
      <4>1. ~Reached(n, 0)
        BY <1>8, <3>1, UnlinkedNew DEF TakesRef
      <4> QED BY <4>1 DEF Shape, BaseFirst
    <3>2. CASE har[n].refs > 0
      BY <1>2, <3>2
    <3> QED BY <1>8, <3>1, <3>2 DEF TakesRef
  <2> QED BY <1>2, <1>8, <2>1, <2>2 DEF TakesRef
<1>9. CASE LinksLevel(t, n)
  <2>1. Cardinality(a) = Cardinality(A) - 1 /\ Cardinality(d) = Cardinality(D)
    BY <1>1, <1>3, <1>4, <1>5, <1>9 DEF LinksLevel
  <2>2. Cardinality(l) = Cardinality(L) + 1
    <3>1. \E x : x \notin L /\ l = L \cup {x}
      BY <1>1, <1>9 DEF LinksLevel
    <3> QED BY <1>2, <3>1, FS_AddElement
  <2>3. retired[n] = 0
    BY <1>2, <1>6, <1>9 DEF LinksLevel
  <2> QED BY <1>2, <1>9, <2>1, <2>2, <2>3 DEF LinksLevel
<1>10. CASE UnlinksLevel(t, n)
  <2>1. Cardinality(a) = Cardinality(A) /\ Cardinality(d) = Cardinality(D) + 1
    BY <1>1, <1>3, <1>4, <1>5, <1>10 DEF UnlinksLevel
  <2>2. Cardinality(l) = Cardinality(L) - 1
    BY <1>1, <1>2, <1>10, FS_RemoveElement DEF UnlinksLevel
  <2>3. retired[n] = 0
    BY <1>2, <1>10 DEF UnlinksLevel
  <2> QED BY <1>2, <1>10, <2>1, <2>2, <2>3 DEF UnlinksLevel
<1>11. CASE GivesRefBack(t, n)
  <2>1. Cardinality(a) = Cardinality(A) - 1 /\ Cardinality(d) = Cardinality(D) /\ l = L
    BY <1>1, <1>3, <1>4, <1>5, <1>11 DEF GivesRefBack
  <2>2. retired[n] = 0
    BY <1>2, <1>6, <1>11 DEF GivesRefBack
  <2> QED BY <1>2, <1>11, <2>1, <2>2 DEF GivesRefBack
<1>12. CASE DropsRef(t, n)
  <2>1. Cardinality(a) = Cardinality(A) /\ Cardinality(d) = Cardinality(D) - 1 /\ l = L
    BY <1>1, <1>3, <1>4, <1>5, <1>12 DEF DropsRef
  <2>2. har[n].refs > 0 /\ retired[n] = 0
    BY <1>2, <1>6, <1>12 DEF DropsRef
  <2>3. har'[n].refs = har[n].refs - 1
    BY <1>12, <2>2 DEF DropsRef
  <2>4. har[n].refs = 1 => L = {}
    <3>1. Cardinality(D) > 0
      BY <1>2, <1>3, <1>12, FS_EmptySet DEF DropsRef
    <3>2. har[n].refs = 1 => Cardinality(L) = 0
      BY <1>2, <3>1
    <3> QED BY <1>2, <3>2, FS_EmptySet
  <2> QED BY <1>2, <1>12, <2>1, <2>2, <2>3, <2>4 DEF DropsRef
<1> QED BY <1>7, <1>8, <1>9, <1>10, <1>11, <1>12

(* The counts after a step.                                                *)
LEMMA CountsStep ==
    ASSUME Inv, Shape, References, NEW t \in Thread, Begin(t) \/ Step(t), NEW n \in Node
    PROVE  /\ IsFiniteSet(Adding(n)') /\ IsFiniteSet(Dropping(n)')
           /\ har'[n].refs = Cardinality(linked'[n]) + Cardinality(Adding(n)')
                               + Cardinality(Dropping(n)')
           /\ retired'[n] > 0 => retired'[n] = 1 /\ linked'[n] = {} /\ har'[n].refs = 0
<1> MemoryTypeOK /\ LocalTypeOK
  BY DEF Inv, TypeOK
<1>1. CASE FirstRefs(t, n)
  <2>1. linked'[n] = {}
    BY <1>1 DEF FirstRefs, Shape
  <2>2. \A u \in Thread : ~Adds(u, n)' /\ ~Drops(u, n)'
    <3>1. ASSUME NEW u \in Thread
          PROVE  ~Adds(u, n) /\ ~Drops(u, n)
      <4>1. ~Adds(u, n)
        BY <1>1 DEF FirstRefs, Adds, Inv, Control, ControlAt, Linking, LinkLabel
      <4>2. nxt[u] # n /\ target[u] # n
        BY <1>1, ConstantFacts DEF FirstRefs, Inv, PointersAllocated
      <4> QED BY <4>1, <4>2 DEF Drops
    <3>2. ASSUME NEW u \in Thread, u # t
          PROVE  ~Adds(u, n)' /\ ~Drops(u, n)'
      BY <3>1, <3>2, OthersKept DEF Adds, Drops
    <3> QED BY <1>1, <3>2 DEF FirstRefs
  <2>3. Adding(n)' = {} /\ Dropping(n)' = {}
    BY <2>2 DEF Adding, Dropping, Adds, Drops
  <2>4. \A S : S = {} => IsFiniteSet(S) /\ Cardinality(S) = 0
    BY FS_EmptySet
  <2>5. har'[n].refs = 0 /\ retired'[n] = retired[n] /\ retired[n] \in Nat
        /\ (retired[n] > 0 => retired[n] = 1)
    BY <1>1 DEF FirstRefs, References, RetiredOnceAndOut, MemoryTypeOK
  <2> QED BY <2>1, <2>3, <2>4, <2>5
<1>2. CASE ~FirstRefs(t, n)
  <2>1. /\ \A u : u # t => (u \in Adding(n)' <=> u \in Adding(n))
        /\ \A u : u # t => (u \in Dropping(n)' <=> u \in Dropping(n))
    BY HoldersStep
  <2> QED BY <1>2, <2>1, RefsMove, CountsMoved
<1> QED BY <1>1, <1>2

(* No step is a panic: the count is above 0 for whoever drops a reference, *)
(* and the owner of a removal meets no tag.                                *)
LEMMA NoPanicStep ==
    ASSUME Inv, Shape, References, NEW t \in Thread, Begin(t) \/ Step(t)
    PROVE  NoPanic'
<1> LocalTypeOK /\ MemoryTypeOK
  BY DEF Inv, TypeOK
<1> USE DEF LocalTypeOK, Goto
<1>1. SUFFICES pc'[t] # "panic"
  BY OthersKept DEF References, NoPanic
<1>2. CASE HelpSubRef(t)
  <2>1. ~WillUnderflow(nxt[t])
    <3>1. nxt[t] \in Node /\ Drops(t, nxt[t])
      BY <1>2, Locals DEF HelpSubRef, Drops
    <3> QED BY <3>1, HolderCounts DEF WillUnderflow
  <2> QED BY <1>2, <2>1 DEF HelpSubRef, Consider, Descend
<1>3. CASE UnlinkSubRef(t)
  <2>1. ~WillUnderflow(target[t])
    <3>1. target[t] \in Node /\ Drops(t, target[t])
      BY <1>3, Locals DEF UnlinkSubRef, Drops, RemoveLabel
    <3> QED BY <3>1, HolderCounts DEF WillUnderflow
  <2> QED BY <1>3, <2>1 DEF UnlinkSubRef
<1>4. CASE TagLevel(t)
  <2>1. down[t] \in Level /\ down[t] <= down[t]
    BY <1>4, Locals DEF TagLevel, Level
  <2>2. Tag(target[t], down[t]) = 0
    BY <1>4, <2>1 DEF TagLevel, Shape, OwnerAt
  <2> QED BY <1>4, <2>2 DEF TagLevel
<1>5. CASE FinalRead(t) \/ FinalCheck(t)
  <2>1. \A r : Return(t, r) => pc'[t] \in {"load", "return", "new", "link"}
    BY DEF Return, Resume
  <2> QED BY <1>5, <2>1 DEF FinalRead, FinalCheck
<1>6. CASE \/ Begin(t) \/ Leave(t) \/ FindInit(t) \/ InitLevel(t) \/ StartSearch(t)
           \/ LowerLevel(t) \/ ReadNext(t) \/ CheckTag(t) \/ HelpUnlink(t)
  BY <1>6 DEF Begin, Leave, FindInit, InitLevel, StartSearch, LowerLevel, ReadNext, CheckTag,
       HelpUnlink, Consider, Descend, Advance
<1>7. CASE LoadHar(t) \/ CasHar(t) \/ Unlink(t) \/ UnlinkLen(t)
  BY <1>7 DEF LoadHar, CasHar, Unlink, UnlinkLen, GiveUp
<1>8. CASE InsertStep(t)
  BY <1>8 DEF InsertStep, NewNode, CompareMax, StoreMax, Count, LinkCheck, LinkRecheck, LinkOwn,
       LinkAddRef, LinkIn, LinkUndo, LinkEnd, Relink
<1> QED BY <1>2, <1>3, <1>4, <1>5, <1>6, <1>7, <1>8 DEF Step, FindStep, RemoveStep

(* The first states: there is nothing to count.                            *)
LEMMA ReferencesInit == Init => References
<1> SUFFICES ASSUME Init PROVE References
  OBVIOUS
<1> USE DEF Init, MemoryInit, LocalInit
<1>1. NoPanic
  BY DEF NoPanic
<1>2. RetiredOnceAndOut
  BY DEF RetiredOnceAndOut
<1>3. \A n \in Node : Adding(n) = {} /\ Dropping(n) = {}
  BY DEF Adding, Dropping
<1>4. \A n \in Node : linked[n] = {} /\ har[n].refs = 0
  OBVIOUS
<1>5. IsFiniteSet({}) /\ Cardinality({}) = 0
  BY FS_EmptySet
<1>6. RefsCountLinks
  <2>1. ASSUME NEW n \in Node
        PROVE  har[n].refs = Cardinality(linked[n]) + Cardinality(Adding(n))
                               + Cardinality(Dropping(n))
    <3> HIDE DEF Init, MemoryInit, LocalInit
    <3> QED BY <1>3, <1>4, <1>5
  <2> QED BY <2>1 DEF RefsCountLinks
<1> QED BY <1>1, <1>2, <1>3, <1>5, <1>6 DEF References

(* Every step keeps the counts.                                            *)
LEMMA ReferencesStep == Inv /\ Shape /\ References /\ [Next]_vars => References'
<1> SUFFICES ASSUME Inv, Shape, References, [Next]_vars PROVE References'
  OBVIOUS
<1>1. CASE UNCHANGED vars
  <2>1. \A n \in Node : Adding(n)' = Adding(n) /\ Dropping(n)' = Dropping(n)
    BY <1>1 DEF vars, locals, request, walk, removal, Adding, Dropping, New
  <2>2. UNCHANGED <<har, linked, retired, pc>>
    BY <1>1 DEF vars, memory
  <2> QED BY <2>1, <2>2 DEF References, RefsCountLinks, RetiredOnceAndOut, NoPanic
<1>2. ASSUME NEW t \in Thread, Begin(t) \/ Step(t)
      PROVE  References'
  BY <1>2, CountsStep, NoPanicStep DEF References, RefsCountLinks, RetiredOnceAndOut
<1> QED BY <1>1, <1>2 DEF Next, Terminating

(* The three properties hold in every reachable state, however many        *)
(* threads count, link and unlink the levels of one node at the same time. *)
THEOREM ReferencesHold == Spec => []References
BY Invariance, ShapeInvariance, ReferencesInit, ReferencesStep, PTL DEF Spec

(* The reference count is the number of links and of threads between       *)
(* counting and linking.                                                   *)
THEOREM ReferencesAreCounted == Spec => []RefsCountLinks
<1>1. References => RefsCountLinks
  BY DEF References
<1> QED BY <1>1, ReferencesHold, PTL

(* A node is handed to the reclaimer once, out of the list at every level. *)
THEOREM RetiredOnce == Spec => []RetiredOnceAndOut
<1>1. References => RetiredOnceAndOut
  BY DEF References
<1> QED BY <1>1, ReferencesHold, PTL

(* Neither panic of the code is reachable: "SHOULD NOT BE TAGGED!" in      *)
(* remove, and the underflow of try_sub_ref.                               *)
THEOREM NeverPanics == Spec => []NoPanic
<1>1. References => NoPanic
  BY DEF References
<1> QED BY <1>1, ReferencesHold, PTL

(* A node that somebody is dropping a reference of has been in the list.   *)
LEMMA DroppedReached ==
    ASSUME Inv, Shape, NEW s \in Thread, NEW n \in Node, Drops(s, n)
    PROVE  Reached(n, 0)
<1> HeldAt(s) /\ 0 \in 0 .. 0
  BY DEF Shape
<1>1. CASE pc[s] = "helpSub" /\ nxt[s] = n
  <2>1. 0 \in 0 .. level[s] - 1
    BY <1>1, Locals DEF Level
  <2> QED BY <1>1, <2>1 DEF HeldAt, ReachedTo
<1>2. CASE pc[s] = "unlinkSub" /\ target[s] = n
  BY <1>2 DEF HeldAt, ReachedTo
<1>3. CASE pc[s] = "curSub" /\ nxt[s] = n
  BY <1>3 DEF HeldAt, ReachedTo, AheadLabel
<1> QED BY <1>1, <1>2, <1>3 DEF Drops

(* Every step keeps the levels apart: a thread that unlinks a level takes  *)
(* it from the linked ones, which lie below the builder's.                 *)
LEMMA LevelsApartStep ==
    ASSUME Inv, Shape, LevelsApart, NEW t \in Thread, Begin(t) \/ Step(t)
    PROVE  LevelsApart'
<1> MemoryTypeOK /\ LocalTypeOK
  BY DEF Inv, TypeOK
<1> SUFFICES ASSUME NEW n \in Node, NEW s \in Thread, s \in Dropping(n)'
             PROVE  /\ DroppedLevel(s)' \in Level \ linked'[n]
                    /\ \A u \in Thread : /\ u \in Dropping(n)'
                                         /\ DroppedLevel(u)' = DroppedLevel(s)'
                                         => u = s
                    /\ \A u \in Thread : Linking(u)' /\ New(u)' = n =>
                                             DroppedLevel(s)' < up'[u]
  BY DEF LevelsApart, Dropping
<1>1. PICK d : d = Dropping(n)'
  OBVIOUS
<1>2. /\ \A u \in Thread : u # t => (u \in d <=> u \in Dropping(n))
      /\ \A u \in Thread : u \in Dropping(n) => Drops(u, n)
      /\ t \in d => UnlinksLevel(t, n)
  <2>1. t \in d <=> Drops(t, n)'
    BY <1>1, HoldersStep
  <2>2. Drops(t, n)' => UnlinksLevel(t, n)
    BY RefsMove DEF SameRefs, FirstRefs, TakesRef, LinksLevel, GivesRefBack, DropsRef
  <2> QED BY <1>1, <2>1, <2>2, HoldersStep DEF Dropping, Drops
<1>3. \A u \in Thread : u # t =>
          /\ DroppedLevel(u)' = DroppedLevel(u) /\ up'[u] = up[u]
          /\ (Linking(u)' <=> Linking(u)) /\ New(u)' = New(u)
  BY OthersKept DEF DroppedLevel, Linking
<1>4. /\ linked[n] \subseteq Level
      /\ \/ linked'[n] \subseteq linked[n]
         \/ Linking(t) /\ n = New(t) /\ linked'[n] = linked[n] \cup {up[t]}
  BY LinkedGrows DEF MemoryTypeOK, LinkIn, Linking, LinkLabel
<1>5. \A u \in Dropping(n) :
          /\ DroppedLevel(u) \in Level \ linked[n]
          /\ \A o \in Dropping(n) : DroppedLevel(o) = DroppedLevel(u) => o = u
          /\ \A o \in Thread : Linking(o) /\ New(o) = n => DroppedLevel(u) < up[o]
  BY DEF LevelsApart
<1>6. ASSUME NEW u \in Thread, u \in d, u # t
      PROVE  /\ u \in Dropping(n)
             /\ DroppedLevel(u)' \in Level \ linked[n]
             /\ DroppedLevel(u)' \in Level \ linked'[n]
  <2>1. u \in Dropping(n) /\ DroppedLevel(u)' = DroppedLevel(u)
    BY <1>2, <1>3, <1>6
  <2>2. DroppedLevel(u) \in Level \ linked[n]
    BY <1>5, <2>1
  <2>3. Linking(t) /\ n = New(t) => DroppedLevel(u) # up[t]
    <3>1. DroppedLevel(u) \in Int
      BY <2>2 DEF Level
    <3> QED BY <1>5, <2>1, <3>1
  <2> QED BY <1>4, <2>1, <2>2, <2>3
<1>7. t \in d => /\ DroppedLevel(t)' \in linked[n]
                 /\ DroppedLevel(t)' \in Level \ linked'[n]
  BY <1>2, <1>4 DEF UnlinksLevel
<1>8. DroppedLevel(s)' \in Level \ linked'[n]
  BY <1>1, <1>6, <1>7
<1>9. ASSUME NEW u \in Thread, u \in d, DroppedLevel(u)' = DroppedLevel(s)'
      PROVE  u = s
  <2>1. s \in d
    BY <1>1
  <2>2. CASE u = t \/ s = t
    BY <1>6, <1>7, <1>9, <2>1, <2>2
  <2>3. CASE u # t /\ s # t
    BY <1>3, <1>5, <1>6, <1>9, <2>1, <2>3
  <2> QED BY <2>2, <2>3
<1>10. ASSUME NEW u \in Thread, Linking(u), New(u) = n
       PROVE  DroppedLevel(s)' < up[u]
  <2>1. CASE s = t
    <3>1. DroppedLevel(s)' \in Level /\ DroppedLevel(s)' \in linked[New(u)]
      BY <1>1, <1>7, <1>10, <2>1
    <3> QED BY <1>10, <3>1 DEF Shape, LinkingAt
  <2>2. CASE s # t
    BY <1>1, <1>2, <1>3, <1>5, <1>10, <2>2
  <2> QED BY <2>1, <2>2
<1>11. ASSUME NEW u \in Thread, Linking(u)', New(u)' = n
       PROVE  DroppedLevel(s)' < up'[u]
  <2>1. CASE u # t
    BY <1>3, <1>10, <1>11, <2>1
  <2>2. CASE u = t
    <3>1. \/ Count(t)
          \/ Linking(t) /\ (up'[t] = up[t] \/ up'[t] = up[t] + 1)
      BY <1>11, <2>2, LinkingBefore DEF LinkIn, Linking, LinkLabel
    <3>2. New(t) = n
      <4>1. ~Begin(t)
        BY <3>1 DEF Begin, Count, Linking, LinkLabel, SearchLabel, FindLabel, RemoveLabel
      <4> QED BY <1>11, <2>2, <4>1, CallsKept DEF New
    <3>3. CASE Count(t)
      <4>1. s # t /\ s \in Dropping(n)
        BY <1>1, <1>2, <3>3 DEF UnlinksLevel
      <4>2. Reached(n, 0)
        BY <1>2, <4>1, DroppedReached
      <4>3. ~Reached(n, 0)
        BY <3>2, <3>3, UnlinkedNew DEF Count, BuildLabel
      <4> QED BY <4>2, <4>3
    <3>4. CASE Linking(t) /\ (up'[t] = up[t] \/ up'[t] = up[t] + 1)
      <4>1. DroppedLevel(s)' < up[t]
        BY <1>10, <3>2, <3>4
      <4>2. DroppedLevel(s)' \in Int /\ up[t] \in Int
        BY <1>8 DEF Level, LocalTypeOK
      <4> QED BY <2>2, <3>4, <4>1, <4>2
    <3> QED BY <3>1, <3>3, <3>4
  <2> QED BY <2>1, <2>2
<1> QED BY <1>1, <1>8, <1>9, <1>11

(* The first states: nobody has dropped anything.                          *)
LEMMA LevelsApartInit == Init => LevelsApart
BY DEF Init, MemoryInit, LocalInit, LevelsApart, Dropping

(* No two threads ever hold references of one level of one node.           *)
THEOREM LevelsStayApart == Spec => []LevelsApart
<1>1. ASSUME LevelsApart, UNCHANGED vars
      PROVE  LevelsApart'
  BY <1>1 DEF vars, memory, locals, request, walk, removal, LevelsApart, Dropping,
       DroppedLevel, Linking, New
<1>2. Inv /\ Shape /\ LevelsApart /\ [Next]_vars => LevelsApart'
  BY <1>1, LevelsApartStep DEF Next, Terminating
<1> QED BY <1>2, Invariance, ShapeInvariance, LevelsApartInit, PTL DEF Spec

(* A set of threads that are told apart by a level each is no larger than  *)
(* the set of those levels.                                                *)
LEMMA ThreadsByLevel ==
    ASSUME NEW T, NEW f \in [T -> Level], \A t, u \in T : f[t] = f[u] => t = u
    PROVE  Cardinality(T) <= Cardinality({f[t] : t \in T})
<1> DEFINE R == {f[t] : t \in T}
<1>1. IsFiniteSet(Level)
  BY FS_Interval, ConstantFacts DEF Level
<1>2. R \in SUBSET Level
  OBVIOUS
<1>3. IsFiniteSet(R)
  <2> HIDE DEF R
  <2> QED BY <1>1, <1>2, FS_Subset
<1>4. f \in Injection(T, R)
  BY DEF Injection, IsInjective
<1> QED
  <2> HIDE DEF R
  <2>1. Cardinality(T) <= Cardinality(R)
    BY <1>3, <1>4, FS_Injection
  <2> QED BY <2>1 DEF R

(* The levels whose references are counted are different ones, so a count  *)
(* never exceeds the height of the list.                                   *)
LEMMA CountsFit ==
    ASSUME Inv, Shape, References, LevelsApart, NEW n \in Node
    PROVE  har[n].refs \in 0 .. HEIGHT
<1> MemoryTypeOK /\ LocalTypeOK
  BY DEF Inv, TypeOK
<1> DEFINE L == linked[n]
           D == {DroppedLevel(t) : t \in Dropping(n)}
           U == {up[t] : t \in Adding(n)}
<1>1. /\ L \in SUBSET Level /\ D \in SUBSET Level /\ L \cap D = {}
      /\ \A t, u \in Dropping(n) : DroppedLevel(t) = DroppedLevel(u) => t = u
  BY DEF LevelsApart, MemoryTypeOK
<1>2. ASSUME NEW t \in Adding(n)
      PROVE  /\ up[t] \in Level /\ up[t] \notin L /\ up[t] \notin D
             /\ \A u \in Adding(n) : u = t
  <2>1. t \in Thread /\ New(t) = n /\ Linking(t) /\ up[t] \in Level
    BY <1>2, Locals DEF Adding, Linking, LinkLabel
  <2>2. up[t] \notin L
    BY <2>1 DEF Shape, LinkingAt, Level
  <2>3. \A s \in Dropping(n) : DroppedLevel(s) < up[t]
    BY <2>1 DEF LevelsApart
  <2>4. \A s \in Dropping(n) : DroppedLevel(s) # up[t]
    BY <2>1, <2>3 DEF Level
  <2>5. \A u \in Adding(n) : u = t
    BY <2>1 DEF Adding, New
  <2> QED BY <2>1, <2>2, <2>4, <2>5
<1>3. IsFiniteSet(Level) /\ Cardinality(Level) = HEIGHT
  BY FS_Interval, ConstantFacts DEF Level
<1>4. IsFiniteSet(L) /\ IsFiniteSet(D) /\ IsFiniteSet(U) /\ U \subseteq Level
  BY <1>1, <1>2, <1>3, FS_Subset
<1>5. Cardinality(Dropping(n)) <= Cardinality(D)
  <2>1. PICK f : f = [t \in Dropping(n) |-> DroppedLevel(t)]
    OBVIOUS
  <2>2. f \in [Dropping(n) -> Level] /\ D = {f[t] : t \in Dropping(n)}
        /\ \A t, u \in Dropping(n) : f[t] = f[u] => t = u
    BY <1>1, <2>1
  <2> HIDE DEF D
  <2> QED BY <2>2, ThreadsByLevel
<1>6. Cardinality(Adding(n)) <= Cardinality(U)
  <2>1. PICK f : f = [t \in Adding(n) |-> up[t]]
    OBVIOUS
  <2>2. f \in [Adding(n) -> Level] /\ U = {f[t] : t \in Adding(n)}
        /\ \A t, u \in Adding(n) : f[t] = f[u] => t = u
    BY <1>2, <2>1
  <2> HIDE DEF U
  <2> QED BY <2>2, ThreadsByLevel
<1>7. Cardinality(L \cup D) = Cardinality(L) + Cardinality(D) /\ IsFiniteSet(L \cup D)
  <2>1. Cardinality(L \cup D) = Cardinality(L) + Cardinality(D) - Cardinality({})
    BY <1>1, <1>4, FS_Union
  <2>2. IsFiniteSet(L \cup D)
    BY <1>4, FS_Union
  <2>3. Cardinality({}) = 0
    BY FS_EmptySet
  <2>4. Cardinality(L) \in Nat /\ Cardinality(D) \in Nat
    BY <1>4, FS_CardinalityType
  <2> HIDE DEF L, D
  <2> QED BY <2>1, <2>2, <2>3, <2>4
<1>8. Cardinality((L \cup D) \cup U) = Cardinality(L \cup D) + Cardinality(U)
  <2>1. (L \cup D) \cap U = {}
    BY <1>2
  <2>2. Cardinality((L \cup D) \cup U)
           = Cardinality(L \cup D) + Cardinality(U) - Cardinality({})
    BY <1>4, <1>7, <2>1, FS_Union
  <2> QED BY <1>4, <1>7, <2>2, FS_EmptySet, FS_CardinalityType
<1>9. Cardinality((L \cup D) \cup U) <= HEIGHT
  BY <1>1, <1>3, <1>4, FS_Subset
<1>10. /\ Cardinality(L) \in Nat /\ Cardinality(D) \in Nat /\ Cardinality(U) \in Nat
       /\ Cardinality(Dropping(n)) \in Nat /\ Cardinality(Adding(n)) \in Nat
       /\ har[n].refs = Cardinality(L) + Cardinality(Adding(n)) + Cardinality(Dropping(n))
  BY <1>4, FS_CardinalityType, CountsBefore
<1> HIDE DEF L, D, U
<1> QED BY <1>5, <1>6, <1>7, <1>8, <1>9, <1>10, ConstantFacts

-----------------------------------------------------------------------------
(* The packed words *)

(* What the word of a node shows, and what counting makes of it.           *)
LEMMA PackedFields ==
    ASSUME NEW w \in Word, w.refs \in 0 .. HEIGHT
    PROVE  /\ Packed(w) \in 0 .. Words!WordLimit - 1
           /\ Packed(w) = 0 <=> w = [height |-> 0, refs |-> 0, removed |-> FALSE]
           /\ Words!removed(Packed(w)) <=> w.removed
<1>1. /\ HEIGHT \in Nat /\ HEIGHT < 64 /\ w.height \in 0 .. HEIGHT /\ w.removed \in BOOLEAN
      /\ w = [height |-> w.height, refs |-> w.refs, removed |-> w.removed]
  BY WordAssumption, ConstantFacts DEF Word
<1>2. CASE w.removed
  <2>1. Packed(w) = w.height + 64 * w.refs + 64 * (HEIGHT + 1)
    BY <1>2 DEF Packed
  <2>2. /\ Packed(w) \in 0 .. Words!WordLimit - 1 /\ Packed(w) # 0
        /\ Packed(w) >= Words!REMOVED_MASK
    BY <1>1, <2>1 DEF Words!WordLimit, Words!REMOVED_MASK, Words!OneRef
  <2> QED BY <1>2, <2>2 DEF Words!removed
<1>3. CASE ~w.removed
  <2>1. Packed(w) = w.height + 64 * w.refs
    BY <1>1, <1>3 DEF Packed
  <2>2. /\ Packed(w) \in 0 .. Words!WordLimit - 1
        /\ ~(Packed(w) >= Words!REMOVED_MASK)
    BY <1>1, <2>1 DEF Words!WordLimit, Words!REMOVED_MASK, Words!OneRef
  <2>3. Packed(w) = 0 <=> w.height = 0 /\ w.refs = 0
    BY <1>1, <2>1
  <2>4. w.removed = FALSE
    BY <1>1, <1>3
  <2> QED BY <1>1, <1>3, <2>2, <2>3, <2>4 DEF Words!removed
<1> QED BY <1>2, <1>3

(* A change of one node's word by an instruction of NodeMemory, all counts *)
(* being in range before and after, is one of the packed word.             *)
LEMMA WordStep ==
    ASSUME MemoryTypeOK, MemoryTypeOK', NEW n \in Node, NEW v \in Word,
           \A m \in Node : har[m].refs \in 0 .. HEIGHT /\ har'[m].refs \in 0 .. HEIGHT,
           har' = [har EXCEPT ![n] = v],
           \/ n \notin Allocated /\ ~har[n].removed /\ har[n].refs = 0
                 /\ v.height > 0 /\ v.refs = 0 /\ ~v.removed
           \/ n \in Allocated /\ v.height = har[n].height /\ v.removed = har[n].removed
                 /\ v.refs \in {har[n].refs + 1, har[n].refs - 1}
           \/ n \in Allocated /\ v.height = har[n].height /\ v.refs = har[n].refs
                 /\ ~har[n].removed /\ v.removed
    PROVE  Words!Next
<1> DEFINE w == har[n]
           M == Words!WordLimit
<1>1. /\ w \in Word /\ v = har'[n] /\ w.refs \in 0 .. HEIGHT /\ v.refs \in 0 .. HEIGHT
      /\ HEIGHT \in Nat
      /\ w.height \in 0 .. HEIGHT /\ v.height \in 0 .. HEIGHT
      /\ w.removed \in BOOLEAN /\ v.removed \in BOOLEAN
  BY ConstantFacts DEF MemoryTypeOK, Word
<1>2. [m \in Node |-> Packed(har'[m])]
         = [[m \in Node |-> Packed(har[m])] EXCEPT ![n] = Packed(v)]
  BY DEF MemoryTypeOK
<1>3. /\ Packed(w) \in 0 .. M - 1 /\ Packed(v) \in 0 .. M - 1
      /\ Packed(w) = 0 <=> w = [height |-> 0, refs |-> 0, removed |-> FALSE]
      /\ Words!removed(Packed(w)) <=> w.removed
  BY <1>1, PackedFields
<1>4. n \in Allocated => Packed(w) # 0
  BY <1>1, <1>3 DEF Allocated
<1>5. ASSUME NEW m \in Nat, NEW a \in 0 .. m - 1
      PROVE  a % m = a
  BY SMT
<1>6. M \in Nat
  BY <1>1 DEF Words!WordLimit, Words!REMOVED_MASK, Words!OneRef
<1>7. CASE n \notin Allocated /\ ~w.removed /\ w.refs = 0
              /\ v.height > 0 /\ v.refs = 0 /\ ~v.removed
  <2>1. w.height = 0 /\ w.removed = FALSE
    BY <1>1, <1>7 DEF Allocated
  <2>2. Packed(w) = 0
    BY <1>1, <1>7, <2>1 DEF Packed
  <2>3. Packed(v) = v.height /\ v.height \in 1 .. HEIGHT
    BY <1>1, <1>7 DEF Packed
  <2>4. Words!Alloc(n)
    BY <1>2, <2>2, <2>3 DEF Words!Alloc
  <2> QED BY <2>4 DEF Words!Next
<1>8. CASE n \in Allocated /\ v.height = w.height /\ v.removed = w.removed
              /\ v.refs = w.refs + 1
  <2>1. Packed(v) = Packed(w) + Words!OneRef
    BY <1>1, <1>8 DEF Packed, Words!OneRef
  <2>2. Packed(v) = (Packed(w) + Words!OneRef) % M
    BY <1>3, <1>5, <1>6, <2>1
  <2>3. Words!AddRef(n)
    BY <1>2, <1>4, <1>8, <2>2 DEF Words!AddRef
  <2> QED BY <2>3 DEF Words!Next
<1>9. CASE n \in Allocated /\ v.height = w.height /\ v.removed = w.removed
              /\ v.refs = w.refs - 1
  <2>1. Packed(v) = Packed(w) - Words!OneRef
    BY <1>1, <1>9 DEF Packed, Words!OneRef
  <2>2. Packed(v) = (Packed(w) - Words!OneRef) % M
    BY <1>3, <1>5, <1>6, <2>1
  <2>3. Words!SubRef(n)
    BY <1>2, <1>4, <1>9, <2>2 DEF Words!SubRef
  <2> QED BY <2>3 DEF Words!Next
<1>10. CASE n \in Allocated /\ v.height = w.height /\ v.refs = w.refs
              /\ ~w.removed /\ v.removed
  <2>1. Packed(v) = Packed(w) + Words!REMOVED_MASK
    BY <1>1, <1>10 DEF Packed, Words!REMOVED_MASK, Words!OneRef
  <2>2. Words!SetRemoved(n)
    BY <1>2, <1>3, <1>4, <1>10, <2>1 DEF Words!SetRemoved
  <2> QED BY <2>2 DEF Words!Next
<1> QED BY <1>7, <1>8, <1>9, <1>10

(* Which step changes which node's word.                                   *)
LEMMA WordChange ==
    ASSUME Inv, Shape, References, NEW t \in Thread, Begin(t) \/ Step(t)
    PROVE  \/ har' = har
           \/ \E n \in Node, v \in Word :
                 /\ har' = [har EXCEPT ![n] = v]
                 /\ \/ n \notin Allocated /\ v.height > 0 /\ v.refs = 0 /\ ~v.removed
                    \/ n \in Allocated /\ v.height = har[n].height
                          /\ v.removed = har[n].removed
                          /\ v.refs \in {har[n].refs + 1, har[n].refs - 1}
                    \/ n \in Allocated /\ v.height = har[n].height
                          /\ v.refs = har[n].refs /\ ~har[n].removed /\ v.removed
<1> MemoryTypeOK /\ LocalTypeOK /\ PointersAllocated /\ ControlAt(t)
  BY DEF Inv, TypeOK, Control
<1>1. CASE NewNode(t)
  <2>1. New(t) \in Node /\ New(t) \notin Allocated
    BY <1>1, Locals DEF NewNode, Inv, Fresh, ControlAt, SearchLabel
  <2>2. PICK h \in 1 .. HEIGHT :
            har' = [har EXCEPT ![New(t)] = [height |-> h, refs |-> 0, removed |-> FALSE]]
    BY <1>1 DEF NewNode
  <2>3. PICK v : v = [height |-> h, refs |-> 0, removed |-> FALSE]
    OBVIOUS
  <2>4. v \in Word /\ v.height > 0 /\ v.refs = 0 /\ ~v.removed
    BY <2>3, ConstantFacts DEF Word
  <2> QED BY <2>1, <2>2, <2>3, <2>4
<1>2. ASSUME NEW n \in Node, n \in Allocated, NEW r \in {har[n].refs + 1, har[n].refs - 1},
             har' = [har EXCEPT ![n].refs = r]
      PROVE  \E v \in Word : /\ har' = [har EXCEPT ![n] = v]
                             /\ v.height = har[n].height /\ v.removed = har[n].removed
                             /\ v.refs = r
  <2>1. PICK v : v = [har[n] EXCEPT !.refs = r]
    OBVIOUS
  <2>2. har[n] \in Word /\ r \in Int
    BY DEF MemoryTypeOK, Word
  <2>3. v \in Word /\ v.height = har[n].height /\ v.removed = har[n].removed /\ v.refs = r
    BY <2>1, <2>2 DEF Word
  <2>4. har' = [har EXCEPT ![n] = v]
    BY <1>2, <2>1
  <2> QED BY <2>3, <2>4
<1>3. CASE LinkAddRef(t) \/ LinkUndo(t)
  <2>1. New(t) \in Node /\ New(t) \in Allocated
    BY <1>3, Locals DEF LinkAddRef, LinkUndo, ControlAt, Linking, LinkLabel
  <2>2. AddRef(New(t)) \/ SubRef(New(t)) \/ har' = har
    BY <1>3 DEF LinkAddRef, LinkUndo
  <2> QED BY <1>2, <2>1, <2>2 DEF AddRef, SubRef
<1>4. CASE HelpSubRef(t) \/ UnlinkSubRef(t)
  <2>1. PICK n \in Node : n \in Allocated /\ Drops(t, n) /\ SubRefAndRetire(n)
    BY <1>4, Locals, ConstantFacts
       DEF HelpSubRef, UnlinkSubRef, PointersAllocated, Drops, RemoveLabel
  <2>2. har[n].refs # 0
    BY <2>1, HolderCounts
  <2>3. har' = [har EXCEPT ![n].refs = har[n].refs - 1]
    BY <2>1, <2>2 DEF SubRefAndRetire
  <2> QED BY <1>2, <2>1, <2>3
<1>5. CASE CasHar(t)
  <2>1. target[t] \in Node /\ target[t] \in Allocated
    BY <1>5, Locals, ConstantFacts DEF CasHar, RemoveLabel, PointersAllocated
  <2>2. CASE CanSetRemoved(target[t], seen[t]) /\ SetRemoved(target[t])
    <3>1. PICK n \in Node : n = target[t]
      BY <2>1
    <3>2. PICK v : v = [har[n] EXCEPT !.removed = TRUE]
      OBVIOUS
    <3>3. har[n] \in Word /\ ~har[n].removed
      BY <2>2, <3>1 DEF MemoryTypeOK, CanSetRemoved, Word
    <3>4. v \in Word /\ v.height = har[n].height /\ v.refs = har[n].refs /\ v.removed
      BY <3>2, <3>3 DEF Word
    <3>5. har' = [har EXCEPT ![n] = v]
      BY <2>2, <3>1, <3>2 DEF SetRemoved
    <3> QED BY <2>1, <3>1, <3>3, <3>4, <3>5
  <2>3. CASE har' = har
    BY <2>3
  <2> QED BY <1>5, <2>2, <2>3 DEF CasHar
<1>6. CASE \/ Begin(t) \/ Leave(t) \/ FindInit(t) \/ InitLevel(t) \/ StartSearch(t)
           \/ LowerLevel(t) \/ ReadNext(t) \/ CheckTag(t) \/ HelpUnlink(t)
           \/ FinalRead(t) \/ FinalCheck(t) \/ LoadHar(t) \/ TagLevel(t)
           \/ Unlink(t) \/ UnlinkLen(t) \/ CompareMax(t) \/ StoreMax(t) \/ Count(t)
           \/ LinkCheck(t) \/ LinkRecheck(t) \/ LinkOwn(t) \/ LinkIn(t) \/ LinkEnd(t)
  BY <1>6 DEF Begin, Leave, FindInit, InitLevel, StartSearch, LowerLevel, ReadNext, CheckTag,
       HelpUnlink, FinalRead, FinalCheck, LoadHar, TagLevel, Unlink, UnlinkLen, CompareMax,
       StoreMax, Count,
       LinkCheck, LinkRecheck, LinkOwn, LinkIn, LinkEnd, memory
<1> QED BY <1>1, <1>3, <1>4, <1>5, <1>6 DEF Step, FindStep, RemoveStep, InsertStep

(* A node that is not allocated is counted nowhere.                        *)
LEMMA UnallocatedWord ==
    ASSUME Inv, Shape, References, NEW n \in Node, n \notin Allocated
    PROVE  har[n].refs = 0 /\ ~har[n].removed
<1>1. \A u \in Thread : ~Adds(u, n) /\ ~Drops(u, n)
  <2>1. ASSUME NEW u \in Thread
        PROVE  ~Adds(u, n)
    BY DEF Adds, Inv, Control, ControlAt, Linking, LinkLabel
  <2>2. ASSUME NEW u \in Thread
        PROVE  nxt[u] # n /\ target[u] # n
    BY ConstantFacts DEF Inv, PointersAllocated
  <2> QED BY <2>1, <2>2 DEF Drops
<1>2. linked[n] = {} /\ Adding(n) = {} /\ Dropping(n) = {}
  BY <1>1 DEF Shape, Adding, Dropping, Adds, Drops
<1>3. har[n].refs = 0
  BY <1>2, FS_EmptySet DEF References, RefsCountLinks
<1> QED BY <1>3 DEF Inv, Fresh

(* The counts fit into the words.                                          *)
CountsInRange == \A n \in Node : har[n].refs \in 0 .. HEIGHT

(* A reference count never exceeds the number of levels, links in progress *)
(* and dropped references included.                                        *)
THEOREM CountsStayInRange == Spec => []CountsInRange
<1>1. Inv /\ Shape /\ References /\ LevelsApart => CountsInRange
  BY CountsFit DEF CountsInRange
<1> QED BY <1>1, Invariance, ShapeInvariance, ReferencesHold, LevelsStayApart, PTL

(* The packed words take a step or stand still.                            *)
LEMMA WordsStep ==
    ASSUME Inv, Inv', Shape, References, CountsInRange, CountsInRange', [Next]_vars
    PROVE  [Words!Next]_[n \in Node |-> Packed(har[n])]
<1> MemoryTypeOK /\ MemoryTypeOK'
  BY DEF Inv, TypeOK
<1>1. CASE har' = har
  BY <1>1
<1>2. ASSUME NEW t \in Thread, Begin(t) \/ Step(t), har' # har
      PROVE  Words!Next
  <2>1. PICK n \in Node, v \in Word :
            /\ har' = [har EXCEPT ![n] = v]
            /\ \/ n \notin Allocated /\ v.height > 0 /\ v.refs = 0 /\ ~v.removed
               \/ n \in Allocated /\ v.height = har[n].height
                     /\ v.removed = har[n].removed
                     /\ v.refs \in {har[n].refs + 1, har[n].refs - 1}
               \/ n \in Allocated /\ v.height = har[n].height
                     /\ v.refs = har[n].refs /\ ~har[n].removed /\ v.removed
    BY <1>2, WordChange
  <2>2. n \notin Allocated => har[n].refs = 0 /\ ~har[n].removed
    BY UnallocatedWord
  <2>3. \A m \in Node : har[m].refs \in 0 .. HEIGHT /\ har'[m].refs \in 0 .. HEIGHT
    BY DEF CountsInRange
  <2> QED BY <2>1, <2>2, <2>3, WordStep
<1>3. UNCHANGED vars => har' = har
  BY DEF vars, memory
<1> QED BY <1>1, <1>2, <1>3 DEF Next, Terminating

(* The records of NodeMemory are the packed words: in no schedule does a   *)
(* fetch_add or fetch_sub on one of them reach the bits of another field.  *)
THEOREM ListImplementsNodeWord == Spec => ImplementsNodeWord
<1>1. Init => Words!Init
  BY ConstantFacts DEF Init, MemoryInit, Words!Init, Packed
<1>2. /\ Inv /\ Inv' /\ Shape /\ References /\ CountsInRange /\ CountsInRange'
      /\ [Next]_vars
      => [Words!Next]_[n \in Node |-> Packed(har[n])]
  BY WordsStep
<1> QED BY <1>1, <1>2, Invariance, ShapeInvariance, ReferencesHold, CountsStayInRange,
           PTL DEF Spec, ImplementsNodeWord, Words!Spec

=============================================================================
