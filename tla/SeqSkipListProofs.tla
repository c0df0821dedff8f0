--------------------------- MODULE SeqSkipListProofs ---------------------------
(***************************************************************************)
(* The invariant of SeqSkipListInv.tla is kept by every operation of the   *)
(* sequential list, and what follows from it.                              *)
(*                                                                         *)
(* The walks of the list are recursive functions.  A walk from a tower is  *)
(* shown to be defined, and to end where it should, by looking at a tower  *)
(* with the fewest nodes above it for which that fails.                    *)
(***************************************************************************)
EXTENDS SeqSkipListInv, FiniteSetTheorems, SequenceTheorems, WellFoundedInduction, TLAPS

(* What the assumption on the constants gives.                             *)
LEMMA SeqConstants ==
    /\ HEIGHT \in Nat /\ HEIGHT > 0
    /\ head \in Tower /\ head \notin Node /\ Node \subseteq Tower
    /\ Null \notin Node /\ Null # head /\ Null \notin Value
    /\ Level = 0 .. HEIGHT - 1 /\ 0 \in Level
    /\ \A k \in Key : k \in Int
BY SeqAssumption DEF Tower, Level

(* A set of numbers has a least one.                                       *)
LEMMA LeastNumber ==
    ASSUME NEW T, T \subseteq Nat, T # {}
    PROVE  \E x \in T : \A y \in T : x <= y
<1>1. PICK x \in T : \A y \in T : <<y, x>> \notin OpToRel(<, Nat)
  BY NatLessThanWellFounded, WFMin
<1>2. \A y \in T : ~(y < x)
  BY <1>1 DEF OpToRel
<1> QED BY <1>2

-----------------------------------------------------------------------------
(* The order of the towers *)

Rank(m, l) == Cardinality(Above(m, l))

(* Some tower before key k, and the one where a walk to k along level l    *)
(* ends.                                                                   *)
Before(m, k) == m # head => node[m].key < k

StopsAt(o, k, l) ==
    /\ o \in Towers(l) \cup {head}
    /\ Before(o, k)
    /\ next[o][l] # Null => k <= node[next[o][l]].key

(* Types of what the list is made of.                                      *)
LEMMA SeqTypes ==
    ASSUME ListInvariant
    PROVE  /\ \A m \in Tower, l \in Level : next[m][l] \in Node \cup {Null}
           /\ Allocated \subseteq Node
           /\ \A n \in Allocated : /\ node[n] \in NodeData /\ node[n].key \in Int
                                   /\ node[n].key \in Key /\ node[n].val \in Value
                                   /\ node[n].height \in 1 .. HEIGHT
           /\ \A l \in Level : Towers(l) \subseteq Allocated /\ Towers(l) \subseteq Node
           /\ IsFiniteSet(Allocated)
BY SeqConstants DEF ListInvariant, ListTypeOK, NodeData, Towers, CountsAgree

(* The nodes above a tower are finitely many.                              *)
LEMMA RankType ==
    ASSUME ListInvariant, NEW l \in Level, NEW m
    PROVE  IsFiniteSet(Above(m, l)) /\ Rank(m, l) \in Nat
<1>1. Above(m, l) \in SUBSET Allocated
  BY DEF Above, Towers
<1> QED BY <1>1, SeqTypes, FS_Subset, FS_CardinalityType DEF Rank

(* What a tower of a level leads to is a node of the level above it, with  *)
(* fewer nodes above.                                                      *)
LEMMA NextIsAbove ==
    ASSUME ListInvariant, NEW l \in Level, NEW m \in Towers(l) \cup {head},
           next[m][l] # Null
    PROVE  /\ next[m][l] \in Towers(l) /\ next[m][l] \in Above(m, l) /\ next[m][l] # head
           /\ m # head => node[m].key < node[next[m][l]].key
           /\ \A n \in Above(m, l) : node[next[m][l]].key <= node[n].key
           /\ Rank(next[m][l], l) < Rank(m, l)
<1>1. LeadsUp(m, l)
  BY DEF ListInvariant, LevelsInOrder
<1>2. next[m][l] \in Above(m, l) /\ \A n \in Above(m, l) : node[next[m][l]].key <= node[n].key
  BY <1>1 DEF LeadsUp
<1>3. PICK n \in Node : n = next[m][l] /\ n \in Towers(l) /\ n # head
  BY <1>2, SeqTypes, SeqConstants DEF Above
<1>4. m # head => node[m].key < node[n].key
  BY <1>2, <1>3 DEF Above
<1>5. Above(n, l) \subseteq Above(m, l) /\ n \notin Above(n, l) /\ n \in Above(m, l)
  <2>1. \A o \in Towers(l) : node[o].key \in Int
    BY SeqTypes
  <2>2. m # head => node[m].key \in Int
    BY <2>1
  <2> QED BY <1>2, <1>3, <1>4, <2>1, <2>2 DEF Above
<1>6. Rank(n, l) < Rank(m, l)
  <2>1. /\ IsFiniteSet(Above(m, l)) /\ Rank(n, l) \in Nat /\ Rank(m, l) \in Nat
        /\ Above(n, l) \in SUBSET Above(m, l) /\ Above(n, l) # Above(m, l)
    BY <1>5, RankType
  <2>2. Cardinality(Above(n, l)) <= Cardinality(Above(m, l))
        /\ Cardinality(Above(n, l)) # Cardinality(Above(m, l))
    BY <2>1, FS_Subset
  <2> QED BY <2>1, <2>2 DEF Rank
<1> QED BY <1>2, <1>3, <1>4, <1>6

(* A tower that nodes are above of leads somewhere.                        *)
LEMMA LeadsSomewhere ==
    ASSUME ListInvariant, NEW l \in Level, NEW m \in Towers(l) \cup {head}, Above(m, l) # {}
    PROVE  next[m][l] # Null
<1>1. LeadsUp(m, l)
  BY DEF ListInvariant, LevelsInOrder
<1> QED BY <1>1, SeqTypes, SeqConstants DEF LeadsUp, Above

(* Of some towers of a level there is one with the fewest nodes above.     *)
LEMMA LowestRank ==
    ASSUME ListInvariant, NEW l \in Level, NEW B, B # {}
    PROVE  \E m \in B : \A o \in B : Rank(m, l) <= Rank(o, l)
<1>1. PICK T : T = {Rank(m, l) : m \in B}
  OBVIOUS
<1>2. T \subseteq Nat /\ T # {}
  BY <1>1, RankType
<1>3. PICK x \in T : \A y \in T : x <= y
  BY <1>2, LeastNumber
<1> QED BY <1>1, <1>3

-----------------------------------------------------------------------------
(* Walks *)

(* A walk can end in one place only.                                       *)
LEMMA StopUnique ==
    ASSUME ListInvariant, NEW k \in Int, NEW l \in Level, NEW o, NEW q,
           StopsAt(o, k, l), StopsAt(q, k, l)
    PROVE  o = q
<1>0. \A n \in Towers(l) : n # head /\ n \in Allocated /\ node[n].key \in Int
  BY SeqTypes, SeqConstants
<1>1. ASSUME NEW a, NEW b, StopsAt(a, k, l), StopsAt(b, k, l), b \in Above(a, l)
      PROVE  FALSE
  <2>1. a \in Towers(l) \cup {head} /\ LeadsUp(a, l)
    BY <1>1 DEF StopsAt, ListInvariant, LevelsInOrder
  <2>2. next[a][l] # Null
    BY <1>1, <2>1, LeadsSomewhere
  <2>3. node[next[a][l]].key <= node[b].key /\ next[a][l] \in Towers(l)
    BY <1>1, <2>1, <2>2, NextIsAbove
  <2>4. b \in Towers(l) /\ node[b].key < k /\ k <= node[next[a][l]].key
    BY <1>0, <1>1, <2>2 DEF StopsAt, Before, Above
  <2> QED BY <1>0, <2>3, <2>4
<1>2. o \in Towers(l) \cup {head} /\ q \in Towers(l) \cup {head}
  BY DEF StopsAt
<1>3. o \notin Above(q, l) /\ q \notin Above(o, l)
  BY <1>1
<1>4. CASE o = head \/ q = head
  BY <1>2, <1>3, <1>4 DEF Above
<1>5. CASE o \in Towers(l) /\ q \in Towers(l)
  <2>1. ~(node[o].key < node[q].key) /\ ~(node[q].key < node[o].key)
    BY <1>3, <1>5 DEF Above
  <2>2. node[o].key = node[q].key
    BY <1>0, <1>5, <2>1
  <2> QED BY <1>0, <1>5, <2>2 DEF ListInvariant, KeysDiffer
<1> QED BY <1>2, <1>4, <1>5

(* A walk goes on as long as the next key is less.                         *)
LEMMA WalkEquation ==
    ASSUME ListInvariant, NEW k \in Int, NEW l \in Level
    PROVE  Walk(k, l) =
             [m \in Tower |-> LET n == next[m][l]
                              IN  IF n = Null \/ node[n].key >= k THEN m ELSE Walk(k, l)[n]]
<1> DEFINE stop == CHOOSE o \in Tower : StopsAt(o, k, l)
           f == [m \in Tower |-> IF m \in Towers(l) \cup {head} /\ Before(m, k) THEN stop ELSE m]
<1>0. \A n \in Towers(l) : n \in Tower /\ n # head /\ node[n].key \in Int
  BY SeqTypes, SeqConstants
<1>1. ASSUME NEW m \in Tower
      PROVE  f[m] = LET n == next[m][l]
                    IN  IF n = Null \/ node[n].key >= k THEN m ELSE f[n]
  <2>1. CASE m \notin Towers(l) \cup {head}
    <3>1. next[m][l] = Null
      BY <2>1 DEF ListInvariant, OthersLeadNowhere, Tower
    <3> QED BY <2>1, <3>1
  <2>2. CASE m \in Towers(l) \cup {head} /\ ~Before(m, k)
    <3>1. m \in Towers(l) /\ ~(node[m].key < k)
      BY <2>2 DEF Before
    <3>2. next[m][l] # Null => next[m][l] \in Towers(l) /\ node[m].key < node[next[m][l]].key
      BY <1>0, <3>1, NextIsAbove
    <3>3. next[m][l] = Null \/ node[next[m][l]].key >= k
      BY <1>0, <3>1, <3>2
    <3> QED BY <2>2, <3>3
  <2>3. CASE /\ m \in Towers(l) \cup {head} /\ Before(m, k)
             /\ next[m][l] = Null \/ node[next[m][l]].key >= k
    <3>1. next[m][l] # Null => next[m][l] \in Towers(l)
      BY <2>3, NextIsAbove
    <3>2. StopsAt(m, k, l)
      BY <1>0, <2>3, <3>1 DEF StopsAt
    <3>3. StopsAt(stop, k, l)
      BY <3>2
    <3>4. stop = m
      BY <3>2, <3>3, StopUnique
    <3> HIDE DEF stop
    <3> QED BY <2>3, <3>4
  <2>4. CASE /\ m \in Towers(l) \cup {head} /\ Before(m, k)
             /\ ~(next[m][l] = Null \/ node[next[m][l]].key >= k)
    <3>1. next[m][l] \in Towers(l) /\ next[m][l] \in Tower /\ Before(next[m][l], k)
      BY <1>0, <2>4, NextIsAbove DEF Before
    <3> HIDE DEF stop
    <3> QED BY <2>4, <3>1
  <2> QED BY <2>1, <2>2, <2>3, <2>4
<1>2. f = [m \in Tower |-> LET n == next[m][l]
                           IN  IF n = Null \/ node[n].key >= k THEN m ELSE f[n]]
  BY <1>1
<1> HIDE DEF f
<1> QED BY <1>2 DEF Walk

(* A walk to key k ends at the last tower before k.                        *)
LEMMA WalkStops ==
    ASSUME ListInvariant, NEW k \in Int, NEW l \in Level,
           NEW m \in Towers(l) \cup {head}, Before(m, k)
    PROVE  StopsAt(Walk(k, l)[m], k, l)
<1>0. \A n \in Towers(l) : n \in Tower /\ n # head /\ node[n].key \in Int
  BY SeqTypes, SeqConstants
<1>1. PICK f : f = Walk(k, l)
  OBVIOUS
<1>2. ASSUME NEW o \in Tower
      PROVE  f[o] = IF next[o][l] = Null \/ node[next[o][l]].key >= k THEN o ELSE f[next[o][l]]
  BY <1>1, WalkEquation
<1>3. PICK B : B = {o \in Towers(l) \cup {head} : Before(o, k) /\ ~StopsAt(f[o], k, l)}
  OBVIOUS
<1>4. ASSUME B # {} PROVE FALSE
  <2>1. PICK o \in B : \A q \in B : Rank(o, l) <= Rank(q, l)
    BY <1>4, LowestRank
  <2>2. o \in Towers(l) \cup {head} /\ o \in Tower /\ Before(o, k) /\ ~StopsAt(f[o], k, l)
    BY <1>0, <1>3, SeqConstants
  <2>3. next[o][l] # Null => next[o][l] \in Towers(l) /\ Rank(next[o][l], l) < Rank(o, l)
    BY <2>2, NextIsAbove
  <2>4. CASE next[o][l] = Null \/ node[next[o][l]].key >= k
    BY <1>0, <1>2, <2>2, <2>3, <2>4 DEF StopsAt
  <2>5. CASE ~(next[o][l] = Null \/ node[next[o][l]].key >= k)
    <3>1. f[o] = f[next[o][l]] /\ Before(next[o][l], k)
      BY <1>0, <1>2, <2>2, <2>3, <2>5 DEF Before
    <3>2. next[o][l] \in B
      BY <1>3, <2>2, <2>3, <2>5, <3>1
    <3> QED BY <2>1, <2>3, <2>5, <3>2, RankType
  <2> QED BY <2>4, <2>5
<1> QED BY <1>1, <1>3, <1>4

-----------------------------------------------------------------------------
(* find *)

(* The search begins at a level above which there are no towers.           *)
LEMMA TopLevelFacts ==
    ASSUME ListInvariant
    PROVE  /\ TopLevel \in Level
           /\ \A l \in Level : l > TopLevel => Towers(l) = {}
<1>1. maxHeight \in Nat /\ 1 <= maxHeight /\ maxHeight <= HEIGHT /\ HEIGHT \in Nat
  BY SeqConstants DEF ListInvariant, ListTypeOK
<1>2. \E l \in 0 .. maxHeight - 1 : /\ l > 0 => next[head][l] # Null
                                    /\ \A m \in l + 1 .. maxHeight - 1 : next[head][m] = Null
  <2>1. PICK T : T = {d \in 0 .. maxHeight - 1 : d < maxHeight - 1 => next[head][maxHeight - 1 - d] # Null}
    OBVIOUS
  <2>2. maxHeight - 1 \in T /\ T \subseteq Nat
    BY <1>1, <2>1
  <2>3. PICK d \in T : \A e \in T : d <= e
    BY <2>2, LeastNumber
  <2>4. d \in Nat /\ d <= maxHeight - 1 /\ (d < maxHeight - 1 => next[head][maxHeight - 1 - d] # Null)
    BY <1>1, <2>1
  <2>5. ASSUME NEW m \in (maxHeight - 1 - d) + 1 .. maxHeight - 1
        PROVE  next[head][m] = Null
    <3>1. PICK e \in Int : e = maxHeight - 1 - m
      BY <1>1, <2>4
    <3>2. e \in 0 .. maxHeight - 1 /\ e < d /\ e < maxHeight - 1 /\ maxHeight - 1 - e = m
      BY <1>1, <2>4, <3>1
    <3>3. e \notin T
      BY <2>2, <2>3, <2>4, <3>2
    <3>4. next[head][maxHeight - 1 - e] = Null
      BY <2>1, <3>2, <3>3
    <3> QED BY <3>2, <3>4
  <2>6. PICK l \in 0 .. maxHeight - 1 : l = maxHeight - 1 - d
    BY <1>1, <2>4
  <2>7. l > 0 => next[head][l] # Null
    BY <1>1, <2>4, <2>6
  <2> QED BY <2>5, <2>6, <2>7
<1>3. /\ TopLevel \in 0 .. maxHeight - 1
      /\ \A m \in TopLevel + 1 .. maxHeight - 1 : next[head][m] = Null
  BY <1>2 DEF TopLevel
<1>4. TopLevel \in Level
  BY <1>1, <1>3 DEF Level
<1>5. ASSUME NEW l \in Level, l > TopLevel, Towers(l) # {}
      PROVE  FALSE
  <2>1. PICK n \in Towers(l) : TRUE
    BY <1>5
  <2>2. l < node[n].height /\ node[n].height <= maxHeight /\ node[n].height \in Int
    BY SeqTypes DEF Towers, ListInvariant, SearchesStartHighEnough
  <2>3. next[head][l] = Null
    BY <1>1, <1>3, <1>5, <2>2, SeqConstants
  <2>4. LeadsUp(head, l) /\ n \in Above(head, l)
    BY DEF ListInvariant, LevelsInOrder, Above
  <2> QED BY <2>3, <2>4, SeqTypes, SeqConstants DEF LeadsUp, Above
<1> QED BY <1>4, <1>5

(* The prev array holds, for every level, the last tower before the key,   *)
(* also for the levels find did not search.                                *)
LEMMA PrevStops ==
    ASSUME ListInvariant, NEW k \in Int
    PROVE  \A l \in Level : StopsAt(Prev(k)[l], k, l)
<1>0. TopLevel \in Level /\ HEIGHT \in Nat /\ Level = 0 .. HEIGHT - 1
  BY TopLevelFacts, SeqConstants
<1>1. PICK top \in Level : top = TopLevel /\ \A l \in Level : l > top => Towers(l) = {}
  BY TopLevelFacts
<1>2. ASSUME NEW l \in Level
      PROVE  Before(head, k) /\ head \in Towers(l) \cup {head} /\ StopsAt(Walk(k, l)[head], k, l)
  BY WalkStops DEF Before
<1>3. ASSUME NEW l \in Level, l > top
      PROVE  StopsAt(head, k, l)
  <2>1. Towers(l) = {}
    BY <1>1, <1>3
  <2>2. LeadsUp(head, l)
    BY DEF ListInvariant, LevelsInOrder
  <2> QED BY <1>2, <2>1, <2>2 DEF LeadsUp, Above, StopsAt
(* A tower found at one level is one of the level below, and the walk goes *)
(* on from there to the same end as one from the head.                     *)
<1>4. ASSUME NEW l \in Level, NEW o, StopsAt(o, k, l + 1), l + 1 \in Level
      PROVE  StopsAt(Walk(k, l)[o], k, l)
  <2>1. o \in Towers(l) \cup {head} /\ Before(o, k)
    BY <1>0, <1>4, SeqTypes DEF StopsAt, Towers
  <2> QED BY <2>1, WalkStops
<1>5. PICK f : f = [l \in Level |-> IF l > top THEN head ELSE Walk(k, l)[head]]
  OBVIOUS
<1>6. ASSUME NEW l \in Level
      PROVE  f[l] = CASE l > top -> head
                      [] l = top -> Walk(k, l)[head]
                      [] OTHER   -> Walk(k, l)[f[l + 1]]
  <2>1. CASE l >= top
    BY <1>0, <1>5, <2>1
  <2>2. CASE l < top
    <3>1. l + 1 \in Level /\ f[l + 1] = Walk(k, l + 1)[head]
      BY <1>0, <1>5, <2>2
    <3>2. StopsAt(Walk(k, l)[f[l + 1]], k, l)
      BY <1>2, <1>4, <3>1
    <3>3. Walk(k, l)[f[l + 1]] = Walk(k, l)[head]
      BY <1>2, <3>2, StopUnique
    <3>4. ~(l > top) /\ l # top
      BY <1>0, <2>2
    <3> QED BY <1>5, <3>3, <3>4
  <2> QED BY <1>0, <2>1, <2>2
<1>7. f = [l \in Level |-> CASE l > TopLevel -> head
                             [] l = TopLevel -> Walk(k, l)[head]
                             [] OTHER        -> Walk(k, l)[f[l + 1]]]
  BY <1>1, <1>5, <1>6
<1>8. Prev(k) = [l \in Level |-> CASE l > TopLevel -> head
                                   [] l = TopLevel -> Walk(k, l)[head]
                                   [] OTHER        -> Walk(k, l)[Prev(k)[l + 1]]]
  BY <1>7 DEF Prev
<1>9. PICK p : p = Prev(k)
  OBVIOUS
<1>10. ASSUME NEW l \in Level
       PROVE  p[l] = CASE l > top -> head
                       [] l = top -> Walk(k, l)[head]
                       [] OTHER   -> Walk(k, l)[p[l + 1]]
  BY <1>1, <1>8, <1>9
<1>11. PICK B : B = {l \in Level : ~StopsAt(p[l], k, l)}
  OBVIOUS
<1>12. ASSUME B # {} PROVE FALSE
  <2>1. PICK T : T = {HEIGHT - l : l \in B}
    OBVIOUS
  <2>2. T \subseteq Nat /\ T # {}
    BY <1>0, <1>11, <1>12, <2>1
  <2>3. PICK d \in T : \A e \in T : d <= e
    BY <2>2, LeastNumber
  <2>4. PICK l \in B : d = HEIGHT - l
    BY <2>1
  <2>5. l \in Level /\ l \in Nat /\ ~StopsAt(p[l], k, l)
    BY <1>0, <1>11
  <2>6. ~(l > top) /\ l # top
    BY <1>2, <1>3, <1>10, <2>5
  <2>7. l + 1 \in Level /\ p[l] = Walk(k, l)[p[l + 1]]
    BY <1>0, <1>10, <2>5, <2>6
  <2>8. l + 1 \notin B
    <3>1. HEIGHT - (l + 1) < d
      BY <1>0, <2>4, <2>5
    <3> QED BY <1>0, <2>1, <2>2, <2>3, <2>5, <3>1
  <2>9. StopsAt(p[l + 1], k, l + 1)
    BY <1>11, <2>7, <2>8
  <2> QED BY <1>4, <2>5, <2>7, <2>9
<1> QED BY <1>9, <1>11, <1>12

(* find returns the node of the key, if there is one.                      *)
LEMMA TargetFacts ==
    ASSUME ListInvariant, NEW k \in Int
    PROVE  /\ Target(k) # Null => Target(k) \in Allocated /\ node[Target(k)].key = k
           /\ Target(k) = Null => \A n \in Allocated : node[n].key # k
<1>1. PICK o : o = Prev(k)[0] /\ StopsAt(o, k, 0)
  BY PrevStops, SeqConstants
<1>2. o \in Towers(0) \cup {head} /\ LeadsUp(o, 0) /\ 0 \in Level
  BY <1>1, SeqConstants DEF StopsAt, ListInvariant, LevelsInOrder
<1>3. next[o][0] # Null => next[o][0] \in Allocated
  BY <1>2, NextIsAbove, SeqTypes
<1>4. Target(k) = IF next[o][0] # Null /\ node[next[o][0]].key = k THEN next[o][0] ELSE Null
  BY <1>1 DEF Target
<1>5. ASSUME NEW n \in Allocated, node[n].key = k
      PROVE  Target(k) # Null
  <2>1. n \in Above(o, 0)
    BY <1>1, <1>2, <1>5, SeqTypes DEF StopsAt, Before, Above, Towers
  <2>2. next[o][0] # Null /\ node[next[o][0]].key <= k
    BY <1>2, <1>5, <2>1, NextIsAbove, LeadsSomewhere
  <2>3. node[next[o][0]].key = k
    BY <1>1, <1>3, <2>2, SeqTypes DEF StopsAt
  <2> QED BY <1>4, <2>2, <2>3
<1> QED BY <1>3, <1>4, <1>5

(* The last tower before a node's key leads to the node, on every level of *)
(* the node.                                                               *)
LEMMA StopLeadsTo ==
    ASSUME ListInvariant, NEW l \in Level, NEW n \in Towers(l), NEW k \in Int, node[n].key = k,
           NEW o, StopsAt(o, k, l)
    PROVE  next[o][l] = n
<1>1. n \in Above(o, l) /\ o \in Towers(l) \cup {head} /\ LeadsUp(o, l)
  BY SeqTypes DEF StopsAt, Before, Above, ListInvariant, LevelsInOrder
<1>2. next[o][l] # Null
  BY <1>1, LeadsSomewhere
<1>3. node[next[o][l]].key <= k /\ k <= node[next[o][l]].key /\ next[o][l] \in Allocated
  BY <1>1, <1>2, NextIsAbove, SeqTypes DEF StopsAt
<1>4. node[next[o][l]].key = k
  BY <1>3, SeqTypes
<1> QED BY <1>3, <1>4, SeqTypes DEF ListInvariant, KeysDiffer

(* So does what find leaves in prev.                                       *)
LEMMA PrevLeadsTo ==
    ASSUME ListInvariant, NEW l \in Level, NEW n \in Towers(l), NEW k \in Int, node[n].key = k
    PROVE  next[Prev(k)[l]][l] = n
BY PrevStops, StopLeadsTo

-----------------------------------------------------------------------------
(* What the operations do to the list *)

(* insert of a new key links its node where the search ended.              *)
LEMMA InsertNewKeeps ==
    ASSUME ListInvariant, NEW k \in Key, NEW v \in Value, Target(k) = Null, InsertNew(k, v)
    PROVE  ListInvariant'
<1> USE SeqConstants
<1>1. PICK n \in Node \ Allocated, h \in Heights :
         /\ LinkNodes(n, h, Prev(k))
         /\ node' = [m \in Allocated \cup {n} |->
                        IF m = n THEN [key |-> k, val |-> v, height |-> h, refs |-> h]
                        ELSE node[m]]
         /\ maxHeight' = IF h > maxHeight THEN h ELSE maxHeight
  BY DEF InsertNew
<1>2. PICK p : p = Prev(k)
  OBVIOUS
<1>3. k \in Int /\ h \in 1 .. HEIGHT /\ HEIGHT \in Nat /\ n # head /\ n \in Tower
  BY DEF Heights
<1>4. /\ Allocated' = Allocated \cup {n}
      /\ \A m \in Allocated : node'[m] = node[m] /\ m # n
      /\ node'[n] = [key |-> k, val |-> v, height |-> h, refs |-> h]
  BY <1>1 DEF Allocated
<1>5. \A m \in Tower, l \in Level :
         next'[m][l] = IF l >= h THEN next[m][l]
                       ELSE IF m = n THEN next[p[l]][l]
                       ELSE IF m = p[l] THEN n
                       ELSE next[m][l]
  BY <1>1, <1>2 DEF LinkNodes
<1>6. \A l \in Level : StopsAt(p[l], k, l) /\ p[l] \in Towers(l) \cup {head}
  BY <1>2, <1>3, PrevStops DEF StopsAt
<1>7. \A m \in Allocated : m \in Node /\ m # head /\ node[m].key \in Int /\ node[m].key # k
  BY <1>3, TargetFacts, SeqTypes
<1>8. ASSUME NEW l \in Level
      PROVE  Towers(l)' = IF l < h THEN Towers(l) \cup {n} ELSE Towers(l)
  BY <1>3, <1>4 DEF Towers
<1>9. ASSUME NEW l \in Level, NEW m \in Towers(l)' \cup {head}
      PROVE  LeadsUp(m, l)'
  <2>1. Towers(l) \subseteq Allocated /\ l \in Int /\ h \in Int
    BY <1>3, SeqTypes
  <2>2. PICK q : q = p[l] /\ StopsAt(q, k, l) /\ q \in Towers(l) \cup {head} /\ LeadsUp(q, l)
    BY <1>6 DEF ListInvariant, LevelsInOrder
  <2>3. PICK r : r = next[q][l] /\ r \in Node \cup {Null}
    BY <2>1, <2>2, SeqTypes DEF Tower
  <2>4. r # Null => r \in Above(q, l) /\ r \in Towers(l) /\ k < node[r].key
                    /\ \A o \in Above(q, l) : node[r].key <= node[o].key
    BY <1>3, <1>7, <2>1, <2>2, <2>3, NextIsAbove DEF StopsAt
  <2>5. r = Null => Above(q, l) = {}
    BY <2>2, <2>3, LeadsSomewhere
  <2>6. Before(q, k)
    BY <2>2 DEF StopsAt
  <2>7. CASE l >= h
    <3>1. Towers(l)' = Towers(l) /\ m \in Towers(l) \cup {head} /\ m \in Tower
      BY <1>7, <1>8, <1>9, <2>1, <2>7
    <3>2. Above(m, l)' = Above(m, l) /\ next'[m][l] = next[m][l]
      BY <1>4, <1>5, <2>1, <2>7, <3>1 DEF Above
    <3>3. LeadsUp(m, l)
      BY <3>1 DEF ListInvariant, LevelsInOrder
    <3> QED BY <1>4, <2>1, <3>2, <3>3 DEF LeadsUp, Above
  <2>8. CASE l < h /\ m = n
    <3>1. next'[m][l] = r
      BY <1>3, <1>5, <2>1, <2>2, <2>3, <2>8
    <3>2. Above(m, l)' = {o \in Towers(l) : k < node[o].key}
      BY <1>3, <1>4, <1>8, <2>1, <2>8 DEF Above
    <3>3. Above(m, l)' \subseteq Above(q, l)
      BY <1>3, <1>7, <2>1, <2>2, <2>6, <3>2 DEF Above, Before
    <3>4. \A o \in Above(m, l)' : node'[o].key = node[o].key
      BY <1>4, <2>1, <3>2
    <3>5. r # Null => r \in Above(m, l)' /\ node'[r].key = node[r].key
      BY <2>4, <3>2, <3>4
    <3> QED BY <2>4, <2>5, <3>1, <3>3, <3>4, <3>5 DEF LeadsUp
  <2>9. CASE l < h /\ m # n
    <3>1. m \in Towers(l) \cup {head} /\ m \in Tower
      BY <1>7, <1>8, <1>9, <2>1, <2>9
    <3>2. \A o : o \in Above(m, l)' <=> o \in Above(m, l) \/ (o = n /\ Before(m, k))
      BY <1>4, <1>8, <2>1, <2>9, <3>1 DEF Above, Before
    <3>3. \A o \in Above(m, l) : node'[o].key = node[o].key /\ node[o].key \in Int
      BY <1>4, <1>7, <2>1 DEF Above
    <3>4. CASE m = q
      <4>1. next'[m][l] = n /\ n \in Above(m, l)' /\ node'[n].key = k
        BY <1>3, <1>4, <1>5, <2>1, <2>2, <2>6, <2>9, <3>1, <3>2, <3>4
      <4>2. ASSUME NEW o \in Above(m, l)' PROVE k <= node'[o].key
        <5>1. CASE o = n
          BY <1>3, <1>4, <5>1
        <5>2. CASE o \in Above(m, l)
          <6>1. r # Null /\ node[r].key <= node[o].key
            BY <2>4, <2>5, <3>4, <5>2
          <6>2. node[r].key \in Int /\ k < node[r].key
            BY <1>7, <2>1, <2>4, <6>1
          <6> QED BY <1>3, <3>3, <5>2, <6>1, <6>2
        <5> QED BY <3>2, <5>1, <5>2
      <4> QED BY <4>1, <4>2 DEF LeadsUp
    <3>5. CASE m # q
      <4>1. next'[m][l] = next[m][l] /\ LeadsUp(m, l)
        BY <1>5, <2>1, <2>2, <2>9, <3>1, <3>5 DEF ListInvariant, LevelsInOrder
      <4>2. ~StopsAt(m, k, l)
        BY <1>3, <2>2, <3>5, StopUnique
      <4>3. Before(m, k) => next[m][l] # Null /\ node[next[m][l]].key < k
        BY <1>3, <1>7, <2>1, <3>1, <4>2, NextIsAbove DEF StopsAt
      <4>4. CASE next[m][l] = Null
        <5>1. Above(m, l)' = {}
          BY <3>1, <3>2, <4>3, <4>4, LeadsSomewhere
        <5> QED BY <4>1, <4>4, <5>1 DEF LeadsUp
      <4>5. CASE next[m][l] # Null
        <5>1. PICK s : s = next[m][l] /\ s \in Above(m, l) /\ \A o \in Above(m, l) : node[s].key <= node[o].key
          BY <3>1, <4>5, NextIsAbove
        <5>2. next'[m][l] = s /\ s \in Above(m, l)' /\ node'[s].key = node[s].key
          BY <3>2, <3>3, <4>1, <5>1
        <5>3. ASSUME NEW o \in Above(m, l)' PROVE node[s].key <= node'[o].key
          BY <1>3, <1>4, <3>2, <3>3, <4>3, <5>1, <5>3
        <5> QED BY <5>2, <5>3 DEF LeadsUp
      <4> QED BY <4>4, <4>5
    <3> QED BY <3>4, <3>5
  <2> QED BY <2>1, <2>7, <2>8, <2>9
<1>10. LevelsInOrder'
  BY <1>9 DEF LevelsInOrder
<1>11. OthersLeadNowhere'
  <2>1. ASSUME NEW l \in Level, NEW m \in Node, m \notin Towers(l)'
        PROVE  next'[m][l] = Null
    <3>1. m \notin Towers(l) /\ (l < h => m # n) /\ m \in Tower /\ m # head
      BY <1>8, <2>1
    <3>2. next'[m][l] = next[m][l]
      BY <1>3, <1>5, <1>6, <3>1
    <3> QED BY <3>1, <3>2 DEF ListInvariant, OthersLeadNowhere
  <2> QED BY <2>1 DEF OthersLeadNowhere
<1>12. KeysDiffer'
  BY <1>4, <1>7 DEF ListInvariant, KeysDiffer
<1>13. CountsAgree'
  <2>1. IsFiniteSet(Allocated') /\ Cardinality(Allocated') = Cardinality(Allocated) + 1
    BY <1>1, <1>4, FS_AddElement DEF ListInvariant, CountsAgree
  <2>2. len' = len + 1
    BY DEF InsertNew
  <2> QED BY <1>4, <2>1, <2>2 DEF ListInvariant, CountsAgree
<1>14. SearchesStartHighEnough'
  <2>1. /\ maxHeight' = IF h > maxHeight THEN h ELSE maxHeight
        /\ maxHeight \in Int /\ \A m \in Allocated : node[m].height <= maxHeight /\ node[m].height \in Int
    BY <1>1, SeqTypes DEF ListInvariant, SearchesStartHighEnough, ListTypeOK
  <2> QED BY <1>3, <1>4, <2>1 DEF SearchesStartHighEnough
<1>15. ListTypeOK'
  <2>1. next' \in [Tower -> [Level -> Node \cup {Null}]]
    <3>1. \A m \in Tower, l \in Level : next'[m][l] \in Node \cup {Null}
      <4>1. \A l \in Level : p[l] \in Tower
        BY <1>6, SeqTypes
      <4> QED BY <1>3, <1>5, <4>1, SeqTypes
    <3>2. next' = [m \in Tower |-> [l \in Level |-> next'[m][l]]]
      BY <1>1 DEF LinkNodes
    <3> QED BY <3>1, <3>2
  <2>2. Allocated' \subseteq Node
    BY <1>1, <1>4, SeqTypes
  <2>3. \A m \in Allocated' : node'[m] \in NodeData
    BY <1>3, <1>4, SeqTypes DEF NodeData
  <2>4. len' \in Nat /\ maxHeight' \in 1 .. HEIGHT
    BY <1>1, <1>3 DEF InsertNew, ListInvariant, ListTypeOK
  <2> QED BY <2>1, <2>2, <2>3, <2>4 DEF ListTypeOK
<1> QED BY <1>10, <1>11, <1>12, <1>13, <1>14, <1>15 DEF ListInvariant

(* remove takes its node out of every level its tower has, with the prev   *)
(* array of the search for its key.                                        *)
LEMMA UnlinkKeeps ==
    ASSUME ListInvariant, NEW n \in Allocated, NEW k \in Int, node[n].key = k,
           UnlinkAndDealloc(n, Prev(k)), len' = len - 1, maxHeight' = maxHeight
    PROVE  ListInvariant'
<1> USE SeqConstants
<1>1. PICK p : p = Prev(k)
  OBVIOUS
<1>2. /\ Allocated' = Allocated \ {n}
      /\ \A m \in Allocated : m # n => node'[m] = node[m]
  BY DEF UnlinkAndDealloc, Allocated
<1>3. PICK h : h = node[n].height /\ h \in 1 .. HEIGHT /\ h \in Int
  BY SeqTypes
<1>4. \A m \in Tower, l \in Level :
         next'[m][l] = IF m = n THEN Null
                       ELSE IF l < h /\ m = p[l] THEN next[n][l]
                       ELSE next[m][l]
  BY <1>1, <1>3 DEF UnlinkAndDealloc
<1>5. \A m \in Allocated : m \in Node /\ m \in Tower /\ m # head /\ node[m].key \in Int
                           /\ (m # n => node[m].key # k)
  BY SeqTypes DEF ListInvariant, KeysDiffer
<1>6. \A l \in Level : Towers(l)' = Towers(l) \ {n} /\ (n \in Towers(l) <=> l < h)
                       /\ Towers(l) \subseteq Allocated
  BY <1>2, <1>3 DEF Towers
<1>7. \A l \in Level : StopsAt(p[l], k, l) /\ p[l] \in Towers(l) \cup {head} /\ Before(p[l], k)
                       /\ p[l] # n
  BY <1>1, <1>5, PrevStops DEF StopsAt, Before
<1>8. ASSUME NEW l \in Level, NEW m \in Towers(l)' \cup {head}
      PROVE  LeadsUp(m, l)'
  <2>1. m \in Towers(l) \cup {head} /\ m \in Tower /\ m # n /\ LeadsUp(m, l)
    BY <1>5, <1>6, <1>8 DEF ListInvariant, LevelsInOrder
  <2>2. Above(m, l)' = Above(m, l) \ {n}
    BY <1>2, <1>6, <2>1 DEF Above
  <2>3. \A o \in Above(m, l)' : node'[o].key = node[o].key
    BY <1>2, <1>6, <2>2 DEF Above
  <2>4. CASE l >= h
    <3>1. next'[m][l] = next[m][l] /\ n \notin Above(m, l) /\ l \in Int
      BY <1>3, <1>4, <1>6, <2>1, <2>4 DEF Above
    <3> QED BY <2>1, <2>2, <2>3, <3>1 DEF LeadsUp
  <2>5. CASE l < h /\ m = p[l]
    <3>1. next'[m][l] = next[n][l] /\ next[m][l] = n /\ n \in Towers(l) /\ LeadsUp(n, l)
      BY <1>1, <1>4, <1>6, <2>1, <2>5, PrevLeadsTo DEF ListInvariant, LevelsInOrder
    <3>2. n # Null /\ \A o \in Above(m, l) : k <= node[o].key
      BY <1>5, <2>1, <3>1, NextIsAbove
    <3>3. Above(m, l)' \subseteq Above(n, l)
      BY <1>5, <1>6, <2>2, <3>2 DEF Above
    <3>4. Above(n, l) \subseteq Above(m, l)'
      <4>1. m # head => node[m].key < k
        BY <1>7, <2>5 DEF Before
      <4> QED BY <1>5, <1>6, <2>1, <2>2, <4>1 DEF Above
    <3> QED BY <2>3, <3>1, <3>3, <3>4 DEF LeadsUp
  <2>6. CASE l < h /\ m # p[l]
    <3>1. next'[m][l] = next[m][l]
      BY <1>4, <2>1, <2>6
    <3>2. next[m][l] # n
      <4>1. ASSUME next[m][l] = n PROVE StopsAt(m, k, l)
        <5>1. n # Null /\ (m # head => node[m].key < k)
          BY <1>5, <2>1, <4>1, NextIsAbove
        <5> QED BY <2>1, <4>1, <5>1 DEF StopsAt, Before
      <4> QED BY <1>7, <2>6, <4>1, StopUnique
    <3> QED BY <2>1, <2>2, <2>3, <3>1, <3>2 DEF LeadsUp
  <2> QED BY <1>3, <2>4, <2>5, <2>6
<1>9. LevelsInOrder'
  BY <1>8 DEF LevelsInOrder
<1>10. OthersLeadNowhere'
  <2>1. ASSUME NEW l \in Level, NEW m \in Node, m \notin Towers(l)'
        PROVE  next'[m][l] = Null
    <3>1. m = n \/ m \notin Towers(l)
      BY <1>6, <2>1
    <3> QED BY <1>4, <1>7, <3>1 DEF ListInvariant, OthersLeadNowhere
  <2> QED BY <2>1 DEF OthersLeadNowhere
<1>11. KeysDiffer' /\ SearchesStartHighEnough'
  BY <1>2 DEF ListInvariant, KeysDiffer, SearchesStartHighEnough
<1>12. CountsAgree' /\ len' \in Nat
  <2>1. /\ IsFiniteSet(Allocated') /\ Cardinality(Allocated') = Cardinality(Allocated) - 1
        /\ Cardinality(Allocated') \in Nat
    BY <1>2, FS_RemoveElement, FS_CardinalityType DEF ListInvariant, CountsAgree
  <2> QED BY <1>2, <2>1 DEF ListInvariant, CountsAgree
<1>13. ListTypeOK'
  <2>1. next' \in [Tower -> [Level -> Node \cup {Null}]]
    <3>1. \A m \in Tower, l \in Level : next'[m][l] \in Node \cup {Null}
      BY <1>4, <1>5, SeqTypes
    <3>2. next' = [m \in Tower |-> [l \in Level |-> next'[m][l]]]
      BY DEF UnlinkAndDealloc
    <3> QED BY <3>1, <3>2
  <2> QED BY <1>2, <1>12, <2>1, SeqTypes DEF ListTypeOK, ListInvariant
<1> QED BY <1>9, <1>10, <1>11, <1>12, <1>13 DEF ListInvariant

(* Writing values in place changes nothing else.                           *)
LEMMA ValuesKeep ==
    ASSUME ListInvariant, UNCHANGED <<next, len, maxHeight>>,
           Allocated' = Allocated,
           \A n \in Allocated : \E v \in Value : node'[n] = [node[n] EXCEPT !.val = v]
    PROVE  ListInvariant'
<1>1. \A n \in Allocated : /\ node'[n].key = node[n].key /\ node'[n].height = node[n].height
                           /\ node'[n].refs = node[n].refs /\ node'[n] \in NodeData
  BY SeqTypes DEF NodeData
<1>2. \A l \in Level : Towers(l)' = Towers(l)
  BY <1>1 DEF Towers
<1>3. \A l \in Level : \A m \in Towers(l) \cup {head} :
         /\ Above(m, l)' = Above(m, l)
         /\ \A o \in Above(m, l) : node'[o].key = node[o].key
  BY <1>1, <1>2 DEF Above, Towers
<1>4. LevelsInOrder'
  BY <1>2, <1>3 DEF ListInvariant, LevelsInOrder, LeadsUp
<1>5. OthersLeadNowhere'
  BY <1>2 DEF ListInvariant, OthersLeadNowhere
<1>6. KeysDiffer' /\ CountsAgree' /\ SearchesStartHighEnough' /\ ListTypeOK'
  BY <1>1 DEF ListInvariant, KeysDiffer, CountsAgree, SearchesStartHighEnough, ListTypeOK
<1> QED BY <1>4, <1>5, <1>6 DEF ListInvariant

(* The empty list is in order.                                             *)
LEMMA ListInvariantInit == Init => ListInvariant
<1> SUFFICES ASSUME Init PROVE ListInvariant
  OBVIOUS
<1> USE SeqConstants DEF Init
<1>1. Allocated = {}
  BY DEF Allocated
<1>2. \A l \in Level : \A m : Towers(l) = {} /\ Above(m, l) = {}
  BY <1>1 DEF Towers, Above
<1>3. \A m \in Tower, l \in Level : next[m][l] = Null
  OBVIOUS
<1>4. LevelsInOrder /\ OthersLeadNowhere
  BY <1>2, <1>3 DEF LevelsInOrder, LeadsUp, OthersLeadNowhere
<1>5. KeysDiffer /\ CountsAgree /\ SearchesStartHighEnough
  BY <1>1, FS_EmptySet DEF KeysDiffer, CountsAgree, SearchesStartHighEnough
<1>6. ListTypeOK
  BY <1>1 DEF ListTypeOK
<1> QED BY <1>4, <1>5, <1>6 DEF ListInvariant

(* Every operation keeps the list in order.                                *)
LEMMA ListInvariantStep ==
    ASSUME ListInvariant, [Next]_vars
    PROVE  ListInvariant'
<1>1. CASE UNCHANGED list
  BY <1>1 DEF list, ListInvariant, ListTypeOK, LevelsInOrder, LeadsUp, OthersLeadNowhere,
     KeysDiffer, CountsAgree, SearchesStartHighEnough, Towers, Above, Allocated
<1>2. ASSUME NEW k \in Key, NEW v \in Value, Insert(k, v) \/ InsertConditionally(k, v)
      PROVE  ListInvariant'
  <2>1. CASE Target(k) = Null /\ InsertNew(k, v)
    BY <2>1, InsertNewKeeps
  <2>2. CASE /\ Target(k) # Null /\ node' = [node EXCEPT ![Target(k)].val = v]
             /\ UNCHANGED <<next, len, maxHeight>>
    <3>1. PICK n \in Allocated : n = Target(k)
      BY <2>2, SeqConstants, TargetFacts
    <3>2. Allocated' = Allocated
      BY <2>2, <3>1 DEF Allocated
    <3>3. ASSUME NEW m \in Allocated
          PROVE  \E w \in Value : node'[m] = [node[m] EXCEPT !.val = w]
      <4>1. CASE m = n
        BY <2>2, <3>1, <4>1 DEF Allocated
      <4>2. CASE m # n
        BY <2>2, <3>1, <4>2, SeqTypes DEF Allocated, NodeData
      <4> QED BY <4>1, <4>2
    <3> QED BY <2>2, <3>2, <3>3, ValuesKeep
  <2> QED BY <1>1, <1>2, <2>1, <2>2 DEF Insert, InsertConditionally
<1>3. ASSUME NEW k \in Int, NEW c, InternalRemove(k, c)
      PROVE  ListInvariant'
  <2>1. CASE Target(k) # Null /\ UnlinkAndDealloc(Target(k), Prev(k)) /\ len' = len - 1
             /\ maxHeight' = maxHeight
    BY <2>1, TargetFacts, UnlinkKeeps
  <2> QED BY <1>1, <1>3, <2>1 DEF InternalRemove
<1>4. CASE RemoveFirst
  <2>1. CASE UNCHANGED list
    BY <1>1, <2>1
  <2>2. CASE ~IsEmpty /\ InternalRemove(node[next[head][0]].key, <<"remove_first">>)
    <3>1. Allocated # {}
      BY <2>2, FS_EmptySet DEF IsEmpty, ListInvariant, CountsAgree
    <3>2. Above(head, 0) # {} /\ 0 \in Level
      BY <3>1, SeqTypes, SeqConstants DEF Above, Towers
    <3>3. next[head][0] \in Allocated
      BY <3>2, LeadsSomewhere, NextIsAbove, SeqTypes
    <3> QED BY <1>3, <2>2, <3>3, SeqTypes
  <2> QED BY <1>4, <2>1, <2>2 DEF RemoveFirst
<1>5. CASE Write
  <2>1. PICK call \in Lookup \ {<<"traverse_with">>}, v \in Value :
           /\ node' = [n \in Allocated |->
                          IF \E i \in DOMAIN Found(call) : n = Found(call)[i]
                            THEN [node[n] EXCEPT !.val = v] ELSE node[n]]
           /\ UNCHANGED <<next, len, maxHeight>>
    BY <1>5 DEF Write
  <2>2. Allocated' = Allocated
    BY <2>1 DEF Allocated
  <2>3. ASSUME NEW n \in Allocated
        PROVE  \E w \in Value : node'[n] = [node[n] EXCEPT !.val = w]
    <3>1. node'[n] = [node[n] EXCEPT !.val = v] \/ node'[n] = node[n]
      BY <2>1
    <3> QED BY <3>1, SeqTypes DEF NodeData
  <2> QED BY <2>1, <2>2, <2>3, ValuesKeep
<1> QED BY <1>1, <1>2, <1>3, <1>4, <1>5, SeqConstants DEF Next, vars, Remove, Read

-----------------------------------------------------------------------------
(* What the list promises *)

(* Following a level from the head meets all of its towers.                *)
LEMMA LevelsReached ==
    ASSUME ListInvariant, NEW l \in Level
    PROVE  Reachable(l) = Towers(l)
<1>0. \A n \in Towers(l) : n \in Node /\ n \in Allocated /\ n # head /\ node[n].key \in Int
  BY SeqTypes, SeqConstants
<1>1. Closed(Towers(l), l)
  BY NextIsAbove DEF Closed
<1>2. Reachable(l) \subseteq Towers(l)
  BY <1>0, <1>1 DEF Reachable
<1>3. ASSUME NEW S \in SUBSET Node, Closed(S, l), ~(Towers(l) \subseteq S)
      PROVE  FALSE
  <2>1. PICK c : c = Cardinality(Allocated)
    OBVIOUS
  <2>2. \A m : Rank(m, l) \in Nat /\ c \in Nat /\ Rank(m, l) <= c
    <3>1. ASSUME NEW m PROVE Above(m, l) \in SUBSET Allocated
      BY <1>0 DEF Above
    <3> QED BY <2>1, <3>1, RankType, FS_Subset, FS_CardinalityType, SeqTypes DEF Rank
  <2>3. PICK T : T = {c - Rank(m, l) : m \in Towers(l) \ S}
    OBVIOUS
  <2>4. T \subseteq Nat /\ T # {}
    BY <1>3, <2>2, <2>3
  <2>5. PICK d \in T : \A e \in T : d <= e
    BY <2>4, LeastNumber
  <2>6. PICK n \in Towers(l) \ S : d = c - Rank(n, l)
    BY <2>3
  <2>7. PICK o : StopsAt(o, node[n].key, l)
    BY <1>0, WalkStops DEF Before
  <2>8. next[o][l] = n /\ n # Null /\ o \in Towers(l) \cup {head}
    BY <1>0, <2>7, StopLeadsTo, SeqConstants DEF StopsAt
  <2>9. o \in Towers(l) \ S
    BY <1>3, <2>8 DEF Closed
  <2>10. Rank(n, l) < Rank(o, l)
    BY <2>8, NextIsAbove
  <2>11. c - Rank(o, l) \in T
    BY <2>3, <2>9
  <2> QED BY <2>2, <2>5, <2>6, <2>10, <2>11
<1>4. Towers(l) \subseteq Reachable(l)
  BY <1>0, <1>3 DEF Reachable
<1> QED BY <1>2, <1>4

(* The base level holds every node.                                        *)
LEMMA BaseIsAll ==
    ASSUME ListInvariant
    PROVE  Towers(0) = Allocated /\ Reachable(0) = Allocated
<1>1. Towers(0) = Allocated
  BY SeqTypes DEF Towers
<1> QED BY <1>1, LevelsReached, SeqConstants

(* TowersAreLinked, ConvertsToSync and SearchesStartHighEnough follow from *)
(* the invariant.                                                          *)
LEMMA PromisesOfOrder ==
    ASSUME ListInvariant
    PROVE  TowersAreLinked /\ ConvertsToSync /\ SearchesStartHighEnough
<1>1. TowersAreLinked
  BY LevelsReached DEF TowersAreLinked, Towers
<1>2. ASSUME NEW n \in Allocated
      PROVE  node[n].refs = Cardinality({l \in Level : n \in Reachable(l)})
  <2>1. PICK h : h = node[n].height /\ h \in 1 .. HEIGHT
    BY SeqTypes
  <2>2. \A l \in Level : n \in Reachable(l) <=> l < h
    BY <2>1, LevelsReached DEF Towers
  <2>3. {l \in Level : n \in Reachable(l)} = 0 .. h - 1
    BY <2>1, <2>2, SeqConstants
  <2>4. Cardinality(0 .. h - 1) = h
    BY <2>1, SeqConstants, FS_Interval
  <2> QED BY <2>1, <2>3, <2>4 DEF ListInvariant, CountsAgree
<1>3. ConvertsToSync
  BY <1>2, BaseIsAll DEF ConvertsToSync, ListInvariant, CountsAgree
<1> QED BY <1>1, <1>3 DEF ListInvariant

(* In every reachable state each level of the sequential list is the       *)
(* sorted list of the towers that reach it.                                *)
THEOREM ListStaysInOrder == Spec => []ListInvariant
BY ListInvariantInit, ListInvariantStep, PTL DEF Spec

(* TowersAreLinked: no pointer of the list leads to freed memory or past   *)
(* the top of a tower, and no allocated node is lost, at any level, after  *)
(* any calls of insert and remove, and whatever addresses are reused.      *)
THEOREM TowersStayLinked == Spec => []TowersAreLinked
BY ListStaysInOrder, PromisesOfOrder, PTL

(* ConvertsToSync: len and the reference counts are those the lock-free    *)
(* list needs when it takes the nodes over.                                *)
THEOREM AlwaysConverts == Spec => []ConvertsToSync
BY ListStaysInOrder, PromisesOfOrder, PTL

(* SearchesStartHighEnough: max_height covers every tower.                 *)
THEOREM NoSearchStartsTooLow == Spec => []SearchesStartHighEnough
BY ListStaysInOrder, PromisesOfOrder, PTL


-----------------------------------------------------------------------------
(* Sets of keys in order *)

(* q numbers the members of S from 1 to c in increasing order.             *)
Enumerates(q, c, S) ==
    /\ q \in [1 .. c -> S]
    /\ \A i, j \in 1 .. c : i < j => q[i] < q[j]
    /\ \A x \in S : \E i \in 1 .. c : q[i] = x

(* There is one way only to do that.                                       *)
LEMMA EnumerationUnique ==
    ASSUME NEW S \in SUBSET Int, NEW a \in Nat, NEW b \in Nat, NEW q, NEW r,
           Enumerates(q, a, S), Enumerates(r, b, S)
    PROVE  a = b /\ q = r
<1>1. ASSUME NEW c \in Nat, NEW d \in Nat, NEW f, NEW g,
             Enumerates(f, c, S), Enumerates(g, d, S),
             NEW i \in 1 .. c, i \in 1 .. d,
             \A j \in 1 .. i - 1 : f[j] = g[j]
      PROVE  ~(g[i] < f[i])
  <2>1. /\ \A j \in 1 .. c : f[j] \in S /\ f[j] \in Int
        /\ \A j \in 1 .. d : g[j] \in S /\ g[j] \in Int
    BY <1>1 DEF Enumerates
  <2>2. PICK j \in 1 .. c : f[j] = g[i]
    BY <1>1, <2>1 DEF Enumerates
  <2>3. CASE j < i
    <3>1. j \in 1 .. i - 1 /\ g[j] = g[i] /\ j \in 1 .. d
      BY <1>1, <2>2, <2>3
    <3> QED BY <1>1, <2>1, <2>3, <3>1 DEF Enumerates
  <2>4. CASE i <= j
    <3>1. i < j => f[i] < f[j]
      BY <1>1 DEF Enumerates
    <3>2. i < j \/ i = j
      BY <1>1, <2>4
    <3> QED BY <1>1, <2>1, <2>2, <3>1, <3>2
  <2> QED BY <1>1, <2>3, <2>4
<1>2. ASSUME NEW i \in 1 .. a, i \in 1 .. b, \A j \in 1 .. i - 1 : q[j] = r[j]
      PROVE  q[i] = r[i]
  <2>1. ~(r[i] < q[i]) /\ ~(q[i] < r[i])
    BY <1>1, <1>2
  <2>2. q[i] \in Int /\ r[i] \in Int
    BY <1>2 DEF Enumerates
  <2> QED BY <2>1, <2>2
<1>3. \A i \in 1 .. a : i <= b => q[i] = r[i]
  <2>1. PICK T : T = {i \in 1 .. a : i <= b /\ q[i] # r[i]}
    OBVIOUS
  <2>2. ASSUME T # {} PROVE FALSE
    <3>1. PICK i \in T : \A j \in T : i <= j
      BY <2>1, <2>2, LeastNumber
    <3>2. i \in 1 .. a /\ i \in 1 .. b /\ q[i] # r[i]
      BY <2>1
    <3>3. ASSUME NEW j \in 1 .. i - 1 PROVE q[j] = r[j]
      BY <2>1, <3>1, <3>2
    <3> QED BY <1>2, <3>2, <3>3
  <2> QED BY <2>1, <2>2
<1>4. ASSUME NEW c \in Nat, NEW d \in Nat, NEW f, NEW g,
             Enumerates(f, c, S), Enumerates(g, d, S), c < d,
             \A i \in 1 .. c : f[i] = g[i]
      PROVE  FALSE
  <2>1. c + 1 \in 1 .. d /\ g[c + 1] \in S
    BY <1>4 DEF Enumerates
  <2>2. PICK j \in 1 .. c : f[j] = g[c + 1]
    BY <1>4, <2>1 DEF Enumerates
  <2>3. j \in 1 .. d /\ j < c + 1 /\ g[j] = g[c + 1]
    BY <1>4, <2>2
  <2>4. g[j] < g[c + 1] /\ g[j] \in Int
    BY <1>4, <2>1, <2>3 DEF Enumerates
  <2> QED BY <2>3, <2>4
<1>5. ~(a < b)
  <2>1. a < b => \A i \in 1 .. a : q[i] = r[i]
    BY <1>3
  <2> QED BY <1>4, <2>1
<1>6. ~(b < a)
  <2>1. b < a => \A i \in 1 .. b : r[i] = q[i]
    BY <1>3
  <2> QED BY <1>4, <2>1
<1>7. a = b
  BY <1>5, <1>6
<1> QED BY <1>3, <1>7 DEF Enumerates

(* The map counts as the list does.                                        *)
LEMMA MapCardinality == \A S : Map!Cardinality(S) = Cardinality(S)
BY DEF Map!Cardinality, Cardinality

(* So what the map calls InOrder is any such numbering.                    *)
LEMMA InOrderIs ==
    ASSUME NEW S \in SUBSET Int, NEW c \in Nat, NEW q, Enumerates(q, c, S)
    PROVE  IsFiniteSet(S) /\ Cardinality(S) = c /\ Map!InOrder(S) = q
<1>1. IsFiniteSet(1 .. c) /\ Cardinality(1 .. c) = c
  BY FS_Interval
<1>2. ASSUME NEW f \in [1 .. c -> S], \A i, j \in 1 .. c : i < j => f[i] < f[j]
      PROVE  f \in Injection(1 .. c, S)
  <2>1. ASSUME NEW i \in 1 .. c, NEW j \in 1 .. c, f[i] = f[j]
        PROVE  i = j
    <3>1. f[i] \in Int /\ f[j] \in Int
      BY <1>2
    <3>2. ~(i < j) /\ ~(j < i)
      BY <1>2, <2>1, <3>1
    <3> QED BY <3>2
  <2> QED BY <1>2, <2>1 DEF Injection, IsInjective
<1>3. q \in Injection(1 .. c, S) /\ q \in Surjection(1 .. c, S)
  BY <1>2 DEF Enumerates, Surjection
<1>4. IsFiniteSet(S) /\ Cardinality(S) = c
  <2>1. ExistsBijection(1 .. c, S)
    BY <1>3 DEF ExistsBijection, Bijection
  <2> QED BY <1>1, <2>1, FS_Bijection
<1>5. PICK r : r = Map!InOrder(S)
  OBVIOUS
<1>6. q \in [1 .. Cardinality(S) -> S] /\ \A i, j \in DOMAIN q : i < j => q[i] < q[j]
  BY <1>4 DEF Enumerates
<1>7. r \in [1 .. Cardinality(S) -> S] /\ \A i, j \in DOMAIN r : i < j => r[i] < r[j]
  <2>1. r = CHOOSE f \in [1 .. Cardinality(S) -> S] : \A i, j \in DOMAIN f : i < j => f[i] < f[j]
    BY <1>5, MapCardinality DEF Map!InOrder
  <2>2. \E f \in [1 .. Cardinality(S) -> S] : \A i, j \in DOMAIN f : i < j => f[i] < f[j]
    BY <1>6
  <2> QED BY <2>1, <2>2
<1>8. r \in Surjection(1 .. c, S)
  <2>1. r \in Injection(1 .. c, S)
    BY <1>2, <1>4, <1>7
  <2> QED BY <1>1, <1>4, <2>1, FS_Injection
<1>9. Enumerates(r, c, S)
  BY <1>4, <1>7, <1>8 DEF Enumerates, Surjection
<1> QED BY <1>4, <1>5, <1>9, EnumerationUnique


-----------------------------------------------------------------------------
(* Traversals *)

(* q lists the nodes of A in the order of their keys.                      *)
Lists(q, A) ==
    /\ q \in Seq(A)
    /\ \A i, j \in 1 .. Len(q) : i < j => node[q[i]].key < node[q[j]].key
    /\ \A n \in A : \E i \in 1 .. Len(q) : q[i] = n

KeysOf(A) == {node[n].key : n \in A}

KeyList(q) == [i \in 1 .. Len(q) |-> node[q[i]].key]

(* Its keys are then those of A in order.                                  *)
LEMMA ListsKeys ==
    ASSUME ListInvariant, NEW A \in SUBSET Allocated, NEW q, Lists(q, A)
    PROVE  /\ KeysOf(A) \in SUBSET Int /\ Len(q) \in Nat
           /\ Enumerates(KeyList(q), Len(q), KeysOf(A))
<1>1. Len(q) \in Nat /\ \A i \in 1 .. Len(q) : q[i] \in A
  BY LenProperties, ElementOfSeq DEF Lists
<1>2. \A n \in A : node[n].key \in Int
  BY SeqTypes
<1>3. KeysOf(A) \in SUBSET Int
  BY <1>2 DEF KeysOf
<1>4. KeyList(q) \in [1 .. Len(q) -> KeysOf(A)]
  BY <1>1 DEF KeyList, KeysOf
<1>5. \A i, j \in 1 .. Len(q) : i < j => KeyList(q)[i] < KeyList(q)[j]
  BY DEF Lists, KeyList
<1>6. \A x \in KeysOf(A) : \E i \in 1 .. Len(q) : KeyList(q)[i] = x
  BY DEF Lists, KeyList, KeysOf
<1> QED BY <1>1, <1>3, <1>4, <1>5, <1>6 DEF Enumerates

(* There is one such list only.                                            *)
LEMMA ListsUnique ==
    ASSUME ListInvariant, NEW A \in SUBSET Allocated, NEW q, NEW r, Lists(q, A), Lists(r, A)
    PROVE  q = r
<1>1. Len(q) = Len(r) /\ KeyList(q) = KeyList(r)
  BY ListsKeys, EnumerationUnique
<1>2. q \in Seq(A) /\ r \in Seq(A) /\ \A i \in 1 .. Len(q) : q[i] \in A /\ r[i] \in A
  BY <1>1, ElementOfSeq DEF Lists
<1>3. ASSUME NEW i \in 1 .. Len(q) PROVE q[i] = r[i]
  <2>1. node[q[i]].key = node[r[i]].key
    BY <1>1 DEF KeyList
  <2> QED BY <1>2, <2>1 DEF ListInvariant, KeysDiffer
<1> QED BY <1>1, <1>2, <1>3, SeqEqual

(* A list of what is above a tower is its successor, before a list of what *)
(* is above that.                                                          *)
LEMMA ListsFirst ==
    ASSUME ListInvariant, NEW m \in Towers(0) \cup {head}, next[m][0] # Null,
           NEW q, Lists(q, Above(next[m][0], 0))
    PROVE  Lists(<<next[m][0]>> \o q, Above(m, 0))
<1>1. PICK n : n = next[m][0]
  OBVIOUS
<1>2. /\ n \in Towers(0) /\ n \in Above(m, 0) /\ n # head /\ n \in Allocated
      /\ m # head => node[m].key < node[n].key
      /\ \A o \in Above(m, 0) : node[n].key <= node[o].key /\ o \in Allocated
  BY <1>1, NextIsAbove, SeqTypes, SeqConstants DEF Above
<1>3. Above(m, 0) = {n} \cup Above(n, 0)
  <2>1. \A o \in Towers(0) : /\ o \in Allocated /\ node[o].key \in Int /\ node[n].key \in Int
                             /\ (node[o].key = node[n].key => o = n)
    BY <1>2, SeqTypes, SeqConstants DEF ListInvariant, KeysDiffer
  <2>2. m # head => node[m].key \in Int
    BY <2>1
  <2> QED BY <1>2, <2>1, <2>2 DEF Above
<1>4. PICK A : A = Above(m, 0)
  OBVIOUS
<1>5. q \in Seq(A) /\ <<n>> \in Seq(A) /\ Len(<<n>>) = 1 /\ <<n>>[1] = n
  <2>1. q \in Seq(Above(n, 0)) /\ Above(n, 0) \subseteq A
    BY <1>1, <1>3, <1>4 DEF Lists
  <2> QED BY <1>2, <1>4, <2>1, SeqMonotonic
<1>6. PICK s : s = <<n>> \o q
  OBVIOUS
<1>7. /\ s \in Seq(A) /\ Len(s) = Len(q) + 1 /\ Len(q) \in Nat
      /\ s[1] = n
      /\ \A i \in 2 .. Len(s) : s[i] = q[i - 1] /\ i - 1 \in 1 .. Len(q)
  <2>1. Len(q) \in Nat
    BY <1>5, LenProperties
  <2>2. /\ s \in Seq(A) /\ Len(s) = Len(<<n>>) + Len(q)
        /\ \A i \in 1 .. Len(<<n>>) + Len(q) :
              s[i] = IF i <= Len(<<n>>) THEN <<n>>[i] ELSE q[i - Len(<<n>>)]
    BY <1>5, <1>6, ConcatProperties
  <2> QED BY <1>5, <2>1, <2>2
<1>8. \A i \in 1 .. Len(q) : q[i] \in Above(n, 0) /\ node[n].key < node[q[i]].key
  <2>1. \A i \in 1 .. Len(q) : q[i] \in Above(n, 0)
    BY <1>1, ElementOfSeq DEF Lists
  <2> QED BY <1>2, <2>1 DEF Above
<1>9. ASSUME NEW i \in 1 .. Len(s), NEW j \in 1 .. Len(s), i < j
      PROVE  node[s[i]].key < node[s[j]].key
  <2>1. j \in 2 .. Len(s)
    BY <1>7, <1>9
  <2>2. CASE i = 1
    BY <1>7, <1>8, <2>1, <2>2
  <2>3. CASE i # 1
    <3>1. i \in 2 .. Len(s) /\ i - 1 < j - 1
      BY <1>7, <1>9, <2>3
    <3>2. \A a, b \in 1 .. Len(q) : a < b => node[q[a]].key < node[q[b]].key
      BY DEF Lists
    <3> QED BY <1>7, <2>1, <3>1, <3>2
  <2> QED BY <2>2, <2>3
<1>10. ASSUME NEW o \in A
       PROVE  \E i \in 1 .. Len(s) : s[i] = o
  <2>1. CASE o = n
    <3>1. 1 \in 1 .. Len(s)
      BY <1>7
    <3> QED BY <1>7, <2>1, <3>1
  <2>2. CASE o \in Above(n, 0)
    <3>1. PICK j \in 1 .. Len(q) : q[j] = o
      BY <1>1, <2>2 DEF Lists
    <3>2. PICK i \in 2 .. Len(s) : i = j + 1
      BY <1>7, <3>1
    <3>3. i \in 1 .. Len(s) /\ s[i] = q[j]
      BY <1>7, <3>1, <3>2
    <3> QED BY <3>1, <3>3
  <2> QED BY <1>3, <1>4, <2>1, <2>2
<1> QED BY <1>1, <1>4, <1>6, <1>7, <1>9, <1>10 DEF Lists

(* What is above a tower can be listed.                                    *)
LEMMA ListsExist ==
    ASSUME ListInvariant, NEW m \in Towers(0) \cup {head}
    PROVE  \E q : Lists(q, Above(m, 0))
<1>1. PICK B : B = {o \in Towers(0) \cup {head} : ~ \E q : Lists(q, Above(o, 0))}
  OBVIOUS
<1>2. ASSUME B # {} PROVE FALSE
  <2>1. PICK o \in B : \A p \in B : Rank(o, 0) <= Rank(p, 0)
    BY <1>2, LowestRank, SeqConstants
  <2>2. o \in Towers(0) \cup {head} /\ ~ \E q : Lists(q, Above(o, 0))
    BY <1>1
  <2>3. CASE next[o][0] = Null
    <3>1. Above(o, 0) = {}
      BY <2>2, <2>3, LeadsSomewhere, SeqConstants
    <3>2. Lists(<<>>, {})
      BY EmptySeq DEF Lists
    <3> QED BY <2>2, <3>1, <3>2
  <2>4. CASE next[o][0] # Null
    <3>1. next[o][0] \in Towers(0) /\ Rank(next[o][0], 0) < Rank(o, 0)
      BY <2>2, <2>4, NextIsAbove, SeqConstants
    <3>2. next[o][0] \notin B
      BY <2>1, <3>1, RankType, SeqConstants
    <3>3. PICK q : Lists(q, Above(next[o][0], 0))
      BY <1>1, <3>1, <3>2
    <3> QED BY <2>2, <2>4, <3>3, ListsFirst
  <2> QED BY <2>3, <2>4
<1> QED BY <1>1, <1>2

(* traverse_with meets all nodes in the order of their keys, the first one *)
(* first.                                                                  *)
LEMMA TraverseLists ==
    ASSUME ListInvariant
    PROVE  /\ Lists(Traverse, Allocated)
           /\ NextNode(head) = IF Allocated = {} THEN <<>> ELSE <<Traverse[1]>>
           /\ Allocated = {} <=> Traverse = <<>>
<1> USE SeqConstants
<1>0. /\ \A m \in Towers(0) : m \in Tower /\ m \in Allocated
      /\ Above(head, 0) = Allocated
  BY SeqTypes, BaseIsAll DEF Above
<1>1. ASSUME NEW m \in Tower
      PROVE  NextNode(m) = IF next[m][0] = Null THEN <<>> ELSE <<next[m][0]>>
  BY DEF NextNode
<1>2. PICK f : f = [m \in Tower |-> IF m \in Towers(0) \cup {head}
                                    THEN CHOOSE q : Lists(q, Above(m, 0)) ELSE <<>>]
  OBVIOUS
<1>3. ASSUME NEW m \in Towers(0) \cup {head}
      PROVE  Lists(f[m], Above(m, 0)) /\ Above(m, 0) \in SUBSET Allocated
  BY <1>0, <1>2, ListsExist DEF Above
<1>4. ASSUME NEW m \in Tower
      PROVE  f[m] = LET n == NextNode(m) IN IF n = <<>> THEN n ELSE n \o f[n[1]]
  <2>1. CASE next[m][0] = Null
    <3>1. f[m] = <<>>
      <4>1. CASE m \in Towers(0) \cup {head}
        <5>1. Above(m, 0) = {} /\ Lists(<<>>, {})
          BY <2>1, <4>1, LeadsSomewhere, EmptySeq DEF Lists
        <5> QED BY <1>3, <4>1, <5>1, ListsUnique
      <4>2. CASE m \notin Towers(0) \cup {head}
        BY <1>2, <4>2
      <4> QED BY <4>1, <4>2
    <3> QED BY <1>1, <2>1, <3>1
  <2>2. CASE next[m][0] # Null
    <3>1. m \in Towers(0) \cup {head}
      BY <2>2 DEF Tower, ListInvariant, OthersLeadNowhere
    <3>2. next[m][0] \in Towers(0)
      BY <2>2, <3>1, NextIsAbove
    <3>3. Lists(<<next[m][0]>> \o f[next[m][0]], Above(m, 0))
      BY <1>3, <2>2, <3>1, <3>2, ListsFirst
    <3>4. f[m] = <<next[m][0]>> \o f[next[m][0]]
      BY <1>3, <3>1, <3>3, ListsUnique
    <3>5. NextNode(m) = <<next[m][0]>> /\ NextNode(m) # <<>> /\ NextNode(m)[1] = next[m][0]
      BY <1>1, <2>2
    <3> QED BY <3>4, <3>5
  <2> QED BY <2>1, <2>2
<1>5. f = [m \in Tower |-> LET n == NextNode(m) IN IF n = <<>> THEN n ELSE n \o f[n[1]]]
  BY <1>2, <1>4
<1>6. PICK g : /\ g = [m \in Tower |-> LET n == NextNode(m) IN IF n = <<>> THEN n ELSE n \o g[n[1]]]
               /\ Traverse = g[head]
  BY <1>5 DEF Traverse
<1>7. ASSUME NEW m \in Tower
      PROVE  g[m] = IF next[m][0] = Null THEN <<>> ELSE <<next[m][0]>> \o g[next[m][0]]
  <2>1. g[m] = LET n == NextNode(m) IN IF n = <<>> THEN n ELSE n \o g[n[1]]
    BY <1>6
  <2> QED BY <1>1, <2>1
<1>8. PICK B : B = {m \in Towers(0) \cup {head} : ~Lists(g[m], Above(m, 0))}
  OBVIOUS
<1>9. ASSUME B # {} PROVE FALSE
  <2>1. PICK o \in B : \A p \in B : Rank(o, 0) <= Rank(p, 0)
    BY <1>9, LowestRank
  <2>2. o \in Towers(0) \cup {head} /\ o \in Tower /\ ~Lists(g[o], Above(o, 0))
    BY <1>0, <1>8
  <2>3. CASE next[o][0] = Null
    <3>1. g[o] = <<>>
      BY <1>7, <2>2, <2>3
    <3>2. Above(o, 0) = {}
      BY <2>2, <2>3, LeadsSomewhere
    <3>3. Lists(<<>>, {})
      BY EmptySeq DEF Lists
    <3> QED BY <2>2, <3>1, <3>2, <3>3
  <2>4. CASE next[o][0] # Null
    <3>1. next[o][0] \in Towers(0) /\ Rank(next[o][0], 0) < Rank(o, 0)
      BY <2>2, <2>4, NextIsAbove
    <3>2. next[o][0] \notin B
      BY <2>1, <3>1, RankType
    <3>3. Lists(g[next[o][0]], Above(next[o][0], 0))
      BY <1>8, <3>1, <3>2
    <3> QED BY <1>7, <2>2, <2>4, <3>3, ListsFirst
  <2> QED BY <2>3, <2>4
<1>10. Lists(Traverse, Allocated)
  BY <1>0, <1>6, <1>8, <1>9
<1>11. CASE Allocated = {}
  <2>1. next[head][0] = Null
    BY <1>0, <1>11, NextIsAbove
  <2> QED BY <1>1, <1>6, <1>7, <1>10, <1>11, <2>1
<1>12. CASE Allocated # {}
  <2>1. next[head][0] # Null /\ next[head][0] \in Towers(0) /\ next[head][0] \in Allocated
    BY <1>0, <1>12, LeadsSomewhere, NextIsAbove
  <2>2. PICK n \in Allocated : n = next[head][0]
    BY <2>1
  <2>3. g[n] \in Seq(Allocated)
    <3>1. Lists(g[n], Above(n, 0)) /\ Above(n, 0) \subseteq Allocated
      BY <1>3, <1>8, <1>9, <2>1, <2>2
    <3> QED BY <3>1, SeqMonotonic DEF Lists
  <2>4. Traverse = <<n>> \o g[n] /\ <<n>> \in Seq(Allocated) /\ Len(<<n>>) = 1 /\ <<n>>[1] = n
    <3>1. g[head] = <<next[head][0]>> \o g[next[head][0]]
      BY <1>7, <2>1 DEF Tower
    <3>2. <<n>> \in Seq(Allocated) /\ Len(<<n>>) = 1 /\ <<n>>[1] = n
      OBVIOUS
    <3> QED BY <1>6, <2>2, <3>1, <3>2
  <2>5. Traverse[1] = n /\ Len(Traverse) = 1 + Len(g[n]) /\ Len(g[n]) \in Nat
    <3>1. Len(g[n]) \in Nat /\ 1 \in 1 .. 1 + Len(g[n])
      BY <2>3, LenProperties
    <3> QED BY <2>3, <2>4, <3>1, ConcatProperties
  <2>6. Traverse # <<>>
    BY <2>5
  <2> QED BY <1>1, <1>10, <1>12, <2>1, <2>2, <2>5, <2>6
<1> QED BY <1>11, <1>12

-----------------------------------------------------------------------------
(* The entries that are found *)

(* The list's len tells whether it holds a node.                           *)
LEMMA EmptyIs == ASSUME ListInvariant PROVE IsEmpty <=> Allocated = {}
<1>1. Cardinality(Allocated) \in Nat /\ (Cardinality(Allocated) = 0 <=> Allocated = {})
  BY FS_EmptySet, FS_CardinalityType, SeqTypes
<1> QED BY <1>1 DEF IsEmpty, ListInvariant, CountsAgree

(* Contents maps the key of each node to its value, and nothing else.      *)
ContentsOfNodes ==
    /\ DOMAIN Contents = Key /\ Contents = [k \in Key |-> Contents[k]]
    /\ \A n \in Allocated : node[n].key \in Key /\ Contents[node[n].key] = node[n].val
    /\ \A k \in Key : (\A n \in Allocated : node[n].key # k) => Contents[k] = Null

(* This holds of every list in order: a key has one node at most.          *)
LEMMA ContentsAreOfNodes == ListInvariant => ContentsOfNodes
<1> SUFFICES ASSUME ListInvariant PROVE ContentsOfNodes
  OBVIOUS
<1>1. Contents = [k \in Key |->
                     IF {n \in Reachable(0) : node[n].key = k} = {} THEN Null
                     ELSE node[CHOOSE n \in {n \in Reachable(0) : node[n].key = k} : TRUE].val]
  BY DEF Contents
<1>2. ASSUME NEW n \in Allocated
      PROVE  node[n].key \in Key /\ Contents[node[n].key] = node[n].val
  <2>1. PICK k \in Key : k = node[n].key
    BY SeqTypes
  <2>2. {o \in Reachable(0) : node[o].key = k} = {n}
    BY <2>1, BaseIsAll DEF ListInvariant, KeysDiffer
  <2>3. (CHOOSE o \in {n} : TRUE) = n
    OBVIOUS
  <2>4. Contents[k] = IF {n} = {} THEN Null ELSE node[CHOOSE o \in {n} : TRUE].val
    BY <1>1, <2>2
  <2> QED BY <2>1, <2>3, <2>4
<1>3. ASSUME NEW k \in Key, \A n \in Allocated : node[n].key # k
      PROVE  Contents[k] = Null
  <2>1. {o \in Reachable(0) : node[o].key = k} = {}
    BY <1>3, BaseIsAll
  <2> QED BY <1>1, <2>1
<1> QED BY <1>1, <1>2, <1>3 DEF ContentsOfNodes

(* The same, to cite.                                                      *)
LEMMA ContentsFacts ==
    ASSUME ListInvariant
    PROVE  /\ DOMAIN Contents = Key /\ Contents = [k \in Key |-> Contents[k]]
           /\ \A n \in Allocated : /\ node[n].key \in Key
                                   /\ Contents[node[n].key] = node[n].val
           /\ \A k \in Key : (\A n \in Allocated : node[n].key # k) => Contents[k] = Null
BY ContentsAreOfNodes DEF ContentsOfNodes

(* The keys the map has are those of the nodes.                            *)
LEMMA PresentIs == ASSUME ListInvariant PROVE Map!Present = KeysOf(Allocated)
<1>1. ASSUME NEW k \in Map!Present PROVE k \in KeysOf(Allocated)
  BY ContentsFacts DEF Map!Present, KeysOf
<1>2. ASSUME NEW k \in KeysOf(Allocated) PROVE k \in Map!Present
  <2>1. PICK n \in Allocated : k = node[n].key
    BY DEF KeysOf
  <2> QED BY <2>1, ContentsFacts, SeqTypes, SeqConstants DEF Map!Present
<1> QED BY <1>1, <1>2

(* The map's entries for the keys of some nodes are what the list answers  *)
(* for the nodes.                                                          *)
LEMMA EntriesAgree ==
    ASSUME ListInvariant, NEW q \in Seq(Allocated)
    PROVE  /\ Map!Entries(KeyList(q)) = Entries(q)
           /\ Entries(q) \in Seq(Value \cup (Key \X Value))
           /\ DOMAIN KeyList(q) = 1 .. Len(q) /\ DOMAIN q = 1 .. Len(q)
<1>1. /\ Len(q) \in Nat /\ DOMAIN q = 1 .. Len(q)
      /\ \A i \in 1 .. Len(q) : q[i] \in Allocated
  BY LenProperties, ElementOfSeq
<1>2. DOMAIN KeyList(q) = 1 .. Len(q)
  BY DEF KeyList
<1>3. Map!Entries(KeyList(q)) = Entries(q)
  <2>1. ASSUME NEW i \in 1 .. Len(q)
        PROVE  <<KeyList(q)[i], Contents[KeyList(q)[i]]>> = EntryAt(q[i])
    BY <1>1, ContentsFacts DEF KeyList, EntryAt
  <2> QED BY <1>1, <1>2, <2>1 DEF Map!Entries, Entries
<1>4. \A i \in 1 .. Len(q) : EntryAt(q[i]) \in Value \cup (Key \X Value)
  BY <1>1, SeqTypes DEF EntryAt
<1>5. Entries(q) \in [1 .. Len(q) -> Value \cup (Key \X Value)]
  BY <1>1, <1>4 DEF Entries
<1> QED BY <1>1, <1>2, <1>3, <1>5, SeqDef

(* The map's first keys: of one key at most, and of all.                   *)
LEMMA FirstOfOne ==
    ASSUME NEW k \in Int, NEW S \in SUBSET Int
    PROVE  Map!First(S \cap {k}) = IF k \in S THEN <<k>> ELSE <<>>
<1>1. CASE k \in S
  <2>1. S \cap {k} = {k} /\ {k} # {}
    BY <1>1
  <2>2. Enumerates(<<k>>, 1, {k})
    BY DEF Enumerates
  <2>3. Map!InOrder({k}) = <<k>>
    <3>1. {k} \in SUBSET Int /\ 1 \in Nat
      OBVIOUS
    <3> QED BY <2>2, <3>1, InOrderIs
  <2>4. Map!First({k}) = <<Map!InOrder({k})[1]>>
    BY DEF Map!First
  <2>5. <<Map!InOrder({k})[1]>> = <<k>>
    BY <2>3
  <2> QED BY <1>1, <2>1, <2>4, <2>5
<1>2. CASE k \notin S
  <2>1. S \cap {k} = {}
    BY <1>2
  <2> QED BY <1>2, <2>1 DEF Map!First
<1> QED BY <1>1, <1>2

(* The keys of all nodes in order are those that traverse_with meets.      *)
LEMMA KeysInOrder ==
    ASSUME ListInvariant
    PROVE  /\ Traverse \in Seq(Allocated) /\ Len(Traverse) \in Nat
           /\ Map!InOrder(Map!Present) = KeyList(Traverse)
           /\ Map!Cardinality(Map!Present) = Len(Traverse)
           /\ Map!Present = {} <=> Traverse = <<>>
<1>1. Lists(Traverse, Allocated) /\ (Allocated = {} <=> Traverse = <<>>)
  BY TraverseLists
<1>2. /\ KeysOf(Allocated) \in SUBSET Int /\ Len(Traverse) \in Nat
      /\ Enumerates(KeyList(Traverse), Len(Traverse), KeysOf(Allocated))
  BY <1>1, ListsKeys
<1>3. /\ Cardinality(KeysOf(Allocated)) = Len(Traverse)
      /\ Map!InOrder(KeysOf(Allocated)) = KeyList(Traverse)
  BY <1>2, InOrderIs
<1>4. Map!Cardinality(KeysOf(Allocated)) = Cardinality(KeysOf(Allocated))
  BY MapCardinality
<1>5. KeysOf(Allocated) = {} <=> Allocated = {}
  BY DEF KeysOf
<1> QED BY <1>1, <1>2, <1>3, <1>4, <1>5, PresentIs DEF Lists

(* A list of one node has its key.                                         *)
LEMMA OneKey ==
    ASSUME ListInvariant, NEW n \in Allocated
    PROVE  <<n>> \in Seq(Allocated) /\ KeyList(<<n>>) = <<node[n].key>>
<1>1. Len(<<n>>) = 1 /\ <<n>>[1] = n
  OBVIOUS
<1>2. KeyList(<<n>>) = [i \in 1 .. 1 |-> node[n].key]
  BY <1>1 DEF KeyList
<1> QED BY <1>2

(* The empty list of nodes has no keys.                                    *)
LEMMA NoKeys == KeyList(<<>>) = <<>> /\ <<>> \in Seq(Allocated)
BY DEF KeyList

(* get and entry find the node of the key.                                 *)
LEMMA KeyFound ==
    ASSUME ListInvariant, NEW k \in Int
    PROVE  /\ FindKey(k) \in Seq(Allocated)
           /\ KeyList(FindKey(k)) = Map!First(Map!Present \cap {k})
           /\ FindKey(k) = IF Target(k) = Null THEN <<>> ELSE <<Target(k)>>
           /\ k \in Map!Present <=> Target(k) # Null
           /\ IsEmpty => Target(k) = Null
<1>1. /\ Target(k) # Null => Target(k) \in Allocated /\ node[Target(k)].key = k
      /\ Target(k) = Null => \A n \in Allocated : node[n].key # k
  BY TargetFacts
<1>2. k \in Map!Present <=> Target(k) # Null
  BY <1>1, PresentIs DEF KeysOf
<1>3. IsEmpty => Target(k) = Null
  BY <1>1, EmptyIs
<1>4. Map!Present \in SUBSET Int
  BY PresentIs, SeqTypes DEF KeysOf
<1>5. Map!First(Map!Present \cap {k}) = IF k \in Map!Present THEN <<k>> ELSE <<>>
  BY <1>4, FirstOfOne
<1>6. FindKey(k) = IF Target(k) = Null THEN <<>> ELSE <<Target(k)>>
  BY <1>3 DEF FindKey
<1>7. CASE Target(k) = Null
  BY <1>2, <1>3, <1>5, <1>6, <1>7, NoKeys
<1>8. CASE Target(k) # Null
  <2>1. PICK n \in Allocated : n = Target(k) /\ node[n].key = k
    BY <1>1, <1>8
  <2>2. FindKey(k) = <<n>> /\ Map!First(Map!Present \cap {k}) = <<k>>
    BY <1>2, <1>5, <1>6, <1>8, <2>1
  <2> QED BY <1>2, <1>3, <1>6, <2>1, <2>2, OneKey
<1> QED BY <1>7, <1>8

(* get_first, the iterators and get_last go by the base level alone.       *)
LEMMA FirstAndLastFound ==
    ASSUME ListInvariant
    PROVE  /\ FindFirst \in Seq(Allocated) /\ KeyList(FindFirst) = Map!First(Map!Present)
           /\ Iterate = Traverse
           /\ FindLast \in Seq(Allocated) /\ KeyList(FindLast) = Map!Last(Map!Present)
<1>1. /\ NextNode(head) = IF Allocated = {} THEN <<>> ELSE <<Traverse[1]>>
      /\ Allocated = {} <=> Traverse = <<>>
  BY TraverseLists
<1>2. FindFirst = IF Allocated = {} THEN <<>> ELSE <<Traverse[1]>>
  BY <1>1, EmptyIs DEF FindFirst
<1>3. Iterate = Traverse
  BY <1>1, <1>2 DEF Iterate
<1>4. FindLast = IF Traverse = <<>> THEN <<>> ELSE <<Traverse[Len(Traverse)]>>
  BY <1>3 DEF FindLast
<1>5. CASE Traverse = <<>>
  <2>1. Map!Present = {} /\ FindFirst = <<>> /\ FindLast = <<>>
    BY <1>1, <1>2, <1>4, <1>5, KeysInOrder
  <2>2. Map!First({}) = <<>> /\ Map!Last({}) = <<>>
    BY DEF Map!First, Map!Last
  <2> QED BY <1>3, <2>1, <2>2, NoKeys
<1>6. CASE Traverse # <<>>
  <2>1. PICK q \in Seq(Allocated) : q = Traverse
    BY KeysInOrder
  <2>2. PICK c \in Nat : c = Len(q)
    BY KeysInOrder, <2>1
  <2>3. c # 0
    BY <1>6, <2>1, <2>2, EmptySeq
  <2>4. 1 \in 1 .. c /\ c \in 1 .. c
    BY <2>3
  <2>5. q[1] \in Allocated /\ q[c] \in Allocated
    BY <2>2, <2>4, ElementOfSeq
  <2>6. KeyList(q)[1] = node[q[1]].key /\ KeyList(q)[c] = node[q[c]].key
    BY <2>2, <2>4 DEF KeyList
  <2>7. FindFirst = <<q[1]>> /\ FindLast = <<q[c]>>
    BY <1>1, <1>2, <1>4, <1>6, <2>1, <2>2
  <2>8. /\ Map!Present # {} /\ Map!InOrder(Map!Present) = KeyList(q)
        /\ Map!Cardinality(Map!Present) = c
    BY <1>6, <2>1, <2>2, KeysInOrder
  <2>9. /\ Map!First(Map!Present) = <<KeyList(q)[1]>>
        /\ Map!Last(Map!Present) = <<KeyList(q)[c]>>
    BY <2>8 DEF Map!First, Map!Last
  <2>10. /\ KeyList(FindFirst) = <<node[q[1]].key>> /\ FindFirst \in Seq(Allocated)
         /\ KeyList(FindLast) = <<node[q[c]].key>> /\ FindLast \in Seq(Allocated)
    BY <2>5, <2>7, OneKey
  <2> QED BY <1>3, <2>6, <2>9, <2>10
<1> QED BY <1>5, <1>6

(* Each way to look up finds the nodes of the keys the map finds.          *)
LEMMA FoundAgrees ==
    ASSUME ListInvariant, NEW call \in Lookup
    PROVE  /\ Found(call) \in Seq(Allocated)
           /\ Map!Found(call) = KeyList(Found(call))
           /\ call \in Map!Lookup
<1>1. CASE \E k \in Key : call = <<"get", k>>
  <2>1. PICK k \in Key : call = <<"get", k>>
    BY <1>1
  <2>2. call[1] = "get" /\ call[2] = k /\ k \in Int
    BY <2>1, SeqConstants
  <2>3. Found(call) = FindKey(k) /\ Map!Found(call) = Map!First(Map!Present \cap {k})
    BY <2>2 DEF Found, Map!Found
  <2> QED BY <2>1, <2>2, <2>3, KeyFound DEF Map!Lookup
<1>2. CASE call = <<"get_first">>
  <2>1. call[1] = "get_first"
    BY <1>2
  <2>2. Found(call) = FindFirst /\ Map!Found(call) = Map!First(Map!Present)
    BY <2>1 DEF Found, Map!Found
  <2> QED BY <1>2, <2>2, FirstAndLastFound DEF Map!Lookup
<1>3. CASE call = <<"get_last">>
  <2>1. call[1] = "get_last"
    BY <1>3
  <2>2. Found(call) = FindLast /\ Map!Found(call) = Map!Last(Map!Present)
    BY <2>1 DEF Found, Map!Found
  <2> QED BY <1>3, <2>2, FirstAndLastFound DEF Map!Lookup
<1>4. CASE call = <<"iter">> \/ call = <<"traverse_with">>
  <2>1. call[1] = "iter" \/ call[1] = "traverse_with"
    BY <1>4
  <2>2. Found(call) = Traverse /\ Map!Found(call) = Map!InOrder(Map!Present)
    BY <2>1, FirstAndLastFound DEF Found, Map!Found
  <2> QED BY <1>4, <2>2, KeysInOrder DEF Map!Lookup
<1> QED BY <1>1, <1>2, <1>3, <1>4 DEF Lookup

-----------------------------------------------------------------------------
(* What the operations do to the contents *)

(* A map that agrees with the nodes after a step is the contents then.     *)
LEMMA ContentsMatch ==
    ASSUME ListInvariant', NEW f, f = [k \in Key |-> f[k]],
           \A n \in Allocated' : f[node'[n].key] = node'[n].val,
           \A k \in Key : (\A n \in Allocated' : node'[n].key # k) => f[k] = Null
    PROVE  Contents' = f
<1>1. /\ Contents' = [k \in Key |-> Contents'[k]]
      /\ \A n \in Allocated' : node'[n].key \in Key /\ Contents'[node'[n].key] = node'[n].val
      /\ \A k \in Key : (\A n \in Allocated' : node'[n].key # k) => Contents'[k] = Null
  <2>1. (ListInvariant => ContentsOfNodes)'
    BY ContentsAreOfNodes, PTL
  <2> QED BY <2>1 DEF ContentsOfNodes
<1>2. ASSUME NEW k \in Key PROVE Contents'[k] = f[k]
  <2>1. CASE \E n \in Allocated' : node'[n].key = k
    BY <1>1, <2>1
  <2>2. CASE \A n \in Allocated' : node'[n].key # k
    BY <1>1, <2>2
  <2> QED BY <2>1, <2>2
<1> QED BY <1>1, <1>2

(* A new node gives its key its value.                                     *)
LEMMA InsertNewContents ==
    ASSUME ListInvariant, ListInvariant', NEW k \in Key, NEW v \in Value,
           Target(k) = Null, InsertNew(k, v)
    PROVE  Contents' = [Contents EXCEPT ![k] = v]
<1>1. PICK n \in Node \ Allocated, h \in Heights :
         node' = [m \in Allocated \cup {n} |->
                     IF m = n THEN [key |-> k, val |-> v, height |-> h, refs |-> h]
                     ELSE node[m]]
  BY DEF InsertNew
<1>2. PICK f : f = [Contents EXCEPT ![k] = v]
  OBVIOUS
<1>3. /\ f = [j \in Key |-> f[j]] /\ f[k] = v
      /\ \A j \in Key : j # k => f[j] = Contents[j]
  BY <1>2, ContentsFacts
<1>4. /\ Allocated' = Allocated \cup {n}
      /\ node'[n].key = k /\ node'[n].val = v
      /\ \A m \in Allocated : node'[m] = node[m]
  BY <1>1 DEF Allocated
<1>5. ASSUME NEW m \in Allocated
      PROVE  node'[m] = node[m] /\ f[node[m].key] = node[m].val
  <2>1. node[m].key # k /\ node[m].key \in Key
    BY TargetFacts, SeqTypes, SeqConstants
  <2> QED BY <1>3, <1>4, <2>1, ContentsFacts
<1>6. \A m \in Allocated' : f[node'[m].key] = node'[m].val
  BY <1>3, <1>4, <1>5
<1>7. ASSUME NEW j \in Key, \A m \in Allocated' : node'[m].key # j
      PROVE  f[j] = Null
  <2>1. j # k /\ \A m \in Allocated : node[m].key # j
    BY <1>4, <1>7
  <2> QED BY <1>3, <2>1, ContentsFacts
<1> QED BY <1>2, <1>3, <1>6, <1>7, ContentsMatch

(* Writing values to some nodes changes the contents at their keys.        *)
LEMMA WriteContents ==
    ASSUME ListInvariant, ListInvariant', NEW v \in Value, NEW A \in SUBSET Allocated,
           Allocated' = Allocated,
           \A n \in Allocated : /\ node'[n].key = node[n].key
                               /\ node'[n].val = IF n \in A THEN v ELSE node[n].val
    PROVE  Contents' = [k \in Key |-> IF k \in KeysOf(A) THEN v ELSE Contents[k]]
<1>1. PICK f : f = [k \in Key |-> IF k \in KeysOf(A) THEN v ELSE Contents[k]]
  OBVIOUS
<1>2. f = [k \in Key |-> f[k]]
  BY <1>1
<1>3. ASSUME NEW n \in Allocated
      PROVE  f[node'[n].key] = node'[n].val /\ node'[n].key = node[n].key
  <2>1. node[n] \in NodeData /\ node[n].key \in Key /\ Contents[node[n].key] = node[n].val
    BY SeqTypes, ContentsFacts
  <2>2. node[n].key \in KeysOf(A) <=> n \in A
    BY DEF KeysOf, ListInvariant, KeysDiffer
  <2> QED BY <1>1, <2>1, <2>2
<1>4. ASSUME NEW k \in Key, \A n \in Allocated' : node'[n].key # k
      PROVE  f[k] = Null
  <2>1. \A n \in Allocated : node[n].key # k
    BY <1>3, <1>4
  <2>2. k \notin KeysOf(A)
    BY <2>1 DEF KeysOf
  <2> QED BY <1>1, <2>1, <2>2, ContentsFacts
<1> QED BY <1>1, <1>2, <1>3, <1>4, ContentsMatch

(* Freeing a node takes its key out.                                       *)
LEMMA RemoveContents ==
    ASSUME ListInvariant, ListInvariant', NEW n \in Allocated,
           NEW prev, UnlinkAndDealloc(n, prev)
    PROVE  Contents' = [Contents EXCEPT ![node[n].key] = Null]
<1>1. PICK k \in Key : k = node[n].key
  BY SeqTypes
<1>2. PICK f : f = [Contents EXCEPT ![k] = Null]
  OBVIOUS
<1>3. /\ f = [j \in Key |-> f[j]] /\ f[k] = Null
      /\ \A j \in Key : j # k => f[j] = Contents[j]
  BY <1>2, ContentsFacts
<1>4. Allocated' = Allocated \ {n} /\ \A m \in Allocated \ {n} : node'[m] = node[m]
  BY DEF UnlinkAndDealloc, Allocated
<1>5. ASSUME NEW m \in Allocated'
      PROVE  f[node'[m].key] = node'[m].val
  <2>1. m \in Allocated /\ m # n /\ node'[m] = node[m]
    BY <1>4
  <2>2. node[m].key # k /\ node[m].key \in Key
    BY <1>1, <2>1, SeqTypes DEF ListInvariant, KeysDiffer
  <2> QED BY <1>3, <2>1, <2>2, ContentsFacts
<1>6. ASSUME NEW j \in Key, \A m \in Allocated' : node'[m].key # j
      PROVE  f[j] = Null
  <2>1. CASE j = k
    BY <1>3, <2>1
  <2>2. CASE j # k
    <3>1. \A m \in Allocated : node[m].key # j
      BY <1>1, <1>4, <1>6, <2>2
    <3> QED BY <1>3, <2>2, <3>1, ContentsFacts
  <2> QED BY <2>1, <2>2
<1>7. Contents' = f
  BY <1>3, <1>5, <1>6, ContentsMatch
<1> QED BY <1>1, <1>2, <1>7

-----------------------------------------------------------------------------
(* The list implements the map *)

Answers == Seq(Value \cup (Key \X Value))

(* An answer of at most one value.                                         *)
LEMMA SmallAnswers == <<>> \in Answers /\ \A v \in Value : <<v>> \in Answers
BY DEF Answers

(* insert is the map's insert: it swaps the value of a key that has a      *)
(* node.                                                                   *)
LEMMA InsertImplements ==
    ASSUME ListInvariant, ListInvariant', NEW k \in Key, NEW v \in Value, Insert(k, v)
    PROVE  Map!Insert(k, v) /\ answer' \in Answers
<1>1. k \in Int /\ (k \in Map!Present <=> Target(k) # Null)
  BY KeyFound, SeqConstants
<1>2. CASE Target(k) = Null
  <2>1. InsertNew(k, v) /\ Return(<<"insert", k, v>>, <<>>)
    BY <1>2 DEF Insert
  <2>2. Contents' = [Contents EXCEPT ![k] = v]
    BY <1>2, <2>1, InsertNewContents
  <2> QED BY <1>1, <1>2, <2>1, <2>2, SmallAnswers DEF Map!Insert, Map!Return, Return
<1>3. CASE Target(k) # Null
  <2>1. PICK n \in Allocated : n = Target(k) /\ node[n].key = k
    BY <1>1, <1>3, TargetFacts
  <2>2. node' = [node EXCEPT ![n].val = v] /\ Return(<<"insert", k, v>>, <<node[n].val>>)
    BY <1>3, <2>1 DEF Insert
  <2>3. Allocated' = Allocated
    BY <2>2 DEF Allocated
  <2>4. ASSUME NEW m \in Allocated
        PROVE  /\ node'[m].key = node[m].key
               /\ node'[m].val = IF m \in {n} THEN v ELSE node[m].val
    BY <2>2, SeqTypes DEF Allocated, NodeData
  <2>5. Contents' = [j \in Key |-> IF j \in KeysOf({n}) THEN v ELSE Contents[j]]
    BY <2>3, <2>4, WriteContents
  <2>6. KeysOf({n}) = {k}
    BY <2>1 DEF KeysOf
  <2>7. Contents' = [Contents EXCEPT ![k] = v]
    BY <2>5, <2>6, ContentsFacts
  <2>8. Contents[k] = node[n].val /\ node[n].val \in Value
    BY <2>1, ContentsFacts, SeqTypes
  <2> QED BY <1>1, <1>3, <2>2, <2>7, <2>8, SmallAnswers DEF Map!Insert, Map!Return, Return
<1> QED BY <1>2, <1>3

(* insert_conditionally is the map's: it hands the new value back instead. *)
LEMMA InsertConditionallyImplements ==
    ASSUME ListInvariant, ListInvariant', NEW k \in Key, NEW v \in Value,
           InsertConditionally(k, v), UNCHANGED list => UNCHANGED Contents
    PROVE  Map!InsertConditionally(k, v) /\ answer' \in Answers
<1>1. k \in Int /\ (k \in Map!Present <=> Target(k) # Null)
  BY KeyFound, SeqConstants
<1>2. k \in Map!Present <=> Contents[k] # Null
  BY DEF Map!Present
<1>3. CASE Target(k) = Null
  <2>1. InsertNew(k, v) /\ Return(<<"insert_conditionally", k, v>>, <<>>)
    BY <1>3 DEF InsertConditionally
  <2>2. Contents' = [Contents EXCEPT ![k] = v]
    BY <1>3, <2>1, InsertNewContents
  <2>3. Contents' = [Contents EXCEPT ![k] = IF @ = Null THEN v ELSE @]
    BY <1>1, <1>2, <1>3, <2>2
  <2> QED BY <1>1, <1>3, <2>1, <2>3, SmallAnswers
          DEF Map!InsertConditionally, Map!Return, Return
<1>4. CASE Target(k) # Null
  <2>1. Contents' = Contents /\ Return(<<"insert_conditionally", k, v>>, <<v>>)
    BY <1>4 DEF InsertConditionally
  <2>2. Contents' = [Contents EXCEPT ![k] = IF @ = Null THEN v ELSE @]
    BY <1>1, <1>2, <1>4, <2>1, ContentsFacts
  <2> QED BY <1>1, <1>4, <2>1, <2>2, SmallAnswers
          DEF Map!InsertConditionally, Map!Return, Return
<1> QED BY <1>3, <1>4

(* Removing a key by internal_remove, as remove and remove_first do.       *)
LEMMA InternalRemoveDoes ==
    ASSUME ListInvariant, ListInvariant', NEW k \in Key, NEW call,
           InternalRemove(k, call), UNCHANGED list => UNCHANGED Contents
    PROVE  /\ Map!Return(call, Map!Entries(Map!First(Map!Present \cap {k})))
           /\ Contents' = [Contents EXCEPT ![k] = Null]
           /\ answer' \in Answers
<1>1. /\ k \in Int
      /\ FindKey(k) \in Seq(Allocated)
      /\ KeyList(FindKey(k)) = Map!First(Map!Present \cap {k})
      /\ FindKey(k) = IF Target(k) = Null THEN <<>> ELSE <<Target(k)>>
      /\ IsEmpty => Target(k) = Null
  BY KeyFound, SeqConstants
<1>2. /\ Map!Entries(Map!First(Map!Present \cap {k})) = Entries(FindKey(k))
      /\ Entries(FindKey(k)) \in Answers
  <2>1. /\ Map!Entries(KeyList(FindKey(k))) = Entries(FindKey(k))
        /\ Entries(FindKey(k)) \in Seq(Value \cup (Key \X Value))
    BY <1>1, EntriesAgree
  <2> QED BY <1>1, <2>1 DEF Answers
<1>3. CASE Target(k) # Null
  <2>1. PICK n \in Allocated : n = Target(k) /\ node[n].key = k
    BY <1>1, <1>3, TargetFacts
  <2>2. UnlinkAndDealloc(n, Prev(k)) /\ Return(call, <<EntryAt(n)>>)
    BY <1>1, <1>3, <2>1 DEF InternalRemove
  <2>3. Contents' = [Contents EXCEPT ![k] = Null]
    <3>1. PICK prev : prev = Prev(k)
      OBVIOUS
    <3> QED BY <2>1, <2>2, <3>1, RemoveContents
  <2>4. Entries(<<n>>) = <<EntryAt(n)>>
    BY DEF Entries
  <2>5. FindKey(k) = <<n>>
    BY <1>1, <1>3, <2>1
  <2> QED BY <1>2, <2>2, <2>3, <2>4, <2>5 DEF Map!Return, Return
<1>4. CASE Target(k) = Null
  <2>1. Return(call, <<>>) /\ Contents' = Contents
    BY <1>4 DEF InternalRemove
  <2>2. Contents[k] = Null
    BY <1>1, <1>4, TargetFacts, ContentsFacts
  <2>3. Entries(<<>>) = <<>> /\ FindKey(k) = <<>>
    BY <1>1, <1>4 DEF Entries
  <2> QED BY <1>2, <2>1, <2>2, <2>3, ContentsFacts DEF Map!Return, Return
<1> QED BY <1>3, <1>4

(* remove_first removes the first key: that of the head's first node.      *)
LEMMA RemoveFirstImplements ==
    ASSUME ListInvariant, ListInvariant', RemoveFirst, UNCHANGED list => UNCHANGED Contents
    PROVE  Map!RemoveFirst /\ answer' \in Answers
<1>1. /\ FindFirst \in Seq(Allocated) /\ KeyList(FindFirst) = Map!First(Map!Present)
  BY FirstAndLastFound
<1>2. CASE IsEmpty
  <2>1. Return(<<"remove_first">>, <<>>) /\ Contents' = Contents
    BY <1>2 DEF RemoveFirst, InternalRemove
  <2>2. FindFirst = <<>>
    BY <1>2 DEF FindFirst
  <2>3. Map!First(Map!Present) = <<>>
    BY <1>1, <2>2, NoKeys
  <2>4. Map!Entries(<<>>) = <<>>
    BY DEF Map!Entries
  <2>5. Contents' = [k \in Key |-> IF Map!First(Map!Present) = <<k>> THEN Null ELSE Contents[k]]
    BY <2>1, <2>3, ContentsFacts
  <2> QED BY <2>1, <2>3, <2>4, <2>5, SmallAnswers DEF Map!RemoveFirst, Map!Return, Return
<1>3. CASE ~IsEmpty
  <2>1. Allocated # {} /\ next[head][0] # Null /\ next[head][0] \in Allocated
    <3>1. Allocated # {}
      BY <1>3, EmptyIs
    <3>2. Above(head, 0) # {} /\ 0 \in Level
      BY <3>1, BaseIsAll, SeqConstants DEF Above
    <3> QED BY <3>1, <3>2, LeadsSomewhere, NextIsAbove, SeqTypes
  <2>2. PICK n \in Allocated : n = next[head][0]
    BY <2>1
  <2>3. PICK k \in Key : k = node[n].key
    BY SeqTypes
  <2>4. FindFirst = <<n>>
    BY <1>3, <2>1, <2>2 DEF FindFirst, NextNode
  <2>5. Map!First(Map!Present) = <<k>>
    BY <1>1, <2>3, <2>4, OneKey
  <2>6. k \in Map!Present /\ k \in Int
    BY <2>3, PresentIs, SeqConstants DEF KeysOf
  <2>7. Map!First(Map!Present \cap {k}) = <<k>>
    <3>1. Map!Present \in SUBSET Int
      BY PresentIs, SeqTypes DEF KeysOf
    <3> QED BY <2>6, <3>1, FirstOfOne
  <2>8. InternalRemove(k, <<"remove_first">>)
    BY <1>3, <2>2, <2>3 DEF RemoveFirst
  <2>9. /\ Map!Return(<<"remove_first">>, Map!Entries(<<k>>))
        /\ Contents' = [Contents EXCEPT ![k] = Null]
        /\ answer' \in Answers
    BY <2>7, <2>8, InternalRemoveDoes
  <2>10. Contents' = [j \in Key |-> IF <<k>> = <<j>> THEN Null ELSE Contents[j]]
    <3>1. \A j \in Key : <<k>> = <<j>> <=> k = j
      OBVIOUS
    <3> QED BY <2>9, <3>1, ContentsFacts
  <2> QED BY <2>5, <2>9, <2>10 DEF Map!RemoveFirst
<1> QED BY <1>2, <1>3

(* get, the iterators and their mutable forms find, and write to, the      *)
(* entries of the keys that the map finds.                                 *)
LEMMA LookupImplements ==
    ASSUME ListInvariant, ListInvariant', Read \/ Write, UNCHANGED list => UNCHANGED Contents
    PROVE  (Map!Read \/ Map!Write) /\ answer' \in Answers
<1>1. ASSUME NEW call \in Lookup
      PROVE  /\ Found(call) \in Seq(Allocated)
             /\ Map!Found(call) = KeyList(Found(call))
             /\ call \in Map!Lookup
             /\ Map!Entries(Map!Found(call)) = Entries(Found(call))
             /\ Entries(Found(call)) \in Answers
             /\ DOMAIN Map!Found(call) = 1 .. Len(Found(call))
             /\ DOMAIN Found(call) = 1 .. Len(Found(call))
  <2>1. /\ Found(call) \in Seq(Allocated) /\ Map!Found(call) = KeyList(Found(call))
        /\ call \in Map!Lookup
    BY FoundAgrees
  <2> QED BY <2>1, EntriesAgree DEF Answers
<1>2. CASE Read
  <2>1. PICK call \in Lookup : Return(call, Entries(Found(call))) /\ UNCHANGED list
    BY <1>2 DEF Read
  <2> QED BY <1>1, <2>1 DEF Map!Read, Map!Return, Return
<1>3. CASE Write
  <2>1. PICK call \in Lookup, v \in Value :
           /\ Return(call \o <<v>>, Entries(Found(call)))
           /\ node' = [n \in Allocated |->
                          IF \E i \in DOMAIN Found(call) : n = Found(call)[i]
                            THEN [node[n] EXCEPT !.val = v] ELSE node[n]]
    BY <1>3 DEF Write
  <2>2. PICK q \in Seq(Allocated) : q = Found(call)
    BY <1>1
  <2>3. PICK A \in SUBSET Allocated :
           A = {n \in Allocated : \E i \in 1 .. Len(q) : n = q[i]}
    OBVIOUS
  <2>4. \A i \in 1 .. Len(q) : q[i] \in A
    BY <2>3, ElementOfSeq
  <2>5. Allocated' = Allocated
    BY <2>1 DEF Allocated
  <2>6. ASSUME NEW n \in Allocated
        PROVE  /\ node'[n].key = node[n].key
               /\ node'[n].val = IF n \in A THEN v ELSE node[n].val
    <3>1. node'[n] = IF n \in A THEN [node[n] EXCEPT !.val = v] ELSE node[n]
      BY <1>1, <2>1, <2>2, <2>3
    <3> QED BY <3>1, SeqTypes DEF NodeData
  <2>7. Contents' = [k \in Key |-> IF k \in KeysOf(A) THEN v ELSE Contents[k]]
    BY <2>1, <2>4, <2>5, <2>6, WriteContents
  <2>8. ASSUME NEW k \in Key
        PROVE  k \in KeysOf(A) <=>
                  \E i \in DOMAIN Map!Found(call) : k = Map!Found(call)[i]
    <3>1. DOMAIN Map!Found(call) = 1 .. Len(q)
      BY <1>1, <2>2
    <3>2. \A i \in 1 .. Len(q) : Map!Found(call)[i] = node[q[i]].key
      BY <1>1, <2>2 DEF KeyList
    <3>3. k \in KeysOf(A) <=> \E i \in 1 .. Len(q) : k = node[q[i]].key
      BY <2>3, <2>4 DEF KeysOf
    <3> QED BY <3>1, <3>2, <3>3
  <2>9. Contents' = [k \in Key |->
                        IF \E i \in DOMAIN Map!Found(call) : k = Map!Found(call)[i]
                          THEN v ELSE Contents[k]]
    BY <2>7, <2>8
  <2>10. /\ Map!Return(call \o <<v>>, Map!Entries(Map!Found(call)))
         /\ call \in Map!Lookup /\ answer' \in Answers
    BY <1>1, <2>1 DEF Map!Return, Return
  <2> QED BY <2>9, <2>10 DEF Map!Write
<1> QED BY <1>2, <1>3

(* A step of the list is a step of the map.                                *)
LEMMA StepImplements ==
    ASSUME ListInvariant, ListInvariant', Next
    PROVE  Map!Next /\ answer' \in Answers
<1>1. UNCHANGED list => UNCHANGED Contents
  BY DEF list, Contents, Reachable, Closed
<1>2. ASSUME NEW k \in Key, NEW v \in Value, Insert(k, v)
      PROVE  Map!Next /\ answer' \in Answers
  BY <1>2, InsertImplements DEF Map!Next
<1>3. ASSUME NEW k \in Key, NEW v \in Value, InsertConditionally(k, v)
      PROVE  Map!Next /\ answer' \in Answers
  BY <1>1, <1>3, InsertConditionallyImplements DEF Map!Next
<1>4. ASSUME NEW k \in Key, Remove(k)
      PROVE  Map!Next /\ answer' \in Answers
  <2>1. Map!Remove(k) /\ answer' \in Answers
    BY <1>1, <1>4, InternalRemoveDoes DEF Remove, Map!Remove
  <2> QED BY <2>1 DEF Map!Next
<1>5. CASE RemoveFirst
  BY <1>1, <1>5, RemoveFirstImplements DEF Map!Next
<1>6. CASE Read \/ Write
  BY <1>1, <1>6, LookupImplements DEF Map!Next
<1> QED BY <1>2, <1>3, <1>4, <1>5, <1>6 DEF Next

(* A new list is an empty map.                                             *)
LEMMA InitImplements == Init => Map!Init
<1> SUFFICES ASSUME Init PROVE Map!Init
  OBVIOUS
<1>1. ListInvariant /\ Allocated = {}
  BY ListInvariantInit DEF Init, Allocated
<1>2. Contents = [k \in Key |-> Null]
  BY <1>1, ContentsFacts
<1> QED BY <1>2 DEF Map!Init, Init

(* An unchanged list has the contents it had.                              *)
LEMMA StutterImplements ==
    ASSUME UNCHANGED vars
    PROVE  UNCHANGED <<Contents, asked, answer>>
BY DEF vars, list, Contents, Reachable, Closed

(* Every operation of the sequential list does and returns what the        *)
(* ordered map does and returns, with any keys, values and heights.        *)
THEOREM ListImplementsSortedMap == Spec => ImplementsSortedMap
<1>1. ListInvariant /\ [Next]_vars => [Map!Next]_<<Contents, asked, answer>>
  <2> SUFFICES ASSUME ListInvariant, [Next]_vars
               PROVE  [Map!Next]_<<Contents, asked, answer>>
    OBVIOUS
  <2>1. ListInvariant'
    BY ListInvariantStep
  <2>2. CASE Next
    BY <2>1, <2>2, StepImplements
  <2>3. CASE UNCHANGED vars
    BY <2>3, StutterImplements
  <2> QED BY <2>2, <2>3
<1> QED BY <1>1, InitImplements, ListStaysInOrder, PTL
        DEF Spec, ImplementsSortedMap, Map!Spec

(* Type correctness of the sequential list, with what it answers.          *)
THEOREM SeqTypeCorrect == Spec => []SeqTypeOK
<1>1. Init => answer \in Answers
  BY SmallAnswers DEF Init
<1>2. ListInvariant /\ answer \in Answers /\ [Next]_vars => (answer \in Answers)'
  <2> SUFFICES ASSUME ListInvariant, answer \in Answers, [Next]_vars
               PROVE  answer' \in Answers'
    OBVIOUS
  <2>1. Answers' = Answers
    BY DEF Answers
  <2>2. ListInvariant'
    BY ListInvariantStep
  <2>3. CASE Next
    BY <2>1, <2>2, <2>3, StepImplements
  <2>4. CASE UNCHANGED vars
    BY <2>1, <2>4 DEF vars
  <2> QED BY <2>3, <2>4
<1>3. ListInvariant /\ answer \in Answers => SeqTypeOK
  BY DEF ListInvariant, Answers, SeqTypeOK
<1> QED BY <1>1, <1>2, <1>3, ListStaysInOrder, PTL DEF Spec

(* The inductive invariant of the sequential list as the run checks it.    *)
THEOREM SeqInvariance == Spec => []SeqInvariant
BY SeqTypeCorrect, ListStaysInOrder, PTL DEF SeqInvariant
=============================================================================
