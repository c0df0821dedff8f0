----------------------------- MODULE NodeWordProofs -----------------------------
(***************************************************************************)
(* That the two packed words of a node may be used as records: packing     *)
(* loses nothing, and an operation on the word is one on the field it is   *)
(* meant for.                                                              *)
(***************************************************************************)
EXTENDS NodeWord, TLAPS

(* Each field is read back as it was packed, so that comparing words in a  *)
(* compare-exchange compares all three fields.                             *)
THEOREM FieldsOfPack ==
    ASSUME RefLimit \in Nat \ {0},
           NEW h \in 0 .. OneRef - 1, NEW r \in 0 .. RefLimit - 1, NEW x \in BOOLEAN
    PROVE  /\ height(Pack(h, r, x)) = h
           /\ refs(Pack(h, r, x)) = r
           /\ removed(Pack(h, r, x)) = x
<1> DEFINE w == h + OneRef * r
<1>1. w \in Nat /\ w < REMOVED_MASK /\ REMOVED_MASK \in Nat
  BY DEF OneRef, REMOVED_MASK
<1>2. w % OneRef = h /\ w \div OneRef = r
  BY DEF OneRef
<1>3. CASE x
  <2>1. Pack(h, r, x) = w + REMOVED_MASK
    BY <1>3, <1>1 DEF Pack
  <2>2. removed(Pack(h, r, x)) /\ Pack(h, r, x) - REMOVED_MASK = w
    BY <2>1, <1>1 DEF removed
  <2>3. (w + REMOVED_MASK) % OneRef = h
    BY <1>2, <1>1 DEF OneRef, REMOVED_MASK
  <2> QED BY <2>1, <2>2, <2>3, <1>2, <1>3 DEF height, refs
<1>4. CASE ~x
  <2>1. Pack(h, r, x) = w
    BY <1>4, <1>1 DEF Pack
  <2>2. ~removed(Pack(h, r, x))
    BY <2>1, <1>1 DEF removed
  <2>3. removed(Pack(h, r, x)) = FALSE
    BY <2>2 DEF removed
  <2> QED BY <2>1, <2>2, <2>3, <1>2, <1>4 DEF height, refs
<1> QED BY <1>3, <1>4

(* fetch_add and fetch_sub of one reference neither carry out of the count *)
(* nor borrow into it, as long as the count itself stays in range.         *)
THEOREM CountingKeepsFields ==
    ASSUME RefLimit \in Nat \ {0},
           NEW h \in 0 .. OneRef - 1, NEW r \in 0 .. RefLimit - 1, NEW x \in BOOLEAN
    PROVE  /\ r + 1 < RefLimit =>
                 (Pack(h, r, x) + OneRef) % WordLimit = Pack(h, r + 1, x)
           /\ r > 0 =>
                 (Pack(h, r, x) - OneRef) % WordLimit = Pack(h, r - 1, x)
<1>1. ASSUME NEW s \in 0 .. RefLimit - 1
      PROVE  /\ Pack(h, s, x) \in 0 .. WordLimit - 1
             /\ WordLimit \in Nat \ {0}
  BY DEF Pack, OneRef, REMOVED_MASK, WordLimit
<1>2. ASSUME NEW m \in Nat \ {0}, NEW a \in 0 .. m - 1
      PROVE  a % m = a
  BY SMT
<1>3. Pack(h, r, x) + OneRef = Pack(h, r + 1, x)
  BY DEF Pack, OneRef, REMOVED_MASK
<1>4. Pack(h, r, x) - OneRef = Pack(h, r - 1, x)
  BY DEF Pack, OneRef, REMOVED_MASK
<1>5. ASSUME r + 1 < RefLimit
      PROVE  (Pack(h, r, x) + OneRef) % WordLimit = Pack(h, r + 1, x)
  <2>1. r + 1 \in 0 .. RefLimit - 1
    BY <1>5
  <2> QED BY <2>1, <1>1, <1>2, <1>3
<1>6. ASSUME r > 0
      PROVE  (Pack(h, r, x) - OneRef) % WordLimit = Pack(h, r - 1, x)
  <2>1. r - 1 \in 0 .. RefLimit - 1
    BY <1>6
  <2> QED BY <2>1, <1>1, <1>2, <1>4
<1> QED BY <1>5, <1>6

(* Pointer and tag come back as they were composed, so that a level that   *)
(* was composed from one pair never compares equal to another pair.        *)
THEOREM TagRoundTrip ==
    ASSUME NEW ptr \in Address, NEW tag \in 0 .. Align - 1
    PROVE  decompose_raw(compose_raw(ptr, tag)) = <<ptr, tag>>
<1>1. ptr \in Nat /\ ptr % 8 = 0 /\ tag \in Nat /\ tag < 8
  BY DEF Address, Align
<1>2. compose_raw(ptr, tag) = ptr + tag
  BY <1>1 DEF compose_raw, Align
<1>3. (ptr + tag) % 8 = tag
  BY <1>1
<1> QED BY <1>1, <1>2, <1>3 DEF decompose_raw, Align

=================================================================================
