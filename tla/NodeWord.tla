-------------------------------- MODULE NodeWord --------------------------------
(***************************************************************************)
(* The height_and_removed of a node as the machine word it is: height in   *)
(* the low six bits, the reference count above it, and the removed bit on  *)
(* top.  Arithmetic wraps around, and a carry or borrow of the count would *)
(* run into the fields beside it.                                          *)
(*                                                                         *)
(* The lists use the word as a record of three fields; SyncSkipListWords   *)
(* checks that they may.                                                   *)
(***************************************************************************)
EXTENDS Integers

CONSTANTS
    Node,       \* the nodes
    HEIGHT,     \* the greatest height
    RefLimit    \* the reference counts that fit: 2^57 in a 64-bit word

VARIABLE
    word        \* height_and_removed of each node; 0 before it is allocated

OneRef       == 64              \* 1 << (HEIGHT_BITS + 1), HEIGHT_MASK + 1
REMOVED_MASK == OneRef * RefLimit
WordLimit    == 2 * REMOVED_MASK

removed(w) == w >= REMOVED_MASK
height(w)  == w % OneRef
refs(w)    == (IF removed(w) THEN w - REMOVED_MASK ELSE w) \div OneRef

(* The three fields in one word.                                           *)
Pack(h, r, x) == h + OneRef * r + (IF x THEN REMOVED_MASK ELSE 0)

-----------------------------------------------------------------------------
Alloc(n) ==
    /\ word[n] = 0
    /\ \E h \in 1 .. HEIGHT : word' = [word EXCEPT ![n] = h]

(* add_ref, and try_add_ref, which refuses a count of 0.                   *)
AddRef(n) ==
    /\ word[n] # 0
    /\ word' = [word EXCEPT ![n] = (@ + OneRef) % WordLimit]

(* sub_ref, and try_sub_ref, which panics at a count of 0.                 *)
SubRef(n) ==
    /\ word[n] # 0
    /\ word' = [word EXCEPT ![n] = (@ - OneRef) % WordLimit]

(* set_removed returns an error when the bit is set already.               *)
SetRemoved(n) ==
    /\ word[n] # 0 /\ ~removed(word[n])
    /\ word' = [word EXCEPT ![n] = @ + REMOVED_MASK]

Init == word = [n \in Node |-> 0]

Next == \E n \in Node : Alloc(n) \/ AddRef(n) \/ SubRef(n) \/ SetRemoved(n)

Spec == Init /\ [][Next]_word

-----------------------------------------------------------------------------
(* MaybeTagged, the other packed word: a tag in the bits that the          *)
(* alignment of a Node, at least that of its AtomicUsize, leaves unused.   *)

Align == 8

decompose_raw(raw) == <<raw - (raw % Align), raw % Align>>
compose_raw(ptr, tag) == ptr - (ptr % Align) + (tag % Align)

Address == {a \in Nat : a % Align = 0}

=================================================================================
