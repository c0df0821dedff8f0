------------------------------ MODULE NodeMemory ------------------------------
(***************************************************************************)
(* The memory the threads of a SyncSkipList share: the head tower, the     *)
(* nodes, and the ListState counters.                                      *)
(*                                                                         *)
(* A node's height_and_removed is ONE atomic word (utils/node.rs): a       *)
(* compare-exchange on it fails when any of its three fields has changed.  *)
(* It is kept here as one record.  A level of a tower is a MaybeTagged     *)
(* pointer (sync/tagged.rs): pointer and tag change together.              *)
(*                                                                         *)
(* Every access of the code to this memory is a single atomic instruction  *)
(* and is one step of the model.  The model is sequentially consistent.    *)
(***************************************************************************)
EXTENDS Integers

CONSTANTS
    Thread,     \* the threads that call the list
    Key,        \* the keys, ordered by <
    HEIGHT,     \* height of the head tower, HEIGHT in utils/mod.rs
    MaxCalls,   \* bound: the number of calls a thread makes
    head,       \* the head tower
    Null        \* the null pointer

(* The node allocated by the c-th call of thread t, if that call inserts.  *)
(* Memory is never handed out twice: reuse of a freed node's address is    *)
(* outside this module.                                                    *)
Node  == Thread \X (1 .. MaxCalls)
Tower == Node \cup {head}
Level == 0 .. HEIGHT - 1
NodeOrNull == Node \cup {Null}

ASSUME MemoryAssumption ==
    /\ Key \subseteq Int /\ Key # {}
    /\ HEIGHT \in Nat \ {0}
    /\ MaxCalls \in Nat
    /\ head \notin Node
    /\ Null \notin Tower

VARIABLES
    next,       \* levels: the tagged pointers of each tower
    har,        \* height_and_removed: height, reference count, removed bit
    key,        \* the key a node was built with
    len,        \* ListState::len
    maxHeight,  \* ListState::max_height
    retired,    \* how many times a node was handed to Domain::retire_ptr
    linked      \* history: the levels at which a node is in the list

memory == <<next, har, key, len, maxHeight, retired, linked>>

MaybeTagged == [ptr : NodeOrNull, tag : {0, 1}]
Word        == [height : 0 .. HEIGHT, refs : Int, removed : BOOLEAN]

MemoryTypeOK ==
    /\ next \in [Tower -> [Level -> MaybeTagged]]
    /\ har \in [Node -> Word]
    /\ key \in [Node -> Key]
    /\ len \in Int
    /\ maxHeight \in 1 .. HEIGHT
    /\ retired \in [Node -> Nat]
    /\ linked \in [Node -> SUBSET Level]

(* Head::new and ListState::new: null levels, length 0, height 1.  A node  *)
(* that is not allocated yet has height 0 and an arbitrary key.            *)
MemoryInit ==
    /\ next = [m \in Tower |-> [l \in Level |-> [ptr |-> Null, tag |-> 0]]]
    /\ har = [n \in Node |-> [height |-> 0, refs |-> 0, removed |-> FALSE]]
    /\ key = [n \in Node |-> CHOOSE k \in Key : TRUE]
    /\ len = 0
    /\ maxHeight = 1
    /\ retired = [n \in Node |-> 0]
    /\ linked = [n \in Node |-> {}]

-----------------------------------------------------------------------------
(* MaybeTagged *)

Ptr(m, l) == next[m][l].ptr
Tag(m, l) == next[m][l].tag

(* compare_exchange expects the pointer it was given AND tag 0, and stores *)
(* tag 0.  CanExchange says whether it succeeds, Exchange what it stores.  *)
CanExchangeIgnoringTag(m, l, expected) == Ptr(m, l) = expected  \* mutant

CanExchange(m, l, expected) ==
    next[m][l] = [ptr |-> expected, tag |-> 0]

Exchange(m, l, new) ==
    next' = [next EXCEPT ![m][l] = [ptr |-> new, tag |-> 0]]

(* compare_exchange_tag(0, 1): its loop ends when the tag is set or seen.  *)
SetTag(n, l) == next' = [next EXCEPT ![n][l].tag = 1]

-----------------------------------------------------------------------------
(* The height_and_removed word *)

AddRef(n) == har' = [har EXCEPT ![n].refs = @ + 1]

(* Node::sub_ref, which neither checks for 0 nor retires.                  *)
SubRef(n) == har' = [har EXCEPT ![n].refs = @ - 1]

(* SkipList::sub_ref: drop one reference and retire the node with the last *)
(* one.  try_sub_ref panics when there is none to drop.                    *)
WillUnderflow(n) == har[n].refs = 0

SubRefRetireEarly(n) ==  \* mutant
    /\ har' = [har EXCEPT ![n].refs = @ - 1]
    /\ retired' = [retired EXCEPT ![n] = IF har[n].refs <= 2 THEN @ + 1 ELSE @]

SubRefAndRetire(n) ==
    /\ har' = [har EXCEPT ![n].refs = IF @ = 0 THEN 0 ELSE @ - 1]
    /\ retired' = [retired EXCEPT ![n] = IF har[n].refs = 1 THEN @ + 1 ELSE @]

(* The compare-exchange of set_har_with on the whole word: it fails when   *)
(* another thread changed the reference count since the load.              *)
CanSetRemovedTwice(n, seen) == har[n].refs = seen  \* mutant

CanSetRemoved(n, seen) ==
    har[n] = [height |-> har[n].height, refs |-> seen, removed |-> FALSE]

SetRemovedMaskingHeight(n) ==  \* mutant
    har' = [har EXCEPT ![n] = [height |-> @.height, refs |-> 0, removed |-> TRUE]]

SetRemoved(n) == har' = [har EXCEPT ![n].removed = TRUE]

-----------------------------------------------------------------------------
(* Views used by the properties *)

(* The entries the list holds: in the base level and not removed.          *)
Live == {n \in Node : 0 \in linked[n] /\ ~har[n].removed}

=============================================================================
