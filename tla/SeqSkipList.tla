------------------------------ MODULE SeqSkipList ------------------------------
(***************************************************************************)
(* The sequential skip list of internal/skiplist.rs.  Its callers hold it  *)
(* exclusively, so an operation is one step.                               *)
(*                                                                         *)
(* Unlike the lock-free list it frees a node as soon as it is removed, and *)
(* the allocator may hand the address out again.  Nothing in this list     *)
(* sets a tag, so the branches of find and next_node on tagged nodes are   *)
(* not taken.                                                              *)
(***************************************************************************)
EXTENDS Integers, FiniteSets, Sequences

CONSTANTS
    Node,       \* the addresses the allocator hands out
    Key,        \* the keys, ordered by <
    Value,      \* the values
    HEIGHT,     \* height of the head tower
    head,       \* the head tower
    Null        \* the null pointer

Tower == Node \cup {head}
Level == 0 .. HEIGHT - 1

ASSUME SeqAssumption ==
    /\ Key \subseteq Int /\ Key # {}
    /\ Value # {}
    /\ HEIGHT \in Nat \ {0}
    /\ head \notin Node
    /\ Null \notin Tower \cup Value

VARIABLES
    next,       \* levels: the successor of each tower, per level
    node,       \* key, value, height and reference count of allocated nodes
    len,        \* ListState::len
    maxHeight,  \* ListState::max_height
    asked,      \* the last operation that was called, with its arguments
    answer      \* what it returned: no, one or several values or entries

list == <<next, node, len, maxHeight>>
vars == <<list, asked, answer>>

(* The nodes that are allocated now.                                       *)
Allocated == DOMAIN node

NodeData == [key : Key, val : Value, height : 1 .. HEIGHT, refs : 0 .. HEIGHT]

ListTypeOK ==
    /\ next \in [Tower -> [Level -> Node \cup {Null}]]
    /\ Allocated \subseteq Node
    /\ \A n \in Allocated : node[n] \in NodeData
    /\ len \in Nat
    /\ maxHeight \in 1 .. HEIGHT

SeqTypeOK ==
    /\ ListTypeOK
    /\ answer \in Seq(Value \cup (Key \X Value))

Init ==
    /\ next = [m \in Tower |-> [l \in Level |-> Null]]
    /\ node = <<>>
    /\ len = 0
    /\ maxHeight = 1
    /\ asked = <<"new">>
    /\ answer = <<>>

Return(call, values) == asked' = call /\ answer' = values

-----------------------------------------------------------------------------
(* find *)

(* The highest level to search, from max_height down over the levels the   *)
(* head does not link; the base level in any case.                         *)
TopLevel ==
    CHOOSE l \in 0 .. maxHeight - 1 :
        /\ l > 0 => next[head][l] # Null
        /\ \A m \in l + 1 .. maxHeight - 1 : next[head][m] = Null

(* Where the walk along level l from tower m ends: before the first node   *)
(* whose key is not less than k.                                           *)
WalkPastKey(k, l) ==  \* mutant
    LET stop[m \in Tower] ==
            LET n == next[m][l]
            IN  IF n = Null \/ node[n].key > k THEN m ELSE stop[n]
    IN  stop

Walk(k, l) ==
    LET stop[m \in Tower] ==
            LET n == next[m][l]
            IN  IF n = Null \/ node[n].key >= k THEN m ELSE stop[n]
    IN  stop

(* The prev array: each level is walked from where the level above ended,  *)
(* and the levels above the search keep the head.                          *)
Prev(k) ==
    LET prev[l \in Level] ==
            CASE l > TopLevel -> head
              [] l = TopLevel -> Walk(k, l)[head]
              [] OTHER        -> Walk(k, l)[prev[l + 1]]
    IN  prev

(* The target: the node after the last tower, if it has the key.           *)
Target(k) ==
    LET n == next[Prev(k)[0]][0]
    IN  IF n # Null /\ node[n].key = k THEN n ELSE Null

IsEmpty == len < 1

EntryAt(n) == <<node[n].key, node[n].val>>

-----------------------------------------------------------------------------
(* insert *)

(* A height gen_height can return: from 4 on, at most one level above what *)
(* the head links.                                                         *)
Heights == {h \in 1 .. HEIGHT : h >= 4 => next[head][h - 2] # Null}

(* Link n, of height h, after prev on each of its levels.                  *)
LinkNodesBaseOnly(n, h, prev) ==  \* mutant
    next' = [m \in Tower |-> [l \in Level |->
                IF l >= h THEN next[m][l]
                ELSE IF m = n THEN next[prev[l]][l]
                ELSE IF l = 0 /\ m = prev[l] THEN n
                ELSE next[m][l]]]

LinkNodes(n, h, prev) ==
    next' = [m \in Tower |-> [l \in Level |->
                IF l >= h THEN next[m][l]
                ELSE IF m = n THEN next[prev[l]][l]
                ELSE IF m = prev[l] THEN n
                ELSE next[m][l]]]

InsertNewLoweringMax(k, v) ==  \* mutant
    /\ \E n \in Node \ Allocated, h \in Heights :
          /\ LinkNodes(n, h, Prev(k))
          /\ node' = [m \in Allocated \cup {n} |->
                         IF m = n THEN [key |-> k, val |-> v, height |-> h, refs |-> h]
                         ELSE node[m]]
          /\ maxHeight' = h
    /\ len' = len + 1

InsertNewAboveMax(k, v) ==  \* mutant
    /\ \E n \in Node \ Allocated, h \in Heights :
          /\ LinkNodes(n, h, Prev(k))
          /\ node' = [m \in Allocated \cup {n} |->
                         IF m = n THEN [key |-> k, val |-> v, height |-> h, refs |-> h]
                         ELSE node[m]]
          /\ maxHeight' = IF h >= maxHeight THEN h + 1 ELSE maxHeight
    /\ len' = len + 1

InsertNew(k, v) ==
    /\ \E n \in Node \ Allocated, h \in Heights :
          /\ LinkNodes(n, h, Prev(k))
          /\ node' = [m \in Allocated \cup {n} |->
                         IF m = n THEN [key |-> k, val |-> v, height |-> h, refs |-> h]
                         ELSE node[m]]
          /\ maxHeight' = IF h > maxHeight THEN h ELSE maxHeight
    /\ len' = len + 1

(* When the key is present its value is swapped with the new one, or with  *)
(* insert_conditionally the new one is handed back.                        *)
Insert(k, v) ==
    LET target == Target(k) IN
    \/ /\ target = Null
       /\ InsertNew(k, v)
       /\ Return(<<"insert", k, v>>, <<>>)
    \/ /\ target # Null
       /\ node' = [node EXCEPT ![target].val = v]
       /\ Return(<<"insert", k, v>>, <<node[target].val>>)
       /\ UNCHANGED <<next, len, maxHeight>>

InsertConditionally(k, v) ==
    LET target == Target(k) IN
    \/ /\ target = Null
       /\ InsertNew(k, v)
       /\ Return(<<"insert_conditionally", k, v>>, <<>>)
    \/ /\ target # Null
       /\ Return(<<"insert_conditionally", k, v>>, <<v>>)
       /\ UNCHANGED list

-----------------------------------------------------------------------------
(* remove *)

(* unlink on each level of the node, then dealloc.  The levels of a freed  *)
(* node are unspecified; they are null here, as alloc makes them.          *)
UnlinkAndDealloc(n, prev) ==
    /\ next' = [m \in Tower |-> [l \in Level |->
                   IF m = n THEN Null
                   ELSE IF l < node[n].height /\ m = prev[l] THEN next[n][l]
                   ELSE next[m][l]]]
    /\ node' = [m \in Allocated \ {n} |-> node[m]]

InternalRemoveKeepingLen(k, call) ==  \* mutant
    LET target == Target(k) IN
    \/ /\ ~IsEmpty /\ target # Null
       /\ UnlinkAndDealloc(target, Prev(k))
       /\ Return(call, <<EntryAt(target)>>)
       /\ UNCHANGED <<len, maxHeight>>
    \/ /\ IsEmpty \/ target = Null
       /\ Return(call, <<>>)
       /\ UNCHANGED list

InternalRemove(k, call) ==
    LET target == Target(k) IN
    \/ /\ ~IsEmpty /\ target # Null
       /\ UnlinkAndDealloc(target, Prev(k))
       /\ len' = len - 1
       /\ Return(call, <<EntryAt(target)>>)
       /\ UNCHANGED maxHeight
    \/ /\ IsEmpty \/ target = Null
       /\ Return(call, <<>>)
       /\ UNCHANGED list

(* remove; what entry returns removes its key by the same call.            *)
Remove(k) == InternalRemove(k, <<"remove", k>>)

(* The key of the head's first node is removed.  IntoIter::next is this    *)
(* operation, and so is the queue's pop.                                   *)
RemoveFirst ==
    \/ /\ ~IsEmpty
       /\ InternalRemove(node[next[head][0]].key, <<"remove_first">>)
    \/ /\ IsEmpty
       /\ Return(<<"remove_first">>, <<>>)
       /\ UNCHANGED list

-----------------------------------------------------------------------------
(* Looking up.  What is found are the nodes the answer is made of.         *)

(* get, get_mut and entry search for the key.                              *)
FindKey(k) == IF IsEmpty \/ Target(k) = Null THEN <<>> ELSE <<Target(k)>>

(* next_node: the node after m in the base level, as a sequence.           *)
NextNode(m) == IF next[m][0] = Null THEN <<>> ELSE <<next[m][0]>>

(* get_first; the queue's peek.                                            *)
FindFirst == IF IsEmpty THEN <<>> ELSE NextNode(head)

(* traverse_with: the base level, whatever len says.                       *)
Traverse ==
    LET after[m \in Tower] ==
            LET n == NextNode(m) IN IF n = <<>> THEN n ELSE n \o after[n[1]]
    IN  after[head]

(* Iter and IterMut begin with get_first and follow next_node.             *)
Iterate == IF FindFirst = <<>> THEN <<>> ELSE Traverse

(* get_last follows them to the end.                                       *)
FindLast == IF Iterate = <<>> THEN <<>> ELSE <<Iterate[Len(Iterate)]>>

Lookup ==
    {<<"get", k>> : k \in Key}
        \cup {<<"get_first">>, <<"get_last">>, <<"iter">>, <<"traverse_with">>}

Found(call) ==
    CASE call[1] = "get"       -> FindKey(call[2])
      [] call[1] = "get_first" -> FindFirst
      [] call[1] = "get_last"  -> FindLast
      [] call[1] = "iter"      -> Iterate
      [] OTHER                 -> Traverse

Entries(found) == [i \in DOMAIN found |-> EntryAt(found[i])]

(* get, get_first, get_last, iter and traverse_with only read.             *)
Read ==
    \E call \in Lookup :
        /\ Return(call, Entries(Found(call)))
        /\ UNCHANGED list

(* get_mut, get_first_mut, get_last_mut and iter_mut hand out a MutEntry   *)
(* for the same nodes, and the caller writes a value there.                *)
Write ==
    \E call \in Lookup \ {<<"traverse_with">>}, v \in Value :
        LET found == Found(call) IN
        /\ Return(call \o <<v>>, Entries(found))
        /\ node' = [n \in Allocated |->
                       IF \E i \in DOMAIN found : n = found[i]
                         THEN [node[n] EXCEPT !.val = v] ELSE node[n]]
        /\ UNCHANGED <<next, len, maxHeight>>

Next ==
    \/ \E k \in Key, v \in Value : Insert(k, v) \/ InsertConditionally(k, v)
    \/ \E k \in Key : Remove(k)
    \/ RemoveFirst
    \/ Read
    \/ Write

Spec == Init /\ [][Next]_vars

-----------------------------------------------------------------------------
(* Properties *)

(* The nodes that following level l from the head leads to: the smallest   *)
(* set that holds whatever the head and its own members lead to.           *)
Closed(S, l) == \A m \in S \cup {head} : next[m][l] # Null => next[m][l] \in S

Reachable(l) == {n \in Node : \A S \in SUBSET Node : Closed(S, l) => n \in S}

(* A level holds exactly the allocated nodes whose tower is that high: no  *)
(* pointer leads to freed memory or past the top of a tower, no node is    *)
(* lost while it is allocated, and a freed one is out at every level,      *)
(* although unlink relies on prev of levels the search did not walk.       *)
TowersAreLinked ==
    \A l \in Level : Reachable(l) = {n \in Allocated : node[n].height > l}

(* max_height covers every tower, so that no search starts too low.        *)
SearchesStartHighEnough ==
    \A n \in Allocated : node[n].height <= maxHeight

(* The state is one the lock-free list can go on with when this one is     *)
(* converted: len is exact, and each reference count is the number of      *)
(* levels the node is linked at.                                           *)
ConvertsToSync ==
    /\ len = Cardinality(Reachable(0))
    /\ \A n \in Allocated :
          node[n].refs = Cardinality({l \in Level : n \in Reachable(l)})

(* The value of each key in the base level, or Null.                       *)
Contents ==
    LET base == Reachable(0)
        at(k) == {n \in base : node[n].key = k}
    IN  [k \in Key |-> IF at(k) = {} THEN Null
                       ELSE node[CHOOSE n \in at(k) : TRUE].val]

Map == INSTANCE SortedMap WITH value <- Contents, None <- Null

(* Every operation does and returns what the ordered map does and returns: *)
(* also remove_first, get_last and the iterators, which know nothing of    *)
(* the order but the pointers, and the checks on len that answer without a *)
(* search.                                                                 *)
ImplementsSortedMap == Map!Spec

=============================================================================
