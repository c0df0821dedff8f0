----------------------------- MODULE SkipListFind -----------------------------
(***************************************************************************)
(* SkipList::find(key, false) of sync/mod.rs, the search every operation   *)
(* starts with, step by step.  It walks down the levels, unlinks the       *)
(* tagged nodes it meets (helping whoever removed them), and records for   *)
(* each level the tower before the key and the node after it.              *)
(*                                                                         *)
(* A step is one access to shared memory together with the local work up   *)
(* to the next access.  NodeRef::from_maybe_tagged is one step: what it    *)
(* returns is the pointer its last load saw.                               *)
(***************************************************************************)
EXTENDS NodeMemory

VARIABLES
    pc,         \* the next access of each thread
    call,       \* the call a thread is in: operation and key
    calls,      \* how many calls it has made
    ret,        \* which use of find is running: where its result goes
    level,      \* find: the level being searched, counted from 1
    curr,       \* find: the tower the search stands on
    nxt,        \* find: the node after curr
    prev,       \* SearchResult::prev: per level the tower and the node after it
    target,     \* SearchResult::target, then the node being removed
    up,         \* link_nodes: the level being linked, kept while searching again
    down,       \* tag_levels, unlink: the level being taken out
    seen,       \* set_har_with: the reference count loaded
    result,     \* what the call returns: the entry, or Null for None
    before      \* history: the entries of the key when the search began

(* The variables in groups: what the caller asked for, the state of find,  *)
(* and the state of a removal.                                             *)
request == <<call, calls>>
walk    == <<level, curr, nxt, prev, before>>
removal == <<target, down, seen, result>>
locals  == <<request, ret, walk, removal, up>>
vars == <<memory, pc, locals>>

(* The calls of the list, and those of its cursors (SkipListCursor.tla),   *)
(* which run on the same variables.                                        *)
Operation  == {"insert", "remove", "get"}
CursorCall == {"first", "last", "pop"}
Call    == [op : Operation, key : Key]
Request == [op : Operation \cup CursorCall, key : Key]

FindLabel == {"find", "init", "search", "lower", "next", "check", "help", "helpSub", "final",
              "finalCheck"}
CursorLabel == {"curTag", "curNext", "curCheck", "curHelp", "curSub", "fault"}
Label == FindLabel \cup CursorLabel \cup
         {"idle", "return", "panic",
          "load", "cas", "tag", "unlink", "unlinkSub", "unlinkLen",
          "new", "compare", "storeMax", "count", "link", "recheck", "linkOwn", "addRef",
          "linkIn", "undo", "linkEnd"}

(* The uses of find: the first search of an operation, the search insert   *)
(* repeats after link_nodes failed, the searches whose result is dropped,  *)
(* and the cursors' find(key, true).                                       *)
Use == Operation \cup CursorCall \cup {"relink", "cleanup", "closest"}

LocalTypeOK ==
    /\ pc \in [Thread -> Label]
    /\ call \in [Thread -> Request]
    /\ calls \in [Thread -> 0 .. MaxCalls]
    /\ ret \in [Thread -> Use]
    /\ level \in [Thread -> 0 .. HEIGHT]
    /\ curr \in [Thread -> Tower]
    /\ nxt \in [Thread -> NodeOrNull]
    /\ prev \in [Thread -> [Level -> [node : Tower, next : NodeOrNull]]]
    /\ target \in [Thread -> NodeOrNull]
    /\ up \in [Thread -> 0 .. HEIGHT]
    /\ down \in [Thread -> 0 .. HEIGHT]
    /\ seen \in [Thread -> Int]
    /\ result \in [Thread -> NodeOrNull]
    /\ before \in [Thread -> SUBSET Node]

TypeOK == MemoryTypeOK /\ LocalTypeOK

NoPrev == [l \in Level |-> [node |-> head, next |-> Null]]

LocalInit ==
    /\ pc = [t \in Thread |-> "idle"]
    /\ call = [t \in Thread |-> [op |-> "get", key |-> CHOOSE k \in Key : TRUE]]
    /\ calls = [t \in Thread |-> 0]
    /\ ret = [t \in Thread |-> "get"]
    /\ level = [t \in Thread |-> 0]
    /\ curr = [t \in Thread |-> head]
    /\ nxt = [t \in Thread |-> Null]
    /\ prev = [t \in Thread |-> NoPrev]
    /\ target = [t \in Thread |-> Null]
    /\ up = [t \in Thread |-> 0]
    /\ down = [t \in Thread |-> 0]
    /\ seen = [t \in Thread |-> 0]
    /\ result = [t \in Thread |-> Null]
    /\ before = [t \in Thread |-> {}]

Goto(t, label) == pc' = [pc EXCEPT ![t] = label]

(* The node insert builds in its current call.                             *)
New(t) == <<t, calls[t]>>

-----------------------------------------------------------------------------
(* The prev array starts as the head with its successors, read from level  *)
(* 0 up.                                                                   *)
FindInit(t) ==
    /\ pc[t] = "find"
    /\ prev' = [prev EXCEPT ![t] =
                   [l \in Level |-> [node |-> head,
                                     next |-> IF l = 0 THEN Ptr(head, 0) ELSE Null]]]
    /\ level' = [level EXCEPT ![t] = 1]
    /\ before' = [before EXCEPT ![t] = {n \in Live : key[n] = call[t].key}]
    /\ Goto(t, IF HEIGHT = 1 THEN "search" ELSE "init")
    /\ UNCHANGED <<memory, request, ret, curr, nxt, removal, up>>

InitLevel(t) ==
    /\ pc[t] = "init"
    /\ prev' = [prev EXCEPT ![t][level[t]].next = Ptr(head, level[t])]
    /\ level' = [level EXCEPT ![t] = @ + 1]
    /\ Goto(t, IF level[t] + 1 = HEIGHT THEN "search" ELSE "init")
    /\ UNCHANGED <<memory, request, ret, curr, nxt, removal, up, before>>

(* '_search: from max_height down to the highest level in use.  A restart  *)
(* comes back here and leaves prev as the failed pass left it.             *)
StartSearch(t) ==
    /\ pc[t] = "search"
    /\ level' = [level EXCEPT ![t] = maxHeight]
    /\ curr' = [curr EXCEPT ![t] = head]
    /\ Goto(t, IF maxHeight > 1 THEN "lower" ELSE "next")
    /\ UNCHANGED <<memory, request, ret, nxt, prev, removal, up, before>>

(* A level above the lowest that is empty is passed over.                  *)
LowerLevel(t) ==
    /\ pc[t] = "lower"
    /\ \/ /\ Ptr(head, level[t] - 1) = Null
          /\ level' = [level EXCEPT ![t] = @ - 1]
          /\ Goto(t, IF level[t] = 2 THEN "next" ELSE "lower")
       \/ /\ Ptr(head, level[t] - 1) # Null
          /\ Goto(t, "next")
          /\ UNCHANGED level
    /\ UNCHANGED <<memory, request, ret, curr, nxt, prev, removal, up, before>>

(* The level is done: n is the node after curr at this level.              *)
Descend(t, n) ==
    /\ prev' = [prev EXCEPT ![t][level[t] - 1] = [node |-> curr[t], next |-> n]]
    /\ nxt' = [nxt EXCEPT ![t] = Null]
    /\ level' = [level EXCEPT ![t] = @ - 1]
    /\ Goto(t, IF level[t] = 1 THEN "final" ELSE "next")
    /\ UNCHANGED curr

Advance(t, n) ==
    /\ prev' = [prev EXCEPT ![t][level[t] - 1] = [node |-> curr[t], next |-> n]]
    /\ curr' = [curr EXCEPT ![t] = n]
    /\ nxt' = [nxt EXCEPT ![t] = Null]
    /\ Goto(t, "next")
    /\ UNCHANGED level

(* A node after curr has been found: look at its tag, if there is a node.  *)
Consider(t, n) ==
    \/ /\ n = Null
       /\ Descend(t, n)
    \/ /\ n # Null
       /\ nxt' = [nxt EXCEPT ![t] = n]
       /\ Goto(t, "check")
       /\ UNCHANGED <<level, curr, prev>>

ReadNext(t) ==
    /\ pc[t] = "next"
    /\ Consider(t, Ptr(curr[t], level[t] - 1))
    /\ UNCHANGED <<memory, request, ret, removal, up, before>>

(* An untagged node decides where to go; a tagged one is to be unlinked.   *)
CheckTagPastTarget(t) ==  \* mutant
    /\ pc[t] = "check"
    /\ \/ /\ Tag(nxt[t], level[t] - 1) = 0
          /\ key[nxt[t]] <= call[t].key
          /\ Advance(t, nxt[t])
       \/ /\ Tag(nxt[t], level[t] - 1) = 0
          /\ key[nxt[t]] > call[t].key
          /\ Descend(t, nxt[t])
       \/ /\ Tag(nxt[t], level[t] - 1) = 1
          /\ Goto(t, "help")
          /\ UNCHANGED <<level, curr, nxt, prev>>
    /\ UNCHANGED <<memory, request, ret, removal, up, before>>

CheckTagRestarts(t) ==  \* mutant
    /\ pc[t] = "check"
    /\ \/ /\ Tag(nxt[t], level[t] - 1) = 0
          /\ key[nxt[t]] < call[t].key
          /\ Advance(t, nxt[t])
       \/ /\ Tag(nxt[t], level[t] - 1) = 0
          /\ key[nxt[t]] >= call[t].key
          /\ Descend(t, nxt[t])
       \/ /\ Tag(nxt[t], level[t] - 1) = 1
          /\ Goto(t, "search")
          /\ UNCHANGED <<level, curr, nxt, prev>>
    /\ UNCHANGED <<memory, request, ret, removal, up, before>>

CheckTag(t) ==
    /\ pc[t] = "check"
    /\ \/ /\ Tag(nxt[t], level[t] - 1) = 0
          /\ key[nxt[t]] < call[t].key
          /\ Advance(t, nxt[t])
       \/ /\ Tag(nxt[t], level[t] - 1) = 0
          /\ key[nxt[t]] >= call[t].key
          /\ Descend(t, nxt[t])
       \/ /\ Tag(nxt[t], level[t] - 1) = 1
          /\ Goto(t, "help")
          /\ UNCHANGED <<level, curr, nxt, prev>>
    /\ UNCHANGED <<memory, request, ret, removal, up, before>>

(* unlink_level: take nxt out after curr, or start over.  The new          *)
(* successor is read from the tagged level of nxt, which no longer changes.*)
HelpUnlinkUnchecked(t) ==  \* mutant
    /\ pc[t] = "help"
    /\ LET l == level[t] - 1
           n == nxt[t]
       IN \/ /\ CanExchange(curr[t], l, n)
             /\ Exchange(curr[t], l, Ptr(n, l))
             /\ linked' = [linked EXCEPT ![n] = @ \ {l}]
          \/ /\ ~CanExchange(curr[t], l, n)
             /\ UNCHANGED <<next, linked>>
    /\ Goto(t, "helpSub")
    /\ UNCHANGED <<har, key, len, maxHeight, retired, locals>>

HelpUnlink(t) ==
    /\ pc[t] = "help"
    /\ LET l == level[t] - 1
           n == nxt[t]
       IN \/ /\ CanExchange(curr[t], l, n)
             /\ Exchange(curr[t], l, Ptr(n, l))
             /\ linked' = [linked EXCEPT ![n] = @ \ {l}]
             /\ Goto(t, "helpSub")
          \/ /\ ~CanExchange(curr[t], l, n)
             /\ Goto(t, "search")
             /\ UNCHANGED <<next, linked>>
    /\ UNCHANGED <<har, key, len, maxHeight, retired, locals>>

(* The reference of the level just unlinked, and on with the node after.   *)
HelpSubRef(t) ==
    /\ pc[t] = "helpSub"
    /\ SubRefAndRetire(nxt[t])
    /\ IF WillUnderflow(nxt[t])
         THEN Goto(t, "panic") /\ UNCHANGED <<level, curr, nxt, prev>>
         ELSE Consider(t, Ptr(nxt[t], level[t] - 1))
    /\ UNCHANGED <<next, key, len, maxHeight, linked, request, ret, removal,
                   up, before>>

-----------------------------------------------------------------------------
(* Where the result of find goes.  remove and get have their answer when   *)
(* there is no target; insert goes on to build its node, or to link it at  *)
(* the level where it failed; a target must be removed first.              *)
Resume(t, found) ==
    CASE ret[t] = "insert"  -> IF found = Null THEN "new" ELSE "load"
      [] ret[t] = "relink"  -> IF found \in {Null, New(t)} THEN "link" ELSE "load"
      [] ret[t] = "remove"  -> IF found = Null THEN "return" ELSE "load"
      [] OTHER              -> "return"

Return(t, found) ==
    /\ target' = [target EXCEPT ![t] = IF ret[t] = "cleanup" THEN @ ELSE found]
    /\ result' = [result EXCEPT ![t] = IF ret[t] = "get" THEN found ELSE @]
    /\ nxt' = [nxt EXCEPT ![t] = Null]
    /\ before' = [before EXCEPT ![t] = {}]
    /\ Goto(t, Resume(t, found))

HasKey(n, k) == n # Null /\ key[n] = k

(* The node after prev[0] is read once more; it is the target if it has    *)
(* the key ...                                                             *)
FinalRead(t) ==
    /\ pc[t] = "final"
    /\ LET n == Ptr(prev[t][0].node, 0) IN
          \/ /\ HasKey(n, call[t].key)
             /\ nxt' = [nxt EXCEPT ![t] = n]
             /\ Goto(t, "finalCheck")
             /\ UNCHANGED <<target, result, before>>
          \/ /\ ~HasKey(n, call[t].key)
             /\ Return(t, Null)
    /\ UNCHANGED <<memory, request, ret, level, curr, prev, up, down, seen>>

(* ... and its removed bit is not set.                                     *)
FinalCheckIgnoringRemoved(t) ==  \* mutant
    /\ pc[t] = "finalCheck"
    /\ Return(t, nxt[t])
    /\ UNCHANGED <<memory, request, ret, level, curr, prev, up, down, seen>>

FinalCheck(t) ==
    /\ pc[t] = "finalCheck"
    /\ Return(t, IF har[nxt[t]].removed THEN Null ELSE nxt[t])
    /\ UNCHANGED <<memory, request, ret, level, curr, prev, up, down, seen>>

FindStep(t) ==
    \/ FindInit(t)   \/ InitLevel(t)  \/ StartSearch(t) \/ LowerLevel(t)
    \/ ReadNext(t)   \/ CheckTag(t)   \/ HelpUnlink(t)  \/ HelpSubRef(t)
    \/ FinalRead(t)  \/ FinalCheck(t)

=============================================================================
