--------------------------- MODULE SkipListCursorInv ---------------------------
(***************************************************************************)
(* An inductive invariant of SkipListCursor.tla: what a cursor relies on   *)
(* beside the calls of the list, and which entries were taken.             *)
(***************************************************************************)
EXTENDS SkipListCursor, SyncSkipListOrder

SteppingLabel == CursorLabel \ {"fault"}

(* A cursor stands on a node that has been in the list, and has searched   *)
(* nothing; pop stays at the head.                                         *)
CursorAt(t) ==
    /\ at[t] \in Allocated \cup {head}
    /\ ReachedTo(at[t], 0)
    /\ pc[t] \in SteppingLabel => /\ ret[t] \in CursorCall
                                  /\ \A l \in Level : prev[t][l].node = head
    /\ ret[t] \in CursorCall \cup {"get"} => call[t].op = ret[t]
    /\ call[t].op = "pop" => at[t] = head

(* What remove, insert or pop returns has its removed bit set.             *)
TakenAt(t) == Takes(t) => har[result[t]].removed

TakenByOne ==
    \A t, u \in Thread :
        t # u /\ Takes(t) /\ Takes(u) => result[t] # result[u]

(* What cursor t has seen: towers that were in the base level at some time *)
(* since its call began.  The entries E of that time that are still there  *)
(* lie behind such a tower, or not before its successor.                   *)
BehindOrAhead(m, n, s) == \/ m # head /\ key[n] <= key[m]
                          \/ s # Null /\ key[s] <= key[n]

Sees(E, S, m) ==
    /\ ReachedTo(m, 0)
    /\ Ptr(m, 0) # Null => Ptr(m, 0) \in S
    /\ m # head /\ Ptr(m, 0) # Null => key[m] < key[Ptr(m, 0)]
    /\ \A n \in E : BehindOrAhead(m, n, Ptr(m, 0))
    /\ \A n \in E : m # head /\ key[m] = key[n] => m = n

(* The towers that are in the base level, or have been.                    *)
BaseTowers == {m \in Tower : ReachedTo(m, 0)}

(* No entry of E is hidden from whoever stands on a tower of S.            *)
Sight(E, S) ==
    /\ {m \in Tower : InList(m, 0)} \subseteq S
    /\ \A m \in S : Sees(E, S, m)

SeenBy(t, S) ==
    /\ Sight(Steady(t), S)
    /\ at[t] \in S
    /\ pc[t] \in AheadLabel =>
          /\ nxt[t] \in S
          /\ at[t] # head => key[at[t]] < key[nxt[t]]
          /\ \A n \in Steady(t) : BehindOrAhead(at[t], n, nxt[t])

SightAt(t) ==
    pc[t] \in SteppingLabel =>
        /\ Steady(t) \subseteq Live
        /\ \E S \in SUBSET BaseTowers : SeenBy(t, S)

CursorsHold == \A t \in Thread : CursorAt(t) /\ TakenAt(t) /\ UseAt(t) /\ SightAt(t)

(* Tags are set from the top of a tower down, and no level above the tower *)
(* is linked.                                                              *)
TagsFromTop ==
    \A n \in Node : \A l \in Level :
        /\ Tag(n, l) = 1 => \A i \in Level :
              l < i /\ i < har[n].height => Tag(n, i) = 1
        /\ l \in linked[n] => l < har[n].height

(* remove and insert take out an entry of their key, and pop, which takes  *)
(* any, stops after the tags.                                              *)
RemovesItsKey(t) ==
    /\ pc[t] \in RemoveLabel /\ ret[t] # "pop" => key[target[t]] = call[t].key
    /\ pc[t] \in {"unlink", "unlinkSub"} => ret[t] # "pop"

(* A search for the key of n, which is tagged, whoever makes it: it cannot *)
(* end without taking n out.  Above the base level it advances to untagged *)
(* nodes only, which are in the base level at that moment.                 *)
StartLabels  == {"find", "init", "search", "lower"}
SearchLabels == {"next", "check", "help", "helpSub"}

SearchSees(t, n, S) ==
    /\ Sight({n}, S)
    /\ curr[t] \in S
    /\ pc[t] # "next" /\ level[t] = 1 =>
          nxt[t] \in S /\ BehindOrAhead(curr[t], n, nxt[t])

Cleaning(t, n) ==
    /\ call[t].key = key[n] /\ Tag(n, 0) = 1
    /\ \/ pc[t] \in StartLabels
       \/ /\ pc[t] \in SearchLabels
          /\ pc[t] = "helpSub" /\ level[t] = 1 => nxt[t] # n
          /\ \E S \in SUBSET BaseTowers : SearchSees(t, n, S)

(* Thread t has not finished taking n out of the base level.               *)
Removing(t, n) ==
    \/ target[t] = n /\ pc[t] \in {"tag", "unlink"}
    \/ target[t] = n /\ pc[t] = "unlinkSub" /\ down[t] > 0
    \/ Cleaning(t, n)

RemovalsGoOn ==
    \A n \in Node : har[n].removed /\ 0 \in linked[n] =>
        n \in popped \/ \E t \in Thread : Removing(t, n)

CompletionInvariant ==
    /\ TagsFromTop
    /\ \A t \in Thread : RemovesItsKey(t)
    /\ RemovalsGoOn

CursorInvariant ==
    /\ CursorTypeOK
    /\ Inv /\ Shape /\ Order /\ References
    /\ CursorsHold
    /\ TakenByOne

=============================================================================
