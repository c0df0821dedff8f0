---------------------------- MODULE SkipListCursor ----------------------------
(***************************************************************************)
(* The cursors of the lock-free list: next_node of sync/mod.rs and what is *)
(* built on it, get_first, get_last and Iter; Entry::remove; and the       *)
(* synchronised priority queue, whose peek is get_first and whose pop is   *)
(* get_first followed by Entry::remove.                                    *)
(*                                                                         *)
(* A cursor stands on an entry and looks for the next one along the base   *)
(* level.  It unlinks removed nodes on its way, and turns to               *)
(* find(key, true) when it cannot.  The calls of SyncSkipList.tla run      *)
(* beside it.                                                              *)
(***************************************************************************)
EXTENDS SyncSkipListProps

(* get_last makes the accesses an Iter driven to its end makes, and one    *)
(* call stands for both.                                                   *)
CONSTANT
    CursorScript    \* the cursor calls thread t may choose as its c-th

ASSUME CursorAssumption ==
    CursorScript \in [Thread -> [1 .. MaxCalls -> SUBSET CursorCall]]

VARIABLES
    at,         \* the entry the cursor stands on; the head before the first
    popped      \* history: the entries Entry::remove has taken

cursor == <<at, popped>>
cursorVars == <<vars, cursor>>

CursorTypeOK ==
    /\ TypeOK
    /\ at \in [Thread -> Tower]
    /\ popped \subseteq Node

CursorInit ==
    /\ Init
    /\ at = [t \in Thread |-> head]
    /\ popped = {}

HasCursorCall(t) ==
    calls[t] < MaxCalls /\ CursorScript[t][calls[t] + 1] # {}

(* get_first, which every cursor call begins with, is None when the length *)
(* reads 0; otherwise it is the node next to the head.                     *)
BeginCursor(t) ==
    /\ pc[t] = "idle"
    /\ HasCursorCall(t)
    /\ Spawned(t)
    /\ \E op \in CursorScript[t][calls[t] + 1] :
          /\ call' = [call EXCEPT ![t] = [@ EXCEPT !.op = op]]
          /\ ret' = [ret EXCEPT ![t] = op]
    /\ calls' = [calls EXCEPT ![t] = @ + 1]
    /\ Goto(t, IF len < 1 THEN "return" ELSE "curTag")
    /\ result' = [result EXCEPT ![t] = Null]
    /\ at' = [at EXCEPT ![t] = head]
    /\ before' = [before EXCEPT ![t] = Live]
    /\ UNCHANGED <<memory, level, curr, nxt, prev, target, down, seen, up,
                   popped>>

-----------------------------------------------------------------------------
(* next_node *)

(* find(&node.key, true).  The head's key was never written: any key.      *)
SearchClosest(t) ==
    /\ \E k \in Key :
          /\ at[t] # head => k = key[at[t]]
          /\ call' = [call EXCEPT ![t].key = k]
    /\ ret' = [ret EXCEPT ![t] = "closest"]
    /\ Goto(t, "find")

(* A tagged entry is stale: its level no longer leads along the list.      *)
CursorTag(t) ==
    /\ pc[t] = "curTag"
    /\ \/ /\ Tag(at[t], 0) = 0
          /\ Goto(t, "curNext")
          /\ UNCHANGED <<call, ret>>
       \/ /\ Tag(at[t], 0) = 1
          /\ SearchClosest(t)
    /\ UNCHANGED <<memory, calls, walk, removal, up, cursor>>

(* The cursor is done with the call: found is what the call returns.       *)
Finish(t, found) ==
    /\ result' = [result EXCEPT ![t] = found]
    /\ at' = [at EXCEPT ![t] = head]
    /\ before' = [before EXCEPT ![t] = {}]
    /\ Goto(t, "return")

(* The next node is n, if there is one; the last entry is the one the      *)
(* cursor stands on when there is none.                                    *)
Follow(t, n) ==
    /\ nxt' = [nxt EXCEPT ![t] = n]
    /\ \/ /\ n = Null
          /\ Finish(t, IF at[t] = head THEN Null ELSE at[t])
       \/ /\ n # Null
          /\ Goto(t, "curCheck")
          /\ UNCHANGED <<result, at, before>>

CursorNextUnchecked(t) ==  \* mutant
    /\ pc[t] = "curNext"
    /\ at' = [at EXCEPT ![t] = Ptr(at[t], 0)]
    /\ Goto(t, "curTag")
    /\ UNCHANGED <<memory, request, ret, level, curr, nxt, prev, target, down, seen,
                   up, result, before, popped>>

CursorNext(t) ==
    /\ pc[t] = "curNext"
    /\ Follow(t, Ptr(at[t], 0))
    /\ UNCHANGED <<memory, request, ret, level, curr, prev, target, down, seen,
                   up, popped>>

(* The cursor has found the next entry: get_first returns it, pop goes on  *)
(* to remove it, and Iter stands on it from now on.                        *)
Arrive(t, n) ==
    CASE ret[t] = "first" ->
            Finish(t, n) /\ UNCHANGED target
      [] ret[t] = "last" ->
            /\ at' = [at EXCEPT ![t] = n]
            /\ Goto(t, "curTag")
            /\ UNCHANGED <<target, result, before>>
      [] ret[t] = "pop" ->
            /\ target' = [target EXCEPT ![t] = n]
            /\ Goto(t, "load")
            /\ UNCHANGED <<result, at, before>>

CursorCheck(t) ==
    /\ pc[t] = "curCheck"
    /\ \/ /\ Tag(nxt[t], 0) = 0
          /\ Arrive(t, nxt[t])
          /\ nxt' = [nxt EXCEPT ![t] = Null]
       \/ /\ Tag(nxt[t], 0) = 1
          /\ Goto(t, "curHelp")
          /\ UNCHANGED <<nxt, target, result, at, before>>
    /\ UNCHANGED <<memory, request, ret, level, curr, prev, down, seen, up,
                   popped>>

CursorHelpGivesUp(t) ==  \* mutant
    /\ pc[t] = "curHelp"
    /\ \/ /\ CanExchange(at[t], 0, nxt[t])
          /\ Exchange(at[t], 0, Ptr(nxt[t], 0))
          /\ linked' = [linked EXCEPT ![nxt[t]] = @ \ {0}]
          /\ Goto(t, "curSub")
          /\ UNCHANGED <<result, at, before, nxt>>
       \/ /\ ~CanExchange(at[t], 0, nxt[t])
          /\ Finish(t, Null)
          /\ nxt' = [nxt EXCEPT ![t] = Null]
          /\ UNCHANGED <<next, linked>>
    /\ UNCHANGED <<har, key, len, maxHeight, retired, request, ret, level, curr,
                   prev, target, down, seen, up, popped>>

(* unlink_level; when it fails the cursor searches for its own entry.      *)
CursorHelp(t) ==
    /\ pc[t] = "curHelp"
    /\ \/ /\ CanExchange(at[t], 0, nxt[t])
          /\ Exchange(at[t], 0, Ptr(nxt[t], 0))
          /\ linked' = [linked EXCEPT ![nxt[t]] = @ \ {0}]
          /\ Goto(t, "curSub")
          /\ UNCHANGED <<call, ret, nxt>>
       \/ /\ ~CanExchange(at[t], 0, nxt[t])
          /\ SearchClosest(t)
          /\ nxt' = [nxt EXCEPT ![t] = Null]
          /\ UNCHANGED <<next, linked>>
    /\ UNCHANGED <<har, key, len, maxHeight, retired, calls, level, curr, prev,
                   before, removal, up, cursor>>

CursorSubRef(t) ==
    /\ pc[t] = "curSub"
    /\ SubRefAndRetire(nxt[t])
    /\ IF WillUnderflow(nxt[t])
         THEN Goto(t, "panic") /\ UNCHANGED <<nxt, result, at, before>>
         ELSE Follow(t, Ptr(nxt[t], 0))
    /\ UNCHANGED <<next, key, len, maxHeight, linked, request, ret, level, curr,
                   prev, target, down, seen, up, popped>>

(* find(key, true) leaves its loop at level 0 and then reads               *)
(* levels[level - 1]: an overflow panic, or an access out of bounds.       *)
ClosestFault(t) ==
    /\ pc[t] = "final" /\ ret[t] = "closest"
    /\ Goto(t, "fault")
    /\ UNCHANGED <<memory, locals, cursor>>

-----------------------------------------------------------------------------
(* Entry::remove *)

(* set_removed is LoadHar and CasHar of SyncSkipList; the levels are then  *)
(* tagged as there, but nothing is unlinked and len stays.                 *)
TagEntry(t) ==
    /\ pc[t] = "tag" /\ ret[t] = "pop"
    /\ LET n == target[t] IN
          IF Tag(n, down[t]) = 0
            THEN /\ SetTag(n, down[t])
                 /\ down' = [down EXCEPT ![t] = IF @ = 0 THEN 0 ELSE @ - 1]
                 /\ popped' = popped \cup {n}
                 /\ Goto(t, IF down[t] = 0 THEN "return" ELSE "tag")
            ELSE Goto(t, "panic") /\ UNCHANGED <<next, down, popped>>
    /\ UNCHANGED <<har, key, len, maxHeight, retired, linked, request, ret,
                   walk, target, up, seen, result, at>>

-----------------------------------------------------------------------------
(* A step of a call of SyncSkipList, or one that a cursor call shares: all *)
(* but the last step of find and the tagging, where cursors differ.        *)
ListStep(t) ==
    /\ ~(pc[t] = "final" /\ ret[t] = "closest")
    /\ ~(pc[t] = "tag" /\ ret[t] = "pop")
    /\ Step(t)
    /\ UNCHANGED cursor

CursorStep(t) ==
    \/ CursorTag(t)  \/ CursorNext(t)   \/ CursorCheck(t)
    \/ CursorHelp(t) \/ CursorSubRef(t) \/ ClosestFault(t) \/ TagEntry(t)

(* Every thread has made its calls, or stopped at a fault.                 *)
CursorsTerminating ==
    /\ \A t \in Thread :
          \/ pc[t] = "idle" /\ ~HasCall(t) /\ ~HasCursorCall(t)
          \/ pc[t] = "fault"
    /\ UNCHANGED cursorVars

CursorNextState ==
    \/ \E t \in Thread :
          \/ Begin(t) /\ UNCHANGED cursor
          \/ BeginCursor(t)
          \/ ListStep(t)
          \/ CursorStep(t)
    \/ CursorsTerminating

CursorSpec == CursorInit /\ [][CursorNextState]_cursorVars

-----------------------------------------------------------------------------
(* Properties *)

(* Thread t's cursor moves on: to the node it has just found untagged, or  *)
(* past the end.                                                           *)
Moves(t) == pc[t] \in {"curNext", "curCheck", "curHelp", "curSub"}
            /\ pc'[t] \in {"curTag", "load", "return"}

Found(t) == IF pc[t] = "curCheck" THEN nxt[t] ELSE Null

(* Keys grow along a cursor, and it passes over no entry that was in the   *)
(* list since its call began, although the entry it stands on may be taken *)
(* out under it.  So get_first and pop find the least of those entries,    *)
(* get_last the greatest, and an Iter yields all of them, once.            *)
CursorsSkipNothing ==
    [][\A t \in Thread : Moves(t) =>
          /\ Found(t) # Null /\ at[t] # head => key[at[t]] < key[Found(t)]
          /\ \A n \in Steady(t) :
                \/ at[t] # head /\ key[n] <= key[at[t]]
                \/ Found(t) # Null /\ key[Found(t)] <= key[n]]_cursorVars

(* Thread t has an entry that its call took out of the list.               *)
Takes(t) == call[t].op \in {"insert", "remove", "pop"} /\ result[t] # Null

(* "Unlink and skip all removed `Node`s we may encounter": next_node gets  *)
(* past removed nodes and never faults.                                    *)
CursorsNeverFault == \A t \in Thread : pc[t] # "fault"

=============================================================================
