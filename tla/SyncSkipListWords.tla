---------------------------- MODULE SyncSkipListWords ----------------------------
(***************************************************************************)
(* The height_and_removed words of the list's nodes.  NodeMemory keeps     *)
(* them as records; here they are packed into words again.                 *)
(***************************************************************************)
EXTENDS SyncSkipListInv

(* HEIGHT_MASK covers the heights: 32 and 63 in utils/mod.rs.              *)
ASSUME WordAssumption == HEIGHT < 64

(* A word with just enough bits for counts up to HEIGHT.                   *)
Packed(w) == w.height + 64 * w.refs
                + (IF w.removed THEN 64 * (HEIGHT + 1) ELSE 0)

Words == INSTANCE NodeWord
             WITH RefLimit <- HEIGHT + 1, word <- [n \in Node |-> Packed(har[n])]

(* The list does what the packed words do: no schedule counts a reference  *)
(* below 0, which would borrow from the removed bit, or more references    *)
(* than a tower has levels, and nothing else touches height or removed bit.*)
ImplementsNodeWord == Words!Spec

(* The level whose reference thread t is about to drop.                    *)
DroppedLevel(t) ==
    CASE pc[t] = "helpSub" -> level[t] - 1
      [] pc[t] = "curSub"  -> 0
      [] OTHER             -> down[t]

(* Why the counts fit: two threads never hold references of one level of a *)
(* node.  A level whose reference is still to be dropped is not linked, is *)
(* nobody else's to drop, and its builder has passed it.                   *)
LevelsApart ==
    \A n \in Node : \A t \in Dropping(n) :
        /\ DroppedLevel(t) \in Level \ linked[n]
        /\ \A u \in Dropping(n) : DroppedLevel(u) = DroppedLevel(t) => u = t
        /\ \A u \in Thread : Linking(u) /\ New(u) = n => DroppedLevel(t) < up[u]

===================================================================================
