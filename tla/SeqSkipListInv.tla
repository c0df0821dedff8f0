---------------------------- MODULE SeqSkipListInv ----------------------------
(***************************************************************************)
(* An inductive invariant of SeqSkipList.tla: every level of the list is   *)
(* the sorted list of the allocated nodes whose tower is that high.  It    *)
(* does not follow pointers: it says of each one where it must lead.       *)
(***************************************************************************)
EXTENDS SeqSkipList

(* The nodes of level l, and those of them that come after tower m.        *)
Towers(l)   == {n \in Allocated : node[n].height > l}
Above(m, l) == {n \in Towers(l) : m # head => node[m].key < node[n].key}

(* A tower leads, on each of its levels, to the least of the nodes above   *)
(* it, or nowhere when there is none.                                      *)
LeadsUp(m, l) ==
    \/ next[m][l] = Null /\ Above(m, l) = {}
    \/ /\ next[m][l] \in Above(m, l)
       /\ \A n \in Above(m, l) : node[next[m][l]].key <= node[n].key

LevelsInOrder ==
    \A l \in Level : \A m \in Towers(l) \cup {head} : LeadsUp(m, l)

(* Memory that is no part of the list leads nowhere.                       *)
OthersLeadNowhere ==
    \A l \in Level : \A m \in Node \ Towers(l) : next[m][l] = Null

KeysDiffer ==
    \A m, n \in Allocated : node[m].key = node[n].key => m = n

(* len, max_height and the reference counts agree with the nodes.          *)
CountsAgree ==
    /\ IsFiniteSet(Allocated)
    /\ len = Cardinality(Allocated)
    /\ \A n \in Allocated : node[n].refs = node[n].height

ListInvariant ==
    /\ ListTypeOK
    /\ LevelsInOrder
    /\ OthersLeadNowhere
    /\ KeysDiffer
    /\ CountsAgree
    /\ SearchesStartHighEnough

SeqInvariant == SeqTypeOK /\ ListInvariant

=============================================================================
