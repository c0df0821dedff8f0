---------------------------- MODULE MCSeqSkipList ----------------------------
(***************************************************************************)
(* The instance of SeqSkipList.tla that TLC checks: addresses are          *)
(* interchangeable.                                                        *)
(***************************************************************************)
EXTENDS SeqSkipListInv, TLC

Addresses == Permutations(Node)

=============================================================================
