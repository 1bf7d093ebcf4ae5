--------------------------- MODULE MCDedupSelect ----------------------------
(* Instance of DedupSelect for TLC: all groups of up to four entries.      *)
EXTENDS DedupSelect

ThreePlaces == {1, 2, 4}
TwoNumbers == {1, 2}
=============================================================================
