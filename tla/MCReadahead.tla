---------------------------- MODULE MCReadahead -----------------------------
(* Instances of Readahead for TLC: blocks of 2 bytes, batches of one or    *)
(* two files.                                                              *)
EXTENDS Readahead

MixLength == <<3, 0, 5, 0, 0, 0, 0, 1, 2>>
ShortLength == <<1, 1, 1, 1>>
TwoBudgets == {2, 5}
OneBudget == {5}
=============================================================================
