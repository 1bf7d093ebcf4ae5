----------------------------- MODULE MCHashPool -----------------------------
(***************************************************************************)
(* Instances of HashPool for TLC.  Sizes are in units of the smallest      *)
(* archive: with CacheMem = 6 and three workers an archive of up to 2 is   *)
(* kept in memory, a larger one is huge.                                   *)
(***************************************************************************)
EXTENDS HashPool

(* Candidates: archive, huge archive, archive, plain file, archive,        *)
(* archive.  The last one has to wait for memory.                          *)
MixIsZip == <<TRUE, TRUE, TRUE, FALSE, TRUE, TRUE>>
MixSize == <<2, 3, 2, 4, 2, 1>>
MixChunks == <<0, 2, 0, 0, 0, 0>>

(* A huge archive followed by archives in memory, for two workers.         *)
HugeFirstIsZip == <<TRUE, TRUE, TRUE, TRUE>>
HugeFirstSize == <<3, 1, 1, 1>>
HugeFirstChunks == <<1, 0, 0, 0>>
=============================================================================
