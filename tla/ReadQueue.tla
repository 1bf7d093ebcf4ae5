----------------------------- MODULE ReadQueue ------------------------------
(***************************************************************************)
(* What the readahead promises to hash_files: the files of the source are  *)
(* handed out in the order of the source and never twice.  A file that     *)
(* cannot be opened is reported or passed over, but another file is passed *)
(* over only when the answer before was an error.  The end is announced    *)
(* after the last file, or before files that cannot be opened.             *)
(***************************************************************************)
EXTENDS Naturals, Sequences, FiniteSetsExt, SequencesExt

CONSTANT N      \* number of files the source yields

VARIABLES
  given,        \* the files handed out
  reported,     \* the files about which an error was returned
  broken,       \* the files of which is known that they cannot be opened
  ended         \* next() has returned None

vars == <<given, reported, broken, ended>>

Init == given = <<>> /\ reported = {} /\ broken = {} /\ ended = FALSE

LastAnswer == Max({0} \cup ToSet(given) \cup reported)

(* The files the next answer may be about.                                 *)
Due ==
  IF LastAnswer \in reported THEN {LastAnswer + 1, LastAnswer + 2} ELSE {LastAnswer + 1}

(* Files are found to be broken at any time, before they are due.          *)
Break == broken \subseteq broken' /\ broken' \ broken \subseteq LastAnswer + 1..N

Give ==
  /\ ~ended
  /\ \E f \in Due : f \in 1..N /\ f \notin broken /\ given' = Append(given, f)
  /\ UNCHANGED <<reported, broken, ended>>

Report ==
  /\ ~ended
  /\ \E f \in Due : f \in broken /\ reported' = reported \cup {f}
  /\ UNCHANGED <<given, broken, ended>>

End ==
  /\ \E f \in Due : f = N + 1 \/ f \in broken'
  /\ ended' = TRUE
  /\ Break
  /\ UNCHANGED <<given, reported>>

Find == Break /\ ~ended /\ UNCHANGED <<given, reported, ended>>

Next == Give \/ Report \/ End \/ Find

Spec == Init /\ [][Next]_vars
=============================================================================
