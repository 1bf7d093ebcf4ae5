------------------------------ MODULE MCPass1 -------------------------------
EXTENDS Pass1

(* /a holds the file f and the directories d and e, which share their      *)
(* place.  d holds a file and the directory c, which lies before it on the *)
(* disk and holds a symbolic link.  e and the file in it come and go.      *)
MCNames == {"a", "c", "d", "e", "f", "g", "l"}
MCDirs == {<<"a">>, <<"a", "d">>, <<"a", "e">>, <<"a", "d", "c">>}
MCFiles == {<<"a", "f">>, <<"a", "d", "g">>, <<"a", "e", "f">>}
MCLinks == {<<"a", "d", "c", "l">>}
MCDirPos == [d \in MCDirs |-> IF Len(d) = 1 THEN None ELSE IF Len(d) = 3 THEN 1 ELSE 2]
MCFilePos == [f \in MCFiles |-> IF f = <<"a", "d", "g">> THEN 3 ELSE 2]
MCIno == [f \in MCFiles |-> IF f = <<"a", "d", "g">> THEN 7 ELSE 9]
MCExtentSum == [d \in MCDirs |-> IF Len(d) = 1 THEN 0 ELSE IF d = <<"a", "e">> THEN 2 ELSE 1]
MCChanging == {<<"a", "e">>, <<"a", "e", "f">>}
MCRootLists == {<< <<"a">>, <<"a", "d">> >>, << <<"a", "f">>, <<"a">> >>}
MCCaches == {<< <<"a", "e">>, <<"a", "d", "g">> >>}
=============================================================================
