---------------------------- MODULE MCDirGroups -----------------------------
EXTENDS DirGroups

(* Two roots A and B, each with a file x and a directory or archive d that *)
(* may hold y:  0 "", 1 A, 2 A/d, 3 A/d/y, 4 A/x, 5 B, 6 B/d, 7 B/d/y, 8 B/x. *)
(* The cache may have known a file with the content p at d and y.          *)
MCIds == 0..8
MCPath == [id \in MCIds |->
  CASE id = 0 -> <<>>
    [] id = 1 -> <<"A">>
    [] id = 2 -> <<"A", "d">>
    [] id = 3 -> <<"A", "d", "y">>
    [] id = 4 -> <<"A", "x">>
    [] id = 5 -> <<"B">>
    [] id = 6 -> <<"B", "d">>
    [] id = 7 -> <<"B", "d", "y">>
    [] id = 8 -> <<"B", "x">>]
MCRoots == <<1, 5>>

(* The empty content and two contents of different size.                   *)
MCLength == [e |-> 0, p |-> 1, q |-> 2]

Label(s, c, h) == [state |-> s, content |-> c, hashed |-> h]
Absent == Label("none", None, FALSE)

LabelsOf(name) ==
  CASE name \in {"A", "B"} -> {Absent, Label("dir", None, FALSE), Label("file", "p", TRUE)}
    [] name = "d" -> {Absent, Label("dir", None, FALSE), Label("dir", "p", TRUE),
                      Label("file", "p", TRUE),
                      Label("archive", "e", TRUE), Label("archive", "q", TRUE),
                      Label("archive", "q", FALSE)}
    [] name = "x" -> {Absent, Label("file", "e", TRUE), Label("file", "p", TRUE),
                      Label("file", "p", FALSE)}
    [] name = "y" -> {Absent, Label("stale", "p", TRUE), Label("file", "e", TRUE),
                      Label("file", "p", TRUE), Label("file", "q", TRUE),
                      Label("file", "q", FALSE)}

Names == {"A", "d", "y", "x"}

(* What one root may hold.                                                 *)
Halves == {h \in [Names -> UNION {LabelsOf(n) : n \in Names}] :
             \A n \in Names : h[n] \in LabelsOf(n)
                            /\ (n # "A" /\ h["A"].state # "dir" => h[n].state = "none")}

MCTrees ==
  {[id \in MCIds \ {0} |-> half[IF id <= 4 THEN 1 ELSE 2][IF id \in {1, 5} THEN "A" ELSE Last(MCPath[id])]] :
     half \in {<<a, b>> : a \in Halves, b \in Halves}}
=============================================================================
