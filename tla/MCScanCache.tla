---------------------------- MODULE MCScanCache -----------------------------
(***************************************************************************)
(* Instances of ScanCache for TLC.  arc is an archive; doc and pic are     *)
(* plain files.  Archive content z1 has the member m1 with the content p1, *)
(* z2 the member m2 with the content p2, so a change from z1 to z2         *)
(* replaces a member.  The plain contents p1 and p2 have the same size: a  *)
(* size group need not be a hash group, and only the ctime shows that one  *)
(* replaced the other.  z1 is huge, z2 is decoded from memory, and arc may *)
(* also hold p1, which is no archive at all.                               *)
(***************************************************************************)
EXTENDS ScanCache

CONSTANTS arc, doc, pic, m1, m2, p1, p2, z1, z2

TwoFiles == {arc, doc}
ThreeFiles == {arc, doc, pic}
OneArchive == {arc}
TwoMembers == {m1, m2}
FourContents == {p1, p2, z1, z2}

PossibleContents == [x \in Files |-> IF x = arc THEN {z1, z2, p1} ELSE {p1, p2}]
OnlyArchives == [x \in Files |-> IF x = arc THEN {z1, z2} ELSE {p1, p2}]

Lengths == [c \in FourContents |-> CASE c = z1 -> 3 [] c = z2 -> 2 [] OTHER -> 1]

(* Here a plain file changes its size when it changes its content.         *)
OtherLengths == [Lengths EXCEPT ![p2] = 2]

ArchiveHolds ==
  [c \in FourContents |->
     [m \in TwoMembers |->
        CASE c = z1 /\ m = m1 -> p1
          [] c = z2 /\ m = m2 -> p2
          [] OTHER -> None]]
=============================================================================
