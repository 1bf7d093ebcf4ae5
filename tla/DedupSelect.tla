----------------------------- MODULE DedupSelect ----------------------------
(***************************************************************************)
(* Deduper::dedup (dupion/src/dedup/mod.rs) for one hash group: the files  *)
(* whose place on the disk is known are the candidates; one of them, the   *)
(* senpai, is kept, and the ones that lie somewhere else become its dups.  *)
(* count_phys_occurrences_sorted is modelled loop by loop.                 *)
(*                                                                         *)
(* All constants are for one group; the groups do not depend on each       *)
(* other.                                                                  *)
(***************************************************************************)
EXTENDS Naturals, Sequences, FiniteSets, SequencesExt

CONSTANTS
  N,            \* number of file entries of the hash group
  Places,       \* the physical positions, without 0
  Extents,      \* numbers of extents
  Ctimes,
  Aggressive    \* opts.aggressive_dedup

ASSUME ConstantsAssumption ==
  /\ N \in Nat
  /\ Places \subseteq Nat \ {0}
  /\ Extents \subseteq Nat
  /\ Ctimes \subseteq Nat
  /\ Aggressive \in BOOLEAN

(* An entry whose phys or n_extends is unknown, or that is not valid, is   *)
(* represented by phys = 0.                                                *)
Unplaced == [phys |-> 0, n_extends |-> 0, ctime |-> 0]
EntryProps == [phys : Places, n_extends : Extents, ctime : Ctimes] \cup {Unplaced}

VARIABLES
  entries,      \* HashGroup::entries; an entry is named by its index
  pc,           \* "collect", "forward", "backward", "select", "done"
  v,            \* the candidates: entries sorted by phys
  phys_occurrences,
  i,            \* loop index
  current_phys,
  current_count,
  senpai,       \* the chosen entry, 0 if there is no group
  dups          \* the others

vars == <<entries, pc, v, phys_occurrences, i, current_phys, current_count, senpai, dups>>

Init ==
  /\ entries \in [1..N -> EntryProps]
  /\ pc = "collect"
  /\ v = <<>>
  /\ phys_occurrences = <<>>
  /\ i = 1
  /\ current_phys = 0
  /\ current_count = 0
  /\ senpai = 0
  /\ dups = {}

Phys(k) == entries[v[k]].phys

Usable == {e \in 1..N : entries[e].phys # 0}

(* s lists the candidates in the order of a stable sort by phys.           *)
InOrderOfPhys(s) ==
  \A k, l \in DOMAIN s : k < l =>
    \/ entries[s[k]].phys < entries[s[l]].phys
    \/ entries[s[k]].phys = entries[s[l]].phys /\ s[k] < s[l]

(* The candidates are collected and sorted.                                *)
Collect ==
  /\ pc = "collect"
  /\ Cardinality(Usable) >= 2
  /\ v' \in [1..Cardinality(Usable) -> Usable]
  /\ InOrderOfPhys(v')
  /\ phys_occurrences' = [k \in 1..Cardinality(Usable) |-> 0]
  /\ current_phys' = entries[v'[1]].phys
  /\ pc' = "forward"
  /\ UNCHANGED <<entries, i, current_count, senpai, dups>>

(* A group with fewer than two candidates is passed over.                  *)
PassOver ==
  /\ pc = "collect"
  /\ Cardinality(Usable) < 2
  /\ pc' = "done"
  /\ UNCHANGED <<entries, v, phys_occurrences, i, current_phys, current_count, senpai, dups>>

(* Mutant of Forward: a new place does not reset the counter.              *)
ForwardNoReset ==
  /\ pc = "forward"
  /\ i <= Len(v)
  /\ current_phys' = Phys(i)
  /\ current_count' = current_count + 1
  /\ phys_occurrences' = [phys_occurrences EXCEPT ![i] = current_count']
  /\ i' = i + 1
  /\ UNCHANGED <<entries, pc, v, senpai, dups>>

(* The first loop numbers the candidates of each place.                    *)
Forward ==
  /\ pc = "forward"
  /\ i <= Len(v)
  /\ current_phys' = Phys(i)
  /\ current_count' = IF current_phys = Phys(i) THEN current_count + 1 ELSE 1
  /\ phys_occurrences' = [phys_occurrences EXCEPT ![i] = current_count']
  /\ i' = i + 1
  /\ UNCHANGED <<entries, pc, v, senpai, dups>>

EndForward ==
  /\ pc = "forward"
  /\ i > Len(v)
  /\ pc' = "backward"
  /\ i' = Len(v)
  /\ UNCHANGED <<entries, v, phys_occurrences, current_phys, current_count, senpai, dups>>

(* The second loop gives each candidate the number of the last one at its  *)
(* place.                                                                  *)
Backward ==
  /\ pc = "backward"
  /\ i > 0
  /\ current_phys' = Phys(i)
  /\ current_count' = IF current_phys = Phys(i) THEN current_count ELSE phys_occurrences[i]
  /\ phys_occurrences' = [phys_occurrences EXCEPT ![i] = current_count']
  /\ i' = i - 1
  /\ UNCHANGED <<entries, pc, v, senpai, dups>>

EndBackward ==
  /\ pc = "backward"
  /\ i = 0
  /\ pc' = "select"
  /\ UNCHANGED <<entries, v, phys_occurrences, i, current_phys, current_count, senpai, dups>>

AvgPhys ==
  FoldLeft(LAMBDA sum, e : sum + entries[e].phys, 0, v) \div Len(v)

Distance(x, y) == IF x > y THEN x - y ELSE y - x

(* Mutant of Better: the rarer place wins.                                 *)
BetterRare(k, l) ==
  LET d == entries[v[k]]
      e == entries[v[l]]
  IN
  \/ d.n_extends < e.n_extends
  \/ /\ d.n_extends = e.n_extends
     /\ \/ phys_occurrences[k] < phys_occurrences[l]
        \/ /\ phys_occurrences[k] = phys_occurrences[l]
           /\ \/ d.ctime < e.ctime
              \/ /\ d.ctime = e.ctime
                 /\ \/ Distance(AvgPhys, d.phys) < Distance(AvgPhys, e.phys)
                    \/ Distance(AvgPhys, d.phys) = Distance(AvgPhys, e.phys) /\ k < l

(* The lexicographic order of the keys of min_by_key; a tie goes to the    *)
(* candidate that comes first.                                             *)
Better(k, l) ==
  LET d == entries[v[k]]
      e == entries[v[l]]
  IN
  \/ d.n_extends < e.n_extends
  \/ /\ d.n_extends = e.n_extends
     /\ \/ phys_occurrences[k] > phys_occurrences[l]
        \/ /\ phys_occurrences[k] = phys_occurrences[l]
           /\ \/ d.ctime < e.ctime
              \/ /\ d.ctime = e.ctime
                 /\ \/ Distance(AvgPhys, d.phys) < Distance(AvgPhys, e.phys)
                    \/ Distance(AvgPhys, d.phys) = Distance(AvgPhys, e.phys) /\ k < l

(* Mutant of Select: the candidates at the place of the senpai are kept    *)
(* and the others dropped.                                                 *)
SelectSamePlace ==
  /\ pc = "select"
  /\ \E k \in DOMAIN v :
       /\ \A l \in DOMAIN v : l # k => Better(k, l)
       /\ senpai' = v[k]
       /\ dups' = {v[l] : l \in {m \in DOMAIN v :
                     m # k /\ (Aggressive \/ Phys(m) = Phys(k))}}
  /\ pc' = "done"
  /\ UNCHANGED <<entries, v, phys_occurrences, i, current_phys, current_count>>

(* Without dups dedup() makes no group of it.                              *)
Select ==
  /\ pc = "select"
  /\ \E k \in DOMAIN v :
       /\ \A l \in DOMAIN v : l # k => Better(k, l)
       /\ senpai' = v[k]
       /\ dups' = {v[l] : l \in {m \in DOMAIN v :
                     m # k /\ (Aggressive \/ Phys(m) # Phys(k))}}
  /\ pc' = "done"
  /\ UNCHANGED <<entries, v, phys_occurrences, i, current_phys, current_count>>

Done == pc = "done" /\ UNCHANGED vars

Next ==
  \/ Collect
  \/ PassOver
  \/ Forward
  \/ EndForward
  \/ Backward
  \/ EndBackward
  \/ Select
  \/ Done

Spec == Init /\ [][Next]_vars

-----------------------------------------------------------------------------
(* Properties.                                                             *)

(* After the two loops each candidate knows how many candidates of the     *)
(* group lie at its place.                                                 *)
OccurrencesCounted ==
  pc = "select" =>
    \A k \in DOMAIN v :
      phys_occurrences[k] = Cardinality({l \in DOMAIN v : Phys(l) = Phys(k)})

(* When the dups have been given the extents of the senpai, all candidates *)
(* lie at one place; the senpai itself is not touched, and a group with    *)
(* candidates at two places is not passed over.                            *)
OnePlaceAfterwards ==
  pc = "done" =>
    /\ senpai \notin dups
    /\ Cardinality(Usable) >= 2 =>
         /\ senpai \in Usable
         /\ \A e \in Usable : e \in dups \/ entries[e].phys = entries[senpai].phys

(* Among the candidates with the fewest extents none lies at a place that  *)
(* is more common than the senpai's: the copy that needs the fewest        *)
(* changes is kept.                                                        *)
At(p) == {e \in Usable : entries[e].phys = p}

SenpaiAtCommonPlace ==
  (pc = "done" /\ senpai # 0) =>
    \A e \in Usable :
      /\ entries[senpai].n_extends <= entries[e].n_extends
      /\ entries[senpai].n_extends = entries[e].n_extends =>
           Cardinality(At(entries[e].phys)) <= Cardinality(At(entries[senpai].phys))

-----------------------------------------------------------------------------
(* The inductive invariant behind the properties.                          *)

(* The candidates up to k, and all candidates, that lie at the place of k. *)
RunTo(k) == {l \in 1..k : Phys(l) = Phys(k)}
RunOf(k) == {l \in DOMAIN v : Phys(l) = Phys(k)}

Looping == pc \in {"forward", "backward", "select"}

ListInv ==
  /\ entries \in [1..N -> EntryProps]
  /\ pc \in {"collect", "forward", "backward", "select", "done"}
  /\ i \in Nat
  /\ pc = "collect" => i = 1 /\ current_count = 0
  /\ Looping =>
       /\ v \in Seq(1..N)
       /\ Len(v) > 0
       /\ phys_occurrences \in [1..Len(v) -> Nat]
       /\ \A k, l \in 1..Len(v) : k < l => Phys(k) <= Phys(l)
       /\ i <= Len(v) + 1

(* The first loop has numbered the candidates before i.                    *)
ForwardInv ==
  pc = "forward" =>
    /\ i > 0
    /\ current_count \in Nat
    /\ i = 1 => current_count = 0 /\ current_phys = Phys(1)
    /\ i > 1 => current_phys = Phys(i - 1) /\ current_count = phys_occurrences[i - 1]
    /\ \A k \in 1..(i - 1) : phys_occurrences[k] = Cardinality(RunTo(k))

(* The second loop has counted the ones behind i.                          *)
BackwardInv ==
  pc = "backward" =>
    /\ current_count \in Nat
    /\ i \in 0..Len(v)
    /\ i = Len(v) => current_phys = Phys(i) /\ current_count = phys_occurrences[i]
    /\ i < Len(v) => current_phys = Phys(i + 1) /\ current_count = phys_occurrences[i + 1]
    /\ \A k \in 1..i : phys_occurrences[k] = Cardinality(RunTo(k))
    /\ \A k \in (i + 1)..Len(v) : phys_occurrences[k] = Cardinality(RunOf(k))

CountInv == ListInv /\ ForwardInv /\ BackwardInv /\ OccurrencesCounted

(* The list holds every candidate once, and nothing is chosen before all   *)
(* are counted.                                                            *)
ChoiceInv ==
  /\ Looping =>
       /\ \A k \in DOMAIN v : v[k] \in Usable
       /\ \A k, l \in DOMAIN v : v[k] = v[l] => k = l
       /\ \A e \in Usable : \E k \in DOMAIN v : v[k] = e
  /\ pc # "done" => senpai = 0 /\ dups = {}

IInv == CountInv /\ ChoiceInv /\ OnePlaceAfterwards /\ SenpaiAtCommonPlace
=============================================================================
