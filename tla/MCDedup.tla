------------------------------ MODULE MCDedup -------------------------------
(* Instances of Dedup for TLC; the number of files in a batch is small.   *)
EXTENDS Dedup

(* A group that has too many files for any batch, a pair that is too large *)
(* for the page cache, a group whose files fit one after the other or all  *)
(* at once, depending on the cache, and small groups that share a batch.   *)
ManyInput ==
  << [senpai |-> 1, dups |-> <<2, 3, 4, 5, 6, 7>>, len |-> 1],
     [senpai |-> 8, dups |-> <<9>>, len |-> 4],
     [senpai |-> 10, dups |-> <<11, 12, 13>>, len |-> 2],
     [senpai |-> 14, dups |-> <<15>>, len |-> 1],
     [senpai |-> 16, dups |-> <<17>>, len |-> 1],
     [senpai |-> 18, dups |-> <<19, 20>>, len |-> 3] >>
ManyCaches == 3..10

(* Three dups, which are split, and a pair.                                *)
FewInput ==
  << [senpai |-> 1, dups |-> <<2, 3, 4>>, len |-> 1],
     [senpai |-> 5, dups |-> <<6>>, len |-> 2] >>

(* The first is only batched, the other goes through the kernel.           *)
TwoWorkloads ==
  {[input |-> ManyInput, cache_maxes |-> ManyCaches, changing |-> {}, simulate |-> TRUE],
   [input |-> FewInput, cache_maxes |-> {3, 8}, changing |-> {1, 3}, simulate |-> FALSE]}

SomeIds == 1..20
=============================================================================
