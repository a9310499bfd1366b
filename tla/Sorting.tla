------------------------------- MODULE Sorting --------------------------------
(***************************************************************************)
(* sorted and list.sort on elements of which no two have the same key, as  *)
(* an operator that can be reasoned about: the library's SetToSortSeq      *)
(* rests on one of TLC's that has no definition to prove from.             *)
(***************************************************************************)
EXTENDS Naturals, FiniteSets

\* The elements of a finite set, each before those it has to come before
InOrder(S, Before(_, _)) ==
    CHOOSE s \in [1..Cardinality(S) -> S] :
      \A i, j \in DOMAIN s : i < j => Before(s[i], s[j])
================================================================================
