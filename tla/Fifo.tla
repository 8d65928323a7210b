--------------------------------- MODULE Fifo ---------------------------------
(***************************************************************************)
(* Vocabulary for Go channels used as queues: a queue against the history  *)
(* of what was put in it, and how many of its elements are of a kind.      *)
(***************************************************************************)
EXTENDS Naturals, Sequences, FiniteSets

\* s is an initial part of t; s is what is left at the end of t.
PrefixOf(s, t) == Len(s) <= Len(t) /\ \A i \in 1..Len(s) : s[i] = t[i]
SuffixOf(s, t) == Len(s) <= Len(t) /\ \A i \in 1..Len(s) : s[i] = t[Len(t) - Len(s) + i]

\* The elements of q, and how many of them are in S.
Elems(q) == {q[i] : i \in DOMAIN q}
Count(q, S) == Cardinality({i \in DOMAIN q : q[i] \in S})
===============================================================================
