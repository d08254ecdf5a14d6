------------------------------- MODULE Sums -------------------------------
(* Sums of money and units: over a set, a sequence, or what a rule counts. *)
EXTENDS Integers, SequencesExt

SumOver(f, S) == MapThenSumSet(LAMBDA x : f[x], S)

SumOf(q) == SumOver(q, DOMAIN q)

Total(amount(_), q) == SumOf([i \in DOMAIN q |-> amount(q[i])])
===========================================================================
