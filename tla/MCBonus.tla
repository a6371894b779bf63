------------------------------- MODULE MCBonus -------------------------------
(* Instances of Bonus small enough for TLC. *)
EXTENDS Bonus, TLC

Chain(n) == [u \in 1..n |-> u - 1]

\* A chain of three, the first its owner; a fourth user may join anywhere.
Owner == Chain(1)
Chain3 == Chain(3)
\* An owner and four below: the upline of a user below the last is longer
\* than four levels.
Chain5 == Chain(5)

Percents == <<400, 300, 200, 100>>
ZeroRule == [percent |-> Percents, rule |-> "zero", delay |-> 1]
SkipRule == [percent |-> Percents, rule |-> "skip", delay |-> 0]
RequestSymmetry == Permutations(Certificate)

BothRules == {ZeroRule, SkipRule}
JustZero == {ZeroRule}
=============================================================================
