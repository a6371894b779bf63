-------------------------- MODULE MCBonusSessions --------------------------
(* Instances of BonusSessions small enough for TLC. *)
EXTENDS BonusSessions

HeldByFirst == [c \in Certificate |-> 1]

Job == [kind |-> "job"]
Process(u) == [kind |-> "process", user |-> u]
Issue(d) == [kind |-> "issue", deal |-> d]
Withdraw(d) == [kind |-> "withdraw", deal |-> d]
CreditOp(u) == [kind |-> "credit", user |-> u]
DebitOp(u) == [kind |-> "debit", user |-> u]
Complete(c) == [kind |-> "complete", request |-> c]
Cancel(c) == [kind |-> "cancel", request |-> c]
Confirm(c) == [kind |-> "confirm", request |-> c]

ReferralOps == {Job, Process(1)} \cup UNION {{Issue(d), Withdraw(d)} : d \in Deal}
RequestOps(c) == {Complete(c), Confirm(c), Cancel(c)}
ExchangeOps == {DebitOp(1), CreditOp(1)} \cup UNION {RequestOps(c) : c \in Certificate}
AllOps == ReferralOps \cup ExchangeOps

MaturingOps == {Job, Process(1)}
CompletingOps == {Complete(c) : c \in Certificate}
=============================================================================
