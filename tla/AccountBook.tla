----------------------------- MODULE AccountBook -----------------------------
(***************************************************************************)
(* What the bonus platform promises a user about the two balances, in terms*)
(* of nothing else: bonuses are held first and available later, what       *)
(* becomes available is exactly what stops being held, what is available   *)
(* leaves one account at a time, and no balance is ever below zero.        *)
(***************************************************************************)
EXTENDS Integers

CONSTANT Account

VARIABLES
    available,  \* bonuses the user may spend
    held        \* bonuses earned and not yet available

bookVars == <<available, held>>

BookInit ==
    /\ available = [a \in Account |-> 0]
    /\ held = [a \in Account |-> 0]

Solvent == \A a \in Account : available'[a] >= 0 /\ held'[a] >= 0

\* Bonuses of one event are granted to several accounts at once.
Earn ==
    /\ \A a \in Account : held'[a] >= held[a]
    /\ UNCHANGED available

\* Held bonuses are taken back.
Void ==
    /\ \A a \in Account : held'[a] <= held[a]
    /\ UNCHANGED available

\* Held bonuses become available, cent for cent.
Mature ==
    \A a \in Account :
        /\ held'[a] <= held[a]
        /\ available'[a] - available[a] = held[a] - held'[a]

\* One account is credited, or spends what it has.
Adjust ==
    /\ \E a \in Account : \A other \in Account \ {a} : available'[other] = available[other]
    /\ UNCHANGED held

BookNext == Solvent /\ (Earn \/ Void \/ Mature \/ Adjust)

BookSpec == BookInit /\ [][BookNext]_bookVars
=============================================================================
