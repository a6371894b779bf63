------------------------------ MODULE Accounts ------------------------------
(***************************************************************************)
(* The users table: registration into the referral tree, blocking and      *)
(* deletion by an administrator, the two balances, and the manual bonus    *)
(* operations with the audit rows they write.  Operations that announce    *)
(* themselves by SMS depend on the templates an administrator has saved.   *)
(*                                                                         *)
(* One action is one committed transaction of a service call; calls that   *)
(* raise change nothing.  Calls that overlap are the subject of            *)
(* BonusSessions.                                                          *)
(***************************************************************************)
EXTENDS Amounts, Sequences

CONSTANTS
    MaxUsers,          \* bound: how many users ever register
    FoundingReferrers, \* referrer ids of the users who exist initially
    ManualAmounts,     \* amounts (mils) an administrator credits or debits
    MaxCredit,         \* bound: cents credited by hand to one user
    BadTemplates       \* templates that may be saved with a text that cannot be formatted

NoUser == 0            \* referrer_id IS NULL
User == 1..MaxUsers    \* ids come from an autoincrement column

\* The SMS templates of operations modelled here and in the modules above.
Template == {"bonus_accrued", "bonus_manual_credit", "certificate_confirming",
             "certificate_completed", "certificate_cancelled"}

ASSUME AccountsAssumption ==
    /\ MaxUsers \in Nat /\ MaxCredit \in Nat
    /\ ManualAmounts \subseteq Nat
    /\ FoundingReferrers \in Seq(Nat)
    /\ Len(FoundingReferrers) <= MaxUsers
    /\ \A u \in DOMAIN FoundingReferrers : FoundingReferrers[u] < u
    /\ BadTemplates \subseteq Template

VARIABLES
    status,    \* users.status; "none" for a row that does not exist yet
    referrer,  \* users.referrer_id
    balance,   \* users.balance
    pending,   \* users.pending_balance
    audit,     \* what the BONUS rows of audit_log add up to, per user
    broken     \* the templates of settings.sms_templates whose formatting raises

accountVars == <<status, referrer, balance, pending, audit>>

UserStatus == {"none", "active", "blocked", "deleted"}
Founder(u) == u \in DOMAIN FoundingReferrers
Registered(u) == status[u] # "none"

AccountsTypeOK ==
    /\ status \in [User -> UserStatus]
    /\ referrer \in [User -> User \cup {NoUser}]
    /\ balance \in [User -> Nat]
    /\ pending \in [User -> Nat]
    /\ audit \in [User -> [credit : Nat, debit : Nat, exchange : Nat]]

TemplatesTypeOK == broken \subseteq Template

AccountsInit ==
    /\ status = [u \in User |-> IF Founder(u) THEN "active" ELSE "none"]
    /\ referrer = [u \in User |-> IF Founder(u) THEN FoundingReferrers[u] ELSE NoUser]
    /\ balance = [u \in User |-> 0]
    /\ pending = [u \in User |-> 0]
    /\ audit = [u \in User |-> [credit |-> 0, debit |-> 0, exchange |-> 0]]

TemplatesInit == broken = {}

-----------------------------------------------------------------------------
\* SettingsService.update takes any text for a template.
SaveTemplates(new) ==
    /\ new \subseteq BadTemplates
    /\ broken' = new
    /\ UNCHANGED accountVars

\* NotificationService.send does not raise: the user has no phone (deletion
\* takes it) and nothing is rendered, or the template can be formatted.
\* Where it raises, the transaction it is called in is rolled back.
Sends(u, template) == status[u] \in {"active", "blocked"} => template \notin broken

-----------------------------------------------------------------------------
\* Mutant of Register: any code is taken, not only that of an active user.
RegisterAnyCode(u, r) ==
    /\ ~ Registered(u)
    /\ \A v \in 1..(u - 1) : Registered(v)
    /\ status' = [status EXCEPT ![u] = "active"]
    /\ referrer' = [referrer EXCEPT ![u] = r]
    /\ UNCHANGED <<balance, pending, audit>>

\* AuthService.register with the code of an active user, or with the active
\* root code (r = NoUser).  The new row takes the next id.
Register(u, r) ==
    /\ ~ Registered(u)
    /\ \A v \in 1..(u - 1) : Registered(v)
    /\ r # NoUser => r \in User /\ status[r] = "active"
    /\ status' = [status EXCEPT ![u] = "active"]
    /\ referrer' = [referrer EXCEPT ![u] = r]
    /\ UNCHANGED <<balance, pending, audit>>

BlockUser(u) ==
    /\ status[u] = "active"
    /\ status' = [status EXCEPT ![u] = "blocked"]
    /\ UNCHANGED <<referrer, balance, pending, audit>>

UnblockUser(u) ==
    /\ status[u] = "blocked"
    /\ status' = [status EXCEPT ![u] = "active"]
    /\ UNCHANGED <<referrer, balance, pending, audit>>

\* The row is anonymised, never removed: the balances and the place in the
\* tree stay.
DeleteUser(u) ==
    /\ status[u] \in {"active", "blocked"}
    /\ status' = [status EXCEPT ![u] = "deleted"]
    /\ UNCHANGED <<referrer, balance, pending, audit>>

\* BonusService.credit
CreditBonus(u, mils) ==
    LET amount == Quantize(mils) IN
    /\ Registered(u)
    /\ mils > 0
    /\ audit[u].credit + amount <= MaxCredit
    /\ Sends(u, "bonus_manual_credit")
    /\ balance' = [balance EXCEPT ![u] = @ + amount]
    /\ audit' = [audit EXCEPT ![u].credit = @ + amount]
    /\ UNCHANGED <<status, referrer, pending>>

\* Mutant of Debit: the balance is not looked at.
DebitUnchecked(u, amount, reason) ==
    /\ balance' = [balance EXCEPT ![u] = @ - amount]
    /\ audit' = [audit EXCEPT ![u][reason] = @ + amount]
    /\ UNCHANGED <<status, referrer, pending>>

\* BonusService.debit: "reason" tells a certificate's debit from a manual one.
Debit(u, amount, reason) ==
    /\ balance[u] >= amount
    /\ balance' = [balance EXCEPT ![u] = @ - amount]
    /\ audit' = [audit EXCEPT ![u][reason] = @ + amount]
    /\ UNCHANGED <<status, referrer, pending>>

DebitBonus(u, mils) ==
    /\ Registered(u)
    /\ mils > 0
    /\ Debit(u, Quantize(mils), "debit")

AccountsNext ==
    \/ \E u \in User :
        \/ \E r \in User \cup {NoUser} : Register(u, r)
        \/ BlockUser(u)
        \/ UnblockUser(u)
        \/ DeleteUser(u)
        \/ \E mils \in ManualAmounts : CreditBonus(u, mils) \/ DebitBonus(u, mils)

-----------------------------------------------------------------------------
\* Every referrer registered before the users it brought in, so no walk up
\* the referral tree (get_upline_ids) ever comes back to where it started.
TreeIsRooted ==
    /\ \A u \in User : referrer[u] < u
    /\ \A u \in User : referrer[u] # NoUser => Registered(referrer[u])
=============================================================================
