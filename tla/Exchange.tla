------------------------------ MODULE Exchange ------------------------------
(***************************************************************************)
(* Exchange of bonuses for partner certificates: PartnerService and        *)
(* CertificateService.  A request does not reserve bonuses; completing it  *)
(* debits them and attaches the file.  One action is one committed         *)
(* transaction; the steps inside complete(), where the file is uploaded    *)
(* before the commit, are the subject of BonusSessions.                    *)
(***************************************************************************)
EXTENDS Accounts

CONSTANTS
    Partner,        \* partner ids
    Certificate,    \* certificate request ids
    LimitAmounts,   \* amounts (mils) for min_exchange, max_exchange, exchange_step
    RequestAmounts  \* amounts (mils) users ask for

ASSUME ExchangeAssumption ==
    /\ LimitAmounts \subseteq Nat
    /\ RequestAmounts \subseteq Nat

VARIABLES
    partners,     \* the partners table
    certificates  \* the certificate_requests table; "file": has certificate_file_key

exchangeVars == <<partners, certificates>>

NoMax == -1  \* max_exchange IS NULL
FinalStatus == {"completed", "cancelled"}
OpenStatus == {"new", "confirming", "in_progress"}
CertificateStatus == FinalStatus \cup OpenStatus

NoPartnerRow == [status |-> "absent", min |-> 0, max |-> NoMax, step |-> 0]
PartnerRow == [status : {"absent", "active", "inactive"}, min : Nat,
               max : Nat \cup {NoMax}, step : Nat]

NoRequest == [status |-> "absent", user |-> NoUser, amount |-> 0, file |-> FALSE]
Request == [status : CertificateStatus \cup {"absent"}, user : User \cup {NoUser},
            amount : Nat, file : BOOLEAN]

ExchangeTypeOK ==
    /\ partners \in [Partner -> PartnerRow]
    /\ certificates \in [Certificate -> Request]

ExchangeInit ==
    /\ partners = [p \in Partner |-> NoPartnerRow]
    /\ certificates = [c \in Certificate |-> NoRequest]

-----------------------------------------------------------------------------
(* PartnerService *)

Limits(mils) == {Quantize(m) : m \in mils}
Positive == {m \in LimitAmounts : m > 0}

CreatePartner(p, min, max, step) ==
    /\ partners[p].status = "absent"
    /\ min > 0 /\ step > 0
    /\ max = NoMax \/ max >= min
    /\ partners' = [partners EXCEPT ![p] = [status |-> "active", min |-> Quantize(min),
                       max |-> IF max = NoMax THEN NoMax ELSE Quantize(max),
                       step |-> Quantize(step)]]
    /\ UNCHANGED <<accountVars, certificates>>

\* The rows an update can leave: each field is left alone or set.
\* max_exchange is compared with nothing, and cannot become NULL again.
UpdatedRows(p) ==
    [status : {"active", "inactive"},
     min : Limits(Positive) \cup {partners[p].min},
     max : Limits(LimitAmounts) \cup {partners[p].max},
     step : Limits(Positive) \cup {partners[p].step}]

UpdatePartner(p, new) ==
    /\ partners[p].status # "absent"
    /\ new \in UpdatedRows(p)
    /\ partners' = [partners EXCEPT ![p] = new]
    /\ UNCHANGED <<accountVars, certificates>>

-----------------------------------------------------------------------------
(* CertificateService *)

CreateRequest(c, u, p, mils) ==
    LET amount == Quantize(mils)
        partner == partners[p] IN
    /\ certificates[c].status = "absent"
    /\ status[u] = "active"
    /\ mils > 0
    /\ balance[u] >= amount
    /\ partner.status = "active"
    /\ amount >= partner.min
    /\ partner.max # NoMax => amount <= partner.max
    /\ certificates' = [certificates EXCEPT ![c] =
                          [status |-> "new", user |-> u, amount |-> amount, file |-> FALSE]]
    /\ UNCHANGED <<accountVars, partners>>

\* change_status, in any direction between the open statuses.
MoveRequest(c, new) ==
    /\ certificates[c].status \in OpenStatus \ {new}
    /\ new \in OpenStatus
    /\ new = "confirming" => Sends(certificates[c].user, "certificate_confirming")
    /\ certificates' = [certificates EXCEPT ![c].status = new]
    /\ UNCHANGED <<accountVars, partners>>

\* Mutant of CompleteRequest: a completed request may be completed again.
CompleteAgain(c) ==
    LET request == certificates[c] IN
    /\ request.status \in OpenStatus \cup {"completed"}
    /\ request.amount > 0
    /\ Debit(request.user, request.amount, "exchange")
    /\ Sends(request.user, "certificate_completed")
    /\ certificates' = [certificates EXCEPT ![c].status = "completed", ![c].file = TRUE]
    /\ UNCHANGED partners

\* complete: the debit checks the balance again and refuses an amount of 0.00.
CompleteRequest(c) ==
    LET request == certificates[c] IN
    /\ request.status \in OpenStatus
    /\ request.amount > 0
    /\ Debit(request.user, request.amount, "exchange")
    /\ Sends(request.user, "certificate_completed")
    /\ certificates' = [certificates EXCEPT ![c].status = "completed", ![c].file = TRUE]
    /\ UNCHANGED partners

\* Mutant of CancelRequest: the file of a completed request is dropped.
CancelDroppingFile(c) ==
    /\ certificates[c].status \in CertificateStatus \ {"cancelled"}
    /\ Sends(certificates[c].user, "certificate_cancelled")
    /\ certificates' = [certificates EXCEPT ![c].status = "cancelled", ![c].file = FALSE]
    /\ UNCHANGED <<accountVars, partners>>

\* cancel: from every status but cancelled; a completed request keeps its file,
\* and its bonuses do not come back.
CancelRequest(c) ==
    /\ certificates[c].status \in CertificateStatus \ {"cancelled"}
    /\ Sends(certificates[c].user, "certificate_cancelled")
    /\ certificates' = [certificates EXCEPT ![c].status = "cancelled"]
    /\ UNCHANGED <<accountVars, partners>>

ExchangeNext ==
    \/ \E p \in Partner :
        \/ \E min, step \in LimitAmounts, max \in LimitAmounts \cup {NoMax} :
            CreatePartner(p, min, max, step)
        \/ \E new \in UpdatedRows(p) : UpdatePartner(p, new)
    \/ \E c \in Certificate :
        \/ \E u \in User, p \in Partner, mils \in RequestAmounts :
            CreateRequest(c, u, p, mils)
        \/ \E new \in OpenStatus : MoveRequest(c, new)
        \/ CompleteRequest(c)
        \/ CancelRequest(c)
=============================================================================
