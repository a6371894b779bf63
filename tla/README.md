# Insurance Platform: a verification of its backend

The repository is the Python backend of an insurance platform: FastAPI handlers
and services over PostgreSQL (SQLAlchemy async sessions), Redis, MinIO, and an
in-process APScheduler. Clients come through a referral tree; an issued policy
earns bonuses for up to four referrers above the client; bonuses are held, become
available on a date, and are exchanged for partners' certificates. Around that
core stand the ways in (codes, tokens, staff accounts), the desk where clients and
managers talk about applications, a queue of SMS, and the platform's settings.

The modules here model all of these. TLC checks them on small instances and TLAPS
proves every invariant among the runs' properties, and every action property, for
every instance; liveness is TLC's alone.

## 1. The system

| component | source (`src/app/`) | state | operations |
|---|---|---|---|
| Accounts, referral tree | `services/auth_service.py`, `api/routers/admin.py`, `services/bonus_service.py` | `users`: status, `referrer_id`, `balance`, `pending_balance`; `audit_log` | register, block, unblock, delete, manual credit and debit |
| Deals and accruals | `services/deal_service.py`, `services/referral_service.py`, `tasks/accrual_job.py` | `deals`, `referral_accruals` | create, change status, update amount; accrue, cancel, mature |
| Exchange | `services/partner_service.py`, `services/certificate_service.py` | `partners`, `certificate_requests`, objects in MinIO | create and update partners; create, move, complete, cancel requests |
| Database sessions | `core/database.py` and every service | one transaction and identity map per call | select, flush, commit, rollback |
| Scheduler | `main.py`, `tasks/` | timers | accrual job hourly, SMS job each minute |
| SMS queue | `services/notification_service.py`, `tasks/sms_job.py` | `sms_notifications` | enqueue, send a batch |
| One-time codes | `services/code_generator_service.py`, `services/auth_service.py` | `otp:*`, `sms_daily:*` in Redis | new code, verify |
| User tokens | `services/auth_service.py` | `refresh_tokens` | login, refresh, logout, revoke |
| Settings | `services/settings_service.py` | the one `settings` row, a cached copy in Redis | read, update |
| Applications | `services/application_service.py` | `applications` and their events | create, change status |
| Chats | `services/internal_service.py`, `repositories/` | `chats`, `messages` | open, check access, idempotent insert |
| Files | `services/file_service.py` | `files`, objects in MinIO | upload, download |
| Staff | `api/routers/admin.py`, `admin_managers.py`, `support.py`, `scripts/init_owner.py` | `support_agents` | make the owner, invite, accept, patch, block, deactivate |
| Audit, reports | `services/audit_service.py`, `api/routers/admin_reports.py` | `audit_log` | append; read |

Interaction. Every service call is one HTTP request or one run of a job, with a
database session of its own, and the services meet in the database: deals write
accruals and `users.pending_balance`, the job moves amounts to `users.balance`,
manual operations and certificates draw on it, registration and administration
shape the tree and the statuses that accruals read; messages, applications and
certificates add rows to the chats and to the SMS queue. A row is read into
Python, changed there and written back; nothing takes a row lock by
`SELECT ... FOR UPDATE`, and no row has a version. `autoflush` is off, so a call's
writes reach PostgreSQL at its explicit flushes, and hold row locks from there to
its commit; UNIQUE indexes decide between inserts that meet. Redis keeps codes and
counters, and cached copies of the settings and of uplines; each request to it is
a step of its own, and those of the settings may fail without failing the call.

What is hard: sequences of deal statuses across several issues; calls that
overlap; a call that dies between a flush, an upload and a commit, or between two
commits; locks taken in different orders; rounding; state that changes between the
check and its use; a gateway that repeats a message. `PROJECT.json` lists each
hazard at its line.

What makes the parts correct: the tree has no cycle; only active, non-owner
referrers at levels 1 to 4 earn, the amount of their level; `pending_balance` is
the sum of the pending accruals; an accrual leaves `pending` once; a balance is
explained by accruals and audit rows and is never negative; a certificate is paid
exactly once; every call ends. A queued SMS is handled in the end and repeated only
after a death; a code has a bounded number of attempts; a blocked user has no
token; an agent's rights end at once and the owner cannot be locked out; the cache
comes to agree with the row; a message is stored once and told once.

## 2. Modules

| module | models | built on |
|---|---|---|
| `Amounts` | rounding, level amounts, sums | |
| `Accounts` | users, tree, manual operations | `Amounts` |
| `Referral` | deals, accruals, the clock | `Accounts` |
| `Exchange` | partners and certificate requests | `Accounts` |
| `AccountBook` | abstract promise about the two balances | |
| `Bonus` | composes `Referral` and `Exchange`; properties | both |
| `BonusSessions` | the bonus calls as overlapping sessions | |
| `SmsQueue` | the queue and its job | |
| `SettingsCache` | the settings row and its copy in Redis | |
| `Staff` | support agents and requests about them | |
| `Access` | codes, registration, login, tokens, moderation | |
| `Desk` | chats, messages, files, applications | |
| `MCBonus`, `MCBonusSessions`, `MCDesk` | values of the constants, symmetry | |
| `BonusProofs`, `BookProofs` | proofs: sums and types; the books, the tree and who earns | `Bonus` |
| `BonusSessionsProofs`, `SmsQueueProofs`, `SettingsCacheProofs`, `StaffProofs`, `AccessProofs`, `DeskProofs` | proofs | the module each is named for |

**One action, one transaction (`Bonus`).** `Accounts`, `Referral` and `Exchange`
have one action per service operation: its guard is the conjunction of the checks
that raise, its effect the commit. A call that raises changes nothing. Names
follow the code (`AccrueForSource`, `CancelPendingForDeal`, `ProcessMatured`, ...).

* Amounts stored are cents; amounts in requests are mils (tenths of a cent), so
  that `_quantize` and PostgreSQL's rounding of a `NUMERIC(14,2)` have something
  to round. Percentages are basis points. `LevelAmount` rounds the product of the
  unrounded base, as `accrue_for_source` does, while the row keeps the rounded base.
* `accruals` is three sets of rows, by status; `(call, level)` identifies a row,
  because one call of `accrue_for_source` adds at most one row per level. The
  counter `calls` exists for that key only.
* `audit` keeps, per user, the sums of the bonus rows of `audit_log`, by cause.
* `deals[d].parked` is history: the deal has left `policy_issued` for a status that
  cancels nothing, and no withdrawal has voided its accruals since.
* `broken` is the set of SMS templates whose text cannot be formatted.
  `SaveTemplates` is `SettingsService.update`, which takes any text;
  `format_template` catches `KeyError` and `IndexError`, and a stray brace raises
  `ValueError`. `Sends` is therefore a guard of every operation that sends before it
  commits: the job, manual credits, and three steps of a certificate. A user
  without a phone, deleted that is, is sent nothing. The welcome SMS of `register`
  comes after the commit of the user, and guards nothing.
* What `get_values` returns is any member of `PlatformValues` in each call: that
  covers an administrator's changes and a stale cache.
* The cached upline is the walk itself: a registered user's `referrer_id` is never
  written again. Levels are written out four deep rather than as a loop.
* Left out because nothing reads them back: SMS rows, chat messages, status
  events, the job's own audit row, names, logos, comments, assigned managers.
  `exchange_step` is stored and never read by the code, and so it is here.
  A negative `max_exchange` (which `update` would take) is not among the inputs.

**One action, one statement (`BonusSessions`).** A session reads a row once into
its identity map (`seen`), computes, and flushes (`set`, `todo`): each UPDATE waits
for its row's lock. No model declares a `relationship()`, so a flush takes the tables
in the order of their models' names (requests, deals, users, accruals), and users by
primary key. An accrual is read as `pending` when it is selected, and `seen` keeps
that. Values become visible at `Commit`. `Rollback` is `get_async_session` closing the session
of a call that raised or died (`Crash`). `BreakDeadlock` is PostgreSQL failing one
session of a cycle. `DebitHolder`, `PutObject`, `AttachFile` are the three parts of
`complete`. Settings, the tree and amounts are constants here: every accrual is
worth `Share`, every other operation `Price`, and every call may be made once per
session. Time is left out: accruals pending at the start are mature. The initial
state is what `Bonus` reaches after the deals in `Issued` were issued.

**The promise (`AccountBook`).** Bonuses are held first and available later; what
becomes available is what stops being held; what is available changes for one
account at a time; nothing is negative. `Bonus` implements it with `available`
as `balance` and `held` as `pending`.

**The queue (`SmsQueue`).** `Enqueue` is `NotificationService.send` with its
caller's commit. `StartJob` is the select of a batch, of the limit and of the last
day's messages; `Defer`, `Send` and `SendRaises` are one turn of the loop each, and
`CommitBatch` the single commit. What SMSC really delivered is `delivered`, which
no code sees. `Crash` is a death or a failed commit. Time is the age of a sent
message, up to the end of the window. The scheduler runs one instance of the job
in one process, and so does the model.

**The cache (`SettingsCache`).** The row is one value. A call reads the cache,
selects, perhaps inserts the defaults, and fills the cache or stores and
invalidates, one step each; `excused` marks a cached value that a reader who loaded
the row before a save wrote after it, or whose removal Redis refused. `Referral`
takes any value ever saved as what a call may read, which covers both.

**The staff (`Staff`).** A request checks its actor (`get_current_admin`), loads
the row it is about, and commits the columns that differ from what it loaded.
`grace` marks the requests of an agent that were under way when the agent was
deactivated. `Init` is the empty table, or the owner with administrators.

**The ways in (`Access`).** One phone, and those who hold it one after another.
Every Redis request and every commit of `request_sms_code`, `verify_code`,
`register`, `login`, `refresh`, `logout`, `block_user`, `unblock_user` and
`delete_user` is an action. A code is named by the request that made it, so a code
that is written back after its use is recognised. `raced`, `forked` and `late` are
history: they mark what overlapping requests explain. `revoke all` comes before the
status is flushed, for `autoflush` is off.

**The desk (`Desk`).** A call is one or two steps: its reads, and the transaction
they lead to; an insert that meets a unique index waits for the other transaction,
and is one step with the commit. The gateway, which is not in the repository, may
repeat a message at any time, beside its first copy or after it was answered. An
upload puts the object, inserts the row, refreshes it and answers; whatever raises
before the answer makes the service remove the object. Users keep their phone
here, and a chat's title, assigned manager and texts are left out. A client id is
unique within a chat, as in the index: two senders that choose one id share it.

## 3. What TLC checks

| run | instance | shows |
|---|---|---|
| `rules` | chain of 5, a sixth user joins anywhere, 1 accrual, both rules, 3 amounts | `TreeIsRooted`, `AccrualReachesUpline`, `AmountFollowsRow`, `OnlyActiveEarn`, `KeepsBook` |
| `reissue` | 3 users, 2 deals, 2 accrual calls, a template that breaks, fair | `PendingBacked`, `AccrualPaidOnce`, `PendingOfOneIssue`, `BalanceExplained`, `AccrualLifecycle`, `WithdrawalVoidsDeal`, `EventuallySettled` |
| `exchange` | 1 user, 1 partner, 2 requests, 3 templates that break | `TypeOK`, `CertificatesPaid`, `FinalRequestStays` |
| `overlap` | 2 sessions over every bonus call, 2 users, fair | `TypeOK`, `PaidFileStored`, `SettledForGood`, `CallsEnd` |
| `sms_queue` | 2 users, 4 messages, batches of 2, limit 0 or 1, 1 death, fair | `TypeOK`, `DailyLimitKept`, `DeliveredAsRecorded`, `EventuallyHandled` |
| `settings` | 3 calls, 2 values, from the empty table, fair | `TypeOK`, `StaleForAReason`, `EventuallyFresh` |
| `staff` | owner and two agents, 2 requests at a time, 3 in all | `TypeOK`, `OwnerStands`, `RevokedAtOnce`, `NothingUndone` |
| `access` | 2 requests at a time, 4 in all, 2 users | `TypeOK`, `CodeBudget`, `RevokedWithAccount`, `RotatedOnce`, `ModeratedInTurn`, `CounterTended` |
| `desk` | a user and a manager, 2 requests at a time, 3 messages, 1 file, 1 application | `TypeOK`, `StoredOnce`, `ToldOnce`, `AttachmentsKept` |

Bounds, and why they are enough. The chain of `rules` is longer than the four
levels; the amounts 4, 165 and 5000 mils are stored as 0.00, as 0.17 and exactly; at
the four percentages 165 rounds to a cent or to zero, and 5000 tells the levels
apart. Two deals and two accrual calls let a deal be issued twice, and one deal
while the other is in any state. In `exchange` the balance may cover neither, one or
both of the requests, so each race for it happens. `BadTemplates` names the
templates that may be saved broken and repaired, at any time: the one of the job in
`reissue`, those of a credit, a completion and a cancellation in `exchange`. Days
run to the end of the delay. Two sessions suffice for a lost update, a double
completion and a cycle of locks; a session makes one call, so two calls overlap in
every way, or run one after the other. In `sms_queue` the queue is longer than a
batch, a user may have several messages in one batch, and the limit may drop to zero
and come back. Three calls in `settings` let two inserts and two readers meet a
save. Four requests in `access` are a code, an attempt, and two more that race; with
a token there from the start they are two refreshes, a block and a login. In `staff`
two requests of three overlap in every pair. Three messages in `desk` are a system
message, a message and its repetition. `MaxUsers`, `MaxCalls`, `MaxCredit`,
`MaxDay`, `MaxMessages`, `MaxCrashes`, `MaxRequests` and `MaxApps` are bounds of the
model, not of the code; each is named where it is declared. `BatchSize`,
`MAX_ATTEMPTS` and the TTLs are the code's constants, made small.

Symmetry is used over requests in `exchange` and over workers in `desk`, whose
members no definition tells apart and where no liveness is checked. Deadlock
checking is off in `rules`, where everybody may be deleted and the one accrual
spent; in the runs of `BonusSessions`, where all calls have been made in the end;
and in `staff` and `access`, whose requests are bounded.

Fairness. In `reissue`: weak fairness of the job and of the clock. `main.py:65-70`
schedules the job hourly and `process_matured_accruals_job` catches every exception;
that guarantees attempts, not that one succeeds. An attempt that meets a broken
`bonus_accrued` template rolls back for all users and is no step of the model, as
`ProcessMatured` is not enabled then, so weak fairness promises nothing while the
template stays broken or breaks again and again: `EventuallySettled` has
`<>[]("bonus_accrued" \notin broken)` as its premise, and TLC refutes it without.
Beyond that, weak fairness supposes that of the hourly attempts one meets no failure
of PostgreSQL or of the process. No manager is fair. In `overlap`: weak fairness of
each session's next statement (the event loop resumes every coroutine, and MinIO
answers or raises) and of PostgreSQL's deadlock detection. In `sms_queue`: weak
fairness of the job's steps (`main.py:71-76`, each minute; a call of SMSC returns or
raises) and of the clock; `EventuallyHandled` supposes that administrators do not
leave the limit at zero. In `settings`: weak fairness of each call's next step and
of the expiry of the key; `EventuallyFresh` supposes that saves stop. Crashes are
allowed and never required.

### Where the code and its documents part

Three are runs that TLC must find violated.

* `cancelled_deal`: `policy_issued`, then `paid`, then `rejected` leaves the
  accruals pending; `models/deals.py:18-19` says they are cancelled.
* `credited_once`: the job and the endpoint credit one accrual twice, or one
  overwrites the other's balance, against `models/users/referral.py:18-19`.
* `finalized_once`: two completions of one request both debit the holder, against
  the check at `certificate_service.py:228`.

`CertificatesPaid`, `PendingBacked`, `BalanceExplained` and the rest of `Bonus`
therefore hold of calls that run one at a time. `overlap` checks what still holds
when they do not: stored balances are not negative (a lost update writes a value
that was checked), a certificate that was paid for has a file that exists, a
settled accrual is never pending again and is overwritten only by a call that had
selected it before, and every call ends.

Others met while modelling, seen in the modules but given no run:

* A withdrawal that selected an accrual as pending may mark it cancelled after
  another call has credited it, or the reverse (`referral_service.py:186-205`).
  `SettledForGood` allows this and nothing else: it delimits the hazard.
* A stray brace in the template `bonus_accrued` stops the accrual job for all users
  until it is repaired (`notification_service.py:59-61`).
* `PartnerService.update` may leave `max_exchange` below `min_exchange`, which
  `create` refuses (`partner_service.py:73`, `:134`); no request for the partner's
  certificates is accepted then.
* A block that read the status before a deletion was committed turns `deleted` back
  into `blocked`, on a user without a phone (`admin.py:297`, `:377`);
  `ModeratedInTurn` is about moderations that were not overtaken.
* A request for a code that dies between INCR and EXPIRE leaves a daily counter that
  never ends (`auth_service.py:112-114`); `CounterTended` says that nothing else does.
* Overlapping verifications may accept one code twice and exceed the five attempts
  of `code_generator_service.py:13`; `CodeBudget` does not catch that: it is about
  codes whose verifications did not overlap. The SMS and `auth_service.py:121-122`
  promise ten minutes, the code lives for `CODE_TTL_SECONDS = 300`, renewed by each
  wrong attempt.
* Two refreshes of one token that overlap leave two live tokens, and so does a
  refresh that dies between its two commits; a login under way while its user is
  blocked leaves one. `RotatedOnce` and `RevokedWithAccount` name these cases.
* A refresh of the file's row that fails after its commit removes the object and
  keeps the row; `AttachmentsKept` is about uploads that were answered.
* Two overlapping `change_status` of one application record two events with the
  same old status; the last event still names the status.
* A cached setting may be old for up to `CACHE_TTL_SECONDS` after a save that a
  reader overlapped; `StaleForAReason` names the cases. `AmountFollowsRow` does not
  catch it: an amount follows from the percentage in its row, be it an old one.

## 4. What is proved

TLC found each property to hold on the runs' instances before it was proved; the
theorems hold for every value of the constants that satisfies the
named assumptions.

**`Bonus`**, with `AccountsAssumption`, `ReferralAssumption` and `ExchangeAssumption`
(founders form a forest, amounts are natural numbers of mils, a work status has no
special meaning):

| theorem | statement |
|---|---|
| `TypeInvariant`, `TypeCorrect` | `Spec => []TypeInv`, `Spec => []TypeOK` |
| `BooksInvariant`, `PendingAlwaysBacked`, `BalanceAlwaysExplained` | `Spec => []Books`, `[]PendingBacked`, `[]BalanceExplained` |
| `ImplementsAccountBook` | `Spec => KeepsBook` |
| `AccrualsKeepLifecycle` | `Spec => AccrualLifecycle` |
| `CertificatesAlwaysPaid` | `Spec => []CertificatesPaid` |
| `FinalRequestsStay` | `Spec => FinalRequestStays` |
| `TreeInvariant`, `TreeAlwaysRooted` | `Spec => []TreeInv`, `Spec => []TreeIsRooted` |
| `EarningsInvariant`, `AccrualsReachUpline`, `AccrualsPaidOnce`, `AmountsFollowRows` | `Spec => []EarningsInv`, `[]AccrualReachesUpline`, `[]AccrualPaidOnce`, `[]AmountFollowsRow` |
| `PendingOfIssueInForce` | `Spec => []PendingOfOneIssue` |
| `ActiveUsersEarn`, `WithdrawalsVoid` | `Spec => OnlyActiveEarn`, `Spec => WithdrawalVoidsDeal` |

The argument. `BonusProofs` develops sums of rows: `Total` of a finite set is a
natural number, and adds over disjoint unions and differences. `TypeInv` adds to
`TypeOK` what sums need: the sets of accruals are finite, and the users of deals
and requests are users.

`Books` joins `PendingBacked` and `BalanceExplained` with `CallsCounted` (no row
carries a call number in the future, so a new row is new) and `OneStatus` (the three
sets are disjoint, so a row credited was not counted before). With `PendingBacked`,
the clamp at zero is never reached, and that is what makes maturing exact in
`AccountBook`. Each step lemma takes one operation; the next-state relation is split
into what it does to the books (`StepBooks`) once, and the theorems share it.
`CertificatesPaid` compares two sums, of the audit rows and of the requests with a
file: `Receivable` adds that a file is attached in a final status only, and a request
in a final status has its file and amount for good, so `complete` adds one term to
both and nothing else adds or removes one.

`TreeInv` adds to `TreeIsRooted` that ids are given out without gaps and that a
deal's client is registered. `EarningsInv` says of every accrual whom it is for,
what explains its amount, and that a call pays a user at one level only.
`AccrualReachesUpline` speaks of the tree as it is now and the row of the tree as it
was: it is preserved because the tree above a registered user never changes.
`AccrualPaidOnce` rests on uplines going down in id, so that no user is met at two
levels.

`PendingOfOneIssue` is what issuing, moving and withdrawing do together: the pending
accruals of a deal in `policy_issued` come from one call, and a deal in another status
has none, unless it was parked. It needs the check that a deal has not that status
already, the cancellation of *all* pending rows of a deal, and `NewUnparked`: a deal
that is created was never parked.

**`BonusSessions`**, with `SessionsAssumption` (finite sets of users, deals and
sessions, calls that are among `Operation`, prices that are amounts):

| theorem | statement |
|---|---|
| `SessionsInvariant`, `SessionsTyped` | `Spec => []SessionsInv`, `Spec => []TypeOK` |
| `PaidFilesStored` | `Spec => []PaidFileStored` |
| `SettledOnceAndForAll` | `Spec => SettledForGood` |

The argument. A commit writes what was worked out statements earlier, from rows that
others have changed since. `SessOK` therefore says of each session that whatever it
has read or will write fits its column in every state of the database, that it names
a file only if it is its own and stored, and that its debit of a request comes with
that file. `SettledForGood` rests on `Assignable`: a session makes pending only
accruals of its own, which nobody else can have seen, so no overlap brings back one
that was settled; and on `Reads`, which says of every accrual among a session's rows
or writes that it is its own or was read as pending, so that one settled before it was
selected is left alone. (No read takes a lock; what
overlaps do spoil is in section 3.)

**`Staff`**, with `StaffAssumption` and `AbsentAssumption` (the value for no row is
not a row):

| theorem | statement |
|---|---|
| `StaffInvariant`, `StaffTyped` | `Spec => []StaffInv`, `Spec => []TypeOK` |
| `OwnerAlwaysStands` | `Spec => OwnerStands` |
| `RevocationIsImmediate` | `Spec => RevokedAtOnce` |
| `NothingIsUndone` | `Spec => NothingUndone` |

The argument. `CallOK` says what a request that has passed its checks still may
commit, whatever others commit before it: its actor is active or the request is
marked as overtaken (`grace`), the row it would make is one that only its maker may
make, and a change of an owner leaves the owner active. `RowsStay` says that rows
are never taken away and keep their owner flag, role and maker; that the checks
stay true after they were made follows from it.

**`Access`**, with `AccessAssumption` and `NoValue` (the missing value is none of the
rows and records):

| theorem | statement |
|---|---|
| `AccessInvariant`, `AccessTyped` | `Spec => []AccessInv`, `Spec => []TypeOK` |
| `CodesKeepBudget` | `Spec => []CodeBudget` |
| `TokensEndWithAccount` | `Spec => []RevokedWithAccount` |
| `TokensRotate` | `Spec => []RotatedOnce` |
| `StatusesInTurn` | `Spec => ModeratedInTurn` |
| `CounterLosesNoTTL` | `Spec => CounterTended` |

The argument has one part for each. `CallsOK` says what a call of each kind holds at
each step, that ids are unique, and that nobody presents the token of a refresh that
has not been answered (`BeginWithToken` waits for the answer). *Codes:* while the
verifications of a code do not overlap, at most one call holds what Redis has of it;
the attempts it holds are the wrong codes tried, and age and remaining TTL together
stay within the budget that `WrongCode` renews. *Accounts:* a block or deletion that
is about to commit has found every live token of its user, except those of calls it
has overtaken, which are marked. *Rotation:* until a login forks, one refresh of its
tokens is under way, and the only live tokens are the one it was asked with and, after
its first commit, the one it added. A login forks when a second refresh has loaded a
token that is being refreshed, or when a refresh dies between its two commits; then
the invariant claims nothing of it, as `refresh` guarantees nothing. `RotatedOnce`
names the two tokens that may be live together: those of the refresh that is about to
revoke one of them. *Statuses:* `TurnsOK` says that the status a moderation has read
still stands until its commit, unless another moderation of the user was committed in
between, which marks it `late`. *The counter:* `CounterTended` needs no more than the
shape of the calls, for INCR is one step and its caller's next one is EXPIRE.

**`SmsQueue`**, with `QueueAssumption` (finite sets of users and limits, a positive
batch size):

| theorem | statement |
|---|---|
| `QueueInvariant`, `QueueTypeCorrect` | `Spec => []QueueInv`, `Spec => []TypeOK` |
| `DailyLimitAlwaysKept` | `Spec => []DailyLimitKept` |
| `AlwaysDeliveredAsRecorded` | `Spec => []DeliveredAsRecorded` |

The argument. Neither property is inductive, for both speak of the table only, and
a run keeps its outcomes to itself until its commit. `JobShape` says that a message
still to be sent has no outcome yet, and an outcome belongs to a pending row.
`Deliveries` then counts: a message that is neither recorded nor in the run's
outcomes was delivered by dead runs only. `WithinLimit` bounds the recent rows
together with the outcomes of the run, and `CountKept` says that `count`, read once
and carried through the batch, is never less than these; a message is sent only
while it is below a limit that was in force.

**`SettingsCache`**, for every value of its constants:

| theorem | statement |
|---|---|
| `SettingsInvariant`, `SettingsTypeCorrect` | `Spec => []SettingsInv`, `Spec => []TypeOK` |
| `AlwaysStaleForAReason` | `Spec => []StaleForAReason` |

The argument. `StaleForAReason` speaks of the table and the cache; that a step keeps
it depends on what the calls under way are about to write. `CallsHold` says what a
call holds at each step, `RowIsThere` that whoever holds a row has it from the table
unless it inserted it, and `ReadersCurrent` that a reader about to fill the cache
holds the current row unless a save overtook it. The lemma `OneCall` shows that a
step of one call keeps all of these when what the call holds afterwards is right,
and each step of a call is a use of it.

**`Desk`**, with `DeskAssumption` (users, agents and the system are different, and the
missing value is no file, no client id and no chat):

| theorem | statement |
|---|---|
| `TypeCorrect` | `Spec => []TypeOK` |
| `AnsweredIsStored` | `Spec => []StoredOnce` |
| `UploadsAreKept` | `Spec => []AttachmentsKept` |
| `NothingUntold` | `Spec => []ToldOnce` |

The argument. Chats, messages, events and applications are only ever added, and what
a request holds are ids of such rows, so it stays well formed whatever the others do
(`RequestGrows`); `TypeOK`, which has the unique indexes in it, and `StoredOnce` are
inductive with that. `AttachmentsKept` is not: an upload that fails removes its
object, and that must never be one that another upload was answered for. `FilesInv`
says that a file has one upload under way at most and none once it was answered, and
that what this upload has put is there; and that an attached file was answered for.
`ToldOnce` counts: `Noticed` and `Told` are its counts per user and per application,
and each step lemma shows that the SMS and the rows counted grow by the same one.
`ToldInv` adds that an application has a chat of its own (`AppsChats`) and that no
request about a message or a certificate is about to write into it as the system does
(`CallsInv`). A change of the status that was overtaken records an old status that is
no longer the application's; the history leads to the status nevertheless, for
`Reached` asks for the new status of the last event.

Only model-checked: liveness (`EventuallySettled`, `EventuallyHandled`,
`EventuallyFresh`, `CallsEnd`), for fairness and ENABLED are beyond the prover. No
theorem rests on the size of a run's instance: `MaxUsers`, `MaxRequests` and the other
bounds are constants of any value the assumptions allow.


## 5. Not modelled, and the plan

Not modelled: reports, exports and lists, which read only; DTOs, configuration and
migrations, which are declarations; the Go chat gateway, which is another
repository; the audit rows that nothing reads back; access tokens, which are signed
and kept nowhere; the wording of messages. That a template cannot be formatted is
modelled where bonuses depend on it (`Accounts`); in `Desk` and `Access` it is one
more way for a call to end without its commit. In `Desk`, read markers, titles and
the assignment of a manager are data that no other operation depends on. In
`BonusSessions`, partners, registration and manual accruals are not sessions.

What is left:

1. The cursor of the read markers, should anything come to depend on it.
2. Partners and manual accruals as sessions of `BonusSessions`.

## 6. Running

    tlc -config reissue.cfg MCBonus
    tlc -config overlap.cfg MCBonusSessions
    tlc -config sms_queue.cfg SmsQueue
    tlc -config desk.cfg MCDesk
    tlapm DeskProofs.tla

`access` is the largest run (about 4.5 million states, a minute and a half on two
workers). Each module holds a few definitions called a mutant of another: the same
operation with a plausible mistake. Put in its place, it violates the property that
`PROJECT.json` pairs it with, which shows that the property depends on the code.
