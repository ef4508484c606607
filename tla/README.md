# NicheConnect TN in TLA+: deals, and the accounts behind them

NicheConnect TN is a FastAPI and PostgreSQL service on which brands hire
creators: a campaign, applications, a deal memo with its terms, proof of the
posted work, a payment *record* (the platform never holds money), disputes about
it and a tamper-evident record of every step. These modules model the part that
people rely on afterwards: what was agreed, what was shown and handed in, what is
owed, what was said about the money, that a retried request does not do any of it
twice; and who may act as an account at all: codes, sessions, passkeys, a change of
number, the end of an account.

Everything below `src/app/modules/...` is written as `deal_memo/...`,
`payment_status/...` and so on; `core/...` is `src/app/core/...`.

## 1. The system

One process serves requests on a thread pool; more capacity is more containers,
so nothing may rely on memory of the process. All state is in PostgreSQL (default
isolation, READ COMMITTED), Redis (rate limits, idempotency) and object storage.
A request has one session (`src/app/db/session.py`, `autoflush=False`), one `now`
(`get_now`), usually one transaction, and takes row locks with
`db.refresh(row, with_for_update=True)`. There is no deal service to call: modules
call each other's functions in the caller's transaction. What is hard is therefore
always the same: **what a handler read before its lock and uses after it**, the
order in which row locks are taken, work done by whoever reads first ("the clock
approves when somebody looks"), and the retry of a request whose answer was lost.

| Component | State it keeps | Operations | Talks to | What makes it correct |
|---|---|---|---|---|
| Deal memo (`deal_memo/service.py`) | `deal_memo` row: status, terms, revisions, cancellation kind | create, PATCH, send, accept, decline, request change, cancel, withdraw | record, proof clock (a brand cannot cancel while proof waits), notifications | accepted terms stand; moves are legal; a cancellation counts exactly when work was handed in |
| Proof and approval clock (`proof_service.py`, `review_clock.py`) | `deliverable_proof` rows | submit, approve, request revision; any reader settles an overdue proof | memo lock, record, payment | one proof waits; a decision is final; silence approves only after the window and only an agreed deal |
| Deal record (`record_service.py`) | `deal_record_entry` rows, hash-chained | append, under the memo's row lock | called by all of the above and below | one legal story, one entry per step |
| Payment record (`payment_status/service.py`) | `payment_status` row | open on approval, mark paid (one, or up to 25), confirm | record; disputes read it | first word stands; answers match the record; one payment per deal |
| Disputes (`disputes/`) | `dispute`, `dispute_event` rows | open, add, close, timeline | payment row (foreign key), record | one per payment, nothing after the close, entries in the order made |
| Idempotency keys (`core/idempotency*.py`) | Redis keys with a time to live | claim, complete, release | wraps every guarded POST | a success is of committed work for that body; a claim gives way |
| Draft review (`draft_service.py`, `draft_rules.py`) | `content_draft` rows, rounds | show, approve, ask for changes, clock | memo lock, proof, its images | one draft alive; silence approves only what could be opened for its days; proof follows the approved draft; waiting for the brand is not charged to the creator |
| Proof files (`proof_file_service`, `proof_cleaning_*`, `proof_reading_*`) | file rows, objects | upload, clean (skip-locked jobs), read (advisory lock) | storage, draft | an image is cleaned and sealed once; the last one makes the draft ready |
| Feedback (`feedback_service.py`) | one row per side | answer; revealed together or at the window's end | memo lock, clock | neither side sees the other's before giving its own |
| Campaigns, applications, offers, invitations (`campaigns/`) | campaign, application, offer rows | publish, close, cancel, PATCH, apply, invite, shortlist, accept, reject, decline, withdraw, offer and its answers | creates the memo; an erasure ends what never became a deal | offers take turns and are settled before the deal; invitations are few and find an open campaign; one memo each, from the agreed figure; nothing is left of who left |
| Sign-in (`auth/service.py`, `sessions.py`, `step_up_service.py`, `admin_service.py`) | codes, logins and their tokens, step-up codes, suspension | send and check a code, refresh, log out, suspend, restore | account and phone locks | a token is used once and reuse ends its login; what was ended stays ended; codes are rationed and serve once |
| Change of number, deletion (`me/phone_change_service.py`, `account_deletion_service.py`) | `account_phone_change` row, `account.deletion_*` | claim a number, cancel, make; ask to leave, stay, erase | sign-in, every other table | both sides of a number move together; a number waited for stays free; without the old number only while it keeps silent |
| Passkeys (`auth/passkeys.py`, `me/passkey_service.py`) | keys, passkey-only, a waiting reset, grants | add, remove, sign in, only, reset, settle | step-up codes, erasure | each change has its own code; a reset spares the keys it locked that are in use; nothing of an erased account signs in |
| Data exports (`me/data_export_service.py`) | `data_export` rows, their files in the bucket | ask, build (a job each minute), download with a code, destroy | step-up codes, storage, the deletion of the account | a file is given once; its owner is told once; no file is forgotten in the bucket |
| Account (`me/`, the rest) | team, sessions list | edits by the owner | every other table | see section 7 |
| UPI handles (`payment_status/upi_*`) | handle and its pending change | set, cancel, take effect after a hold | step-up | a changed handle never takes effect before its hold ends |
| Anchors (`anchor_service.py`) | daily checkpoint, timestamps | checkpoint, stamp | timestamp authority | a day has one root; a failed stamp is asked again |
| Profiles, safety, admin, matching, insights, passport, notifications | their own rows | edits by one owner, staff queues, ranking, pages | read by the others | mostly single-row edits and readings |
| Core plumbing | counters, pools | load shedding, rate limits, jobs, storage | all | a waiting request never holds what another needs |

`PROJECT.json` lists each of these with its files and status, and under `hazards`
the lines where this code can go wrong in ways a test hardly reaches.

## 2. What is modelled

### `DealMemo` (implements `DealPromise`)

One deal: memo, proofs, payment, record. A request is two kinds of step. `Read...`
is the unlocked read of `get_brand_memo` / `get_creator_memo`; it remembers in
`req[r]` what the handler keeps using (the terms, whether the memo was sent). Then
one action per transaction: it begins by locking the memo's row, so a transaction
is atomic with respect to the deal, and uses `memo` for what it re-reads under that
lock and `req[r].row` for what it does not. `update_memo` takes no lock at all and
its action shows it. `SettleIfOverdue` is the clock: any request that finds the
proof overdue first runs that transaction, then goes on. `Sealed` appends the entry
with the terms as that transaction holds them.

| State / action | Code |
|---|---|
| `memo`, `Memo` | `deal_memo/models.py`, `DealMemo` |
| `proofs`, `ReviewClockStart`, `ApprovalDeadline` | `proof_models.py`, `review_clock.py` |
| `record`, `Sealed` | `record_service.append` |
| `payments`, `OpensPayment`, `Approve` | `payment_status/service.py` `open_on_approval`, `create_for_memo` |
| `Update` | `update_memo` |
| `Send`, `Accept`, `Decline`, `RequestChange`, `Cancel` | `router.py` `_brand_move`, `_creator_move`, `service.change_status` |
| `SubmitProof`, `ApproveProof`, `RequestRevision`, `SettleIfOverdue` | `proof_service.py` |
| `Refuse` | every refusal under the lock, which rolls back |

`DealPromise` is the abstract deal: talks, agreed, declined or cancelled; pieces of
work judged one at a time, finally; money owed from the first approval on; free to
leave until work was handed in. `KeepsThePromise` is the refinement.

Abstractions: time is a Tamil Nadu calendar day, the granularity of the deadlines
(they are midnights); a request in flight meets at most one midnight, as its
statements time out within seconds; the terms a PATCH changes are the fee and the due
date, which stand for all of them. `Window` and `PaymentDue` are constants: a PATCH may
change them too while the memo is a draft, and by the first finding of section 5 even
later; what the clock then does with a window changed under it is not modelled. The
initial states include deals sent or accepted before the deal
record existed (`record_started`). The settling that `approve_proof` and
`request_revision` repeat under their own lock finds nothing to do
(`AnswersComeInTime`, proved), so it is not a second action.

### `PaymentRecord` (implements `MoneyPromise`)

The payment and its dispute, per deal, lock by lock. `Begin` is the first read and
the refusals it gives at once; each `Lock` is one row lock granted, in the order the
code takes them (`LockOrder`: the row it changes, then the deal, inside
`record.append`; the insert of a dispute waits at its unique index and shares the
payment through its foreign key); `Passes` is the check under the first lock;
`Commit` writes. Bulk marking goes through its rows in the order given, each in
a savepoint (`Refuse` drops the row's lock), and keeps the locks of the rows it
recorded until its one commit. `TimeOut` is PostgreSQL ending a wait, by its
deadlock check or by `statement_timeout`; it can happen whenever a request
waits, and undoes the whole transaction. Stamps are chosen freely when a request
arrives, since the order of two `get_now` calls says nothing about the order in
which the transactions read. The payment of an approved deal may open at any
moment (`OpenOnApproval`), which `DealMemo` models in full.

`MoneyPromise` is what the two sides may rely on: each request is heard whole, at one moment, or
not at all, and is told exactly what it did; a payment is marked once, when it is owed, confirmed
once, after it was marked; a dispute is raised once, added to while it is open, closed once.
`KeepsItsWord` is the refinement: requests that take their locks one by one, wait for each other,
are refused in part or time out are as good as one at a time. Each is one step of the promise at
its commit, every step before it a stutter; a bulk list is one statement about all of its rows.

Each request is sent once; retries with a key are `IdempotencyStore`'s matter. The
method and the reference of a marking are the request that gave them (`by`).

### `IdempotencyStore`

One key of one caller. Each Redis call is atomic and an action (`ClaimSet` is SET
NX, `ClaimGet` the GET after it, `Complete`, `Release`); between them other
attempts, an expiry or a crash may come, and any call may fail. The endpoint is one
step that commits or fails, before or after its commit. `Expire` lets a claim go only
once its attempt has ended: the code sets 60 seconds, "longer than any request we
allow" (`core/idempotency.py:56`), and that is an assumption of the model.

### `Negotiation`

One campaign: its status and type, the application or invitation of each creator,
the offers on each, the memo it leads to, and who was erased. A request is four kinds
of step. `Begin` is what its dependencies read without a lock (`ReadFirst`); `Lock`
takes one row lock of its order (`LockOrder`) and checks, as it is granted, what the
code reads again under it (`Passes`); `Refuse` and `TimeOut` end it; and one action per
operation writes everything at its commit. The locks a request holds are the first ones
of its order, so they need no variable.

| State / action | Code |
|---|---|
| `campaign`, `ChangeStatus`, `UpdateCampaign` | `campaigns/service.py` `change_status`, `update_campaign` (which locks only by its UPDATE) |
| `app`, `ApplyToCampaign`, `InviteCreator`, `MoveApplication` | `apply_to_campaign`, `invitation_service.invite_creator`, `move_application` with `accept_invitation` and `draft_repeat_memo` |
| `offers`, `MakeOffer`, `AnswerOffer`, `CloseOpen` | `offer_service.py`, `offer_rules.py` |
| `memo`, `CreateMemo` | `deal_memo/service.create_memo`, `draft_repeat_memo` |
| `FinishDeal`, `OpenDispute`, `CloseDispute` | what makes a deal unfinished or not (`unfinished.py`): how it ends is `DealMemo`'s matter, the one dispute of its payment (`disputes/service.py`) `PaymentRecord`'s |
| `gone`, `EraseBrand`, `EraseCreator`, `EraseHeld` | `me/account_deletion_service.erase`, `departure_service.py`, `unfinished.py` |

Locks are PostgreSQL's four row lock modes. An insert waits at the unique index of its slot
(one application per creator and campaign) and then shares the rows its foreign keys name;
the notification of a move or an offer does the same to the campaign. Those two are where the
orders of the code meet: nothing in Python says that a move locks the campaign. Of a memo
the model keeps where its fee came from, whether the deal has ended, and whether a dispute
makes it unfinished again, which one may beside an erasure or after it. An offer is the side that made it and how it ended.

Left out: suspensions, blocks and takedowns, which only refuse more; the closing date; the
row of the brand, which only its erasure locks; the account rows, which everyone takes last;
the rows of the offers, locked only under their application. A PATCH of an open campaign
touches only what the model does not hold.

### `ContentReview`

One deal whose terms ask for a review before posting: its drafts by round, the proof, the
images of either, the file store, and the cleaning workers. A request reads its clock
(`Begin`), then runs one transaction under the memo's lock; a midnight may pass in between.
A worker is one action per call it makes to the store or to the database, so that another
worker, a request, an expiry or a crash may come between any two of them.

| State / action | Code |
|---|---|
| `drafts`, `SubmitDraft`, `ApproveDraft`, `RequestChanges`, `SettleIfOverdue` | `draft_service.py` |
| `AnswerDeadline`, `Held`, `DeliveryDueOn` | `draft_rules.py`, `review_clock.py` |
| `proof`, `SubmitProof` | `proof_service.submit_proof`, the part about drafts and files |
| `file`, `RequestUpload`, `Attachable`, `Attached` | `proof_file_service.py` |
| `job`, `Claim`, `Clean`, `TakeLocks`, `Commit`, `DeleteOriginal`, `Fail` | `proof_cleaning_service.clean_attached`, `clean_one`, `_mark_draft_ready` |
| `store`, `Receive`, `ExpireOriginal` | the bucket: the signed upload form and its lifecycle rule (external) |
| `EndDeal` | `service.change_status`, cancel and withdraw, see `DealMemo` |

A moment is a calendar day, so that two steps of one day have the same time; this is coarser
than the code's and allows every order of the steps of a day. Answers to the proof are
`DealMemo`'s. What an image holds, its hash and its watermark are left out.

### `Passkeys`

One account: its passkeys and when each was last used, passkey-only sign-in, the codes that
allow a change, a waiting reset, the erasure. A request begins with what it reads of the
account without a lock (`saw`), takes the rows of its order one by one (`Lock`, which ends it
when it finds there that it has nothing to do, `Finds`), and writes at its commit. The jobs that
settle resets and erase accounts are two more workers. The first locks the keys its statement
finds (`rows`), when it begins (`FindKeys`: it may begin after the reset's row was had); a key added
later it knows nothing of until the DELETE, which waits for whoever holds that key. What it does is
decided once it has the account (`Verdict`). A waits-for circle is ended by PostgreSQL (`EndDeadlock`).

| State / action | Code |
|---|---|
| `key`, `LogIn`, `Use` | `auth/passkeys.py` `verify`, `log_in` |
| `codes`, `GrantForPasskey`, `RequestCode`, `Spendable` | `auth/step_up_service.py` |
| `only`, `Add`, `Remove`, `SetPasskeyOnly` | `me/passkey_service.py` |
| `reset`, `RequestReset`, `FindKeys`, `Verdict`, `Settle`, `Stopped` | `request_reset`, `run_resets`, `_settle`, `_cancelled_by_a_sign_in` |
| `Erase` | `account_deletion_service.erase` as far as it reaches here |

Left out: WebAuthn itself and a key's counter, wrong tries (they are in `SignIn`), the age a
login needs before it may make a change.

### `SignIn`

Numbers, the one or two accounts on each (a brand, a creator), their logins with the tokens each
rotated through, login codes and step-up codes, and the change of a number. A request takes its
locks (`LockOrder`: numbers in order, then the change, then accounts in order), reads the database
with the last of them (`saw`) and writes from what it saw when it commits. An insert that
points at an account waits for whoever holds it FOR UPDATE (`MayPointAt`). Advisory
locks (`lock_phone`) and row locks are alike here.

| State / action | Code |
|---|---|
| `sent`, `RequestOtp`, `Checked`, `MaySend`, `MayGuess` | `auth/service.py` |
| `stepUp`, `RequestStepUp`, `StepUp` | `auth/step_up_service.py` |
| `family`, `VerifyOtp`, `RefreshSession`, `Logout`, `LogOutEverywhere` | `verify_otp`, `refresh_session`, `logout`, `session_service.log_out_everywhere` |
| `acct`, `Suspend`, `Restore` | `admin/admin_service.py` |
| `change`, `RequestChange`, `CancelChange`, `MakeChange`, `Void` | `me/phone_change_service.py`, `auth/phone_changes.py` |
| `RequestDeletion`, `CancelDeletion`, `Erase` | `me/account_deletion_service.py` |

`ended` is a history variable: the logins a logout, a suspension, a move or an erasure has ended.
Left out: administrators' own sign-in, passkeys (`Passkeys`), the age a login needs for some
changes, the expiry of tokens, the provider that sends the messages.

### `DataExport`

One account's exports: their rows, the files in the bucket, the newest code for a download, the
runs of the job, the requests of the owner, and the job that deletes the account. A run changes
rows in short transactions and files with none open, so each call it makes is an action; only a
download keeps its row locked while it reads and destroys the file (`RowLocked`).

| State / action | Code |
|---|---|
| `row`, `StatusOf`, `Waits` | `export_models.py`, `data_export_service.status_of` |
| `Ask`, `AskCode` | `request`, `step_up_service` for a download |
| `LockDownload`, `Take`, `HandOver`, `DownloadFails` | `download` |
| `Start`, `Select`, `Build`, `Write`, `Mark`, `CountTry`, `BuildFails` | `run_exports`, `_build`, `_count_failed_try` |
| `SelectDue`, `DestroyDue`, `RecordDue` | `_destroy_expired` |
| `StartDeletion`, `DestroyOwn`, `RecordOwn`, `Erase`, `MayErase` | `account_deletion_service.run_deletions`, `destroy_files_of`, `blocks_erasure`, `erase` |
| `RunBreaksOff`, `DeletionBreaksOff` | a call of the storage raises, or the process dies; the job library may take the run up again |

`told`, `handed` and `twice` are history variables: what the owner was told, how often a file was
handed over, and what was settled by one run while another had it to build. Left out: what a file
says, its size and kind, wrong tries of a code, and the bucket's own rule that removes every object
after two days.

### Proof modules

`DealMemoProofs`, `PaymentRecordProofs`, `IdempotencyStoreProofs`, `ContentReviewProofs`,
`DataExportProofs`, `PasskeysProofs`, `NegotiationProofs` and `SignInProofs`, one for each module but
the abstract `DealPromise` and `MoneyPromise`; see section 4.

## 3. What the runs check

| Run | Instance | Question and result |
|---|---|---|
| `deal` | 2 requests, 2 fees, 3 days, window of 1, 3 proofs, 1 change request | the record tells the one legal deal there was, step by step, whichever PATCH, send, answer, cancellation or proof raced; the clock gives its window and approves only agreed deals; cancellations count only after work and never take work away; the first approval opens the one payment; the abstract deal is implemented (one proof waits, decisions stand) |
| `payment_record` | 3 requests, 2 deals, equal stamps, fairness | what was answered is what is recorded, and the record tells one story of payment and dispute (`RecordIsTrue`); each request, a bulk list too, is as good as alone, and the first word stands (`KeepsItsWord`); only bulk lists that cross (follow no common order of the deals) deadlock; while none cross, every request ends by itself |
| `replays` | 3 attempts, 2 bodies, fairness | a success, own or replayed, is of committed work for that body; every claim gives way |
| `negotiation` | 2 requests, 2 creators, 1 offer a side, 1 waiting invitation, paid or barter | the offers of an application tell one negotiation and what was said stands, whoever offers, answers, moves or is erased meanwhile; a memo comes from an accepted application, with its figure settled, and from the figure agreed there; nothing of an erased side is left to answer, and a deal that has not ended keeps its creator, whatever disputes come and go; invitations stay within their limit and find an open campaign; waiting in a circle takes an invitation or the erasure of a brand |
| `content_review` | 2 requests, 2 workers, 2 images, 3 drafts, 4 days | one draft is alive and proof follows the approved one; answers stand; silence approves only what the brand could open for its days; the dates it held drafts are charged to it once; overlapping and dying workers clean and seal an image once and the last of two makes the draft ready |
| `passkeys` | 2 requests and 2 jobs, 2 keys, 3 codes, 3 moments | each change spends a code made for it, a passkey's where there is one; a reset spares a key in use, of those its job locked; a circle has the erasure in it, or the removal of a key added after the job locked the keys; an erased account keeps nothing |
| `sign_in` | 2 requests, 2 numbers, 2 accounts, 3 logins, 4 moments | tokens rotate in one line and what was ended stays ended; a session has proved the number its account has; codes are rationed over a number's accounts and serve once; sides move together, to a free number, and without a code from the old one only if nobody on it logged in |
| `data_export` | 2 exports, 2 requests, 2 runs, 2 tries, kept for 1 of 2 moments, 1 fault, fairness | a file is handed over once, and only one its owner was told of; an export is settled and told of once; a file in the bucket is one that some row still speaks of; each export ends, and each file goes |
| `terms_stand`, `erasure_circle`, `passkey_lockout`, `restore_revives` | as above | violated: see section 5 |

Why the bounds are enough. Two requests on a deal are the smallest number that
races, and here also the one at which every pair of operations meets: each
transaction locks the memo, so a third request adds another committed change between
a read and its transaction, which one request finishing and starting over already
does (requests return to `Idle`). Three proofs are needed because the third is the first
that does not start a clock of its own. Three days are a submission, its window and its
deadline. In `PaymentRecord` three requests are needed for a waiter behind a waiter
and for a cycle with a bystander; two deals for lists that cross. The third joins two on their one
deal, or two whose lists name both deals: a third on a deal of its own meets nobody. Circles through
three deals and longer lists are beyond TLC; `OnlyCrossedLists` proves those away. Stamps are equal
there, and `RecordTold` is proved for any.
Three attempts are one that finishes or dies and two that race at its expiry; that a fourth
adds nothing to `SuccessesAreTrue` is proved.

In the larger modules a behaviour chooses at its start what it is about (`scenario`, in the MC
modules), and each scenario has the operations its question needs. They share the invariants and
properties, so that each is checked in all of them, and together they fire every action.

* `MCDealMemo`: the terms and moves before any work, or the proof of an agreed deal.
* `MCNegotiation`: one creator from the application or the invitation over the offers to the memo,
  while the creator may leave; two creators and the one place for an invitation, while either side
  may leave; the change of the campaign's type and the brand's leaving while a deal is made or
  refused (without the ways of saying no that differ from `reject` only in who says it).
* `MCContentReview`: three drafts without images (three, because the third is the first that
  does not restart the clock) up to the proof; two images and two workers on one draft or proof;
  one image that is late or never comes, over two midnights.
* `MCPasskeys`: a reset among sign-ins; the key that stopped a reset removed before the job looks;
  the only key removed while a reset waits and another added, and used or removed, while the job runs;
  all changes of keys at one moment; the last key removed by two requests at once, which takes three
  codes; the erasure among sign-ins, a first key and a reset.
* `MCDataExport`: overlapping runs on one export while it is asked for and taken; two requests at
  once; one export after another; the deletion of the account meanwhile.
* `MCSignIn`: sessions; codes; a move off a number and onto one; a deletion. It starts from a
  number that has logged in, with codes at hand where the question is what is done with them: a
  state `SignIn` reaches by the sending of codes and one login, which leaves the few codes and moments of the
  bounds to the races. `Patience` bounds how far the clock runs ahead of a request under way: one
  unit, while a wait is two, because no request lasts as long as the days or hours that a change,
  a reset or a deletion waits.

Requests, keys, images and workers are symmetric in the runs that check no liveness; numbers and
logins are not, as their order matters. `MCPaymentRecord`, which checks liveness, uses no symmetry
set: requests begin in the order of their numbers and the first names deal 1 first, which is each
behaviour up to names. `CHECK_DEADLOCK FALSE`: each instance has finitely many requests
(or days, codes, logins), or one pair of people who leave, and stops when they are used up; that no request stops half-way is checked
by `EveryRequestIsAnswered`, `ClaimsGiveWay`, `EveryExportEnds` and the deadlock properties.

Fairness. `PaymentRecord!FairSpec`: weak fairness per request of taking the next
lock, being refused or committing, because the server runs what it took on and
PostgreSQL grants a lock that stays free. `TimeOut` has no fairness, so the property
does not lean on PostgreSQL breaking off a wait. `IdempotencyStore!FairSpec`: an
attempt goes on or dies, and Redis expires what has a time to live. `DataExport!Fairness`: some run
of the job is started again and again (it is scheduled every minute), and a run or a request goes
on once begun; a fault has none and their number is bounded, since an export whose every run dies
waits for ever. Nothing else is assumed to be fair, and no safety property uses it.

Every property is also run against a mutant of the code (`PROJECT.json`,
`mutants`): the `Variant` definitions in the modules, each a plausible slip such as
a check not repeated under the lock or a lock taken in the other order.

## 4. What is proved

For every value of the constants, by TLAPS:

* `DealMemoProofs`
  - `TypeCorrect`. The type invariant is not inductive alone: an answer in flight
    must name an existing proof (`AnswersNameAProof`); `Typed` is both.
  - `DecidedStands` and `ClockOnlyAgreed`, action properties, from `Typed` and a
    classification of every step (`Steps`): it moves the memo, submits one proof,
    answers one waiting proof, or touches neither.
  - `OneWaits` and `CancellationsBind`, from `WorkInv`: besides the two
    properties, work has started exactly when a proof exists, and proofs exist only
    on a deal that was accepted. Without this, a cancellation could be counted on
    a deal without work. The second half of `CancellationsBind` says that what waits after a
    brand's cancellation is what the clock still approves; it needs that the clock of a proof does
    not move when others are submitted (`ClockStable`).
  - `PromiseKept`: `DealMemo` implements `DealPromise`, initial states and steps,
    from `WorkInv` and `FeeInv` (the fee fits the campaign's type, and the payment is
    owed only after an approval).
  - `AnswersInTime`, from `InTime`: a brand's answer between its two transactions
    either names a decided proof or one whose deadline has not come.
  - `RecordIsTrusted`: each step adds one entry to the record, and beside it only the line that
    opens an older deal's record and the payment's (`Adds`, `RecordSteps`). The entries that tell of
    the memo form a legal course that ends at its status (`CourseInv`), and those that name a
    proof tell its submission and, if it is decided, its decision, each once (`StepsInv`).
  - `PaymentOpensOnce`: proofs that are approved, entries of approval and the payment go together, and
    the payment's date is counted from the first of them (`PayInv`).
  - `WindowIsGiven`: only the last proof waits, and its deadline is a whole window after itself, or
    after the later of two earlier ones (`ClockInv`, `DeadlineIsFair`).
* `PaymentRecordProofs`, all from `LockInv`: a request holds only locks of rows it is done
  with or earlier ones of its current row (`HeldIsBehind`), no two requests hold locks that
  conflict (`Exclusive`), and a payment a request has checked and will write is still as it
  checked it, because the request holds its row (`WritesAreGuarded`). For a confirmation this
  needs that a payment found by the first read stays, and that a confirmed payment was marked.
  - `TypeCorrect`.
  - `FirstWord`: only a commit and an approval change payments, and a commit writes what it
    checked (`WriteEffect`).
  - `OnlyCrossedLists`: give every lock the level 3 * (rank of its deal) + (rank of its
    table). A request holds locks only below the one it asks for (`HeldBelow`), so along
    "waits for" the level asked for rises, and a finite range of levels has no circle.
    This covers any number of requests and deals and lists of any length.
  - `SomeoneMoves`: by the same levels, while all lists follow one order some request under way waits
    for nobody. It is the safety half of `EveryRequestIsAnswered`: what is left to TLC is that fairness
    turns it into an end for each.
  - `WordKept`: `PaymentRecord` implements `MoneyPromise`, initial states and steps. Besides the
    locks it needs `WordInv`: a request that is not a bulk list names one deal, it is done with no more
    rows than it names, and a confirmation is not earlier than the marking it has checked.
    A commit then is one statement about all it has recorded (`CommitIsHeard`), because every row it will
    write is still as it was checked. `FirstWord` is what a single step of it says of payments.
  - `RecordTold`: besides the locks, a dispute that a request has checked and will write is as it was
    (`DisputeInv`), payment, dispute and record of each deal tell one story, each entry at most once
    and in a legal order (`StoryInv`), and what a bulk request has answered so far is what it is
    about to record.
* `IdempotencyStoreProofs`
  - `RepliesAreTrue`, from `ReplayInv`: what Redis holds was written by an attempt
    with that body, an answer only by one whose work is committed, and work is
    committed before it is answered. No assumption on expiry is used: an entry may
    vanish at any time.
* `ContentReviewProofs`, from `ReviewInv`: besides `OneReview`, a request and an image name only
  drafts that exist, a worker alone holds an image that waits to be cleaned, and an upload asked
  for is of an image not there yet (`ImagesAreHeldOnce`).
  - `ReviewIsOne`: an approved draft is the last one, so the `CHOOSE` of `ApprovedDraft` leaves no
    choice and a show comes only after every draft was sent back (`ShowIsNext`).
  - `AnswersAreFinal`, from a classification of what a step does to drafts (`DraftsStep`) and to
    images (`FilesStand`).
  - `EachIsCleanedOnce`: between the writing of the copy and the commit the copy is in the store
    (`SealInv`).
  - `ReadyIsExact`, from `ReadyInv`: what a worker counted under the draft's lock is still so when
    it commits. That needs two facts: no image joins a draft after it was shown, and no other
    worker about to commit has an image of the same draft. The mutant drops that lock and breaks it.
  - `SilenceIsFair`, from `ReadyInv` and the arithmetic of the deadline.
  - `HeldDatesStayFair`. `HeldAmong` judges the drafts one after the other, by a recursive function on
    sets of drafts; `AllAreJudged` shows first that it is defined on each of them, by a set of fewest
    drafts without a value. `AllJudgedFairly` then carries `JudgedFairly` in the same way: the drafts in
    time are an initial run of those shown, the due date so far lies past every day held in time, and
    before every late showing. The properties follow at the set of all drafts.
* `DataExportProofs`, all from `ExportInv`: besides the three properties, whatever a run or the
  deletion has in its list to destroy was once made ready; a file whose destruction is about to be
  recorded is gone, unless an overlapping run wrote it again; a run that builds has an export that
  still waits, or one settled under it (`twice`); and a download past its checks has the phone's lock
  and an export nobody has taken.
  - `FilesAreHandedOverOnce`, `ExportsAreSettledOnce`, `EveryFileIsAccountedFor`, for any number of
    exports, requests, runs, tries and faults.
* `PasskeysProofs`, all from `KeysInv`: no two requests hold locks that conflict, a change shows
  a code for its kind, and what a request found under its first lock still stands when it writes
  (`FoundStands`): its code is unspent, its key is held, none of the keys the job locked was used
  since the reset was asked for, the account is not erased.
  - `KeysStayInOrder`: well formed, and nothing of an erased account signs in.
  - `OthersNeverDeadlock`: give the tables the order phone, reset, keys, account. Everyone but the
    erasure asks for a higher one than those it holds, so along "waits for" the rank rises, and a set of
    waiting requests without the erasure has a highest. The one exception is the job, which comes back
    to the keys with the account in hand: it waits then for a key added after it locked, held by a
    sign-in, which waits for nobody but the erasure, or by a removal, the exception the property names.
  - `ChangesTakeTheirCode` and `UsedKeysStay`, action properties, from `FoundStands` at the commit. A
    sign-in that commits between the job's question and its DELETE is with a key the job did not
    lock (`Answering`), so of the others the answer stands.
  - `LockoutsAreEarlyLooks` says how `PasskeyOnlyHasAPasskey`, which the run `passkey_lockout` shows
    violated, can fail at all: in the two ways of section 5 and no third.
* `NegotiationProofs`, all from `NegInv`: locks exclude, each request is one that can be asked
  (`FitsOp`), and what it was told under its locks still stands (`ToldStands`: the move is still
  allowed, the offer still open and the other side's, the slot still empty, the campaign still open,
  one more invitation still within the limit). The work is `ToldKeeps`: what one request commits
  leaves alone what another, whose locks do not conflict, was told. The rest of `NegInv` are the
  properties themselves.
  - `OffersReadAsOne`, `MemosComeFromDeals`, `LeaversAreLeftAlone`, `InvitationsStayFew`, for any
    number of creators, requests, offers and any limit. `LeaversAreLeftAlone` rests on what an erasure
    saw under its application locks: no memo is drafted for its creator meanwhile, a deal that has
    ended never begins again, and one that a dispute makes unfinished again has still ended.
  - `OthersNeverDeadlock`: by layers (`Layer`): a request that is neither an invitation nor the erasure of
    a brand waits only for one that is further on than itself.
  - `WhatWasSaidStands` and `InvitationsLandWhileOpen`, action properties, by cases on what commits.
* `SignInProofs`, all from `SignInInv`: no two requests hold a lock in common (`Exclusive`), each has
  the locks its operation needs (`InOrder` of a set gives each of its members, once: `InOrderIs`), and what
  those locks protect is still as it read it with the last of them (`SawStands`). A number's lock keeps
  who is on it, which logins those have and who waits for it; an account's lock keeps the tokens
  of its logins. Each commit is shown to have an `Effect`: it moves accounts only on numbers it has
  locked, writes only logins of accounts it has locked, and adds a login or a wait only for a number it has
  locked; `CommitKeeps` shows once that no such commit disturbs what another request has read.
  - `LoginsStayOneLine`, `WhatEndsStaysEnded`: under the account's lock the tokens to be revoked are all
    there are, and the one to be rotated is still unused.
  - `EverySessionProvesItsNumber`: a move and an erasure know every login of the accounts they take off a
    number, because a new login needs that number's lock.
  - `WaitedNumberStaysFree`: what a job moves to is what its account still waits for. This is where time
    enters: a change cancelled and asked for again for another number is not due while a job that
    read the first one runs (`PatienceAssumption`, `KnowsTo`).
  - `EveryCodeIsCounted`: what a request counts before it sends a code, and the code it finds unused,
    are still so when it writes. A second invariant (`AllElseStands`, on top of `SignInInv`) says that a
    number's lock keeps the codes sent to it, a change's lock the change, and that a login's beginning is
    written once. What is sent to a number is then a subset of what was counted for it
    (`AllAreCounted`), and the one login or change a commit makes is set against the one code it uses up.
  - `SidesMoveTogether` and `EveryMoveIsFair`, action properties, by cases on what commits: only the job
    that makes a change gives an account another number, of all that are on the old one, and what it
    saw of their logins is all there is. A side that logged in and was erased before the job came is on
    the number no more and is not looked at, by the code nor by the property (an erasure waits
    30 days, a lost number's change 7).
  - `OnlyUnawareLoginsWork` says how a suspended account can have a working login, which the run
    `restore_revives` then gives back: one was begun that read the account before its suspension. It
    survives no suspension and comes from nothing else. The invariant is `SuspendersSee`: whoever holds the
    account to suspend it has read all its logins, since a new one, which points at the account, waits.

The assumptions are the modules' `ASSUME`s on the constants. `DealMemo`: the campaign's type is one
of four, fees are naturals, the window and the payment term are at least one day. `PaymentRecord`:
finitely many deals, moments are naturals, and the actor before the requests is none of them.
`ContentReview`, `Passkeys`, `Negotiation`, `DataExport`, `SignIn`: the limits, windows and bounds are naturals,
positive where the code's are. `Passkeys`: the two jobs are none of the
devices' requests. `Negotiation`: what may be asked (`Enabled`) is among the operations there are.
`DataExport`: the values for "nobody" and "nothing" are no request and no export. `SignIn`: numbers are
positive, and no request lasts as long as a change of number waits (`PatienceAssumption`: the waits are
days, the statements of a request are cut off within seconds). No theorem bounds the number of requests.

Only model-checked: liveness (`EveryRequestIsAnswered`, `ClaimsGiveWay`, `EveryExportEnds`), which the
prover does not reach. Every other property of a passing run is stated by a theorem.

## 5. Where the code and its documents part

1. `terms_stand`: a PATCH read while the memo is a draft takes no lock and may
   commit after the send and the accept (`deal_memo/service.py:454`); "once accepted
   its terms stop changing".
2. `erasure_circle`: the erasure of a brand takes its campaigns before their applications,
   a move takes its application before, through a foreign key, the campaign: they deadlock
   (`campaigns/departure_service.py:45`). PostgreSQL ends one. If it is the erasure, the run
   of the job ends with it (`me/account_deletion_service.py:249` catches nothing).
3. `passkey_lockout`: the last passkey is removed by a request that read the account before
   passkey-only sign-in was turned on (`me/passkey_service.py:184`); the account is left
   passkey-only without a passkey. Turning it on has the same gap from the other side: it looks for a
   key before its lock and not again (`:212`), so a removal or a reset that commits meanwhile leaves
   it passkey-only without one. There is no third way (`LockoutsAreEarlyLooks`).
4. `restore_revives`: a login that read its account as not suspended adds its session after the
   suspension ended every session (`auth/service.py:263`); restoring the account gives it back. Nothing
   else leaves a suspended account with a working login (`OnlyUnawareLoginsWork`).

The same cause, a row read without a lock or before it, has milder forms. They have no run
of their own. The modules state what each of the named ones breaks; put in a cfg, TLC shows it on
two or three requests:

* `EveryTransitionIsRecorded` (`DealMemo`): a cancellation read as a draft and committed after the
  send writes no entry, because it looks at the old `sent_at` (`deal_memo/service.py:580`).
* `TimelineKeepsTheOrder` (`PaymentRecord`): a dispute's timeline is ordered by the requests'
  arrival, not by the order in which entries were made (`disputes/service.py:347`).
* `MemoBeforeErasureOrRefused` (`Negotiation`): a memo that waited for the erasure of its brand is
  drafted for an erased brand, because only the creator's deletion is looked for
  (`deal_memo/service.py:284`).
* `NoUsedKeyIsReset` (`Passkeys`): the job that makes a reset locks the keys it finds and then the
  account (`me/passkey_service.py:332`); a key added in between is locked by nobody, so a sign-in with it
  may commit after the job asked whether one signed in (`:340`) and before it deletes every key (`:353`),
  and the used key goes with the rest. "Every key locked before asking whether one signed in" (`:326`).
  The same gap lets the job and the removal of such a key wait for each other; the job and a sign-in
  never do, as that comment says (`OnlyErasureOrALateKeyDeadlocks`).
* `AnySignInCancelsTheReset` (`Passkeys`): a key that signed in and was then removed, before the
  job ran, no longer stops the reset (`me/passkey_service.py:369` looks at the keys that are left).
* `SealedTermsAreTheMemos`: a move refreshes three columns under its lock and seals the
  terms as they were read before it (`deal_memo/service.py:536`).
* `OpenDealStands`: a PATCH read while the campaign is a draft commits after it was
  published and changes its type under its applicants (`campaigns/service.py:212`).
* `ClosedCampaignTakesNoApplications`, `InvitationDoesNotOutliveTheCampaign`: applying, and
  accepting an invitation, read the campaign without a lock and may commit after its close
  (`campaigns/service.py:433`, `:566`).
* `NothingStartsWithWhoLeft`: an application that waited for the erasure of its creator
  lands after it (`campaigns/service.py:470`), so an erased creator has one waiting.
* `ReadyHasAFile` (`DataExport`): the job that deletes accounts destroys the files of ready exports first
  and then finds the erasure held, by a deal or an export (`me/account_deletion_service.py:279`), or
  cancelled: the account goes on, and an export that is shown as ready has no file ("Ready means a
  file", `me/export_models.py`).
* `OneRunsAtATime`: a claim that expires between SET NX and GET is taken by nobody, and two
  attempts may run (`core/idempotency.py:175`). The unique indexes behind the endpoints
  still hold; the sentence about 409 does not.

And without a definition of their own, met while modelling:

* A withdrawal whose clock was read before a draft's deadline may commit after the clock approved
  the draft, and is then recorded with the earlier moment (`deal_memo/service.py:496`).
* The bucket deletes an original a day after its upload, whether or not it was submitted and not
  cleaned by then; the worker then rejects the image as missing (`ExpireOriginal`, `Clean`).
* Step-up codes are counted by the number their account has now, so a move takes the budget of
  the old number along (`auth/service.py:128`).
* `_claim` reads its own account before its locks: a change asked for while the erasure of the
  account commits may leave a waiting change behind it (`ClaimRefused`).
* A dispute opened beside the erasure of a side, or after it, makes a deal of who left unfinished again
  (`disputes/service.py:172` takes no lock and looks at no erasure; `deal_memo/unfinished.py:54` counts
  it), though "a brand cannot leave mid-deal", a disputed one included
  (`docs/standards/trust-and-safety.md:137`). `WhoLeftIsLeftAlone` therefore speaks of deals that
  have not ended, and the model lets disputes come and go beside it.
* A login whose clock was read before a lost-number change was asked for, and which commits after,
  does not void it, as the moments are compared and not the commits (`Void`).
* A file that a run wrote for an export given up as failed, or wrote again after an overlapping run had
  settled it, is left to the bucket's rule of two days (`FilesAreAccountedFor` names both).
* A run of the export job whose scheduled time is before an export was asked for, as a retried run's may
  be, ends by the check constraint on `ready_at` (`TooEarly`).

## 6. The plan

Modelled so far, in the order of what a user loses when it goes wrong: the deal and its clock, the
payment and its dispute, the retry of a request, the way to the deal, the review before posting,
the account that acts, the export of its data.

Left, in this order:

1. `Feedback`: the two sides' answers, revealed together; the lock given up by the clock's commit.
2. `UpiHold`: a changed handle, its hold and its cancellation; `ProofReading`: the slow outside
   reader under an advisory lock; `Anchors`: the day's root and a stamp that is asked again.
3. `LoadShedding`; the states shown that are derived from the rest (`derive_state`, a deal's stage).

## 7. What is not modelled, and why

The frontend, infrastructure, migrations and scripts; rendering, wording, exports to
CSV and calendars; permission checks of a request (pure functions of its caller);
the hashes of the record and the Merkle tree (the entries and the terms they seal
are modelled, SHA-256 is not); notifications (appended in the sender's transaction
and read by nobody else); the ranking of search. Most of the repository's lines are of
these kinds: pages and 3D scenes, request and response schemas, matching and its word
lists, scripts that load data or measure. They keep no state that two actors share, so a
state machine says nothing about them. In the modelled parts: the answers to a proof of a
deal with a draft review are `DealMemo`'s, which has no drafts, and the two are not
composed; the record's reader and verifier; `derive_state`; what is said in a dispute of
a deal whose account is deleted (that one may be opened and closed is in `Negotiation`);
blocks and takedowns.

`WaitsFor`, `Conflict`, `Strength` and `TimeOut` stand for PostgreSQL's locks and `Expire` for
Redis's expiry, as the code uses them.
