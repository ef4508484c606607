------------------------------ MODULE DealMemo ------------------------------
(***************************************************************************)
(* One deal of the platform: the memo the brand writes, sends and the      *)
(* creator answers (deal_memo/service.py), the proof of the work           *)
(* (deal_memo/proof_service.py, review_clock.py), the payment its approval *)
(* opens (payment_status/service.py) and the deal record that seals every  *)
(* step (deal_memo/record_service.py).                                     *)
(*                                                                         *)
(* A request is a row of req.  It reads the memo's row without a lock (the *)
(* FastAPI dependency get_brand_memo or get_creator_memo), then runs one   *)
(* database transaction that begins by locking that row, so Load and the   *)
(* transaction are two steps and anything may commit between them.  What   *)
(* the transaction reads again under its lock is written memo below; what  *)
(* it still takes from the first read is written req[r].row.               *)
(*                                                                         *)
(* Time is a Tamil Nadu calendar day: a deadline is the midnight that      *)
(* begins a day, so "now >= deadline" compares days.                       *)
(***************************************************************************)
EXTENDS Integers, Sequences, FiniteSets

CONSTANTS
    Requests,       \* concurrent HTTP requests on this deal
    CampaignType,   \* "paid", "local_business", "commission" or "barter"
    Fees,           \* fee_amount_paise values tried; 0 stands for none
    DueDays,        \* content_due_on values tried; NoDay stands for none
    Window,         \* approval_window_days
    PaymentDue,     \* payment_due_days
    MaxDay,         \* bound: the last day modelled
    MaxRevisions,   \* bound: change requests modelled
    MaxProofs       \* bound: submissions of proof modelled

NoDay == -1
Day == 0..MaxDay
CampaignTypes == {"paid", "local_business", "commission", "barter"}

ASSUME CampaignAssumption == CampaignType \in CampaignTypes
ASSUME TermsAssumption == Fees \subseteq Nat /\ DueDays \subseteq Int
ASSUME WindowAssumption == Window \in Nat \ {0} /\ PaymentDue \in Nat \ {0}
ASSUME BoundsAssumption ==
    MaxDay \in Nat /\ MaxRevisions \in Nat /\ MaxProofs \in Nat

-----------------------------------------------------------------------------
(* The vocabulary of the source. *)

MemoStatuses ==
    {"draft", "sent", "change_requested", "accepted", "declined", "cancelled"}
EditableStatuses == {"draft", "change_requested"}
CancellationKinds ==
    {"none", "withdrawn_early", "cancelled_by_brand", "cancelled_by_creator"}
ProofStatuses == {"submitted", "approved", "revision_requested"}

\* Which status each side may move a memo to, from each status.
BrandTransitions ==
    [s \in MemoStatuses |->
        CASE s \in EditableStatuses      -> {"sent", "cancelled"}
          [] s \in {"sent", "accepted"}  -> {"cancelled"}
          [] OTHER                       -> {}]
CreatorTransitions ==
    [s \in MemoStatuses |->
        CASE s = "sent"     -> {"accepted", "declined", "change_requested"}
          [] s = "accepted" -> {"cancelled"}
          [] OTHER          -> {}]

\* The terms of a memo that the checks and the payment read.
TermsSet == [fee : Fees, due : DueDays]
NoTerms == [fee |-> 0, due |-> NoDay]

BrandOps == {"update", "send", "cancel", "approve", "request_revision"}
CreatorOps == {"accept", "decline", "request_change", "withdraw", "submit"}
EitherOps == {"look"}
Ops == BrandOps \union CreatorOps \union EitherOps
AnswerOps == {"approve", "request_revision"}

RecordKinds ==
    {"record_started", "memo_sent", "memo_change_requested", "memo_accepted",
     "memo_declined", "memo_cancelled", "proof_submitted", "proof_approved",
     "proof_auto_approved", "proof_revision_requested", "payment_opened"}

\* A memo of this campaign carries a fee, carries none, or either.
FeeFits(fee) ==
    /\ CampaignType = "barter" => fee = 0
    /\ CampaignType \in {"paid", "local_business"} => fee > 0
DueDateRequired == CampaignType # "barter"

-----------------------------------------------------------------------------
VARIABLES
    memo,      \* the deal_memo row
    record,    \* the deal_record_entry rows of the deal, in sequence
    proofs,    \* the deliverable_proof rows of the deal, in the order written
    payments,  \* the payment_status rows of the deal
    req,       \* the requests in flight
    today      \* the calendar day

vars == <<memo, record, proofs, payments, req, today>>

Memo ==
    [status      : MemoStatuses,
     terms       : TermsSet,
     revisions   : 0..MaxRevisions,   \* revision_count
     sent        : BOOLEAN,           \* sent_at is set
     workStarted : BOOLEAN,           \* work_started_at is set
     cancelledAt : Day \union {NoDay},
     kind        : CancellationKinds] \* cancellation_kind

Proof ==
    [status     : ProofStatuses,
     created    : Day,
     approvedAt : Int,                \* a clock approval is dated at its deadline
     auto       : BOOLEAN]            \* auto_approved

Payment == [amount : Nat, dueOn : Int]

Entry ==
    [kind : RecordKinds, actor : {"brand", "creator", "system"},
     occurred : Int, recorded : Day,
     terms : TermsSet \union {NoTerms},  \* terms_sha256, on the kinds that seal terms
     proof : 0..MaxProofs]               \* proof_id, on the kinds about a proof

Request ==
    [op : Ops, now : Day,
     row : [terms : TermsSet, sent : BOOLEAN],  \* the memo as first read
     new : TermsSet,                            \* the PATCH body over that read
     proof : 0..MaxProofs,
     stage : {"settle", "move"}]                \* which transaction comes next

Idle == [op |-> "idle"]

-----------------------------------------------------------------------------
(* The approval clock (review_clock.py). *)

\* Submissions in the order of (created_at, id).
Before(i, j) ==
    \/ proofs[i].created < proofs[j].created
    \/ proofs[i].created = proofs[j].created /\ i < j
EarlierThan(p) == {i \in DOMAIN proofs : Before(i, p)}

\* Variant: every resubmission runs on the first clock.
FirstClockOnly(p) ==
    IF EarlierThan(p) = {} THEN proofs[p].created
    ELSE proofs[CHOOSE i \in EarlierThan(p) : \A j \in EarlierThan(p) : ~Before(j, i)].created

\* The first submission starts a clock, and so does the one that follows the
\* first request for changes; any later one runs on that second clock.
ReviewClockStart(p) ==
    LET Second(i) == Cardinality({j \in EarlierThan(p) : Before(j, i)}) = 1
    IN  IF \E i \in EarlierThan(p) : Second(i)
        THEN proofs[CHOOSE i \in EarlierThan(p) : Second(i)].created
        ELSE proofs[p].created

ApprovalDeadline(p) == ReviewClockStart(p) + Window + 1

\* Whether the deal was still agreed at a moment (draft_rules.agreed_at).
AgreedAt(moment) ==
    \/ memo.status = "accepted"
    \/ memo.status = "cancelled" /\ memo.cancelledAt >= moment

Waiting(p) == proofs[p].status = "submitted"
NoneWaitingUnchecked == TRUE  \* variant: the open submission is not looked for
NoneWaiting == \A p \in DOMAIN proofs : ~Waiting(p)
Overdue(p, now) == now >= ApprovalDeadline(p) /\ AgreedAt(ApprovalDeadline(p))

-----------------------------------------------------------------------------
(* The deal record (record_service.append). *)

EntryOf(kind, actor, occurred, now, terms, p) ==
    [kind |-> kind, actor |-> actor, occurred |-> occurred, recorded |-> now,
     terms |-> terms, proof |-> p]

\* One entry sealed after the last, a deal that began before the record
\* existed being opened with record_started.  terms: the memo's terms as the
\* transaction holds them.
Sealed(entry, terms) ==
    IF record = <<>> /\ (entry.kind # "memo_sent" \/ memo.revisions > 0)
    THEN <<EntryOf("record_started", "system", entry.recorded, entry.recorded,
                   terms, 0),
           entry>>
    ELSE Append(record, entry)

-----------------------------------------------------------------------------
(* Approval of a proof, and the payment it opens.                          *)

\* open_on_approval: nothing to pay, or already opened, opens nothing.
OpensPaymentAgain == memo.terms.fee > 0  \* variant: each approval opens one
OpensPayment == memo.terms.fee > 0 /\ payments = <<>>

Approve(p, kind, actor, at, now) ==
    LET sealed == Sealed(EntryOf(kind, actor, at, now, NoTerms, p), memo.terms)
    IN  /\ proofs' = [proofs EXCEPT ![p].status = "approved",
                                    ![p].approvedAt = at,
                                    ![p].auto = (actor = "system")]
        /\ payments' = IF OpensPayment
                       THEN <<[amount |-> memo.terms.fee, dueOn |-> at + PaymentDue]>>
                       ELSE payments
        /\ record' = IF OpensPayment
                     THEN Append(sealed, EntryOf("payment_opened", "system",
                                                 now, now, NoTerms, 0))
                     ELSE sealed

\* The clock's approval, dated at the deadline whenever it is noticed.
ClockApproves(p, now) ==
    Approve(p, "proof_auto_approved", "system", ApprovalDeadline(p), now)

-----------------------------------------------------------------------------
(* A request reads the memo, without a lock, before its transaction.       *)

Read(r, op, new, p, stage) ==
    /\ req[r] = Idle
    /\ op \in CreatorOps => memo.status # "draft"
    /\ req' = [req EXCEPT ![r] =
                 [op |-> op, now |-> today,
                  row |-> [terms |-> memo.terms, sent |-> memo.sent],
                  new |-> new, proof |-> p, stage |-> stage]]
    /\ UNCHANGED <<memo, record, proofs, payments, today>>

\* PATCH decides on this read alone: update_memo takes no lock.
ReadForUpdate(r, new) ==
    /\ memo.status \in EditableStatuses
    /\ new # memo.terms
    /\ new.fee # memo.terms.fee => FeeFits(new.fee)
    /\ Read(r, "update", new, 0, "move")

\* Every move from a declined or cancelled memo is refused, so none is begun.
ReadForMove(r, op) ==
    /\ memo.status \notin {"declined", "cancelled"}
    /\ op = "request_change" => memo.revisions < MaxRevisions
    /\ op = "submit" => Len(proofs) < MaxProofs
    /\ Read(r, op, memo.terms, 0, "move")

\* Variant: a submission is answered as read, overdue or not.
AnswerUnsettled(r, op, p) ==
    /\ Waiting(p)
    /\ Read(r, op, memo.terms, p, "move")

\* get_for_memo settles the proof first if, as read, its window has passed.
\* A decided proof is never answered again, so only one that waits is read.
ReadForAnswer(r, op, p) ==
    /\ Waiting(p)
    /\ Read(r, op, memo.terms, p, IF Overdue(p, today) THEN "settle" ELSE "move")

\* Reading a submission, by either side, writes only when it is overdue.
ReadForLook(r, p) ==
    /\ Waiting(p) /\ Overdue(p, today)
    /\ Read(r, "look", memo.terms, p, "settle")

-----------------------------------------------------------------------------
(* The transactions.  Each but PATCH locks the memo's row first.           *)

Finish(r) == req' = [req EXCEPT ![r] = Idle]

\* Variant: the status is checked on the first read, not again under the lock.
CanMoveUnchecked(actor, to) == memo.status # "draft"

CanMove(actor, to) ==
    to \in (IF actor = "brand" THEN BrandTransitions ELSE CreatorTransitions)[memo.status]

\* The agreed date, as read, must exist to send a scored deal and not be past.
DueDateHolds(q, toSend) ==
    IF q.row.terms.due = NoDay
    THEN ~(toSend /\ DueDateRequired)
    ELSE q.row.terms.due >= q.now

\* Variant: a brand cancels over proof that waits.
ProofMayWait(now) == TRUE

\* A brand's cancellation is refused while proof waits inside its window.
NoProofWaiting(now) ==
    \A p \in DOMAIN proofs : Waiting(p) => now >= ApprovalDeadline(p)

\* Variant: the agreement is not looked at again.
SettleUnagreed(q) == Waiting(q.proof)

\* The clock reads both rows again under its locks before it writes.
SettlePermitted(q) == Waiting(q.proof) /\ AgreedAt(ApprovalDeadline(q.proof))

\* Whether the transaction of a request, run now, goes through.
Permitted(q) ==
    IF q.stage = "settle" THEN SettlePermitted(q) ELSE
    CASE q.op = "update" -> TRUE
      [] q.op = "send"   -> CanMove("brand", "sent") /\ DueDateHolds(q, TRUE)
      [] q.op = "accept" -> CanMove("creator", "accepted") /\ DueDateHolds(q, FALSE)
      [] q.op = "decline" -> CanMove("creator", "declined")
      [] q.op = "request_change" -> /\ CanMove("creator", "change_requested")
                                    /\ memo.revisions < MaxRevisions
      [] q.op = "withdraw" -> CanMove("creator", "cancelled")
      [] q.op = "cancel" -> /\ CanMove("brand", "cancelled")
                            /\ memo.status = "accepted" => NoProofWaiting(q.now)
      [] q.op = "submit" -> /\ memo.status = "accepted"
                            /\ NoneWaiting
                            /\ Len(proofs) < MaxProofs
      [] q.op \in AnswerOps -> Waiting(q.proof) /\ memo.status = "accepted"
      [] OTHER -> FALSE

\* A transaction of request r, of one of these operations, that goes through.
Runs(r, ops, stage) ==
    /\ req[r] # Idle
    /\ req[r].op \in ops
    /\ req[r].stage = stage
    /\ Permitted(req[r])

\* Each PATCHed field replaces the row's where it differs from what was read.
Update(r) ==
    LET old == req[r].row.terms
        new == req[r].new
    IN  /\ Runs(r, {"update"}, "move")
        /\ memo' = [memo EXCEPT
                      !.terms.fee = IF new.fee # old.fee THEN new.fee ELSE @,
                      !.terms.due = IF new.due # old.due THEN new.due ELSE @]
        /\ Finish(r)
        /\ UNCHANGED <<record, proofs, payments, today>>

Send(r) ==
    LET q == req[r] IN
    /\ Runs(r, {"send"}, "move")
    /\ memo' = [memo EXCEPT !.status = "sent", !.sent = TRUE]
    /\ record' = Sealed(EntryOf("memo_sent", "brand", q.now, q.now, q.row.terms, 0),
                        q.row.terms)
    /\ Finish(r)
    /\ UNCHANGED <<proofs, payments, today>>

Accept(r) ==
    LET q == req[r] IN
    /\ Runs(r, {"accept"}, "move")
    /\ memo' = [memo EXCEPT !.status = "accepted"]
    /\ record' = Sealed(EntryOf("memo_accepted", "creator", q.now, q.now,
                                q.row.terms, 0),
                        q.row.terms)
    /\ Finish(r)
    /\ UNCHANGED <<proofs, payments, today>>

Decline(r) ==
    LET q == req[r] IN
    /\ Runs(r, {"decline"}, "move")
    /\ memo' = [memo EXCEPT !.status = "declined"]
    /\ record' = Sealed(EntryOf("memo_declined", "creator", q.now, q.now, NoTerms, 0),
                        q.row.terms)
    /\ Finish(r)
    /\ UNCHANGED <<proofs, payments, today>>

RequestChange(r) ==
    LET q == req[r] IN
    /\ Runs(r, {"request_change"}, "move")
    /\ memo' = [memo EXCEPT !.status = "change_requested", !.revisions = @ + 1]
    /\ record' = Sealed(EntryOf("memo_change_requested", "creator", q.now, q.now,
                                NoTerms, 0),
                        q.row.terms)
    /\ Finish(r)
    /\ UNCHANGED <<proofs, payments, today>>

\* Variant: work counts only while it waits.
KindByWaitingWork(actor) ==
    IF NoneWaiting THEN "withdrawn_early"
    ELSE IF actor = "brand" THEN "cancelled_by_brand" ELSE "cancelled_by_creator"

\* Free before any work was submitted, the canceller's afterwards (D-026).
KindOfCancellation(actor) ==
    IF ~memo.workStarted THEN "withdrawn_early"
    ELSE IF actor = "brand" THEN "cancelled_by_brand" ELSE "cancelled_by_creator"

\* Either side ends the deal.  Recorded only if the memo, as read, was sent.
Cancel(r) ==
    LET q     == req[r]
        actor == IF q.op = "cancel" THEN "brand" ELSE "creator"
    IN  /\ Runs(r, {"cancel", "withdraw"}, "move")
        /\ memo' = [memo EXCEPT
                      !.status = "cancelled",
                      !.cancelledAt = q.now,
                      !.kind = KindOfCancellation(actor)]
        /\ record' = IF q.row.sent
                     THEN Sealed(EntryOf("memo_cancelled", actor, q.now, q.now,
                                         NoTerms, 0),
                                 q.row.terms)
                     ELSE record
        /\ Finish(r)
        /\ UNCHANGED <<proofs, payments, today>>

SubmitProof(r) ==
    LET q == req[r] IN
    /\ Runs(r, {"submit"}, "move")
    /\ proofs' = Append(proofs, [status |-> "submitted", created |-> q.now,
                                 approvedAt |-> NoDay, auto |-> FALSE])
    /\ record' = Sealed(EntryOf("proof_submitted", "creator", q.now, q.now,
                                NoTerms, Len(proofs) + 1),
                        memo.terms)
    /\ memo' = [memo EXCEPT !.workStarted = TRUE]
    /\ Finish(r)
    /\ UNCHANGED <<payments, today>>

\* The first transaction of a request that found the proof overdue.
SettleIfOverdue(r) ==
    LET q == req[r] IN
    /\ Runs(r, AnswerOps \union EitherOps, "settle")
    /\ ClockApproves(q.proof, q.now)
    /\ IF q.op = "look"
       THEN Finish(r)
       ELSE req' = [req EXCEPT ![r].stage = "move"]
    /\ UNCHANGED <<memo, today>>

\* The answers settle once more under their lock, with the same now: nothing is
\* left to settle there (AnswersComeInTime).
ApproveProof(r) ==
    LET q == req[r] IN
    /\ Runs(r, {"approve"}, "move")
    /\ Approve(q.proof, "proof_approved", "brand", q.now, q.now)
    /\ Finish(r)
    /\ UNCHANGED <<memo, today>>

RequestRevision(r) ==
    LET q == req[r] IN
    /\ Runs(r, {"request_revision"}, "move")
    /\ proofs' = [proofs EXCEPT ![q.proof].status = "revision_requested"]
    /\ record' = Sealed(EntryOf("proof_revision_requested", "brand", q.now, q.now,
                                NoTerms, q.proof),
                        memo.terms)
    /\ Finish(r)
    /\ UNCHANGED <<memo, payments, today>>

\* What the locks found refuses the request, which rolls back; an answer whose
\* settling came too late goes on to its own transaction.
Refuse(r) ==
    /\ req[r] # Idle
    /\ ~Permitted(req[r])
    /\ IF req[r].stage = "settle" /\ req[r].op \in AnswerOps
       THEN req' = [req EXCEPT ![r].stage = "move"]
       ELSE Finish(r)
    /\ UNCHANGED <<memo, record, proofs, payments, today>>

\* A request's statements time out within seconds (db_statement_timeout_ms), so
\* one in flight meets at most one midnight.
NextDay ==
    /\ today < MaxDay
    /\ \A r \in Requests : req[r] # Idle => req[r].now = today
    /\ today' = today + 1
    /\ UNCHANGED <<memo, record, proofs, payments, req>>

-----------------------------------------------------------------------------
NewMemo(status, terms, revisions) ==
    [status |-> status, terms |-> terms, revisions |-> revisions,
     sent |-> status # "draft", workStarted |-> FALSE,
     cancelledAt |-> NoDay, kind |-> "none"]

\* create_memo's draft, or a memo sent before the deal record existed.
Init ==
    /\ \E terms \in TermsSet :
          /\ FeeFits(terms.fee)
          /\ \/ memo = NewMemo("draft", terms, 0)
             \/ memo = NewMemo("sent", terms, 0)
             \/ MaxRevisions > 0 /\ memo = NewMemo("change_requested", terms, 1)
             \/ memo = NewMemo("accepted", terms, 0)
    /\ record = <<>>
    /\ proofs = <<>>
    /\ payments = <<>>
    /\ req = [r \in Requests |-> Idle]
    /\ today = 0

Reads(r) ==
    \/ \E new \in TermsSet : ReadForUpdate(r, new)
    \/ \E op \in {"send", "cancel"} \union CreatorOps : ReadForMove(r, op)
    \/ \E p \in DOMAIN proofs :
          \/ \E op \in AnswerOps : ReadForAnswer(r, op, p)
          \/ ReadForLook(r, p)

Transacts(r) ==
    \/ Update(r) \/ Send(r) \/ Accept(r) \/ Decline(r) \/ RequestChange(r)
    \/ Cancel(r) \/ SubmitProof(r) \/ SettleIfOverdue(r) \/ ApproveProof(r)
    \/ RequestRevision(r) \/ Refuse(r)

Next == NextDay \/ \E r \in Requests : Reads(r) \/ Transacts(r)

Spec == Init /\ [][Next]_vars

-----------------------------------------------------------------------------
(* What the code promises. *)

TypeOK ==
    /\ memo \in Memo
    /\ record \in Seq(Entry)
    /\ proofs \in Seq(Proof)
    /\ Len(proofs) <= MaxProofs
    /\ payments \in Seq(Payment)
    /\ req \in [Requests -> Request \union {Idle}]
    /\ today \in Day

StatusAfter ==
    [memo_sent |-> "sent", memo_change_requested |-> "change_requested",
     memo_accepted |-> "accepted", memo_declined |-> "declined",
     memo_cancelled |-> "cancelled"]
MemoEntries == {i \in DOMAIN record : record[i].kind \in DOMAIN StatusAfter}
StatusTold(i) == StatusAfter[record[i].kind]

\* Whichever requests raced, the record read on its own is one deal's legal
\* course: every memo entry is a move the one before it allows.
RecordIsALegalDeal ==
    \A i, j \in MemoEntries :
        (i < j /\ \A k \in MemoEntries : k <= i \/ j <= k) =>
            StatusTold(j) \in BrandTransitions[StatusTold(i)]
                               \union CreatorTransitions[StatusTold(i)]

\* The last memo entry is the memo's status, but for a cancellation.
RecordTellsTheStatus ==
    \A i \in MemoEntries :
        (\A j \in MemoEntries : j <= i) =>
            memo.status \in {StatusTold(i), "cancelled"}

\* D-026: a cancellation is free if and only if no work had been submitted.
CancellationCountsOnlyAfterWork ==
    memo.status = "cancelled" =>
        (memo.kind = "withdrawn_early" <=> proofs = <<>>)

\* At most one submission waits for the brand.
OneProofWaits ==
    \A p, q \in DOMAIN proofs : Waiting(p) /\ Waiting(q) => p = q

\* D-147: a brand's cancellation leaves no posted work unanswered inside its
\* window: what still waits is the clock's to approve, so it stays owed.
BrandCannotCancelAwayWork ==
    memo.kind = "cancelled_by_brand" =>
        \A p \in DOMAIN proofs : Waiting(p) => AgreedAt(ApprovalDeadline(p))

\* Both, of a cancellation: what it is counted as, and what it cannot undo.
CancellationsAreHonest == CancellationCountsOnlyAfterWork /\ BrandCannotCancelAwayWork

Approvals(p) ==
    {i \in DOMAIN record :
        /\ record[i].proof = p
        /\ record[i].kind = IF proofs[p].auto THEN "proof_auto_approved"
                                               ELSE "proof_approved"
        /\ record[i].occurred = proofs[p].approvedAt}
EntriesOn(p) == {i \in DOMAIN record : record[i].proof = p}

\* Each submission has its entries and no others: one when submitted, and one
\* for the answer that stands, whichever request gave it.
ProofStepsAreRecorded ==
    \A p \in DOMAIN proofs :
        LET answers == {i \in EntriesOn(p) : record[i].kind # "proof_submitted"}
        IN  /\ Cardinality(EntriesOn(p) \ answers) = 1
            /\ CASE proofs[p].status = "submitted" -> answers = {}
                 [] proofs[p].status = "approved" ->
                        answers = Approvals(p) /\ Cardinality(answers) = 1
                 [] proofs[p].status = "revision_requested" ->
                        /\ Cardinality(answers) = 1
                        /\ \A i \in answers : record[i].kind = "proof_revision_requested"

\* The sealed record, read alone, is the story of one legal deal, ends where
\* the memo stands, and tells of each submission what was done with it: no
\* request, overtaken or answered by the clock, seals what did not happen or
\* leaves out what did (record_service.record, under the memo's lock).
RecordTellsTheDeal ==
    RecordIsALegalDeal /\ RecordTellsTheStatus /\ ProofStepsAreRecorded

Approved == {p \in DOMAIN proofs : proofs[p].status = "approved"}
ApprovalEntries ==
    {i \in DOMAIN record : record[i].kind \in {"proof_approved", "proof_auto_approved"}}

\* D-027: a paid deal owes one payment from the first approval of its work on,
\* and none before; its date is counted from that approval and never moves.
FirstApprovalOpensThePayment ==
    /\ CampaignType = "barter" => payments = <<>>
    /\ CampaignType \in {"paid", "local_business"} =>
          /\ Approved # {} <=> Len(payments) = 1
          /\ payments # <<>> =>
                \E i \in ApprovalEntries :
                   /\ payments[1].dueOn = record[i].occurred + PaymentDue
                   /\ \A j \in ApprovalEntries : i <= j

\* D-025: nobody's silence is turned into approval early.  A submission the
\* clock approved was given the whole window, or followed a second submission
\* that was.
ClockGivesTheWindow ==
    \A p \in DOMAIN proofs :
        proofs[p].auto =>
            \/ proofs[p].approvedAt = proofs[p].created + Window + 1
            \/ /\ p > 2
               /\ \E i, j \in 1..(p - 1) :
                     /\ i # j /\ proofs[i].created <= proofs[j].created
                     /\ proofs[p].approvedAt = proofs[j].created + Window + 1

\* Once an answer holds its locks the clock has nothing left to approve: the
\* brand never approves, or sends back, what silence had already approved.
AnswersComeInTime ==
    \A r \in Requests :
        (req[r] # Idle /\ req[r].op \in AnswerOps /\ req[r].stage = "move") =>
            ~(Permitted(req[r]) /\ Overdue(req[r].proof, req[r].now))

\* An answered submission is never answered again, whatever was read before.
DecidedProofStands ==
    [][\A p \in DOMAIN proofs : ~Waiting(p) => proofs'[p] = proofs[p]]_vars

\* D-146: the clock approves only a deal that was still agreed at the deadline.
ClockApprovesOnlyAgreedDeals ==
    [][\A p \in DOMAIN proofs :
         proofs'[p].auto /\ ~proofs[p].auto => AgreedAt(proofs'[p].approvedAt)]_vars

(* The deal, seen as what it promises its two sides. *)
Phase ==
    CASE memo.status \in {"accepted", "declined", "cancelled"} ->
            [accepted |-> "agreed", declined |-> "declined",
             cancelled |-> "cancelled"][memo.status]
      [] OTHER -> "talks"
Work == [p \in DOMAIN proofs |-> proofs[p].status]
Ending ==
    CASE memo.kind = "none" -> "none"
      [] memo.kind = "withdrawn_early" -> "free"
      [] OTHER -> "counted"
PaidChoices == {fee > 0 : fee \in {f \in Fees : FeeFits(f)}}

Promise == INSTANCE DealPromise WITH
    Paid <- PaidChoices, phase <- Phase, work <- Work, ending <- Ending,
    owed <- (payments # <<>>)

\* Every deal keeps the promise, whichever requests race on it.
KeepsThePromise == Promise!Spec

(* What the documents say and the code does not keep. *)

\* "once accepted its terms stop changing".
AcceptedTermsStand ==
    [][memo.status = "accepted" => memo'.terms = memo.terms]_vars

\* A sent or accepted memo puts "the terms' fingerprint" on the record.
SealedTermsAreTheMemos ==
    [][\A i \in DOMAIN record' \ DOMAIN record :
         record'[i].kind \in {"memo_sent", "memo_accepted"} =>
             record'[i].terms = memo'.terms]_vars

\* "Every transition writes one entry in its own transaction"; only "a draft
\* cancelled before sending writes nothing".
EveryTransitionIsRecorded ==
    [][memo'.status # memo.status /\ memo'.sent => Len(record') > Len(record)]_vars
=============================================================================
