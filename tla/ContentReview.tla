---------------------------- MODULE ContentReview ----------------------------
(***************************************************************************)
(* Drafts shown to the brand before posting, on one deal whose agreed      *)
(* terms say so: showing a draft, the brand's answer, the clock's approval *)
(* (draft_service.py, draft_rules.py), the proof that follows it           *)
(* (proof_service.submit_proof), the images uploaded for either            *)
(* (proof_file_service.py), and the workers that clean each image before   *)
(* the brand can open it (proof_cleaning_service.py).                      *)
(*                                                                         *)
(* A request reads its clock, then runs one transaction that locks the     *)
(* memo's row first; its clock may be a midnight behind by then.  A worker *)
(* holds its image's row, then the memo's and the draft's until it         *)
(* commits, and calls the file store before and after.  A moment is a      *)
(* calendar day; a deadline is the midnight that begins one.  Answers to   *)
(* the proof itself are DealMemo's.                                        *)
(***************************************************************************)
EXTENDS Integers, Sequences, FiniteSets

CONSTANTS
    Requests,           \* what runs at once; each serves one request at a time
    Workers,            \* cleaning runs that overlap
    Images,             \* the uploads the creator may ask for
    Window,             \* approval_window_days
    MinAnswerDays,      \* MIN_ANSWER_DAYS
    DueOn,              \* content_due_on
    MaxPendingUploads,  \* MAX_PENDING_UPLOADS_PER_MEMO
    MaxDrafts, MaxDay   \* bounds

ASSUME DaysAssumption ==
    /\ Window \in Nat /\ MinAnswerDays \in Nat /\ DueOn \in Nat
    /\ MaxDay \in Nat /\ MaxDrafts \in Nat /\ MaxPendingUploads \in Nat

-----------------------------------------------------------------------------
VARIABLES
    deal,    \* the deal_memo row
    drafts,  \* the content_draft rows, by round
    proof,   \* the deliverable_proof row
    file,    \* the proof_file row of each image
    store,   \* the file store: originals and cleaned copies
    sealed,  \* how often the record says an image was cleaned
    req,     \* the requests
    job,     \* the cleaning workers
    today    \* the calendar day

vars == <<deal, drafts, proof, file, store, sealed, req, job, today>>

Day == 0..MaxDay
NoDay == -1
Deal == [status : {"accepted", "cancelled"}, cancelledAt : Day \union {NoDay}]

\* ready: images_ready_at.
Draft == [status : {"submitted", "approved", "changes_requested"},
          created : Day, ready : Day \union {NoDay},
          answered : Int, auto : BOOLEAN]
Rounds == 1..MaxDrafts

NoProof == [draft |-> 0, created |-> NoDay]
Proof == [draft : Rounds, created : Day]

NoFile == [status |-> "none"]
File == [status : {"pending", "attached", "cleaned", "rejected"},
         purpose : {"draft", "proof"},
         draft : {0} \union Rounds, created : Day, missing : BOOLEAN]

\* image: the one upload asked for; with: those named by a draft or a proof.
Idle == [op |-> "idle"]
Ops == {"upload", "show", "read", "approve", "request_changes", "proof",
        "cancel", "withdraw"}
Request == [op : Ops, now : Day, round : {0} \union Rounds,
            purpose : {"draft", "proof"}, with : SUBSET Images]

\* Steps of a worker, after it claimed an image.
Free == [step |-> "free"]
Job == [step : {"claimed", "cleaned", "rejected", "missing",
                "commit_cleaned", "commit_rejected", "commit_missing", "delete"},
        image : Images, now : Day, last : BOOLEAN]

-----------------------------------------------------------------------------
(* When a draft is answered, and what its waiting does (draft_rules.py).   *)

Max2(a, b) == IF a > b THEN a ELSE b
Min2(a, b) == IF a < b THEN a ELSE b

\* Drafts in the order of (created_at, id).
Before(i, j) ==
    \/ drafts[i].created < drafts[j].created
    \/ drafts[i].created = drafts[j].created /\ i < j
Earlier(d) == {i \in DOMAIN drafts : Before(i, d)}
LastShown(shown) == CHOOSE d \in shown : \A e \in shown : e # d => Before(e, d)

\* The second draft shown restarts the clock, and no later one does.
ReviewClockStart(d) ==
    LET Second(i) == Cardinality({j \in Earlier(d) : Before(j, i)}) = 1
    IN  IF \E i \in Earlier(d) : Second(i)
        THEN drafts[CHOOSE i \in Earlier(d) : Second(i)].created
        ELSE drafts[d].created

\* Variant: the brand's days count from the showing, cleaned or not.
DeadlineFromShown(d) ==
    IF drafts[d].ready = NoDay THEN NoDay
    ELSE Max2(ReviewClockStart(d) + Window, drafts[d].created + MinAnswerDays) + 1

\* The midnight after the last day, none while images are being cleaned.
AnswerDeadline(d) ==
    IF drafts[d].ready = NoDay THEN NoDay
    ELSE Max2(ReviewClockStart(d) + Window, drafts[d].ready + MinAnswerDays) + 1

AgreedAt(moment) ==
    deal.status = "accepted" \/ deal.cancelledAt >= moment

Overdue(d, now) ==
    /\ drafts[d].status = "submitted"
    /\ AnswerDeadline(d) # NoDay
    /\ now >= AnswerDeadline(d)
    /\ AgreedAt(AnswerDeadline(d))

\* Approved, by the brand or by the clock, as of now.
ApprovedAmong(now) ==
    {d \in DOMAIN drafts : drafts[d].status = "approved" \/ Overdue(d, now)}

ApprovedDraft(now) ==
    IF ApprovedAmong(now) = {} THEN 0
    ELSE CHOOSE d \in ApprovedAmong(now) : \A other \in ApprovedAmong(now) : d <= other

AnsweredAt(d, now) ==
    IF drafts[d].answered # NoDay THEN drafts[d].answered
    ELSE IF Overdue(d, now) THEN AnswerDeadline(d) ELSE NoDay

\* The last date the brand held a draft.  The clock answers at the midnight
\* that ends the brand's last day; a draft that waits counts as answered now.
AnswerDay(d, now) ==
    LET end == AnsweredAt(d, now)
        day == IF end = NoDay THEN now
               ELSE IF drafts[d].auto \/ drafts[d].status = "submitted" THEN end - 1
               ELSE end
    IN  IF deal.status = "cancelled" THEN Min2(day, deal.cancelledAt) ELSE day

\* Variant: the day of the answer is not counted.
HeldDatesShort(d, now) ==
    drafts[d].created..(Max2(AnswerDay(d, now), drafts[d].created) - 1)
HeldDates(d, now) ==
    drafts[d].created..Max2(AnswerDay(d, now), drafts[d].created)

\* The dates the brand held drafts shown in time, those it held late ones,
\* and which were in time; each is judged by the due date as moved so far.
Judge(held, d, now) ==
    IF drafts[d].created > DueOn + Cardinality(held.inTime)
    THEN [held EXCEPT !.late = @ \union HeldDates(d, now)]
    ELSE [held EXCEPT !.inTime = @ \union HeldDates(d, now), !.ids = @ \union {d}]

\* Some drafts, judged in the order shown: the last of them after the others.
HeldAmong(now) ==
    LET held[shown \in SUBSET DOMAIN drafts] ==
            IF shown = {} THEN [inTime |-> {}, late |-> {}, ids |-> {}]
            ELSE Judge(held[shown \ {LastShown(shown)}], LastShown(shown), now)
    IN  held
Held(now) == HeldAmong(now)[DOMAIN drafts]
DeliveryDueOn(now) == DueOn + Cardinality(Held(now).inTime)

-----------------------------------------------------------------------------
(* Locks a worker holds until it commits.                                  *)

Busy(w) == job[w] # Free
Committing == {"commit_cleaned", "commit_rejected", "commit_missing"}
HoldsMemo(w) == Busy(w) /\ job[w].step = "commit_cleaned"
HoldsDraft(w, d) ==
    Busy(w) /\ job[w].step \in Committing /\ file[job[w].image].draft = d
HoldsFile(w, f) == Busy(w) /\ job[w].step # "delete" /\ job[w].image = f

MemoFree == \A w \in Workers : ~HoldsMemo(w)
\* Variant: the draft's row is not locked.
DraftUnlocked(d) == TRUE
DraftFree(d) == \A w \in Workers : d # 0 => ~HoldsDraft(w, d)

-----------------------------------------------------------------------------
(* A request reads the clock, and what it needs to be asked at all.        *)

Begin(r, op, round, purpose, with) ==
    /\ req[r] = Idle
    /\ req' = [req EXCEPT ![r] = [op |-> op, now |-> today, round |-> round,
                                  purpose |-> purpose, with |-> with]]
    /\ UNCHANGED <<deal, drafts, proof, file, store, sealed, job, today>>

Pending(purpose) ==
    {f \in Images : file[f].status = "pending" /\ file[f].purpose = purpose}

\* Each request is for an image of its own.
AskUpload(r, f, purpose) ==
    /\ file[f] = NoFile
    /\ \A s \in Requests : req[s] # Idle /\ req[s].op = "upload" => f \notin req[s].with
    /\ purpose = "draft" => ApprovedAmong(today) = {}
    /\ Begin(r, "upload", 0, purpose, {f})

\* What an ended deal, or proof already sent, refuses is not asked for.
Open == deal.status = "accepted" /\ proof = NoProof
AskShow(r, with) == Open /\ Begin(r, "show", 0, "draft", with)
AskProof(r, with) == Open /\ Begin(r, "proof", 0, "proof", with)

\* get_for_memo, before anything else: only an overdue draft is written.
AskRead(r, d) == Overdue(d, today) /\ Begin(r, "read", d, "draft", {})
AskAnswer(r, op, d) ==
    /\ Open /\ drafts[d].status = "submitted" /\ ~Overdue(d, today)
    /\ Begin(r, op, d, "draft", {})
AskToEnd(r, op) == deal.status = "accepted" /\ Begin(r, op, 0, "draft", {})

-----------------------------------------------------------------------------
(* The transactions, each under the memo's lock.                           *)

Answers == {"approve", "request_changes"}

\* Unfinished uploads of the last day; the bucket deletes older ones.
RoomFor(now) ==
    Cardinality({f \in Images : file[f].status = "pending" /\ file[f].created >= now})
      < MaxPendingUploads

\* attach: pending uploads of this purpose that reached the store.
Attachable(with, purpose) == with \subseteq (Pending(purpose) \intersect store.raw)

MayShow(now) ==
    /\ ApprovedAmong(now) = {}
    /\ \A d \in DOMAIN drafts : drafts[d].status # "submitted"
    /\ Len(drafts) < MaxDrafts

\* Variant: an answer does not look for the proof that came before it.
MayAnswerLate(q) == deal.status = "accepted"
MayAnswer(q) == deal.status = "accepted" /\ proof = NoProof

MayProve(q) ==
    /\ deal.status = "accepted" /\ proof = NoProof
    /\ ApprovedDraft(q.now) # 0
    /\ Attachable(q.with, "proof")

\* Variant: what a read found overdue is not looked at again under the lock.
SettlesAsRead(q) ==
    \/ q.op = "read"
    \/ q.op \in Answers /\ MayAnswer(q) /\ Overdue(q.round, q.now)
\* A read, or an answer that finds the window has passed, settles the draft.
Settles(q) ==
    /\ q.op = "read" \/ (q.op \in Answers /\ MayAnswer(q))
    /\ Overdue(q.round, q.now)

Permitted(q) ==
    CASE q.op = "upload" -> deal.status = "accepted" /\ RoomFor(q.now)
      [] q.op = "show"   -> /\ deal.status = "accepted"
                            /\ MayShow(q.now)
                            /\ Attachable(q.with, "draft")
      [] q.op = "proof"  -> MayProve(q)
      [] q.op \in Answers -> /\ MayAnswer(q) /\ ~Overdue(q.round, q.now)
                             /\ drafts[q.round].status = "submitted"
                             /\ q.op = "approve" => drafts[q.round].ready # NoDay
      [] q.op = "cancel" -> /\ deal.status = "accepted"
                            /\ proof # NoProof => q.now >= proof.created + Window + 1
      [] q.op = "withdraw" -> deal.status = "accepted"
      [] OTHER -> FALSE

CanRun(r) ==
    /\ req[r] # Idle
    /\ MemoFree
    /\ req[r].round # 0 => DraftFree(req[r].round)
Runs(r, ops) ==
    /\ CanRun(r)
    /\ req[r].op \in ops /\ Permitted(req[r])
    /\ req' = [req EXCEPT ![r] = Idle]

Refuse(r) ==
    /\ CanRun(r)
    /\ ~Permitted(req[r]) /\ ~Settles(req[r])
    /\ req' = [req EXCEPT ![r] = Idle]
    /\ UNCHANGED <<deal, drafts, proof, file, store, sealed, job, today>>

Attached(with, round) ==
    [f \in Images |-> IF f \in with
                      THEN [file[f] EXCEPT !.status = "attached", !.draft = round]
                      ELSE file[f]]

RequestUpload(r) ==
    /\ Runs(r, {"upload"})
    /\ file' = [f \in Images |->
                  IF f \in req[r].with
                  THEN [status |-> "pending", purpose |-> req[r].purpose, draft |-> 0,
                        created |-> req[r].now, missing |-> FALSE]
                  ELSE file[f]]
    /\ UNCHANGED <<deal, drafts, proof, store, sealed, job, today>>

\* Ready at once without images; with them, once each has been cleaned.
SubmitDraft(r) ==
    /\ Runs(r, {"show"})
    /\ drafts' = Append(drafts,
                   [status |-> "submitted", created |-> req[r].now,
                    ready |-> IF req[r].with = {} THEN req[r].now ELSE NoDay,
                    answered |-> NoDay, auto |-> FALSE])
    /\ file' = Attached(req[r].with, Len(drafts) + 1)
    /\ UNCHANGED <<deal, proof, store, sealed, job, today>>

\* Dated at the deadline, whenever it is noticed.
SettleIfOverdue(r) ==
    /\ CanRun(r) /\ Settles(req[r])
    /\ drafts' = [drafts EXCEPT ![req[r].round].status = "approved",
                                ![req[r].round].auto = TRUE,
                                ![req[r].round].answered = AnswerDeadline(req[r].round)]
    /\ req' = [req EXCEPT ![r] = Idle]
    /\ UNCHANGED <<deal, proof, file, store, sealed, job, today>>

Answered(r, status) ==
    /\ drafts' = [drafts EXCEPT ![req[r].round].status = status,
                                ![req[r].round].answered = req[r].now]
    /\ UNCHANGED <<deal, proof, file, store, sealed, job, today>>
ApproveDraft(r) == Runs(r, {"approve"}) /\ Answered(r, "approved")
RequestChanges(r) == Runs(r, {"request_changes"}) /\ Answered(r, "changes_requested")

\* Proof names the approved draft it follows, the clock's approval included.
SubmitProof(r) ==
    /\ Runs(r, {"proof"})
    /\ proof' = [draft |-> ApprovedDraft(req[r].now), created |-> req[r].now]
    /\ file' = Attached(req[r].with, 0)
    /\ UNCHANGED <<deal, drafts, store, sealed, job, today>>

EndDeal(r) ==
    /\ Runs(r, {"cancel", "withdraw"})
    /\ deal' = [status |-> "cancelled", cancelledAt |-> req[r].now]
    /\ UNCHANGED <<drafts, proof, file, store, sealed, job, today>>

-----------------------------------------------------------------------------
(* The phone and the bucket.                                               *)

\* The signed form takes the declared file while it lasts.  A copy sent again
\* after the cleaning is never looked at, and only expires.
Receive(f) ==
    /\ file[f].status \in {"pending", "attached"}
    /\ file[f].created = today /\ f \notin store.raw
    /\ store' = [store EXCEPT !.raw = @ \union {f}]
    /\ UNCHANGED <<deal, drafts, proof, file, sealed, req, job, today>>

\* The lifecycle rule proof-originals deletes what is a day old.
ExpireOriginal(f) ==
    /\ f \in store.raw /\ today > file[f].created
    /\ store' = [store EXCEPT !.raw = @ \ {f}]
    /\ UNCHANGED <<deal, drafts, proof, file, sealed, req, job, today>>

-----------------------------------------------------------------------------
(* A cleaning worker.                                                      *)

Step(w, step) == job' = [job EXCEPT ![w].step = step]

\* Variant: another worker's image is taken too.
ClaimableAny(f) == file[f].status = "attached"
\* SKIP LOCKED: an image another worker holds is theirs.
Claimable(f) ==
    /\ file[f].status = "attached"
    /\ \A w \in Workers : ~HoldsFile(w, f)

Claim(w, f) ==
    /\ job[w] = Free /\ Claimable(f)
    /\ job' = [job EXCEPT ![w] = [step |-> "claimed", image |-> f, now |-> today,
                                  last |-> FALSE]]
    /\ UNCHANGED <<deal, drafts, proof, file, store, sealed, req, today>>

\* Whether the bytes are an image is the upload's; the copy is written first.
Clean(w) ==
    /\ Busy(w) /\ job[w].step = "claimed"
    /\ \/ /\ job[w].image \in store.raw
          /\ Step(w, "cleaned")
          /\ store' = [store EXCEPT !.clean = @ \union {job[w].image}]
       \/ /\ job[w].image \in store.raw
          /\ Step(w, "rejected")
          /\ UNCHANGED store
       \/ /\ job[w].image \notin store.raw
          /\ Step(w, "missing")
          /\ UNCHANGED store
    /\ UNCHANGED <<deal, drafts, proof, file, sealed, req, today>>

\* Images of the draft other than this one that still wait, as committed.
StillWaiting(w) ==
    LET d == file[job[w].image].draft
    IN  {f \in Images \ {job[w].image} : file[f].status = "attached" /\ file[f].draft = d}

\* The record takes the memo's lock, _mark_draft_ready the draft's; then the
\* draft's other images are counted.
TakeLocks(w) ==
    /\ Busy(w) /\ job[w].step \in {"cleaned", "rejected", "missing"}
    /\ job[w].step = "cleaned" => MemoFree
    /\ DraftFree(file[job[w].image].draft)
    /\ job' = [job EXCEPT ![w].last = (StillWaiting(w) = {}),
                          ![w].step = CASE @ = "cleaned"  -> "commit_cleaned"
                                        [] @ = "rejected" -> "commit_rejected"
                                        [] OTHER          -> "commit_missing"]
    /\ UNCHANGED <<deal, drafts, proof, file, store, sealed, req, today>>

\* A run's time can be before the draft was shown; ready never is.
ReadyAt(w, d) == Max2(job[w].now, drafts[d].created)

Commit(w) ==
    LET f == job[w].image
        d == file[f].draft
        cleaned == job[w].step = "commit_cleaned"
    IN  /\ Busy(w) /\ job[w].step \in Committing
        /\ file' = [file EXCEPT ![f].status = IF cleaned THEN "cleaned" ELSE "rejected",
                                ![f].missing = (job[w].step = "commit_missing")]
        /\ sealed' = [sealed EXCEPT ![f] = IF cleaned THEN @ + 1 ELSE @]
        /\ drafts' = IF d # 0 /\ job[w].last
                     THEN [drafts EXCEPT ![d].ready = IF @ = NoDay THEN ReadyAt(w, d) ELSE @]
                     ELSE drafts
        /\ job' = IF job[w].step = "commit_missing" THEN [job EXCEPT ![w] = Free]
                  ELSE [job EXCEPT ![w].step = "delete"]
        /\ UNCHANGED <<deal, proof, store, req, today>>

DeleteOriginal(w) ==
    /\ Busy(w) /\ job[w].step = "delete"
    /\ store' = [store EXCEPT !.raw = @ \ {job[w].image}]
    /\ job' = [job EXCEPT ![w] = Free]
    /\ UNCHANGED <<deal, drafts, proof, file, sealed, req, today>>

\* Storage or the database fails, or the process dies: rolled back.
Fail(w) ==
    /\ Busy(w)
    /\ job' = [job EXCEPT ![w] = Free]
    /\ UNCHANGED <<deal, drafts, proof, file, store, sealed, req, today>>

-----------------------------------------------------------------------------
\* Nothing stays in flight over two midnights.
Tick ==
    /\ today < MaxDay
    /\ \A r \in Requests : req[r] # Idle => req[r].now = today
    /\ \A w \in Workers : Busy(w) => job[w].now = today
    /\ today' = today + 1
    /\ UNCHANGED <<deal, drafts, proof, file, store, sealed, req, job>>

Init ==
    /\ deal = [status |-> "accepted", cancelledAt |-> NoDay]
    /\ drafts = <<>>
    /\ proof = NoProof
    /\ file = [f \in Images |-> NoFile]
    /\ store = [raw |-> {}, clean |-> {}]
    /\ sealed = [f \in Images |-> 0]
    /\ req = [r \in Requests |-> Idle]
    /\ job = [w \in Workers |-> Free]
    /\ today = 0

Ask(r) ==
    \/ \E f \in Images, purpose \in {"draft", "proof"} : AskUpload(r, f, purpose)
    \/ \E with \in SUBSET Pending("draft") : AskShow(r, with)
    \/ \E with \in SUBSET Pending("proof") : AskProof(r, with)
    \/ \E d \in DOMAIN drafts : AskRead(r, d)
    \/ \E d \in DOMAIN drafts, op \in Answers : AskAnswer(r, op, d)
    \/ \E op \in {"cancel", "withdraw"} : AskToEnd(r, op)

Transaction(r) ==
    \/ RequestUpload(r) \/ SubmitDraft(r) \/ SettleIfOverdue(r) \/ ApproveDraft(r)
    \/ RequestChanges(r) \/ SubmitProof(r) \/ EndDeal(r) \/ Refuse(r)

Worker(w) ==
    \/ \E f \in Images : Claim(w, f)
    \/ Clean(w) \/ TakeLocks(w) \/ Commit(w) \/ DeleteOriginal(w)

Next ==
    \/ \E r \in Requests : Ask(r) \/ Transaction(r)
    \/ \E w \in Workers : Worker(w) \/ Fail(w)
    \/ \E f \in Images : Receive(f) \/ ExpireOriginal(f)
    \/ Tick

Spec == Init /\ [][Next]_vars

-----------------------------------------------------------------------------
(* What is promised.                                                       *)

\* What is stored is well formed, whatever races; a proof names a draft.
TypeOK ==
    /\ deal \in Deal
    /\ drafts \in Seq(Draft) /\ Len(drafts) <= MaxDrafts
    /\ proof \in Proof \union {NoProof}
    /\ file \in [Images -> File \union {NoFile}]
    /\ store \in [raw : SUBSET Images, clean : SUBSET Images]
    /\ sealed \in [Images -> Nat]
    /\ req \in [Requests -> Request \union {Idle}]
    /\ job \in [Workers -> Job \union {Free}]
    /\ today \in Day

\* Silence approves only a draft the brand could open in full for its days,
\* on a deal still agreed when they ended (settle_if_overdue).
SilenceHadItsDays ==
    [][\A d \in DOMAIN drafts : drafts'[d].auto /\ ~drafts[d].auto =>
         /\ \A f \in Images : file[f] # NoFile /\ file[f].draft = d =>
               file[f].status \in {"cleaned", "rejected"}
         /\ drafts[d].ready # NoDay
         /\ drafts'[d].answered > drafts[d].ready + MinAnswerDays
         /\ deal.status = "cancelled" => deal.cancelledAt >= drafts'[d].answered]_vars

\* A proof never names a draft the brand sent back, or one that is not the
\* last (_lock_for_answer).
ProofFollowsTheApproved ==
    proof # NoProof =>
        /\ drafts[proof.draft].status # "changes_requested"
        /\ proof.draft = Len(drafts)

\* One draft at most is with the brand or approved, and it is the last: the
\* unique indexes refuse nothing (submit_draft).
OneDraftLives ==
    \A d \in DOMAIN drafts : d < Len(drafts) => drafts[d].status = "changes_requested"

\* What is stored reads as one review, however shows, answers, the clock and
\* the proof meet: well formed, one draft alive, and the proof after it.
OneReview == TypeOK /\ OneDraftLives /\ ProofFollowsTheApproved

\* A draft is ready exactly when none of its images waits to be cleaned, so
\* two workers that finish the last two never leave it unready
\* (_mark_draft_ready).
ReadyWhenImagesAreDone ==
    \A d \in DOMAIN drafts :
        (drafts[d].ready # NoDay) <=>
        (\A f \in Images : ~(file[f].status = "attached" /\ file[f].draft = d))

\* Overlapping and crashed runs seal each cleaned image once, with a copy to
\* open (clean_one).
CleanedOnce ==
    \A f \in Images :
        /\ sealed[f] = IF file[f].status = "cleaned" THEN 1 ELSE 0
        /\ file[f].status = "cleaned" => f \in store.clean

\* The creator has the whole day after every answer to a draft shown in time
\* (draft_rules, "the answer day too").
WholeDayAfterAnAnswer ==
    \A d \in Held(today).ids : DeliveryDueOn(today) > AnswerDay(d, today)

\* No date is held both in time and late, and every draft after a late one
\* is late too (due_and_late_days).
LateDatesAreApart ==
    LET held == Held(today)
    IN  /\ held.inTime \intersect held.late = {}
        /\ \A d, e \in DOMAIN drafts : Before(d, e) /\ e \in held.ids => d \in held.ids

\* The dates the brand held drafts are charged to the right side: the due date
\* moves by each of them once, and past the day of an answer; those of a draft
\* shown late are the creator's own, and no later draft is in time again.
HeldDatesAreFair == WholeDayAfterAnAnswer /\ LateDatesAreApart

\* An answer, the brand's or the clock's, is never changed, nor is the moment
\* a draft became ready, and an upload joins one draft or proof for good.
AnswersStand ==
    [][/\ \A d \in DOMAIN drafts :
            /\ drafts[d].status # "submitted" =>
                 drafts'[d] = [drafts[d] EXCEPT !.ready = drafts'[d].ready]
            /\ drafts[d].ready # NoDay => drafts'[d].ready = drafts[d].ready
       /\ \A f \in Images : file[f].status \notin {"none", "pending"} =>
            file'[f].draft = file[f].draft /\ file'[f].status # "pending"]_vars

=============================================================================
