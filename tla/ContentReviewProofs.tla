------------------------ MODULE ContentReviewProofs ------------------------
(* Proofs about the review of drafts (ContentReview) for any number of      *)
(* requests, workers, images, drafts and days.                              *)
EXTENDS ContentReview, FiniteSetTheorems, WellFoundedInduction, TLAPS

(* A request or an image names a draft that exists, and every request that  *)
(* answers one names one.                                                   *)
RoundsExist ==
    /\ \A r \in Requests : req[r] # Idle =>
          /\ req[r].round \in {0} \union DOMAIN drafts
          /\ req[r].op \in Answers \union {"read"} => req[r].round # 0
    /\ \A f \in Images : file[f] # NoFile => file[f].draft \in {0} \union DOMAIN drafts

Typed == TypeOK /\ RoundsExist

LEMMA DraftOf ==
    ASSUME TypeOK, NEW d \in DOMAIN drafts
    PROVE  drafts[d] \in Draft /\ d \in Rounds /\ d \in 1..Len(drafts)
BY DaysAssumption DEF TypeOK, Rounds

LEMMA DayIsANumber == \A day \in Day : day \in Nat /\ day # NoDay
BY DaysAssumption DEF Day, NoDay

LEMMA ClockStartType ==
    ASSUME TypeOK, NEW d \in DOMAIN drafts
    PROVE  ReviewClockStart(d) \in Int
<1> DEFINE Second(i) == Cardinality({j \in Earlier(d) : Before(j, i)}) = 1
<1>1. \A i \in DOMAIN drafts : drafts[i].created \in Int
  BY DraftOf, DayIsANumber DEF Draft
<1>2. CASE \E i \in Earlier(d) : Second(i)
  <2>1. (CHOOSE i \in Earlier(d) : Second(i)) \in Earlier(d)
    BY <1>2
  <2> QED
    BY <1>1, <1>2, <2>1 DEF ReviewClockStart, Earlier
<1>3. CASE ~\E i \in Earlier(d) : Second(i)
  BY <1>1, <1>3 DEF ReviewClockStart
<1> QED
  BY <1>2, <1>3

LEMMA DeadlineType ==
    ASSUME TypeOK, NEW d \in DOMAIN drafts
    PROVE  AnswerDeadline(d) \in Int
<1>1. drafts[d].ready \in Int
  BY DraftOf, DayIsANumber DEF Draft, NoDay
<1> QED
  BY <1>1, ClockStartType, DaysAssumption DEF AnswerDeadline, Max2, NoDay

(* The draft that is not sent back is the last one: no choice is made.      *)
LEMMA TheApprovedIsTheLast ==
    ASSUME TypeOK, OneDraftLives, NEW now, ApprovedDraft(now) # 0
    PROVE  /\ ApprovedDraft(now) = Len(drafts)
           /\ Len(drafts) \in DOMAIN drafts
           /\ drafts[Len(drafts)].status # "changes_requested"
<1>1. \A d \in ApprovedAmong(now) :
        d = Len(drafts) /\ d \in DOMAIN drafts /\ drafts[d].status # "changes_requested"
  BY DEF ApprovedAmong, Overdue, OneDraftLives, TypeOK
<1>2. PICK d : d \in ApprovedAmong(now)
  BY DEF ApprovedDraft
<1>3. ApprovedAmong(now) = {Len(drafts)} /\ Len(drafts) \in Nat
  BY <1>1, <1>2 DEF TypeOK
<1> QED
  BY <1>1, <1>3 DEF ApprovedDraft

LEMMA InFlight ==
    ASSUME TypeOK, NEW r \in Requests, req[r] # Idle
    PROVE  req[r] \in Request
BY DEF TypeOK

LEMMA AtWork ==
    ASSUME TypeOK, NEW w \in Workers, Busy(w)
    PROVE  job[w] \in Job
BY DEF TypeOK, Busy

-----------------------------------------------------------------------------
(* What a request asks for, and what each step changes.                     *)

LEMMA BeginTyped ==
    ASSUME Typed, NEW r \in Requests, NEW op \in Ops, NEW round \in {0} \union DOMAIN drafts,
           NEW purpose \in {"draft", "proof"}, NEW with \in SUBSET Images,
           op \in Answers \union {"read"} => round # 0,
           Begin(r, op, round, purpose, with)
    PROVE  Typed' /\ UNCHANGED <<deal, drafts, proof, file, store, sealed, job, today>>
<1>1. round \in {0} \union Rounds
  BY DraftOf DEF Typed
<1>2. today \in Day
  BY DEF Typed, TypeOK
<1>3. [op |-> op, now |-> today, round |-> round, purpose |-> purpose, with |-> with] \in Request
  BY <1>1, <1>2 DEF Request
<1>4. TypeOK'
  BY <1>3 DEF Typed, TypeOK, Begin
<1>5. RoundsExist'
  BY DEF Typed, TypeOK, RoundsExist, Begin
<1> QED
  BY <1>4, <1>5 DEF Typed, Begin

LEMMA AskTyped ==
    ASSUME Typed, NEW r \in Requests, Ask(r)
    PROVE  Typed' /\ UNCHANGED <<deal, drafts, proof, file, store, sealed, job, today>>
<1> USE DEF Ops, Answers
<1>1. CASE \E f \in Images, purpose \in {"draft", "proof"} : AskUpload(r, f, purpose)
  <2>1. PICK f \in Images, purpose \in {"draft", "proof"} :
           Begin(r, "upload", 0, purpose, {f})
    BY <1>1 DEF AskUpload
  <2> QED
    BY <2>1, BeginTyped
<1>2. CASE \E with \in SUBSET Pending("draft") : AskShow(r, with)
  <2>1. PICK with \in SUBSET Images : Begin(r, "show", 0, "draft", with)
    BY <1>2 DEF AskShow, Pending
  <2> QED
    BY <2>1, BeginTyped
<1>3. CASE \E with \in SUBSET Pending("proof") : AskProof(r, with)
  <2>1. PICK with \in SUBSET Images : Begin(r, "proof", 0, "proof", with)
    BY <1>3 DEF AskProof, Pending
  <2> QED
    BY <2>1, BeginTyped
<1>4. CASE \E d \in DOMAIN drafts : AskRead(r, d)
  <2>1. PICK d \in DOMAIN drafts : Begin(r, "read", d, "draft", {})
    BY <1>4 DEF AskRead
  <2>2. d # 0 /\ d \in {0} \union DOMAIN drafts
    BY DraftOf DEF Typed
  <2>3. {} \in SUBSET Images /\ "read" \in Ops /\ "draft" \in {"draft", "proof"}
    OBVIOUS
  <2> HIDE DEF Ops, Answers
  <2> QED
    BY <2>1, <2>2, <2>3, BeginTyped
<1>5. CASE \E d \in DOMAIN drafts, op \in Answers : AskAnswer(r, op, d)
  <2>1. PICK d \in DOMAIN drafts, op \in Answers : Begin(r, op, d, "draft", {})
    BY <1>5 DEF AskAnswer
  <2>2. d # 0 /\ d \in {0} \union DOMAIN drafts
    BY DraftOf DEF Typed
  <2>3. {} \in SUBSET Images /\ op \in Ops /\ "draft" \in {"draft", "proof"}
    OBVIOUS
  <2> HIDE DEF Ops, Answers
  <2> QED
    BY <2>1, <2>2, <2>3, BeginTyped
<1>6. CASE \E op \in {"cancel", "withdraw"} : AskToEnd(r, op)
  <2>1. PICK op \in {"cancel", "withdraw"} : Begin(r, op, 0, "draft", {})
    BY <1>6 DEF AskToEnd
  <2> QED
    BY <2>1, BeginTyped
<1> QED
  BY <1>1, <1>2, <1>3, <1>4, <1>5, <1>6 DEF Ask

LEMMA FinishTyped ==
    ASSUME TypeOK, NEW r \in Requests, req' = [req EXCEPT ![r] = Idle]
    PROVE  /\ req' \in [Requests -> Request \union {Idle}]
           /\ \A s \in Requests : req'[s] # Idle => req'[s] = req[s] /\ req[s] # Idle
BY DEF TypeOK

(* One draft rewritten in place.                                            *)
LEMMA RewrittenTyped ==
    ASSUME TypeOK, NEW d \in DOMAIN drafts, NEW new \in Draft,
           drafts' = [drafts EXCEPT ![d] = new]
    PROVE  /\ drafts' \in Seq(Draft) /\ Len(drafts') = Len(drafts)
           /\ DOMAIN drafts' = DOMAIN drafts
           /\ drafts'[d] = new
           /\ \A e \in DOMAIN drafts : e # d => drafts'[e] = drafts[e]
BY DEF TypeOK

(* Images attached to a new draft, or to the proof.                         *)
LEMMA AttachedTyped ==
    ASSUME TypeOK, NEW purpose \in {"draft", "proof"}, NEW with \in SUBSET Images,
           Attachable(with, purpose), NEW round \in {0} \union Rounds
    PROVE  /\ Attached(with, round) \in [Images -> File \union {NoFile}]
           /\ \A f \in Images :
                 /\ f \notin with => Attached(with, round)[f] = file[f]
                 /\ f \in with => /\ file[f] # NoFile /\ file[f].status = "pending"
                                  /\ Attached(with, round)[f].status = "attached"
                                  /\ Attached(with, round)[f].draft = round
<1>1. \A f \in with : file[f].status = "pending" /\ f \in Images /\ file[f] # NoFile
  BY DEF Attachable, Pending, NoFile
<1>2. \A f \in with : file[f] \in File
  BY <1>1 DEF TypeOK
<1>3. \A f \in with :
        /\ [file[f] EXCEPT !.status = "attached", !.draft = round] \in File
        /\ [file[f] EXCEPT !.status = "attached", !.draft = round].status = "attached"
        /\ [file[f] EXCEPT !.status = "attached", !.draft = round].draft = round
  BY <1>2 DEF File
<1> QED
  BY <1>1, <1>3 DEF Attached, TypeOK

LEMMA UploadTyped ==
    ASSUME Typed, NEW r \in Requests, RequestUpload(r)
    PROVE  Typed'
<1>1. req[r] \in Request /\ req[r] # Idle
  BY InFlight DEF Typed, RequestUpload, Runs, CanRun
<1> DEFINE new == [status |-> "pending", purpose |-> req[r].purpose, draft |-> 0,
                   created |-> req[r].now, missing |-> FALSE]
<1>2. new \in File /\ new.draft = 0
  BY <1>1 DEF Request, File
<1>3. file' = [f \in Images |-> IF f \in req[r].with THEN new ELSE file[f]]
  BY DEF RequestUpload
<1>4. file' \in [Images -> File \union {NoFile}]
  BY <1>2, <1>3 DEF Typed, TypeOK
<1>5. \A f \in Images : file'[f] = file[f] \/ file'[f] = new
  BY <1>3
<1> HIDE DEF new
<1>6. /\ req' \in [Requests -> Request \union {Idle}]
      /\ \A s \in Requests : req'[s] # Idle => req'[s] = req[s] /\ req[s] # Idle
  BY FinishTyped DEF Typed, RequestUpload, Runs
<1>7. TypeOK'
  BY <1>4, <1>6 DEF Typed, TypeOK, RequestUpload
<1>8. RoundsExist'
  BY <1>2, <1>5, <1>6 DEF Typed, RoundsExist, RequestUpload
<1> QED
  BY <1>7, <1>8 DEF Typed

LEMMA ShowTyped ==
    ASSUME Typed, NEW r \in Requests, SubmitDraft(r)
    PROVE  Typed'
<1>1. req[r] \in Request /\ req[r] # Idle /\ req[r].op = "show"
  BY InFlight DEF Typed, SubmitDraft, Runs, CanRun
<1>2. MayShow(req[r].now) /\ Attachable(req[r].with, "draft")
  BY <1>1 DEF SubmitDraft, Runs, Permitted, Answers
<1>3. Len(drafts) + 1 \in Rounds /\ Len(drafts) \in Nat
  BY <1>2, DaysAssumption DEF MayShow, Rounds, Typed, TypeOK
<1>4. /\ file' \in [Images -> File \union {NoFile}]
      /\ \A f \in Images :
           \/ file'[f] = file[f]
           \/ file[f] # NoFile /\ file'[f].draft = Len(drafts) + 1
  <2>1. req[r].with \in SUBSET Images
    BY <1>1 DEF Request
  <2>2. Len(drafts) + 1 \in {0} \union Rounds
    BY <1>3
  <2>3. file' = Attached(req[r].with, Len(drafts) + 1)
    BY DEF SubmitDraft
  <2> QED
    BY <1>2, <2>1, <2>2, <2>3, AttachedTyped DEF Typed
<1> DEFINE new == [status |-> "submitted", created |-> req[r].now,
                   ready |-> IF req[r].with = {} THEN req[r].now ELSE NoDay,
                   answered |-> NoDay, auto |-> FALSE]
<1>5. new \in Draft
  BY <1>1 DEF Request, Draft, NoDay
<1>6. /\ drafts' \in Seq(Draft) /\ Len(drafts') = Len(drafts) + 1
      /\ DOMAIN drafts' = 1..(Len(drafts) + 1) /\ DOMAIN drafts = 1..Len(drafts)
  <2>1. drafts' = Append(drafts, new) /\ drafts \in Seq(Draft)
    BY DEF SubmitDraft, Typed, TypeOK
  <2> HIDE DEF new
  <2> QED
    BY <1>5, <2>1
<1>7. /\ req' \in [Requests -> Request \union {Idle}]
      /\ \A s \in Requests : req'[s] # Idle => req'[s] = req[s] /\ req[s] # Idle
  BY FinishTyped DEF Typed, SubmitDraft, Runs
<1>8. TypeOK'
  BY <1>3, <1>4, <1>6, <1>7 DEF Typed, TypeOK, SubmitDraft, Rounds
<1>9. RoundsExist'
  BY <1>3, <1>4, <1>6, <1>7 DEF Typed, RoundsExist, SubmitDraft
<1> QED
  BY <1>8, <1>9 DEF Typed

(* An answer, the brand's or the clock's, rewrites the draft it is about.   *)
LEMMA AnswerTyped ==
    ASSUME Typed, NEW r \in Requests, NEW status \in {"approved", "changes_requested"},
           NEW auto \in BOOLEAN, NEW at \in Int,
           req[r] # Idle, req[r].round # 0, req' = [req EXCEPT ![r] = Idle],
           drafts' = [drafts EXCEPT ![req[r].round] =
                        [drafts[req[r].round] EXCEPT !.status = status, !.answered = at,
                                                     !.auto = auto]],
           UNCHANGED <<deal, proof, file, store, sealed, job, today>>
    PROVE  /\ Typed'
           /\ req[r].round \in DOMAIN drafts
           /\ DOMAIN drafts' = DOMAIN drafts /\ Len(drafts') = Len(drafts)
           /\ drafts'[req[r].round] =
                [drafts[req[r].round] EXCEPT !.status = status, !.answered = at, !.auto = auto]
           /\ \A e \in DOMAIN drafts : e # req[r].round => drafts'[e] = drafts[e]
<1>1. req[r].round \in DOMAIN drafts
  BY DEF Typed, RoundsExist
<1>2. drafts[req[r].round] \in Draft
  BY <1>1, DraftOf DEF Typed
<1> DEFINE new == [drafts[req[r].round] EXCEPT !.status = status, !.answered = at, !.auto = auto]
<1>3. new \in Draft
  BY <1>2 DEF Draft
<1>4. drafts' = [drafts EXCEPT ![req[r].round] = new]
  OBVIOUS
<1> HIDE DEF new
<1>5. /\ drafts' \in Seq(Draft) /\ Len(drafts') = Len(drafts)
      /\ DOMAIN drafts' = DOMAIN drafts
      /\ drafts'[req[r].round] = new
      /\ \A e \in DOMAIN drafts : e # req[r].round => drafts'[e] = drafts[e]
  BY <1>1, <1>3, <1>4, RewrittenTyped DEF Typed
<1>6. /\ req' \in [Requests -> Request \union {Idle}]
      /\ \A s \in Requests : req'[s] # Idle => req'[s] = req[s] /\ req[s] # Idle
  BY FinishTyped DEF Typed
<1>7. Typed'
  BY <1>5, <1>6 DEF Typed, TypeOK, RoundsExist
<1> QED
  BY <1>1, <1>5, <1>7 DEF new

LEMMA SettleTyped ==
    ASSUME Typed, NEW r \in Requests, SettleIfOverdue(r)
    PROVE  /\ Typed'
           /\ req[r].round \in DOMAIN drafts
           /\ Overdue(req[r].round, req[r].now)
           /\ DOMAIN drafts' = DOMAIN drafts /\ Len(drafts') = Len(drafts)
           /\ drafts'[req[r].round] =
                [drafts[req[r].round] EXCEPT !.status = "approved", !.auto = TRUE,
                    !.answered = AnswerDeadline(req[r].round)]
           /\ \A e \in DOMAIN drafts : e # req[r].round => drafts'[e] = drafts[e]
<1>1. /\ req[r] # Idle /\ req[r].round # 0 /\ req[r].round \in DOMAIN drafts
      /\ Overdue(req[r].round, req[r].now)
  BY DEF SettleIfOverdue, CanRun, Settles, Typed, RoundsExist
<1>2. AnswerDeadline(req[r].round) \in Int
  BY <1>1, DeadlineType DEF Typed
<1>3. drafts[req[r].round] \in Draft
  BY <1>1, DraftOf DEF Typed
<1>4. drafts' = [drafts EXCEPT ![req[r].round] =
                   [drafts[req[r].round] EXCEPT !.status = "approved", !.auto = TRUE,
                       !.answered = AnswerDeadline(req[r].round)]]
  BY DEF SettleIfOverdue
<1>5. [drafts[req[r].round] EXCEPT !.status = "approved", !.auto = TRUE,
                       !.answered = AnswerDeadline(req[r].round)]
      = [drafts[req[r].round] EXCEPT !.status = "approved",
                       !.answered = AnswerDeadline(req[r].round), !.auto = TRUE]
  BY <1>3 DEF Draft
<1>6. drafts' = [drafts EXCEPT ![req[r].round] =
                   [drafts[req[r].round] EXCEPT !.status = "approved",
                       !.answered = AnswerDeadline(req[r].round), !.auto = TRUE]]
  BY <1>4, <1>5
<1>7. /\ req' = [req EXCEPT ![r] = Idle]
      /\ UNCHANGED <<deal, proof, file, store, sealed, job, today>>
  BY DEF SettleIfOverdue
<1> HIDE DEF AnswerDeadline
<1>8. \A status \in {"approved", "changes_requested"}, auto \in BOOLEAN, at \in Int :
        (drafts' = [drafts EXCEPT ![req[r].round] =
                      [drafts[req[r].round] EXCEPT !.status = status, !.answered = at,
                                                   !.auto = auto]])
        => /\ Typed'
           /\ DOMAIN drafts' = DOMAIN drafts /\ Len(drafts') = Len(drafts)
           /\ drafts'[req[r].round] =
                [drafts[req[r].round] EXCEPT !.status = status, !.answered = at, !.auto = auto]
           /\ \A e \in DOMAIN drafts : e # req[r].round => drafts'[e] = drafts[e]
  BY <1>1, <1>7, AnswerTyped
<1> QED
  BY <1>1, <1>2, <1>5, <1>6, <1>8

LEMMA AnsweredTyped ==
    ASSUME Typed, NEW r \in Requests, NEW op \in Answers,
           NEW status \in {"approved", "changes_requested"},
           Runs(r, {op}) /\ Answered(r, status)
    PROVE  /\ Typed'
           /\ MayAnswer(req[r])
           /\ req[r].round \in DOMAIN drafts
           /\ drafts[req[r].round].status = "submitted"
           /\ DOMAIN drafts' = DOMAIN drafts /\ Len(drafts') = Len(drafts)
           /\ drafts'[req[r].round] =
                [drafts[req[r].round] EXCEPT !.status = status, !.answered = req[r].now]
           /\ \A e \in DOMAIN drafts : e # req[r].round => drafts'[e] = drafts[e]
<1>1. /\ req[r] # Idle /\ req[r].op \in Answers /\ req[r].round # 0
      /\ req[r].round \in DOMAIN drafts
  BY DEF Runs, CanRun, Typed, RoundsExist
<1>2. MayAnswer(req[r]) /\ drafts[req[r].round].status = "submitted"
  BY <1>1 DEF Runs, Permitted, Answers
<1>3. req[r] \in Request
  BY <1>1, InFlight DEF Typed
<1>4. req[r].now \in Int
  BY <1>3, DayIsANumber DEF Request
<1>5. drafts[req[r].round] \in Draft
  BY <1>1, DraftOf DEF Typed
<1>6. [drafts[req[r].round] EXCEPT !.status = status, !.answered = req[r].now]
      = [drafts[req[r].round] EXCEPT !.status = status, !.answered = req[r].now,
                                     !.auto = drafts[req[r].round].auto]
  BY <1>5 DEF Draft
<1>7. drafts' = [drafts EXCEPT ![req[r].round] =
                   [drafts[req[r].round] EXCEPT !.status = status, !.answered = req[r].now]]
  BY DEF Answered
<1>8. drafts' = [drafts EXCEPT ![req[r].round] =
                   [drafts[req[r].round] EXCEPT !.status = status, !.answered = req[r].now,
                                     !.auto = drafts[req[r].round].auto]]
  BY <1>6, <1>7
<1>9. /\ req' = [req EXCEPT ![r] = Idle]
      /\ UNCHANGED <<deal, proof, file, store, sealed, job, today>>
  BY DEF Runs, Answered
<1>10. drafts[req[r].round].auto \in BOOLEAN
  BY <1>5 DEF Draft
<1> QED
  BY <1>1, <1>2, <1>4, <1>6, <1>8, <1>9, <1>10, AnswerTyped

LEMMA ProofTyped ==
    ASSUME Typed, OneDraftLives, NEW r \in Requests, SubmitProof(r)
    PROVE  Typed'
<1>1. req[r] \in Request /\ req[r] # Idle /\ req[r].op = "proof"
  BY InFlight DEF Typed, SubmitProof, Runs, CanRun
<1>2. ApprovedDraft(req[r].now) # 0 /\ Attachable(req[r].with, "proof")
  BY <1>1 DEF SubmitProof, Runs, Permitted, MayProve, Answers
<1>3. ApprovedDraft(req[r].now) \in Rounds
  BY <1>2, TheApprovedIsTheLast, DraftOf DEF Typed
<1>4. proof' \in Proof
  BY <1>1, <1>3 DEF SubmitProof, Proof, Request
<1>5. /\ file' \in [Images -> File \union {NoFile}]
      /\ \A f \in Images : file'[f] = file[f] \/ file'[f].draft = 0
  <2>1. req[r].with \in SUBSET Images /\ file' = Attached(req[r].with, 0)
    BY <1>1 DEF Request, SubmitProof
  <2> QED
    BY <1>2, <2>1, AttachedTyped DEF Typed
<1>6. /\ req' \in [Requests -> Request \union {Idle}]
      /\ \A s \in Requests : req'[s] # Idle => req'[s] = req[s] /\ req[s] # Idle
  BY FinishTyped DEF Typed, SubmitProof, Runs
<1>7. TypeOK'
  BY <1>4, <1>5, <1>6 DEF Typed, TypeOK, SubmitProof
<1>8. RoundsExist'
  BY <1>5, <1>6 DEF Typed, RoundsExist, SubmitProof
<1> QED
  BY <1>7, <1>8 DEF Typed

LEMMA EndTyped ==
    ASSUME Typed, NEW r \in Requests, EndDeal(r) \/ Refuse(r)
    PROVE  Typed'
<1>1. /\ req' \in [Requests -> Request \union {Idle}]
      /\ \A s \in Requests : req'[s] # Idle => req'[s] = req[s] /\ req[s] # Idle
  BY FinishTyped DEF Typed, EndDeal, Refuse, Runs
<1>2. deal' \in Deal
  <2>1. req[r] \in Request
    BY InFlight DEF Typed, EndDeal, Refuse, Runs, CanRun
  <2> QED
    BY <2>1 DEF Typed, TypeOK, EndDeal, Refuse, Deal, Request
<1>3. UNCHANGED <<drafts, proof, file, store, sealed, job, today>>
  BY DEF EndDeal, Refuse
<1> QED
  BY <1>1, <1>2, <1>3 DEF Typed, TypeOK, RoundsExist

-----------------------------------------------------------------------------
(* A cleaning worker.                                                       *)

(* What a worker does between its steps changes its job, and what the store *)
(* holds.                                                                   *)
LEMMA AtWorkTyped ==
    ASSUME Typed, NEW w \in Workers,
           \/ \E f \in Images : Claim(w, f)
           \/ Clean(w) \/ TakeLocks(w) \/ DeleteOriginal(w) \/ Fail(w)
    PROVE  /\ Typed'
           /\ UNCHANGED <<deal, drafts, proof, file, sealed, req, today>>
<1>1. UNCHANGED <<deal, drafts, proof, file, sealed, req, today>>
  BY DEF Claim, Clean, TakeLocks, DeleteOriginal, Fail
<1>2. store' \in [raw : SUBSET Images, clean : SUBSET Images]
  <2>1. store \in [raw : SUBSET Images, clean : SUBSET Images]
    BY DEF Typed, TypeOK
  <2>2. CASE Clean(w)
    <3>1. job[w].image \in Images
      BY <2>2, AtWork DEF Typed, Clean, Job
    <3> QED
      BY <2>1, <2>2, <3>1 DEF Clean
  <2> QED
    BY <2>1, <2>2 DEF Claim, TakeLocks, DeleteOriginal, Fail
<1>3. job' \in [Workers -> Job \union {Free}]
  <2>1. job \in [Workers -> Job \union {Free}]
    BY DEF Typed, TypeOK
  <2>2. CASE \E f \in Images : Claim(w, f)
    BY <2>1, <2>2 DEF Claim, Job, Typed, TypeOK
  <2>3. CASE Clean(w)
    <3>1. job[w] \in Job
      BY <2>3, AtWork DEF Typed, Clean
    <3>2. PICK step \in {"cleaned", "rejected", "missing"} :
             job' = [job EXCEPT ![w].step = step]
      BY <2>3 DEF Clean, Step
    <3> QED
      BY <2>1, <3>1, <3>2 DEF Job
  <2>4. CASE TakeLocks(w)
    <3>1. job[w] \in Job
      BY <2>4, AtWork DEF Typed, TakeLocks
    <3> DEFINE step == CASE job[w].step = "cleaned"  -> "commit_cleaned"
                         [] job[w].step = "rejected" -> "commit_rejected"
                         [] OTHER                    -> "commit_missing"
               last == StillWaiting(w) = {}
    <3>2. job' = [job EXCEPT ![w] = [job[w] EXCEPT !.last = last, !.step = step]]
      BY <2>4, <3>1 DEF TakeLocks, Job
    <3>3. step \in {"commit_cleaned", "commit_rejected", "commit_missing"} /\ last \in BOOLEAN
      OBVIOUS
    <3> HIDE DEF step, last
    <3> QED
      BY <2>1, <3>1, <3>2, <3>3 DEF Job
  <2> QED
    BY <2>1, <2>2, <2>3, <2>4 DEF DeleteOriginal, Fail
<1> QED
  BY <1>1, <1>2, <1>3 DEF Typed, TypeOK, RoundsExist

(* A commit decides one image, and may be what makes its draft ready.       *)
LEMMA CommitTyped ==
    ASSUME Typed, NEW w \in Workers, Commit(w), file[job[w].image] # NoFile
    PROVE  /\ Typed'
           /\ job[w].image \in Images
           /\ UNCHANGED <<deal, proof, store, req, today>>
           /\ \A f \in Images : f # job[w].image => file'[f] = file[f]
           /\ file'[job[w].image].status =
                IF job[w].step = "commit_cleaned" THEN "cleaned" ELSE "rejected"
           /\ file'[job[w].image].draft = file[job[w].image].draft
           /\ DOMAIN drafts' = DOMAIN drafts /\ Len(drafts') = Len(drafts)
           /\ \A d \in DOMAIN drafts :
                 drafts'[d] =
                   IF d = file[job[w].image].draft /\ job[w].last
                   THEN [drafts[d] EXCEPT !.ready = IF @ = NoDay THEN ReadyAt(w, d) ELSE @]
                   ELSE drafts[d]
<1> DEFINE f == job[w].image
           d == file[f].draft
           status == IF job[w].step = "commit_cleaned" THEN "cleaned" ELSE "rejected"
           missing == job[w].step = "commit_missing"
<1>1. job[w] \in Job /\ f \in Images /\ Busy(w) /\ job[w].step \in Committing
  BY AtWork DEF Typed, Commit, Job
<1>2. file[f] \in File
  BY <1>1 DEF Typed, TypeOK
<1>3. file' = [file EXCEPT ![f] = [file[f] EXCEPT !.status = status, !.missing = missing]]
  BY DEF Commit
<1>4. [file[f] EXCEPT !.status = status, !.missing = missing] \in File
  BY <1>2 DEF File
<1>5. file' \in [Images -> File \union {NoFile}]
  BY <1>1, <1>3, <1>4 DEF Typed, TypeOK
<1>6. /\ \A g \in Images : g # f => file'[g] = file[g]
      /\ file'[f].status = status /\ file'[f].draft = d
  BY <1>1, <1>2, <1>3 DEF Typed, TypeOK, File
<1>7. sealed' \in [Images -> Nat]
  BY <1>1 DEF Commit, Typed, TypeOK
<1>8. job' \in [Workers -> Job \union {Free}]
  BY <1>1 DEF Commit, Typed, TypeOK, Job
<1>9. /\ drafts' \in Seq(Draft) /\ Len(drafts') = Len(drafts)
      /\ DOMAIN drafts' = DOMAIN drafts
      /\ \A e \in DOMAIN drafts :
            drafts'[e] = IF e = d /\ job[w].last
                         THEN [drafts[e] EXCEPT !.ready = IF @ = NoDay THEN ReadyAt(w, e) ELSE @]
                         ELSE drafts[e]
  <2>1. CASE d # 0 /\ job[w].last
    <3>1. d \in DOMAIN drafts
      BY <1>1, <2>1 DEF Typed, RoundsExist
    <3>2. drafts[d] \in Draft
      BY <3>1, DraftOf DEF Typed
    <3> DEFINE ready == IF drafts[d].ready = NoDay THEN ReadyAt(w, d) ELSE drafts[d].ready
    <3>3. ReadyAt(w, d) \in Day
      BY <1>1, <3>2 DEF ReadyAt, Max2, Job, Draft
    <3>4. ready \in Day \union {NoDay}
      BY <3>2, <3>3 DEF Draft
    <3>5. drafts' = [drafts EXCEPT ![d] = [drafts[d] EXCEPT !.ready = ready]]
      BY <2>1 DEF Commit
    <3> HIDE DEF ready
    <3>6. [drafts[d] EXCEPT !.ready = ready] \in Draft
      BY <3>2, <3>4 DEF Draft
    <3>7. /\ drafts' \in Seq(Draft) /\ Len(drafts') = Len(drafts)
          /\ DOMAIN drafts' = DOMAIN drafts
          /\ drafts'[d] = [drafts[d] EXCEPT !.ready = ready]
          /\ \A e \in DOMAIN drafts : e # d => drafts'[e] = drafts[e]
      BY <3>1, <3>5, <3>6, RewrittenTyped DEF Typed
    <3> QED
      BY <2>1, <3>7 DEF ready
  <2>2. CASE ~(d # 0 /\ job[w].last)
    <3>1. drafts' = drafts
      BY <2>2 DEF Commit
    <3>2. \A e \in DOMAIN drafts : e # 0
      BY DraftOf DEF Typed
    <3> QED
      BY <2>2, <3>1, <3>2 DEF Typed, TypeOK
  <2> QED
    BY <2>1, <2>2
<1>10. UNCHANGED <<deal, proof, store, req, today>>
  BY DEF Commit
<1>11. Typed'
  <2>1. TypeOK'
    BY <1>5, <1>7, <1>8, <1>9, <1>10 DEF Typed, TypeOK
  <2>2. RoundsExist'
    <3>1. \A g \in Images : file'[g] # NoFile => file'[g].draft = file[g].draft /\ file[g] # NoFile
      BY <1>6
    <3> QED
      BY <1>9, <1>10, <3>1 DEF Typed, RoundsExist
  <2> QED
    BY <2>1, <2>2 DEF Typed
<1> QED
  BY <1>1, <1>6, <1>9, <1>10, <1>11

LEMMA OutsideTyped ==
    ASSUME Typed, (\E f \in Images : Receive(f) \/ ExpireOriginal(f)) \/ Tick
    PROVE  /\ Typed'
           /\ UNCHANGED <<deal, drafts, proof, file, sealed, req, job>>
           /\ store'.clean = store.clean
<1>1. /\ UNCHANGED <<deal, drafts, proof, file, sealed, req, job>>
      /\ store'.clean = store.clean
      /\ store' \in [raw : SUBSET Images, clean : SUBSET Images]
      /\ today' \in Day
  BY DaysAssumption DEF Receive, ExpireOriginal, Tick, Typed, TypeOK, Day
<1> QED
  BY <1>1 DEF Typed, TypeOK, RoundsExist

-----------------------------------------------------------------------------
(* Images: who holds them, and what they wait for.                          *)

AtImage(w) == Busy(w) /\ job[w].step # "delete"
Uploads(r) == req[r] # Idle /\ req[r].op = "upload"

(* A worker holds an image that waits to be cleaned, and holds it alone; an *)
(* upload asked for is of an image that is not there yet, and its own.      *)
ImagesAreHeldOnce ==
    /\ \A w \in Workers : AtImage(w) =>
          /\ file[job[w].image].status = "attached"
          /\ \A v \in Workers \ {w} : AtImage(v) => job[v].image # job[w].image
    /\ \A r \in Requests : Uploads(r) =>
          \A f \in req[r].with :
             /\ file[f] = NoFile
             /\ \A s \in Requests \ {r} : Uploads(s) => f \notin req[s].with

ReviewInv == Typed /\ OneDraftLives /\ ProofFollowsTheApproved /\ ImagesAreHeldOnce

(* What a transaction of a request does to images.                          *)
LEMMA RequestImages ==
    ASSUME ReviewInv, NEW r \in Requests, Transaction(r)
    PROVE  /\ req' = [req EXCEPT ![r] = Idle]
           /\ UNCHANGED <<store, sealed, job, today>>
           /\ \A f \in Images :
                 \/ file'[f] = file[f]
                 \/ /\ Uploads(r) /\ f \in req[r].with
                    /\ file'[f].status = "pending" /\ file'[f].draft = 0
                 \/ /\ file[f] # NoFile /\ file[f].status = "pending"
                    /\ file'[f].status = "attached"
                    /\ file'[f].draft \in {0, Len(drafts) + 1}
                    /\ SubmitDraft(r) \/ file'[f].draft = 0
<1>1. CASE RequestUpload(r)
  BY <1>1 DEF RequestUpload, Runs, Uploads, CanRun
<1>2. CASE SubmitDraft(r)
  <2>1. req[r] \in Request /\ req[r] # Idle /\ req[r].op = "show"
    BY <1>2, InFlight DEF ReviewInv, Typed, SubmitDraft, Runs, CanRun
  <2>2. MayShow(req[r].now) /\ Attachable(req[r].with, "draft")
    BY <1>2, <2>1 DEF SubmitDraft, Runs, Permitted, Answers
  <2>3. Len(drafts) + 1 \in {0} \union Rounds /\ req[r].with \in SUBSET Images
    BY <2>1, <2>2, DaysAssumption
    DEF MayShow, Rounds, ReviewInv, Typed, TypeOK, Request
  <2>4. file' = Attached(req[r].with, Len(drafts) + 1)
    BY <1>2 DEF SubmitDraft
  <2>5. \A f \in Images :
          \/ file'[f] = file[f]
          \/ /\ file[f] # NoFile /\ file[f].status = "pending"
             /\ file'[f].status = "attached" /\ file'[f].draft = Len(drafts) + 1
    BY <2>2, <2>3, <2>4, AttachedTyped DEF ReviewInv, Typed
  <2> QED
    BY <1>2, <2>5 DEF SubmitDraft, Runs
<1>3. CASE SubmitProof(r)
  <2>1. req[r] \in Request /\ req[r] # Idle /\ req[r].op = "proof"
    BY <1>3, InFlight DEF ReviewInv, Typed, SubmitProof, Runs, CanRun
  <2>2. Attachable(req[r].with, "proof") /\ req[r].with \in SUBSET Images
    BY <1>3, <2>1 DEF SubmitProof, Runs, Permitted, MayProve, Answers, Request
  <2>3. file' = Attached(req[r].with, 0)
    BY <1>3 DEF SubmitProof
  <2>4. \A f \in Images :
          \/ file'[f] = file[f]
          \/ /\ file[f] # NoFile /\ file[f].status = "pending"
             /\ file'[f].status = "attached" /\ file'[f].draft = 0
    BY <2>2, <2>3, AttachedTyped DEF ReviewInv, Typed
  <2> QED
    BY <1>3, <2>4 DEF SubmitProof, Runs
<1>4. CASE SettleIfOverdue(r) \/ ApproveDraft(r) \/ RequestChanges(r) \/ EndDeal(r) \/ Refuse(r)
  BY <1>4 DEF SettleIfOverdue, ApproveDraft, RequestChanges, Answered, EndDeal, Refuse, Runs
<1> QED
  BY <1>1, <1>2, <1>3, <1>4 DEF Transaction

LEMMA ImagesStep ==
    ASSUME ReviewInv, [Next]_vars
    PROVE  ImagesAreHeldOnce'
<1> USE DEF ReviewInv
<1>1. ASSUME NEW r \in Requests, Ask(r)
      PROVE  ImagesAreHeldOnce'
  <2>1. UNCHANGED <<file, job>>
    BY <1>1, AskTyped
  <2>2. CASE \E f \in Images, purpose \in {"draft", "proof"} : AskUpload(r, f, purpose)
    <3>1. PICK f \in Images, purpose \in {"draft", "proof"} : AskUpload(r, f, purpose)
      BY <2>2
    <3>2. /\ file[f] = NoFile
          /\ \A s \in Requests : Uploads(s) => f \notin req[s].with
      BY <3>1 DEF AskUpload, Uploads
    <3>3. /\ \A s \in Requests \ {r} : req'[s] = req[s]
          /\ req'[r] = [op |-> "upload", now |-> today, round |-> 0,
                        purpose |-> purpose, with |-> {f}]
      BY <3>1 DEF AskUpload, Begin, Typed, TypeOK
    <3> QED
      BY <2>1, <3>2, <3>3 DEF ImagesAreHeldOnce, AtImage, Busy, Uploads
  <2>3. CASE ~\E f \in Images, purpose \in {"draft", "proof"} : AskUpload(r, f, purpose)
    <3>1. PICK op, round, purpose, with :
             op \in Ops \ {"upload"} /\ Begin(r, op, round, purpose, with)
      <4> USE DEF Ops, Answers
      <4>1. CASE \E with \in SUBSET Pending("draft") : AskShow(r, with)
        BY <4>1 DEF AskShow
      <4>2. CASE \E with \in SUBSET Pending("proof") : AskProof(r, with)
        BY <4>2 DEF AskProof
      <4>3. CASE \E d \in DOMAIN drafts : AskRead(r, d)
        BY <4>3 DEF AskRead
      <4>4. CASE \E d \in DOMAIN drafts, op \in Answers : AskAnswer(r, op, d)
        BY <4>4 DEF AskAnswer
      <4>5. CASE \E op \in {"cancel", "withdraw"} : AskToEnd(r, op)
        BY <4>5 DEF AskToEnd
      <4> QED
        BY <1>1, <2>3, <4>1, <4>2, <4>3, <4>4, <4>5 DEF Ask
    <3>2. \A s \in Requests : Uploads(s)' => Uploads(s) /\ req'[s] = req[s]
      BY <3>1 DEF Begin, Uploads, Typed, TypeOK
    <3> QED
      BY <2>1, <3>2 DEF ImagesAreHeldOnce, AtImage, Busy, Uploads
  <2> QED
    BY <2>2, <2>3
<1>2. ASSUME NEW r \in Requests, Transaction(r)
      PROVE  ImagesAreHeldOnce'
  <2>1. /\ \A s \in Requests : Uploads(s)' => Uploads(s) /\ req'[s] = req[s] /\ s # r
        /\ job' = job
    BY <1>2, RequestImages DEF Uploads, Typed, TypeOK
  <2>2. \A f \in Images : file[f].status = "attached" => file'[f].status = "attached"
    BY <1>2, RequestImages DEF ImagesAreHeldOnce, NoFile
  <2>3. \A s \in Requests : Uploads(s)' => \A f \in req[s].with : file'[f] = NoFile
    <3>1. \A s \in Requests : Uploads(s) => req[s].with \subseteq Images
      BY InFlight DEF Typed, Uploads, Request
    <3> QED
      BY <1>2, <2>1, <3>1, RequestImages DEF ImagesAreHeldOnce
  <2>4. \A w \in Workers : AtImage(w) => job[w].image \in Images
    BY AtWork DEF AtImage, Typed, Job
  <2> QED
    BY <2>1, <2>2, <2>3, <2>4 DEF ImagesAreHeldOnce, AtImage, Busy, Uploads
<1>3. ASSUME NEW w \in Workers, NEW f \in Images, Claim(w, f)
      PROVE  ImagesAreHeldOnce'
  <2>1. /\ UNCHANGED <<file, req>>
        /\ file[f].status = "attached"
        /\ \A v \in Workers : AtImage(v) => job[v].image # f
    BY <1>3 DEF Claim, Claimable, HoldsFile, AtImage
  <2>2. /\ \A v \in Workers \ {w} : job'[v] = job[v]
        /\ job'[w].image = f
    BY <1>3 DEF Claim, Typed, TypeOK
  <2> QED
    BY <2>1, <2>2 DEF ImagesAreHeldOnce, AtImage, Busy, Uploads
<1>4. ASSUME NEW w \in Workers,
             Clean(w) \/ TakeLocks(w) \/ DeleteOriginal(w) \/ Fail(w)
      PROVE  ImagesAreHeldOnce'
  <2>1. UNCHANGED <<file, req>>
    BY <1>4 DEF Clean, TakeLocks, DeleteOriginal, Fail
  <2>2. /\ \A v \in Workers \ {w} : job'[v] = job[v]
        /\ AtImage(w)' => AtImage(w) /\ job'[w].image = job[w].image
    <3>1. CASE Clean(w)
      <4>1. job[w] \in Job
        BY <3>1, AtWork DEF Clean, Typed
      <4> QED
        BY <3>1, <4>1 DEF Clean, Step, AtImage, Typed, TypeOK, Job, Busy
    <3>2. CASE TakeLocks(w)
      <4>1. job[w] \in Job
        BY <3>2, AtWork DEF TakeLocks, Typed
      <4> QED
        BY <3>2, <4>1 DEF TakeLocks, AtImage, Typed, TypeOK, Job, Busy
    <3> QED
      BY <1>4, <3>1, <3>2 DEF DeleteOriginal, Fail, AtImage, Busy, Typed, TypeOK
  <2> QED
    BY <2>1, <2>2 DEF ImagesAreHeldOnce, AtImage, Busy, Uploads
<1>5. ASSUME NEW w \in Workers, Commit(w)
      PROVE  ImagesAreHeldOnce'
  <2>1. AtImage(w) /\ file[job[w].image].status = "attached"
    BY <1>5 DEF Commit, Committing, AtImage, ImagesAreHeldOnce
  <2>2. file[job[w].image] # NoFile
    BY <2>1 DEF NoFile
  <2>3. /\ UNCHANGED req
        /\ \A g \in Images : g # job[w].image => file'[g] = file[g]
    BY <1>5, <2>2, CommitTyped
  <2>4. /\ \A v \in Workers \ {w} : job'[v] = job[v]
        /\ ~AtImage(w)'
    BY <1>5 DEF Commit, AtImage, Busy, Typed, TypeOK
  <2>5. \A v \in Workers : AtImage(v) => job[v].image \in Images
    BY AtWork DEF AtImage, Typed, Job
  <2>6. \A s \in Requests : Uploads(s) =>
           req[s].with \subseteq Images /\ job[w].image \notin req[s].with
    BY <2>2, InFlight DEF ImagesAreHeldOnce, Typed, Uploads, Request
  <2> QED
    BY <2>1, <2>3, <2>4, <2>5, <2>6 DEF ImagesAreHeldOnce, AtImage, Busy, Uploads
<1>6. CASE (\E f \in Images : Receive(f) \/ ExpireOriginal(f)) \/ Tick
  BY <1>6, OutsideTyped DEF ImagesAreHeldOnce, AtImage, Busy, Uploads
<1>7. CASE UNCHANGED vars
  BY <1>7 DEF vars, ImagesAreHeldOnce, AtImage, Busy, Uploads
<1> QED
  BY <1>1, <1>2, <1>3, <1>4, <1>5, <1>6, <1>7 DEF Next, Worker

-----------------------------------------------------------------------------
(* One draft lives, and the proof follows it.                               *)

(* What a step does to drafts that are there: it answers one, or makes one  *)
(* ready.                                                                   *)
Only(d, new) ==
    /\ drafts'[d] = new
    /\ \A e \in DOMAIN drafts : e # d => drafts'[e] = drafts[e]
SettlesOne(r) ==
    LET d == req[r].round IN
    /\ SettleIfOverdue(r)
    /\ d \in DOMAIN drafts /\ Overdue(d, req[r].now)
    /\ Only(d, [drafts[d] EXCEPT !.status = "approved", !.auto = TRUE,
                                 !.answered = AnswerDeadline(d)])
AnswersOne(r) ==
    LET d == req[r].round IN
    /\ d \in DOMAIN drafts /\ drafts[d].status = "submitted" /\ proof = NoProof
    /\ \E status \in {"approved", "changes_requested"} :
          Only(d, [drafts[d] EXCEPT !.status = status, !.answered = req[r].now])

LEMMA DraftsStep ==
    ASSUME ReviewInv, [Next]_vars
    PROVE  /\ Typed'
           /\ \/ UNCHANGED <<drafts, proof>>
              \/ \E r \in Requests : SubmitDraft(r)
              \/ \E r \in Requests : SubmitProof(r)
              \/ /\ UNCHANGED proof
                 /\ DOMAIN drafts' = DOMAIN drafts /\ Len(drafts') = Len(drafts)
                 /\ \/ \E r \in Requests : SettlesOne(r) \/ AnswersOne(r)
                    \/ \E w \in Workers :
                          /\ Commit(w) /\ file[job[w].image] # NoFile
                          /\ \A d \in DOMAIN drafts :
                                drafts'[d] =
                                  IF d = file[job[w].image].draft /\ job[w].last
                                  THEN [drafts[d] EXCEPT !.ready =
                                          IF @ = NoDay THEN ReadyAt(w, d) ELSE @]
                                  ELSE drafts[d]
<1> USE DEF ReviewInv
<1>1. ASSUME NEW r \in Requests, Ask(r)
      PROVE  Typed' /\ UNCHANGED <<drafts, proof>>
  BY <1>1, AskTyped
<1>2. ASSUME NEW r \in Requests, RequestUpload(r) \/ EndDeal(r) \/ Refuse(r)
      PROVE  Typed' /\ UNCHANGED <<drafts, proof>>
  BY <1>2, UploadTyped, EndTyped DEF RequestUpload, EndDeal, Refuse
<1>3. ASSUME NEW r \in Requests, SubmitDraft(r)
      PROVE  Typed'
  BY <1>3, ShowTyped
<1>4. ASSUME NEW r \in Requests, SubmitProof(r)
      PROVE  Typed'
  BY <1>4, ProofTyped
<1>5. ASSUME NEW r \in Requests, SettleIfOverdue(r)
      PROVE  /\ Typed' /\ UNCHANGED proof /\ SettlesOne(r)
             /\ DOMAIN drafts' = DOMAIN drafts /\ Len(drafts') = Len(drafts)
  <2>1. UNCHANGED proof
    BY <1>5 DEF SettleIfOverdue
  <2> QED
    BY <1>5, <2>1, SettleTyped DEF SettlesOne, Only
<1>6. ASSUME NEW r \in Requests, ApproveDraft(r) \/ RequestChanges(r)
      PROVE  /\ Typed' /\ UNCHANGED proof /\ AnswersOne(r)
             /\ DOMAIN drafts' = DOMAIN drafts /\ Len(drafts') = Len(drafts)
  <2>1. PICK op \in Answers, status \in {"approved", "changes_requested"} :
           Runs(r, {op}) /\ Answered(r, status)
    BY <1>6 DEF ApproveDraft, RequestChanges, Answers
  <2>2. UNCHANGED proof
    BY <2>1 DEF Answered
  <2>3. MayAnswer(req[r]) => proof = NoProof
    BY DEF MayAnswer
  <2> QED
    BY <2>1, <2>2, <2>3, AnsweredTyped DEF AnswersOne, Only
<1>7. ASSUME NEW w \in Workers, Commit(w)
      PROVE  /\ Typed' /\ UNCHANGED proof /\ file[job[w].image] # NoFile
             /\ DOMAIN drafts' = DOMAIN drafts /\ Len(drafts') = Len(drafts)
             /\ \A d \in DOMAIN drafts :
                   drafts'[d] = IF d = file[job[w].image].draft /\ job[w].last
                                THEN [drafts[d] EXCEPT !.ready =
                                        IF @ = NoDay THEN ReadyAt(w, d) ELSE @]
                                ELSE drafts[d]
  <2>1. file[job[w].image].status = "attached"
    BY <1>7 DEF Commit, Committing, AtImage, ImagesAreHeldOnce
  <2>2. file[job[w].image] # NoFile
    BY <2>1 DEF NoFile
  <2> QED
    BY <1>7, <2>2, CommitTyped
<1>8. ASSUME NEW w \in Workers,
             (\E f \in Images : Claim(w, f))
               \/ Clean(w) \/ TakeLocks(w) \/ DeleteOriginal(w) \/ Fail(w)
      PROVE  Typed' /\ UNCHANGED <<drafts, proof>>
  BY <1>8, AtWorkTyped
<1>9. CASE (\E f \in Images : Receive(f) \/ ExpireOriginal(f)) \/ Tick
  BY <1>9, OutsideTyped
<1>10. CASE UNCHANGED vars
  BY <1>10 DEF vars, Typed, TypeOK, RoundsExist
<1>11. ASSUME NEW r \in Requests, Transaction(r)
       PROVE  \/ RequestUpload(r) \/ EndDeal(r) \/ Refuse(r) \/ SubmitDraft(r)
              \/ SubmitProof(r) \/ SettleIfOverdue(r)
              \/ ApproveDraft(r) \/ RequestChanges(r)
  BY <1>11 DEF Transaction
<1>12. ASSUME NEW w \in Workers, Worker(w)
       PROVE  \/ (\E f \in Images : Claim(w, f))
              \/ Clean(w) \/ TakeLocks(w) \/ DeleteOriginal(w) \/ Commit(w)
  BY <1>12 DEF Worker
<1>13. CASE \E r \in Requests : Ask(r)
  BY <1>1, <1>13
<1>14. CASE \E r \in Requests : Transaction(r)
  BY <1>2, <1>3, <1>4, <1>5, <1>6, <1>11, <1>14
<1>15. CASE \E w \in Workers : Worker(w) \/ Fail(w)
  BY <1>7, <1>8, <1>12, <1>15
<1> QED
  BY <1>9, <1>10, <1>13, <1>14, <1>15 DEF Next

(* A draft is not shown while one is with the brand or approved.            *)
LEMMA ShowIsNext ==
    ASSUME ReviewInv, NEW r \in Requests, SubmitDraft(r)
    PROVE  /\ proof = NoProof /\ UNCHANGED proof
           /\ Len(drafts') = Len(drafts) + 1
           /\ DOMAIN drafts' = 1..(Len(drafts) + 1) /\ DOMAIN drafts = 1..Len(drafts)
           /\ Len(drafts) \in Nat
           /\ \A d \in DOMAIN drafts :
                 drafts'[d] = drafts[d] /\ drafts[d].status = "changes_requested"
<1>1. req[r] # Idle /\ req[r].op = "show"
  BY DEF SubmitDraft, Runs, CanRun
<1>2. MayShow(req[r].now)
  BY <1>1 DEF SubmitDraft, Runs, Permitted, Answers
<1>3. \A d \in DOMAIN drafts : drafts[d].status = "changes_requested"
  BY <1>2, DraftOf DEF MayShow, ApprovedAmong, Draft, ReviewInv, Typed
<1>4. drafts \in Seq(Draft) /\ Len(drafts) \in Nat /\ DOMAIN drafts = 1..Len(drafts)
  BY DEF ReviewInv, Typed, TypeOK
<1>5. proof = NoProof
  <2>1. proof # NoProof => proof.draft = Len(drafts) /\ proof.draft \in Rounds
    BY DEF ReviewInv, ProofFollowsTheApproved, Typed, TypeOK, Proof
  <2>2. proof # NoProof => Len(drafts) \in DOMAIN drafts
    BY <1>4, <2>1 DEF Rounds
  <2> QED
    BY <1>3, <2>1, <2>2 DEF ReviewInv, ProofFollowsTheApproved
<1>6. UNCHANGED proof
  BY DEF SubmitDraft
<1> DEFINE new == [status |-> "submitted", created |-> req[r].now,
                   ready |-> IF req[r].with = {} THEN req[r].now ELSE NoDay,
                   answered |-> NoDay, auto |-> FALSE]
<1>7. req[r] \in Request
  BY <1>1, InFlight DEF ReviewInv, Typed
<1>8. new \in Draft
  BY <1>7 DEF Request, Draft, NoDay
<1>9. drafts' = Append(drafts, new)
  BY DEF SubmitDraft
<1> HIDE DEF new
<1> QED
  BY <1>3, <1>4, <1>5, <1>6, <1>8, <1>9

LEMMA OneReviewStep ==
    ASSUME ReviewInv, [Next]_vars
    PROVE  OneDraftLives' /\ ProofFollowsTheApproved'
<1> USE DEF ReviewInv
<1>1. CASE UNCHANGED <<drafts, proof>>
  BY <1>1 DEF OneDraftLives, ProofFollowsTheApproved
<1>2. CASE \E r \in Requests : SubmitDraft(r)
  BY <1>2, ShowIsNext DEF OneDraftLives, ProofFollowsTheApproved
<1>3. CASE \E r \in Requests : SubmitProof(r)
  <2>1. PICK r \in Requests : SubmitProof(r)
    BY <1>3
  <2>2. ApprovedDraft(req[r].now) # 0
    BY <2>1 DEF SubmitProof, Runs, Permitted, MayProve, Answers
  <2>3. proof'.draft = ApprovedDraft(req[r].now) /\ drafts' = drafts
    BY <2>1 DEF SubmitProof
  <2> QED
    BY <2>2, <2>3, TheApprovedIsTheLast
    DEF OneDraftLives, ProofFollowsTheApproved, Typed
<1>4. CASE \E r \in Requests : SettlesOne(r)
  <2>1. PICK r \in Requests : SettlesOne(r)
    BY <1>4
  <2>2. /\ drafts[req[r].round].status = "submitted" /\ req[r].round \in DOMAIN drafts
        /\ drafts[req[r].round] \in Draft
    BY <2>1, DraftOf DEF SettlesOne, Overdue, Typed
  <2>3. drafts'[req[r].round].status = "approved"
    BY <2>1, <2>2 DEF SettlesOne, Only, Draft
  <2>4. /\ UNCHANGED proof /\ DOMAIN drafts' = DOMAIN drafts /\ Len(drafts') = Len(drafts)
        /\ \A e \in DOMAIN drafts : e # req[r].round => drafts'[e] = drafts[e]
    BY <2>1, SettleTyped DEF SettlesOne, SettleIfOverdue
  <2>5. proof # NoProof => proof.draft \in DOMAIN drafts
    BY DEF ProofFollowsTheApproved, Typed, TypeOK, Proof, Rounds
  <2> QED
    BY <2>2, <2>3, <2>4, <2>5 DEF OneDraftLives, ProofFollowsTheApproved
<1>5. CASE /\ UNCHANGED proof
           /\ DOMAIN drafts' = DOMAIN drafts /\ Len(drafts') = Len(drafts)
           /\ \E r \in Requests : AnswersOne(r)
  <2>1. PICK r \in Requests : AnswersOne(r)
    BY <1>5
  <2> QED
    BY <1>5, <2>1 DEF AnswersOne, Only, OneDraftLives, ProofFollowsTheApproved
<1>6. CASE /\ UNCHANGED proof
           /\ DOMAIN drafts' = DOMAIN drafts /\ Len(drafts') = Len(drafts)
           /\ \E w \in Workers :
                 \A d \in DOMAIN drafts :
                    drafts'[d] = IF d = file[job[w].image].draft /\ job[w].last
                                 THEN [drafts[d] EXCEPT !.ready =
                                         IF @ = NoDay THEN ReadyAt(w, d) ELSE @]
                                 ELSE drafts[d]
  <2>1. \A d \in DOMAIN drafts : drafts[d] \in Draft
    BY DraftOf DEF Typed
  <2>2. \A d \in DOMAIN drafts : drafts'[d].status = drafts[d].status
    BY <1>6, <2>1 DEF Draft
  <2>3. proof # NoProof => proof.draft \in DOMAIN drafts
    BY DEF ProofFollowsTheApproved, Typed, TypeOK, Proof, Rounds
  <2> QED
    BY <1>6, <2>2, <2>3 DEF OneDraftLives, ProofFollowsTheApproved
<1> QED
  BY <1>1, <1>2, <1>3, <1>4, <1>5, <1>6, DraftsStep

LEMMA ReviewInit ==
    ASSUME Init
    PROVE  ReviewInv
<1>1. TypeOK
  BY DaysAssumption DEF Init, TypeOK, Deal, NoProof, Day, NoDay, NoFile, Idle, Free
<1> QED
  BY <1>1 DEF Init, ReviewInv, Typed, RoundsExist, OneDraftLives, ProofFollowsTheApproved,
              ImagesAreHeldOnce, AtImage, Busy, Uploads, NoFile, Idle

LEMMA ReviewInvStays ==
    ASSUME ReviewInv, [Next]_vars
    PROVE  ReviewInv'
BY ImagesStep, DraftsStep, OneReviewStep DEF ReviewInv

LEMMA ReviewInvHolds == Spec => []ReviewInv
BY ReviewInit, ReviewInvStays, PTL DEF Spec

(* However requests, workers, expiries and failures meet, what is stored is *)
(* well formed, one draft at most is alive, and the proof is of the last    *)
(* draft, which the brand did not send back (submit_draft,                  *)
(* _lock_for_answer, submit_proof).                                         *)
THEOREM ReviewIsOne == Spec => []OneReview
<1>1. ReviewInv => OneReview
  BY DEF ReviewInv, OneReview, Typed
<1> QED
  BY <1>1, ReviewInvHolds, PTL

-----------------------------------------------------------------------------
(* What was said stays said.                                                *)

LEMMA FilesStand ==
    ASSUME ReviewInv, [Next]_vars, NEW f \in Images,
           file[f].status \notin {"none", "pending"}
    PROVE  file'[f].draft = file[f].draft /\ file'[f].status # "pending"
<1> USE DEF ReviewInv
<1>1. ASSUME NEW r \in Requests, Transaction(r)
      PROVE  file'[f] = file[f]
  <2>1. ~(Uploads(r) /\ f \in req[r].with)
    BY DEF ImagesAreHeldOnce, NoFile
  <2> QED
    BY <1>1, <2>1, RequestImages
<1>2. ASSUME NEW w \in Workers, Commit(w)
      PROVE  file'[f].draft = file[f].draft /\ file'[f].status # "pending"
  <2>1. file[job[w].image].status = "attached"
    BY <1>2 DEF Commit, Committing, AtImage, ImagesAreHeldOnce
  <2>2. file[job[w].image] # NoFile
    BY <2>1 DEF NoFile
  <2> QED
    BY <1>2, <2>2, CommitTyped
<1>3. ASSUME NEW r \in Requests, Ask(r)
      PROVE  file' = file
  BY <1>3, AskTyped
<1>4. ASSUME NEW w \in Workers,
             (\E g \in Images : Claim(w, g))
               \/ Clean(w) \/ TakeLocks(w) \/ DeleteOriginal(w) \/ Fail(w)
      PROVE  file' = file
  BY <1>4, AtWorkTyped
<1>5. CASE (\E g \in Images : Receive(g) \/ ExpireOriginal(g)) \/ Tick
  BY <1>5, OutsideTyped
<1>6. CASE UNCHANGED vars
  BY <1>6 DEF vars
<1> QED
  BY <1>1, <1>2, <1>3, <1>4, <1>5, <1>6 DEF Next, Worker

LEMMA AnswersStandStep ==
    ASSUME ReviewInv, [Next]_vars, NEW d \in DOMAIN drafts
    PROVE  /\ drafts[d].status # "submitted" =>
                drafts'[d] = [drafts[d] EXCEPT !.ready = drafts'[d].ready]
           /\ drafts[d].ready # NoDay => drafts'[d].ready = drafts[d].ready
<1>1. drafts[d] \in Draft
  BY DraftOf DEF ReviewInv, Typed
<1>2. CASE drafts'[d] = drafts[d]
  BY <1>1, <1>2 DEF Draft
<1>3. CASE \E r \in Requests : SubmitDraft(r)
  BY <1>2, <1>3, ShowIsNext
<1>4. CASE \E r \in Requests : SettlesOne(r)
  <2>1. PICK r \in Requests : SettlesOne(r)
    BY <1>4
  <2>2. CASE req[r].round = d
    <3>1. drafts[d].status = "submitted"
      BY <2>1, <2>2 DEF SettlesOne, Overdue
    <3>2. drafts'[d] = [drafts[d] EXCEPT !.status = "approved", !.auto = TRUE,
                                         !.answered = AnswerDeadline(d)]
      BY <2>1, <2>2 DEF SettlesOne, Only
    <3> QED
      BY <1>1, <3>1, <3>2 DEF Draft
  <2>3. CASE req[r].round # d
    BY <1>2, <2>1, <2>3 DEF SettlesOne, Only
  <2> QED
    BY <2>2, <2>3
<1>5. CASE \E r \in Requests : AnswersOne(r)
  <2>1. PICK r \in Requests : AnswersOne(r)
    BY <1>5
  <2>2. CASE req[r].round = d
    <3>1. drafts[d].status = "submitted"
      BY <2>1, <2>2 DEF AnswersOne
    <3>2. PICK status \in {"approved", "changes_requested"} :
             drafts'[d] = [drafts[d] EXCEPT !.status = status, !.answered = req[r].now]
      BY <2>1, <2>2 DEF AnswersOne, Only
    <3> QED
      BY <1>1, <3>1, <3>2 DEF Draft
  <2>3. CASE req[r].round # d
    BY <1>2, <2>1, <2>3 DEF AnswersOne, Only
  <2> QED
    BY <2>2, <2>3
<1>6. CASE \E w \in Workers :
             drafts'[d] = [drafts[d] EXCEPT !.ready = IF @ = NoDay THEN ReadyAt(w, d) ELSE @]
  BY <1>1, <1>6 DEF Draft
<1>7. CASE \E r \in Requests : SubmitProof(r)
  BY <1>2, <1>7 DEF SubmitProof
<1> QED
  BY <1>2, <1>3, <1>4, <1>5, <1>6, <1>7, DraftsStep

(* No answer to a draft is changed, no draft becomes ready twice, and an    *)
(* upload joins one draft or the proof for good (settle_if_overdue,         *)
(* _mark_draft_ready, attach).                                              *)
THEOREM AnswersAreFinal == Spec => AnswersStand
<1>1. ASSUME ReviewInv, [Next]_vars
      PROVE  [/\ \A d \in DOMAIN drafts :
                   /\ drafts[d].status # "submitted" =>
                        drafts'[d] = [drafts[d] EXCEPT !.ready = drafts'[d].ready]
                   /\ drafts[d].ready # NoDay => drafts'[d].ready = drafts[d].ready
              /\ \A f \in Images : file[f].status \notin {"none", "pending"} =>
                   file'[f].draft = file[f].draft /\ file'[f].status # "pending"]_vars
  BY <1>1, AnswersStandStep, FilesStand
<1> QED
  BY <1>1, ReviewInvHolds, PTL DEF Spec, AnswersStand

-----------------------------------------------------------------------------
(* Cleaned once, with a copy to open.                                       *)

SealInv ==
    /\ CleanedOnce
    /\ \A w \in Workers :
          Busy(w) /\ job[w].step \in {"cleaned", "commit_cleaned"} => job[w].image \in store.clean

LEMMA SealStep ==
    ASSUME ReviewInv, SealInv, [Next]_vars
    PROVE  SealInv'
<1> USE DEF ReviewInv
<1>1. ASSUME NEW r \in Requests, Ask(r)
      PROVE  SealInv'
  BY <1>1, AskTyped DEF SealInv, CleanedOnce, Busy
<1>2. ASSUME NEW r \in Requests, Transaction(r)
      PROVE  SealInv'
  <2>1. \A f \in Images : file'[f].status = "cleaned" <=> file[f].status = "cleaned"
    BY <1>2, RequestImages DEF ImagesAreHeldOnce, NoFile
  <2> QED
    BY <1>2, <2>1, RequestImages DEF SealInv, CleanedOnce, Busy
<1>3. ASSUME NEW w \in Workers, NEW f \in Images, Claim(w, f)
      PROVE  SealInv'
  <2>1. /\ UNCHANGED <<file, store, sealed>>
        /\ \A v \in Workers \ {w} : job'[v] = job[v]
        /\ job'[w].step = "claimed"
    BY <1>3 DEF Claim, Typed, TypeOK
  <2> QED
    BY <2>1 DEF SealInv, CleanedOnce, Busy
<1>4. ASSUME NEW w \in Workers, Clean(w)
      PROVE  SealInv'
  <2>1. job[w] \in Job /\ store \in [raw : SUBSET Images, clean : SUBSET Images]
    BY <1>4, AtWork DEF Clean, Typed, TypeOK
  <2>2. /\ UNCHANGED <<file, sealed>>
        /\ \A v \in Workers \ {w} : job'[v] = job[v]
        /\ store.clean \subseteq store'.clean
        /\ job'[w].image = job[w].image
        /\ job'[w].step \in {"cleaned", "commit_cleaned"} => job[w].image \in store'.clean
    BY <1>4, <2>1 DEF Clean, Step, Typed, TypeOK, Job
  <2> QED
    BY <2>2 DEF SealInv, CleanedOnce, Busy
<1>5. ASSUME NEW w \in Workers, TakeLocks(w)
      PROVE  SealInv'
  <2>1. job[w] \in Job
    BY <1>5, AtWork DEF TakeLocks, Typed
  <2>2. /\ UNCHANGED <<file, store, sealed>>
        /\ \A v \in Workers \ {w} : job'[v] = job[v]
        /\ job'[w].image = job[w].image
        /\ job'[w].step = "commit_cleaned" => job[w].step = "cleaned"
        /\ job'[w].step # "cleaned"
    BY <1>5, <2>1 DEF TakeLocks, Typed, TypeOK, Job
  <2> QED
    BY <1>5, <2>2 DEF SealInv, CleanedOnce, Busy, TakeLocks
<1>6. ASSUME NEW w \in Workers, DeleteOriginal(w) \/ Fail(w)
      PROVE  SealInv'
  <2>1. /\ UNCHANGED <<file, sealed>> /\ store'.clean = store.clean
        /\ \A v \in Workers \ {w} : job'[v] = job[v]
        /\ job'[w] = Free
    BY <1>6 DEF DeleteOriginal, Fail, Typed, TypeOK
  <2> QED
    BY <2>1 DEF SealInv, CleanedOnce, Busy
<1>7. ASSUME NEW w \in Workers, Commit(w)
      PROVE  SealInv'
  <2> DEFINE f == job[w].image
  <2>1. job[w] \in Job /\ f \in Images /\ job[w].step \in Committing /\ Busy(w)
    BY <1>7, AtWork DEF Commit, Typed, Job
  <2>2. file[f].status = "attached" /\ file[f] # NoFile
    BY <2>1 DEF Committing, AtImage, ImagesAreHeldOnce, NoFile
  <2>3. sealed[f] = 0
    BY <2>1, <2>2 DEF SealInv, CleanedOnce
  <2>4. /\ \A g \in Images : g # f => file'[g] = file[g] /\ sealed'[g] = sealed[g]
        /\ file'[f].status = IF job[w].step = "commit_cleaned" THEN "cleaned" ELSE "rejected"
        /\ sealed'[f] = IF job[w].step = "commit_cleaned" THEN 1 ELSE 0
        /\ store' = store
    <3>1. sealed \in [Images -> Nat]
      BY DEF Typed, TypeOK
    <3>2. sealed' = [sealed EXCEPT ![f] = IF job[w].step = "commit_cleaned" THEN @ + 1 ELSE @]
      BY <1>7 DEF Commit
    <3> QED
      BY <1>7, <2>1, <2>2, <2>3, <3>1, <3>2, CommitTyped
  <2>5. /\ \A v \in Workers \ {w} : job'[v] = job[v]
        /\ ~(Busy(w)' /\ job'[w].step \in {"cleaned", "commit_cleaned"})
    BY <1>7, <2>1 DEF Commit, Typed, TypeOK, Busy, Job
  <2>6. job[w].step = "commit_cleaned" => f \in store.clean
    BY <2>1 DEF SealInv
  <2> QED
    BY <2>4, <2>5, <2>6 DEF SealInv, CleanedOnce, Busy
<1>8. CASE (\E f \in Images : Receive(f) \/ ExpireOriginal(f)) \/ Tick
  BY <1>8, OutsideTyped DEF SealInv, CleanedOnce, Busy
<1>9. CASE UNCHANGED vars
  BY <1>9 DEF vars, SealInv, CleanedOnce, Busy
<1> QED
  BY <1>1, <1>2, <1>3, <1>4, <1>5, <1>6, <1>7, <1>8, <1>9 DEF Next, Worker

(* Each cleaned image is sealed once, with a copy to open, whatever workers *)
(* overlap or die between their steps (clean_one).                          *)
THEOREM EachIsCleanedOnce == Spec => []CleanedOnce
<1>1. Init => SealInv
  BY DEF Init, SealInv, CleanedOnce, Busy, NoFile
<1>2. SealInv => CleanedOnce
  BY DEF SealInv
<1> QED
  BY <1>1, <1>2, SealStep, ReviewInvHolds, PTL DEF Spec

-----------------------------------------------------------------------------
(* Ready exactly when no image waits.                                       *)

Waits(d) == {f \in Images : file[f].status = "attached" /\ file[f].draft = d}
Commits(w) == Busy(w) /\ job[w].step \in Committing
Of(w) == file[job[w].image].draft

(* What a worker about to commit counted is still so: no image joins a      *)
(* draft after it was shown, and who else would clean one of its images     *)
(* waits for the draft's lock.                                              *)
ReadyInv ==
    /\ \A d \in DOMAIN drafts : drafts[d].ready # NoDay <=> Waits(d) = {}
    /\ \A f \in Images : file[f].status = "pending" => file[f].draft = 0
    /\ \A w \in Workers : Commits(w) /\ Of(w) # 0 =>
          /\ job[w].last <=> Waits(Of(w)) \subseteq {job[w].image}
          /\ \A v \in Workers \ {w} : Commits(v) => Of(v) # Of(w)

LEMMA CommitsAreAtWork ==
    ASSUME ReviewInv, NEW w \in Workers, Commits(w)
    PROVE  /\ job[w] \in Job /\ job[w].image \in Images
           /\ file[job[w].image].status = "attached" /\ file[job[w].image] # NoFile
           /\ Of(w) \in {0} \union DOMAIN drafts
<1>1. job[w] \in Job /\ job[w].image \in Images
  BY AtWork DEF Commits, ReviewInv, Typed, Job
<1>2. file[job[w].image].status = "attached"
  BY DEF Commits, Committing, ReviewInv, ImagesAreHeldOnce, AtImage
<1>3. file[job[w].image] # NoFile
  BY <1>2 DEF NoFile
<1> QED
  BY <1>1, <1>2, <1>3 DEF Of, ReviewInv, Typed, RoundsExist

(* A step that is none of showing, counting and committing.                 *)
LEMMA ReadyStays ==
    ASSUME ReviewInv, ReadyInv,
           DOMAIN drafts' = DOMAIN drafts,
           \A d \in DOMAIN drafts : drafts'[d].ready = drafts[d].ready,
           \A f \in Images :
              \/ file'[f] = file[f]
              \/ /\ file[f].status # "attached"
                 /\ file'[f].status \in {"pending", "attached"} /\ file'[f].draft = 0,
           \A w \in Workers : Commits(w)' => Commits(w) /\ job'[w] = job[w]
    PROVE  ReadyInv'
<1>1. \A d \in DOMAIN drafts : d # 0
  BY DraftOf DEF ReviewInv, Typed
<1>2. \A d \in DOMAIN drafts : Waits(d)' = Waits(d)
  BY <1>1 DEF Waits
<1>3. \A w \in Workers : Commits(w) => file'[job[w].image] = file[job[w].image]
  BY CommitsAreAtWork
<1>4. \A w \in Workers : Commits(w)' => Of(w)' = Of(w)
  BY <1>3 DEF Of
<1>5. \A f \in Images : file'[f].status = "pending" => file'[f].draft = 0
  BY DEF ReadyInv
<1>6. \A d \in DOMAIN drafts' : drafts'[d].ready # NoDay <=> Waits(d)' = {}
  BY <1>2 DEF ReadyInv
<1>7. ASSUME NEW w \in Workers, Commits(w)', Of(w)' # 0
      PROVE  /\ job'[w].last <=> Waits(Of(w))' \subseteq {job'[w].image}
             /\ \A v \in Workers \ {w} : Commits(v)' => Of(v)' # Of(w)'
  <2>1. Commits(w) /\ job'[w] = job[w] /\ Of(w)' = Of(w) /\ Of(w) \in DOMAIN drafts
    BY <1>4, <1>7, CommitsAreAtWork
  <2>2. Waits(Of(w))' = Waits(Of(w))
    BY <1>2, <2>1 DEF Waits
  <2>3. job[w].last <=> Waits(Of(w)) \subseteq {job[w].image}
    BY <1>7, <2>1 DEF ReadyInv
  <2>4. \A v \in Workers \ {w} : Commits(v) => Of(v) # Of(w)
    BY <1>7, <2>1 DEF ReadyInv
  <2> QED
    BY <1>4, <2>1, <2>2, <2>3, <2>4
<1> QED
  BY <1>5, <1>6, <1>7 DEF ReadyInv

LEMMA ReadyAfterRequest ==
    ASSUME ReviewInv, ReadyInv, NEW r \in Requests, Transaction(r), ~SubmitDraft(r)
    PROVE  ReadyInv'
<1> USE DEF ReviewInv
<1>1. \A w \in Workers : Commits(w)' => Commits(w) /\ job'[w] = job[w]
  BY RequestImages DEF Commits, Busy
<1>2. \A f \in Images :
         \/ file'[f] = file[f]
         \/ /\ file[f].status # "attached"
            /\ file'[f].status \in {"pending", "attached"} /\ file'[f].draft = 0
  BY RequestImages DEF ImagesAreHeldOnce, NoFile
<1>3. /\ DOMAIN drafts' = DOMAIN drafts
      /\ \A d \in DOMAIN drafts : drafts'[d].ready = drafts[d].ready
  <2>1. \A d \in DOMAIN drafts : drafts[d] \in Draft
    BY DraftOf DEF Typed
  <2>2. CASE SettleIfOverdue(r)
    <3>1. /\ req[r].round \in DOMAIN drafts
          /\ DOMAIN drafts' = DOMAIN drafts
          /\ drafts'[req[r].round] =
               [drafts[req[r].round] EXCEPT !.status = "approved", !.auto = TRUE,
                   !.answered = AnswerDeadline(req[r].round)]
          /\ \A e \in DOMAIN drafts : e # req[r].round => drafts'[e] = drafts[e]
      BY <2>2, SettleTyped
    <3>2. drafts'[req[r].round].ready = drafts[req[r].round].ready
      BY <2>1, <3>1 DEF Draft
    <3> QED
      BY <3>1, <3>2
  <2>3. CASE ApproveDraft(r) \/ RequestChanges(r)
    <3>1. PICK op \in Answers, status \in {"approved", "changes_requested"} :
             Runs(r, {op}) /\ Answered(r, status)
      BY <2>3 DEF ApproveDraft, RequestChanges, Answers
    <3>2. /\ req[r].round \in DOMAIN drafts
          /\ DOMAIN drafts' = DOMAIN drafts
          /\ drafts'[req[r].round] =
               [drafts[req[r].round] EXCEPT !.status = status, !.answered = req[r].now]
          /\ \A e \in DOMAIN drafts : e # req[r].round => drafts'[e] = drafts[e]
      BY <3>1, AnsweredTyped
    <3>3. drafts'[req[r].round].ready = drafts[req[r].round].ready
      BY <2>1, <3>2 DEF Draft
    <3> QED
      BY <3>2, <3>3
  <2>4. CASE RequestUpload(r) \/ SubmitProof(r) \/ EndDeal(r) \/ Refuse(r)
    BY <2>4 DEF RequestUpload, SubmitProof, EndDeal, Refuse
  <2> QED
    BY <2>2, <2>3, <2>4 DEF Transaction
<1> HIDE DEF ReviewInv
<1> QED
  BY <1>1, <1>2, <1>3, ReadyStays

(* A draft is shown ready exactly when it has no images.                    *)
LEMMA ReadyAfterShow ==
    ASSUME ReviewInv, ReadyInv, NEW r \in Requests, SubmitDraft(r)
    PROVE  ReadyInv'
<1> USE DEF ReviewInv
<1>0. PICK n, with : n = Len(drafts) + 1 /\ with = req[r].with
  OBVIOUS
<1>1. /\ DOMAIN drafts' = 1..n /\ DOMAIN drafts = 1..Len(drafts) /\ Len(drafts) \in Nat
      /\ \A d \in DOMAIN drafts : drafts'[d] = drafts[d]
  BY <1>0, ShowIsNext
<1>2. req[r] \in Request /\ req[r] # Idle /\ req[r].op = "show"
  BY InFlight DEF Typed, SubmitDraft, Runs, CanRun
<1>3. MayShow(req[r].now) /\ Attachable(with, "draft")
  BY <1>0, <1>2 DEF SubmitDraft, Runs, Permitted, Answers
<1>4. n \in {0} \union Rounds /\ with \in SUBSET Images
  BY <1>0, <1>1, <1>2, <1>3, DaysAssumption DEF MayShow, Rounds, Request
<1>5. /\ \A f \in Images : f \notin with => file'[f] = file[f]
      /\ \A f \in with : /\ f \in Images /\ file[f].status = "pending"
                         /\ file'[f].status = "attached" /\ file'[f].draft = n
  <2>1. file' = Attached(with, n)
    BY <1>0 DEF SubmitDraft
  <2> QED
    BY <1>3, <1>4, <2>1, AttachedTyped DEF Typed
<1>6. \A f \in Images : file[f].status = "attached" => file[f].draft # n
  <2>1. \A f \in Images : file[f].status = "attached" => file[f] # NoFile
    BY DEF NoFile
  <2> QED
    BY <1>0, <1>1, <2>1 DEF Typed, RoundsExist
<1>7. drafts'[n].ready = IF with = {} THEN req[r].now ELSE NoDay
  <2> DEFINE new == [status |-> "submitted", created |-> req[r].now,
                     ready |-> IF with = {} THEN req[r].now ELSE NoDay,
                     answered |-> NoDay, auto |-> FALSE]
  <2>1. drafts' = Append(drafts, new) /\ drafts \in Seq(Draft)
    BY <1>0 DEF SubmitDraft, Typed, TypeOK
  <2>2. new \in Draft
    BY <1>2 DEF Request, Draft, NoDay
  <2>3. new.ready = IF with = {} THEN req[r].now ELSE NoDay
    OBVIOUS
  <2> HIDE DEF new
  <2>4. drafts'[n] = new
    BY <1>0, <2>1, <2>2
  <2> QED
    BY <2>3, <2>4
<1>8. req[r].now # NoDay
  BY <1>2, DayIsANumber DEF Request
<1>9. Waits(n)' = with
  BY <1>5, <1>6 DEF Waits
<1>10. \A d \in DOMAIN drafts : Waits(d)' = Waits(d)
  <2>1. \A d \in DOMAIN drafts : d # n
    BY <1>0, <1>1
  <2> QED
    BY <1>5, <2>1 DEF Waits
<1>11. job' = job
  BY DEF SubmitDraft
<1>12. \A w \in Workers : Commits(w) => file'[job[w].image] = file[job[w].image]
  BY <1>5, CommitsAreAtWork
<1>13. \A w \in Workers : /\ Commits(w)' <=> Commits(w)
                          /\ Commits(w) => Of(w)' = Of(w) /\ Of(w) \in {0} \union DOMAIN drafts
  BY <1>11, <1>12, CommitsAreAtWork DEF Commits, Of, Busy
<1>14. \A d \in DOMAIN drafts' : drafts'[d].ready # NoDay <=> Waits(d)' = {}
  <2>1. drafts'[n].ready # NoDay <=> Waits(n)' = {}
    BY <1>7, <1>8, <1>9
  <2>2. \A d \in DOMAIN drafts : drafts'[d].ready # NoDay <=> Waits(d)' = {}
    BY <1>1, <1>10 DEF ReadyInv
  <2>3. \A d \in DOMAIN drafts' : d = n \/ d \in DOMAIN drafts
    BY <1>0, <1>1
  <2> QED
    BY <2>1, <2>2, <2>3
<1>15. \A f \in Images : file'[f].status = "pending" => file'[f].draft = 0
  BY <1>5 DEF ReadyInv
<1>16. ASSUME NEW w \in Workers, Commits(w)', Of(w)' # 0
       PROVE  /\ job'[w].last <=> Waits(Of(w))' \subseteq {job'[w].image}
              /\ \A v \in Workers \ {w} : Commits(v)' => Of(v)' # Of(w)'
  <2>1. Commits(w) /\ Of(w)' = Of(w) /\ Of(w) \in DOMAIN drafts /\ Of(w) # 0
    BY <1>13, <1>16
  <2>2. Waits(Of(w))' = Waits(Of(w))
    BY <1>10, <2>1 DEF Waits
  <2>3. /\ job[w].last <=> Waits(Of(w)) \subseteq {job[w].image}
        /\ \A v \in Workers \ {w} : Commits(v) => Of(v) # Of(w)
    BY <2>1 DEF ReadyInv
  <2> QED
    BY <1>11, <1>13, <2>1, <2>2, <2>3
<1> QED
  BY <1>14, <1>15, <1>16 DEF ReadyInv

(* Counting the other images under the draft's lock.                        *)
LEMMA ReadyAfterLocks ==
    ASSUME ReviewInv, ReadyInv, NEW w \in Workers, TakeLocks(w)
    PROVE  ReadyInv'
<1> USE DEF ReviewInv
<1>1. job[w] \in Job /\ UNCHANGED <<drafts, file>>
  BY AtWork DEF TakeLocks, Typed
<1>2. /\ \A v \in Workers \ {w} : job'[v] = job[v]
      /\ job'[w].image = job[w].image
      /\ job'[w].last <=> StillWaiting(w) = {}
  BY <1>1 DEF TakeLocks, Typed, TypeOK, Job
<1>3. \A d : Waits(d)' = Waits(d)
  BY <1>1 DEF Waits
<1>4. /\ \A v \in Workers : Of(v)' = Of(v)
      /\ \A v \in Workers \ {w} : Commits(v)' <=> Commits(v)
  BY <1>1, <1>2 DEF Of, Commits, Busy
<1>5. StillWaiting(w) = Waits(Of(w)) \ {job[w].image}
  BY DEF StillWaiting, Waits, Of
<1>6. Of(w) # 0 => \A v \in Workers : Commits(v) => Of(v) # Of(w)
  BY DEF TakeLocks, DraftFree, HoldsDraft, Commits, Of
<1>7. \A v \in Workers : Commits(v)' /\ Of(v)' # 0 =>
         /\ job'[v].last <=> Waits(Of(v))' \subseteq {job'[v].image}
         /\ \A u \in Workers \ {v} : Commits(u)' => Of(u)' # Of(v)'
  <2>1. ASSUME Of(w) # 0
        PROVE  /\ job'[w].last <=> Waits(Of(w))' \subseteq {job'[w].image}
               /\ \A u \in Workers \ {w} : Commits(u)' => Of(u)' # Of(w)'
    <3>1. Waits(Of(w))' = Waits(Of(w))
      <4>1. file' = file /\ Of(w)' = Of(w)
        BY <1>1, <1>4
      <4> QED
        BY <4>1 DEF Waits
    <3>2. Waits(Of(w)) \ {job[w].image} = {} <=> Waits(Of(w)) \subseteq {job[w].image}
      OBVIOUS
    <3> QED
      BY <1>2, <1>4, <1>5, <1>6, <2>1, <3>1, <3>2
  <2>2. ASSUME NEW v \in Workers \ {w}, Commits(v)', Of(v)' # 0
        PROVE  /\ job'[v].last <=> Waits(Of(v))' \subseteq {job'[v].image}
               /\ \A u \in Workers \ {v} : Commits(u)' => Of(u)' # Of(v)'
    <3>1. Commits(v) /\ Of(v) # 0 /\ job'[v] = job[v] /\ Of(v)' = Of(v)
      BY <1>2, <1>4, <2>2
    <3>2. Waits(Of(v))' = Waits(Of(v))
      <4>1. file' = file /\ Of(v)' = Of(v)
        BY <1>1, <3>1
      <4> QED
        BY <4>1 DEF Waits
    <3>3. /\ job[v].last <=> Waits(Of(v)) \subseteq {job[v].image}
          /\ \A u \in Workers \ {v} : Commits(u) => Of(u) # Of(v)
      BY <3>1 DEF ReadyInv
    <3>4. Of(w) # Of(v)
      BY <1>6, <3>1
    <3> QED
      BY <1>4, <3>1, <3>2, <3>3, <3>4
  <2> QED
    BY <1>4, <2>1, <2>2
<1> QED
  BY <1>1, <1>3, <1>7 DEF ReadyInv

(* The last image of a draft makes it ready, and no other does.             *)
LEMMA ReadyAfterCommit ==
    ASSUME ReviewInv, ReadyInv, NEW w \in Workers, Commit(w)
    PROVE  ReadyInv'
<1>0. PICK f, d : f = job[w].image /\ d = Of(w)
  OBVIOUS
<1>1. /\ Commits(w) /\ job[w] \in Job /\ f \in Images
      /\ file[f].status = "attached" /\ file[f] # NoFile /\ file[f].draft = d
      /\ d \in {0} \union DOMAIN drafts
  BY <1>0, CommitsAreAtWork DEF Commit, Commits, Of
<1>2. /\ \A g \in Images : g # f => file'[g] = file[g]
      /\ file'[f].status \in {"cleaned", "rejected"} /\ file'[f].draft = d
      /\ DOMAIN drafts' = DOMAIN drafts
      /\ \A e \in DOMAIN drafts :
            drafts'[e] = IF e = d /\ job[w].last
                         THEN [drafts[e] EXCEPT !.ready = IF @ = NoDay THEN ReadyAt(w, e) ELSE @]
                         ELSE drafts[e]
  BY <1>0, <1>1, CommitTyped DEF ReviewInv, Of
<1>3. /\ \A v \in Workers \ {w} : job'[v] = job[v]
      /\ ~Commits(w)'
  <2>1. job \in [Workers -> Job \union {Free}]
    BY DEF ReviewInv, Typed, TypeOK
  <2> QED
    BY <1>1, <2>1 DEF Commit, Commits, Committing, Busy, Job
<1>4. f \in Waits(d)
  BY <1>1 DEF Waits
<1>5. \A e : e # d => (f \notin Waits(e) /\ \A g : g \in Waits(e)' <=> g \in Waits(e))
  BY <1>1, <1>2 DEF Waits
<1>6. \A g : g \in Waits(d)' <=> g \in Waits(d) /\ g # f
  BY <1>1, <1>2 DEF Waits
<1>7. ASSUME NEW e \in DOMAIN drafts
      PROVE  drafts'[e].ready # NoDay <=> Waits(e)' = {}
  <2>1. drafts[e] \in Draft /\ e # 0
    BY DraftOf DEF ReviewInv, Typed
  <2>2. drafts[e].ready # NoDay <=> Waits(e) = {}
    BY DEF ReadyInv
  <2>3. CASE e = d
    <3>1. job[w].last <=> Waits(d) \subseteq {f}
      BY <1>0, <1>1, <2>1, <2>3 DEF ReadyInv
    <3>2. drafts[e].ready = NoDay
      BY <1>4, <2>2, <2>3
    <3>3. job[w].last <=> Waits(d)' = {}
      BY <1>6, <3>1
    <3>4. ReadyAt(w, e) # NoDay
      BY <1>1, <2>1, DayIsANumber DEF ReadyAt, Max2, Job, Draft
    <3>5. job[w].last => drafts'[e].ready = ReadyAt(w, e)
      BY <1>2, <2>1, <2>3, <3>2 DEF Draft
    <3>6. ~job[w].last => drafts'[e].ready = NoDay
      BY <1>2, <3>2
    <3>7. Waits(e)' = {} <=> Waits(d)' = {}
      BY <2>3
    <3> QED
      BY <3>3, <3>4, <3>5, <3>6, <3>7
  <2>4. CASE e # d
    <3>1. drafts'[e] = drafts[e]
      BY <1>2, <2>4
    <3>2. Waits(e)' = {} <=> Waits(e) = {}
      BY <1>5, <2>4
    <3> QED
      BY <2>2, <3>1, <3>2
  <2> QED
    BY <2>3, <2>4
<1>8. \A g \in Images : file'[g].status = "pending" => file'[g].draft = 0
  BY <1>2 DEF ReadyInv
<1>9. ASSUME NEW v \in Workers, Commits(v)'
      PROVE  v # w /\ Commits(v) /\ job'[v] = job[v] /\ Of(v)' = Of(v)
  <2>1. v # w /\ Commits(v) /\ job'[v] = job[v]
    BY <1>3, <1>9 DEF Commits, Busy
  <2>2. job[v].image \in Images
    BY <2>1, CommitsAreAtWork
  <2>3. job[v].image # f
    BY <1>0, <1>1, <2>1 DEF ReviewInv, ImagesAreHeldOnce, Commits, AtImage, Committing
  <2> QED
    BY <1>2, <2>1, <2>2, <2>3 DEF Of
<1>10. ASSUME NEW v \in Workers, Commits(v)', Of(v)' # 0
       PROVE  /\ job'[v].last <=> Waits(Of(v))' \subseteq {job'[v].image}
              /\ \A u \in Workers \ {v} : Commits(u)' => Of(u)' # Of(v)'
  <2>1. v # w /\ Commits(v) /\ job'[v] = job[v] /\ Of(v)' = Of(v)
    BY <1>9, <1>10
  <2>2. /\ job[v].last <=> Waits(Of(v)) \subseteq {job[v].image}
        /\ \A u \in Workers \ {v} : Commits(u) => Of(u) # Of(v)
    BY <1>10, <2>1 DEF ReadyInv
  <2>3. Of(v) # d
    BY <1>0, <1>1, <2>1, <2>2
  <2>4. \A g : g \in Waits(Of(v))' <=> g \in Waits(Of(v))
    <3>1. \A g \in Images : file'[g].status = "attached" /\ file'[g].draft = Of(v)
                            <=> file[g].status = "attached" /\ file[g].draft = Of(v)
      BY <1>1, <1>2, <2>3
    <3> QED
      BY <2>1, <3>1 DEF Waits
  <2> QED
    BY <1>9, <2>1, <2>2, <2>4
<1> QED
  BY <1>2, <1>7, <1>8, <1>10 DEF ReadyInv

LEMMA ReadyStep ==
    ASSUME ReviewInv, ReadyInv, [Next]_vars
    PROVE  ReadyInv'
<1>1. ASSUME NEW r \in Requests, Ask(r)
      PROVE  ReadyInv'
  <2>1. UNCHANGED <<drafts, file, job>>
    BY <1>1, AskTyped DEF ReviewInv
  <2> QED
    BY <2>1, ReadyStays DEF Commits, Busy
<1>2. ASSUME NEW r \in Requests, Transaction(r)
      PROVE  ReadyInv'
  BY <1>2, ReadyAfterRequest, ReadyAfterShow
<1>3. ASSUME NEW w \in Workers,
             (\E f \in Images : Claim(w, f)) \/ Clean(w) \/ DeleteOriginal(w) \/ Fail(w)
      PROVE  ReadyInv'
  <2>1. UNCHANGED <<drafts, file>>
    BY <1>3 DEF Claim, Clean, DeleteOriginal, Fail
  <2>2. \A v \in Workers : Commits(v)' => Commits(v) /\ job'[v] = job[v]
    <3>1. job \in [Workers -> Job \union {Free}]
      BY DEF ReviewInv, Typed, TypeOK
    <3>2. CASE Clean(w)
      <4>1. job[w] \in Job
        BY <3>2, AtWork DEF Clean, ReviewInv, Typed
      <4>2. PICK step \in {"cleaned", "rejected", "missing"} :
               job' = [job EXCEPT ![w].step = step]
        BY <3>2 DEF Clean, Step
      <4> QED
        BY <3>1, <4>1, <4>2 DEF Commits, Committing, Busy, Job
    <3>3. CASE (\E f \in Images : Claim(w, f)) \/ DeleteOriginal(w) \/ Fail(w)
      BY <3>1, <3>3 DEF Claim, DeleteOriginal, Fail, Commits, Committing, Busy
    <3> QED
      BY <1>3, <3>2, <3>3
  <2> QED
    BY <2>1, <2>2, ReadyStays
<1>4. ASSUME NEW w \in Workers, TakeLocks(w)
      PROVE  ReadyInv'
  BY <1>4, ReadyAfterLocks
<1>5. ASSUME NEW w \in Workers, Commit(w)
      PROVE  ReadyInv'
  BY <1>5, ReadyAfterCommit
<1>6. CASE (\E f \in Images : Receive(f) \/ ExpireOriginal(f)) \/ Tick
  <2>1. UNCHANGED <<drafts, file, job>>
    BY <1>6, OutsideTyped DEF ReviewInv
  <2> QED
    BY <2>1, ReadyStays DEF Commits, Busy
<1>7. CASE UNCHANGED vars
  BY <1>7, ReadyStays DEF vars, Commits, Busy
<1> QED
  BY <1>1, <1>2, <1>3, <1>4, <1>5, <1>6, <1>7 DEF Next, Worker

LEMMA ReadyInvHolds == Spec => []ReadyInv
<1>1. Init => ReadyInv
  BY DEF Init, ReadyInv, NoFile, Commits, Busy
<1> QED
  BY <1>1, ReviewInvHolds, ReadyStep, PTL DEF Spec

(* However many workers clean a draft's images, and wherever each of them   *)
(* fails, the draft is ready exactly when none waits (_mark_draft_ready).   *)
THEOREM ReadyIsExact == Spec => []ReadyWhenImagesAreDone
<1>1. ReadyInv => ReadyWhenImagesAreDone
  BY DEF ReadyInv, ReadyWhenImagesAreDone, Waits
<1> QED
  BY <1>1, ReadyInvHolds, PTL

-----------------------------------------------------------------------------
(* What silence approves.                                                   *)

LEMMA SettledInTime ==
    ASSUME ReviewInv, ReadyInv, NEW d \in DOMAIN drafts, NEW now, Overdue(d, now)
    PROVE  /\ \A f \in Images : file[f] # NoFile /\ file[f].draft = d =>
                file[f].status \in {"cleaned", "rejected"}
           /\ drafts[d].ready # NoDay
           /\ AnswerDeadline(d) > drafts[d].ready + MinAnswerDays
           /\ deal.status = "cancelled" => deal.cancelledAt >= AnswerDeadline(d)
<1>1. drafts[d].ready # NoDay
  BY DEF Overdue, AnswerDeadline
<1>2. ASSUME NEW f \in Images, file[f] # NoFile, file[f].draft = d
      PROVE  file[f].status \in {"cleaned", "rejected"}
  <2>1. file[f] \in File /\ d # 0
    BY <1>2, DraftOf DEF ReviewInv, Typed, TypeOK, Rounds
  <2>2. f \notin Waits(d)
    BY <1>1 DEF ReadyInv
  <2>3. file[f].status # "pending"
    BY <1>2, <2>1 DEF ReadyInv
  <2> QED
    BY <1>2, <2>1, <2>2, <2>3 DEF Waits, File
<1>3. AnswerDeadline(d) > drafts[d].ready + MinAnswerDays
  <2>1. drafts[d].ready \in Int
    BY DraftOf, DayIsANumber DEF Draft, NoDay, ReviewInv, Typed
  <2>2. ReviewClockStart(d) \in Int
    BY ClockStartType DEF ReviewInv, Typed
  <2> QED
    BY <1>1, <2>1, <2>2, DaysAssumption DEF AnswerDeadline, Max2
<1>4. deal.status = "cancelled" => deal.cancelledAt >= AnswerDeadline(d)
  BY DEF Overdue, AgreedAt
<1> QED
  BY <1>1, <1>2, <1>3, <1>4

LEMMA SilenceStep ==
    ASSUME ReviewInv, ReadyInv, [Next]_vars, NEW d \in DOMAIN drafts,
           drafts'[d].auto, ~drafts[d].auto
    PROVE  \E r \in Requests :
              Overdue(d, req[r].now) /\ drafts'[d].answered = AnswerDeadline(d)
<1>1. drafts[d] \in Draft
  BY DraftOf DEF ReviewInv, Typed
<1>2. \/ \E r \in Requests : SettlesOne(r)
      \/ \E r \in Requests : AnswersOne(r)
      \/ \E w \in Workers :
            drafts'[d] = [drafts[d] EXCEPT !.ready = IF @ = NoDay THEN ReadyAt(w, d) ELSE @]
  <2>1. drafts'[d] # drafts[d]
    OBVIOUS
  <2>2. ~\E r \in Requests : SubmitDraft(r)
    BY <2>1, ShowIsNext
  <2>3. ~\E r \in Requests : SubmitProof(r)
    BY <2>1 DEF SubmitProof
  <2> QED
    BY <2>1, <2>2, <2>3, DraftsStep
<1>3. CASE \E r \in Requests : SettlesOne(r)
  <2>1. PICK r \in Requests : SettlesOne(r)
    BY <1>3
  <2>2. req[r].round = d
    BY <2>1 DEF SettlesOne, Only
  <2>3. /\ Overdue(d, req[r].now)
        /\ drafts'[d] = [drafts[d] EXCEPT !.status = "approved", !.auto = TRUE,
                                          !.answered = AnswerDeadline(d)]
    BY <2>1, <2>2 DEF SettlesOne, Only
  <2>4. drafts'[d].answered = AnswerDeadline(d)
    BY <1>1, <2>3 DEF Draft
  <2> QED
    BY <2>3, <2>4
<1>4. CASE \E r \in Requests : AnswersOne(r)
  <2>1. PICK r \in Requests : AnswersOne(r)
    BY <1>4
  <2>2. req[r].round = d
    BY <2>1 DEF AnswersOne, Only
  <2>3. PICK status \in {"approved", "changes_requested"} :
           drafts'[d] = [drafts[d] EXCEPT !.status = status, !.answered = req[r].now]
    BY <2>1, <2>2 DEF AnswersOne, Only
  <2> QED
    BY <1>1, <2>3 DEF Draft
<1>5. CASE \E w \in Workers :
             drafts'[d] = [drafts[d] EXCEPT !.ready = IF @ = NoDay THEN ReadyAt(w, d) ELSE @]
  BY <1>1, <1>5 DEF Draft
<1> QED
  BY <1>2, <1>3, <1>4, <1>5

(* Silence approves a draft only once every image of it could be opened,    *)
(* for the days the brand was promised, and on a deal still agreed when     *)
(* they ended (settle_if_overdue).                                          *)
THEOREM SilenceIsFair == Spec => SilenceHadItsDays
<1>1. ASSUME ReviewInv, ReadyInv, [Next]_vars
      PROVE  [\A d \in DOMAIN drafts : drafts'[d].auto /\ ~drafts[d].auto =>
                /\ \A f \in Images : file[f] # NoFile /\ file[f].draft = d =>
                      file[f].status \in {"cleaned", "rejected"}
                /\ drafts[d].ready # NoDay
                /\ drafts'[d].answered > drafts[d].ready + MinAnswerDays
                /\ deal.status = "cancelled" => deal.cancelledAt >= drafts'[d].answered]_vars
  BY <1>1, SilenceStep, SettledInTime
<1> QED
  BY <1>1, ReviewInvHolds, ReadyInvHolds, PTL DEF Spec, SilenceHadItsDays

-----------------------------------------------------------------------------
(* The dates the brand held drafts (draft_rules._held).                     *)

(* Drafts have one order, and it follows the days they were shown on.       *)
LEMMA ShownInOrder ==
    ASSUME TypeOK
    PROVE  /\ \A d \in DOMAIN drafts : drafts[d].created \in Nat /\ drafts[d].created <= MaxDay
           /\ \A d, e \in DOMAIN drafts :
                 /\ Before(d, e) => drafts[d].created <= drafts[e].created
                 /\ Before(d, e) => ~Before(e, d) /\ d # e
<1>1. ASSUME NEW d \in DOMAIN drafts
      PROVE  drafts[d].created \in Nat /\ drafts[d].created <= MaxDay /\ d \in Nat
  BY <1>1, DraftOf, DaysAssumption DEF Draft, Day
<1> QED
  BY <1>1 DEF Before

LEMMA SmallestOf ==
    ASSUME NEW T \in SUBSET Nat, T # {}
    PROVE  \E x \in T : \A y \in T : x <= y
<1> DEFINE Less == OpToRel(<, Nat)
<1>1. \A x, y \in Nat : y < x => <<y, x>> \in Less
  BY DEF OpToRel
<1>2. IsWellFoundedOn(Less, Nat)
  BY NatLessThanWellFounded
<1> HIDE DEF Less
<1>3. PICK x \in T : \A y \in T : ~(<<y, x>> \in Less)
  BY <1>2, WFMin
<1>4. \A y \in T : ~(y < x)
  BY <1>1, <1>3
<1> QED
  BY <1>4

LEMMA LastOfThese ==
    ASSUME TypeOK, NEW shown \in SUBSET DOMAIN drafts, shown # {}
    PROVE  /\ LastShown(shown) \in shown
           /\ \A e \in shown : e # LastShown(shown) => Before(e, LastShown(shown))
<1>1. \A d \in shown : /\ drafts[d].created \in Nat /\ drafts[d].created <= MaxDay
                       /\ d \in Nat /\ d <= Len(drafts)
  BY DraftOf, ShownInOrder DEF TypeOK
<1>2. MaxDay \in Nat /\ Len(drafts) \in Nat
  BY DaysAssumption DEF TypeOK
<1>3. PICK day \in {MaxDay - drafts[d].created : d \in shown} :
         \A other \in {MaxDay - drafts[d].created : d \in shown} : day <= other
  <2>1. {MaxDay - drafts[d].created : d \in shown} \in SUBSET Nat
    BY <1>1, <1>2
  <2>2. {MaxDay - drafts[d].created : d \in shown} # {}
    OBVIOUS
  <2> QED
    BY <2>1, <2>2, SmallestOf
<1> DEFINE lastDay == {d \in shown : MaxDay - drafts[d].created = day}
<1>4. PICK back \in {Len(drafts) - d : d \in lastDay} :
         \A other \in {Len(drafts) - d : d \in lastDay} : back <= other
  <2>1. {Len(drafts) - d : d \in lastDay} \in SUBSET Nat
    BY <1>1, <1>2
  <2>2. {Len(drafts) - d : d \in lastDay} # {}
    BY <1>3
  <2> QED
    BY <2>1, <2>2, SmallestOf
<1>5. PICK d \in lastDay : back = Len(drafts) - d
  BY <1>4
<1>6. ASSUME NEW e \in shown, e # d
      PROVE  Before(e, d)
  <2>1. MaxDay - drafts[d].created <= MaxDay - drafts[e].created
    BY <1>3, <1>5
  <2>2. drafts[e].created <= drafts[d].created
    BY <1>1, <1>2, <2>1
  <2>3. drafts[e].created = drafts[d].created => Len(drafts) - d <= Len(drafts) - e
    BY <1>4, <1>5
  <2>4. d \in shown /\ d \in Nat /\ e \in Nat
    BY <1>1, <1>5
  <2>5. drafts[e].created = drafts[d].created => e < d
    BY <1>2, <1>6, <2>3, <2>4
  <2>6. PICK m \in Nat, n \in Nat : m = drafts[e].created /\ n = drafts[d].created
    BY <1>1, <2>4
  <2>7. m < n \/ m = n
    BY <2>2, <2>6
  <2> QED
    BY <2>5, <2>6, <2>7 DEF Before
<1> QED
  BY <1>5, <1>6 DEF LastShown

(* Judging the drafts in the order shown is well defined.                   *)
JudgedAfter(held, shown, now) ==
    IF shown = {} THEN [inTime |-> {}, late |-> {}, ids |-> {}]
    ELSE Judge(held[shown \ {LastShown(shown)}], LastShown(shown), now)

LEMMA AllAreJudged ==
    ASSUME TypeOK, NEW now
    PROVE  HeldAmong(now) =
             [shown \in SUBSET DOMAIN drafts |-> JudgedAfter(HeldAmong(now), shown, now)]
<1> DEFINE Few(n) == {shown \in SUBSET DOMAIN drafts : Cardinality(shown) <= n}
           Judged(held, n) == held = [shown \in Few(n) |-> JudgedAfter(held, shown, now)]
<1>1. IsFiniteSet(DOMAIN drafts)
  BY FS_Interval DEF TypeOK
<1>2. \A shown \in SUBSET DOMAIN drafts : IsFiniteSet(shown) /\ Cardinality(shown) \in Nat
  BY <1>1, FS_Subset, FS_CardinalityType
<1>3. ASSUME NEW n \in Nat, ~\E held : Judged(held, n)
      PROVE  FALSE
  <2> DEFINE unsolved == {i \in Nat : ~\E held : Judged(held, i)}
  <2>1. PICK k \in unsolved : \A i \in unsolved : k <= i
    BY <1>3, SmallestOf
  <2>2. CASE k = 0
    <3> DEFINE held == [shown \in Few(0) |-> [inTime |-> {}, late |-> {}, ids |-> {}]]
    <3>1. \A shown \in Few(0) : shown = {}
      BY <1>2, FS_EmptySet
    <3>2. Judged(held, 0)
      BY <3>1 DEF JudgedAfter
    <3> QED
      BY <2>1, <2>2, <3>2
  <2>3. CASE k # 0
    <3>1. k - 1 \in Nat /\ k \in Nat
      BY <2>1, <2>3
    <3>2. PICK few : Judged(few, k - 1)
      <4>1. ~(k <= k - 1)
        BY <3>1
      <4>2. k - 1 \notin unsolved
        BY <2>1, <4>1
      <4> HIDE DEF Judged
      <4> QED
        BY <3>1, <4>2
    <3> DEFINE held == [shown \in Few(k) |-> JudgedAfter(few, shown, now)]
    <3>3. ASSUME NEW shown \in Few(k)
          PROVE  JudgedAfter(held, shown, now) = JudgedAfter(few, shown, now)
      <4>1. CASE shown = {}
        BY <4>1 DEF JudgedAfter
      <4>2. CASE shown # {}
        <5> DEFINE others == shown \ {LastShown(shown)}
        <5>1. others \in SUBSET DOMAIN drafts /\ Cardinality(others) = Cardinality(shown) - 1
          BY <1>2, <3>3, <4>2, LastOfThese, FS_RemoveElement
        <5>2. others \in Few(k - 1) /\ others \in Few(k)
          BY <1>2, <3>1, <3>3, <5>1
        <5>3. few[others] = JudgedAfter(few, others, now)
          BY <3>2, <5>2
        <5>4. held[others] = few[others]
          BY <5>2, <5>3
        <5> QED
          BY <5>4 DEF JudgedAfter
      <4> QED
        BY <4>1, <4>2
    <3>4. Judged(held, k)
      BY <3>3
    <3> QED
      BY <2>1, <3>4
  <2> QED
    BY <2>2, <2>3
<1> DEFINE all == Cardinality(DOMAIN drafts)
<1>4. all \in Nat /\ Few(all) = SUBSET DOMAIN drafts
  BY <1>1, <1>2, FS_Subset
<1>5. PICK held : held = [shown \in SUBSET DOMAIN drafts |-> JudgedAfter(held, shown, now)]
  BY <1>3, <1>4
<1> QED
  BY <1>5 DEF HeldAmong, JudgedAfter

LEMMA HeldDatesType ==
    ASSUME TypeOK, NEW now \in Int, NEW d \in DOMAIN drafts
    PROVE  /\ AnswerDay(d, now) \in Int
           /\ HeldDates(d, now) =
                drafts[d].created..Max2(AnswerDay(d, now), drafts[d].created)
           /\ Max2(AnswerDay(d, now), drafts[d].created) \in Int
           /\ Max2(AnswerDay(d, now), drafts[d].created) >= drafts[d].created
           /\ Max2(AnswerDay(d, now), drafts[d].created) >= AnswerDay(d, now)
<1>1. drafts[d].created \in Int /\ drafts[d].answered \in Int /\ deal.cancelledAt \in Int
  BY DraftOf, DayIsANumber DEF Draft, TypeOK, Deal, NoDay
<1>2. AnsweredAt(d, now) \in Int
  BY <1>1, DeadlineType DEF AnsweredAt, NoDay
<1>3. AnswerDay(d, now) \in Int
  BY <1>1, <1>2 DEF AnswerDay, Min2
<1> QED
  BY <1>1, <1>3 DEF HeldDates, Max2

(* The days from a showing in time to its answer, added to days that do not *)
(* reach the due date they moved, do not reach the one they move it to.     *)
LEMMA DueStaysAhead ==
    ASSUME NEW due \in Int, NEW held \in SUBSET Int, IsFiniteSet(held),
           \A day \in held : day < due + Cardinality(held),
           NEW first \in Int, NEW last \in Int, first <= due + Cardinality(held)
    PROVE  LET all == held \union (first..last)
           IN  /\ all \in SUBSET Int /\ IsFiniteSet(all)
               /\ \A day \in all : day < due + Cardinality(all)
<1> DEFINE all == held \union (first..last)
           moved == due + Cardinality(held)
           past == held \union (moved..last)
<1>1. Cardinality(held) \in Nat
  BY FS_CardinalityType
<1>2. /\ IsFiniteSet(first..last) /\ IsFiniteSet(moved..last)
      /\ Cardinality(moved..last) = IF moved > last THEN 0 ELSE last - moved + 1
  <2>1. moved \in Int
    BY <1>1
  <2> HIDE DEF moved
  <2> QED
    BY <2>1, FS_Interval
<1>3. all \in SUBSET Int /\ IsFiniteSet(all) /\ Cardinality(all) \in Nat
  <2>1. IsFiniteSet(all)
    BY <1>2, FS_Union
  <2>2. Cardinality(all) \in Nat
    BY <2>1, FS_CardinalityType
  <2> QED
    BY <2>1, <2>2
<1>4. held \intersect (moved..last) = {}
  BY <1>1
<1>5. Cardinality(past) = Cardinality(held) + Cardinality(moved..last)
  <2>1. Cardinality(held \intersect (moved..last)) = 0
    BY <1>4, FS_EmptySet
  <2>2. Cardinality(past) = Cardinality(held) + Cardinality(moved..last)
                              - Cardinality(held \intersect (moved..last))
    BY <1>2, FS_Union
  <2>3. Cardinality(moved..last) \in Nat
    BY <1>2, FS_CardinalityType
  <2> HIDE DEF moved, past
  <2> QED
    BY <1>1, <2>1, <2>2, <2>3
<1>6. Cardinality(past) <= Cardinality(all)
  <2>1. past \in SUBSET all
    BY <1>1
  <2> QED
    BY <1>3, <2>1, FS_Subset
<1>7. ASSUME NEW day \in all
      PROVE  day < due + Cardinality(all)
  BY <1>1, <1>2, <1>3, <1>5, <1>6, <1>7
<1> QED
  BY <1>3, <1>7

(* Some drafts judged fairly: the days are those of the drafts in time and  *)
(* of the others; who is in time comes before who is not; the due date is   *)
(* past every day that moved it, and before every late showing.             *)
JudgedFairly(held, shown, now) ==
    /\ held.ids \in SUBSET shown
    /\ held.inTime = UNION {HeldDates(d, now) : d \in held.ids}
    /\ held.late = UNION {HeldDates(d, now) : d \in shown \ held.ids}
    /\ held.inTime \in SUBSET Int /\ IsFiniteSet(held.inTime)
    /\ \A d \in shown, e \in held.ids : Before(d, e) => d \in held.ids
    /\ \A day \in held.inTime : day < DueOn + Cardinality(held.inTime)
    /\ \A d \in shown \ held.ids : drafts[d].created > DueOn + Cardinality(held.inTime)

HeldRecord == [inTime : SUBSET Int, late : SUBSET Int, ids : SUBSET Int]

LEMMA OneMoreIsFair ==
    ASSUME TypeOK, NEW now \in Int, NEW shown \in SUBSET DOMAIN drafts, shown # {},
           NEW held \in HeldRecord, JudgedFairly(held, shown \ {LastShown(shown)}, now)
    PROVE  /\ Judge(held, LastShown(shown), now) \in HeldRecord
           /\ JudgedFairly(Judge(held, LastShown(shown), now), shown, now)
<1> DEFINE last == LastShown(shown)
           new == Judge(held, last, now)
           dates == HeldDates(last, now)
<1>1. /\ last \in shown /\ last \in DOMAIN drafts
      /\ \A e \in shown : e # last => Before(e, last)
  BY LastOfThese
<1>2. PICK end \in Int : /\ dates = drafts[last].created..end
                         /\ end >= drafts[last].created
  BY <1>1, HeldDatesType
<1>3. /\ drafts[last].created \in Int
      /\ \A e \in shown : drafts[e].created \in Int
      /\ \A e \in shown : e # last => drafts[e].created <= drafts[last].created
      /\ \A e \in shown : ~Before(last, e)
  BY <1>1, ShownInOrder
<1>4. Cardinality(held.inTime) \in Nat /\ DueOn \in Int
  BY DaysAssumption, FS_CardinalityType DEF JudgedFairly
<1>5. dates \in SUBSET Int /\ last \in Int
  BY <1>1, <1>2 DEF TypeOK
<1> HIDE DEF last, dates
<1>6. CASE drafts[last].created > DueOn + Cardinality(held.inTime)
  <2>1. new = [held EXCEPT !.late = @ \union dates]
    BY <1>6 DEF Judge, dates
  <2> HIDE DEF new
  <2>2. /\ new.ids = held.ids /\ new.inTime = held.inTime /\ new.late = held.late \union dates
        /\ new \in HeldRecord
    BY <1>5, <2>1 DEF HeldRecord
  <2>3. shown \ new.ids = ((shown \ {last}) \ held.ids) \union {last}
    BY <1>1, <2>2 DEF JudgedFairly, last
  <2>4. new.late = UNION {HeldDates(d, now) : d \in shown \ new.ids}
    BY <2>2, <2>3 DEF JudgedFairly, last, dates
  <2>5. \A d \in shown, e \in new.ids : Before(d, e) => d \in new.ids
    BY <1>3, <2>2 DEF JudgedFairly, last
  <2>6. \A d \in shown \ new.ids : drafts[d].created > DueOn + Cardinality(new.inTime)
    BY <1>6, <2>2, <2>3 DEF JudgedFairly, last
  <2> QED
    BY <2>2, <2>4, <2>5, <2>6 DEF JudgedFairly, last, new
<1>7. CASE ~(drafts[last].created > DueOn + Cardinality(held.inTime))
  <2>1. new = [held EXCEPT !.inTime = @ \union dates, !.ids = @ \union {last}]
    BY <1>7 DEF Judge, dates
  <2> HIDE DEF new
  <2>2. /\ new.ids = held.ids \union {last} /\ new.inTime = held.inTime \union dates
        /\ new.late = held.late /\ new \in HeldRecord
    BY <1>5, <2>1 DEF HeldRecord
  <2>3. (shown \ {last}) \ held.ids = {}
    <3>1. ASSUME NEW d \in (shown \ {last}) \ held.ids
          PROVE  FALSE
      <4>1. drafts[d].created > DueOn + Cardinality(held.inTime)
        BY <3>1 DEF JudgedFairly, last
      <4>2. drafts[d].created <= drafts[last].created /\ drafts[d].created \in Int
        BY <1>3, <3>1
      <4> QED
        BY <1>3, <1>4, <1>7, <4>1, <4>2
    <3> QED
      BY <3>1
  <2>4. new.ids = shown
    BY <1>1, <2>2, <2>3 DEF JudgedFairly, last
  <2>5. new.inTime = UNION {HeldDates(d, now) : d \in new.ids}
    BY <2>2 DEF JudgedFairly, dates
  <2>6. new.late = UNION {HeldDates(d, now) : d \in shown \ new.ids}
    <3>1. new.late = UNION {HeldDates(d, now) : d \in {}}
      BY <2>2, <2>3 DEF JudgedFairly, last
    <3> QED
      BY <2>4, <3>1
  <2>7. /\ new.inTime \in SUBSET Int /\ IsFiniteSet(new.inTime)
        /\ \A day \in new.inTime : day < DueOn + Cardinality(new.inTime)
    <3>1. drafts[last].created <= DueOn + Cardinality(held.inTime)
      BY <1>3, <1>4, <1>7
    <3> QED
      <4>1. new.inTime = held.inTime \union (drafts[last].created..end)
        BY <1>2, <2>2
      <4>2. /\ held.inTime \in SUBSET Int /\ IsFiniteSet(held.inTime)
            /\ \A day \in held.inTime : day < DueOn + Cardinality(held.inTime)
        BY DEF JudgedFairly
      <4>3. PICK first \in Int : first = drafts[last].created
        BY <1>3
      <4>4. PICK before \in SUBSET Int : before = held.inTime
        BY <4>2
      <4>5. /\ IsFiniteSet(before) /\ \A day \in before : day < DueOn + Cardinality(before)
            /\ first <= DueOn + Cardinality(before)
        BY <3>1, <4>2, <4>3, <4>4
      <4>6. PICK after : after = before \union (first..end)
        OBVIOUS
      <4>7. /\ after \in SUBSET Int /\ IsFiniteSet(after)
            /\ \A day \in after : day < DueOn + Cardinality(after)
        BY <1>2, <1>4, <4>5, <4>6, DueStaysAhead
      <4>8. new.inTime = after
        BY <4>1, <4>3, <4>4, <4>6
      <4> QED
        BY <4>7, <4>8
  <2> QED
    BY <2>2, <2>4, <2>5, <2>6, <2>7 DEF JudgedFairly, last, new
<1> QED
  BY <1>6, <1>7

LEMMA AllJudgedFairly ==
    ASSUME TypeOK, NEW now \in Int
    PROVE  JudgedFairly(Held(now), DOMAIN drafts, now)
<1> DEFINE held == HeldAmong(now)
           Fair(shown) == held[shown] \in HeldRecord /\ JudgedFairly(held[shown], shown, now)
<1>1. IsFiniteSet(DOMAIN drafts)
  BY FS_Interval DEF TypeOK
<1>2. \A shown \in SUBSET DOMAIN drafts : IsFiniteSet(shown) /\ Cardinality(shown) \in Nat
  BY <1>1, FS_Subset, FS_CardinalityType
<1>3. \A shown \in SUBSET DOMAIN drafts : held[shown] = JudgedAfter(held, shown, now)
  BY AllAreJudged
<1> HIDE DEF held
<1>4. Fair({})
  <2>1. held[{}] = [inTime |-> {}, late |-> {}, ids |-> {}]
    BY <1>3 DEF JudgedAfter
  <2> QED
    BY <2>1, FS_EmptySet DEF JudgedFairly, HeldRecord
<1>5. ASSUME NEW shown \in SUBSET DOMAIN drafts, shown # {}, Fair(shown \ {LastShown(shown)})
      PROVE  Fair(shown)
  <2>1. held[shown] = Judge(held[shown \ {LastShown(shown)}], LastShown(shown), now)
    BY <1>3, <1>5 DEF JudgedAfter
  <2> QED
    BY <1>5, <2>1, OneMoreIsFair
<1> HIDE DEF Fair
<1>6. ASSUME NEW other \in SUBSET DOMAIN drafts, ~Fair(other)
      PROVE  FALSE
  <2> DEFINE sizes == {Cardinality(shown) : shown \in {s \in SUBSET DOMAIN drafts : ~Fair(s)}}
  <2>1. sizes \in SUBSET Nat /\ sizes # {}
    BY <1>2, <1>6
  <2>2. PICK size \in sizes : \A s \in sizes : size <= s
    BY <2>1, SmallestOf
  <2>3. PICK shown \in SUBSET DOMAIN drafts : ~Fair(shown) /\ Cardinality(shown) = size
    BY <2>2
  <2>4. shown # {}
    BY <1>4, <2>3
  <2> DEFINE others == shown \ {LastShown(shown)}
  <2>5. others \in SUBSET DOMAIN drafts /\ Cardinality(others) = Cardinality(shown) - 1
    BY <1>2, <2>3, <2>4, LastOfThese, FS_RemoveElement
  <2>6. ~Fair(others)
    BY <1>5, <2>3, <2>4
  <2>7. Cardinality(others) \in sizes
    BY <2>5, <2>6
  <2>8. size <= Cardinality(others)
    BY <2>2, <2>7
  <2>9. Cardinality(shown) \in Nat
    BY <1>2, <2>3
  <2> QED
    BY <2>3, <2>5, <2>8, <2>9
<1> QED
  BY <1>6 DEF Fair, Held, held

LEMMA HeldFairly ==
    ASSUME TypeOK
    PROVE  HeldDatesAreFair
<1> DEFINE held == Held(today)
<1>1. today \in Int
  BY DayIsANumber DEF TypeOK
<1>2. JudgedFairly(held, DOMAIN drafts, today)
  BY <1>1, AllJudgedFairly
<1>3. Cardinality(held.inTime) \in Nat /\ DueOn \in Int
  BY <1>2, DaysAssumption, FS_CardinalityType DEF JudgedFairly
<1>4. WholeDayAfterAnAnswer
  <2>1. ASSUME NEW d \in held.ids
        PROVE  DeliveryDueOn(today) > AnswerDay(d, today)
    <3>1. d \in DOMAIN drafts
      BY <1>2, <2>1 DEF JudgedFairly
    <3> DEFINE end == Max2(AnswerDay(d, today), drafts[d].created)
    <3>2. /\ end \in HeldDates(d, today) /\ end \in Int
          /\ AnswerDay(d, today) \in Int /\ end >= AnswerDay(d, today)
      BY <1>1, <3>1, HeldDatesType, ShownInOrder
    <3>3. end \in held.inTime
      BY <1>2, <2>1, <3>2 DEF JudgedFairly
    <3>4. end < DueOn + Cardinality(held.inTime)
      BY <1>2, <3>3 DEF JudgedFairly
    <3> QED
      BY <1>3, <3>2, <3>4 DEF DeliveryDueOn
  <2> QED
    BY <2>1 DEF WholeDayAfterAnAnswer
<1>5. held.inTime \intersect held.late = {}
  <2>1. ASSUME NEW day \in held.inTime, day \in held.late
        PROVE  FALSE
    <3>1. PICK d \in DOMAIN drafts \ held.ids : day \in HeldDates(d, today)
      BY <1>2, <2>1 DEF JudgedFairly
    <3>2. day \in Int /\ day < DueOn + Cardinality(held.inTime)
      BY <1>2, <2>1 DEF JudgedFairly
    <3>3. drafts[d].created > DueOn + Cardinality(held.inTime) /\ drafts[d].created \in Int
      BY <1>2, <3>1, ShownInOrder DEF JudgedFairly
    <3>4. drafts[d].created <= day
      <4>1. PICK end \in Int : HeldDates(d, today) = drafts[d].created..end
        BY <1>1, <3>1, HeldDatesType
      <4> QED
        BY <3>1, <3>2, <3>3, <4>1
    <3> QED
      BY <1>3, <3>2, <3>3, <3>4
  <2> QED
    BY <2>1
<1>6. LateDatesAreApart
  BY <1>2, <1>5 DEF LateDatesAreApart, JudgedFairly
<1> QED
  BY <1>4, <1>6 DEF HeldDatesAreFair

(* The dates the brand held drafts are charged to the right side, in        *)
(* whatever order and on whatever days drafts were shown and answered       *)
(* (draft_rules._held, due_and_late_days).                                  *)
THEOREM HeldDatesStayFair == Spec => []HeldDatesAreFair
<1>1. ReviewInv => HeldDatesAreFair
  BY HeldFairly DEF ReviewInv, Typed
<1> QED
  BY <1>1, ReviewInvHolds, PTL

=============================================================================
