--------------------------- MODULE DealMemoProofs ---------------------------
(* Proofs about one deal (DealMemo) for any number of requests, any terms,   *)
(* any approval window and any bounds.                                       *)
EXTENDS DealMemo, SequenceTheorems, FiniteSetTheorems, TLAPS

(* What the transactions build from well-typed parts is well typed.          *)

LEMMA InFlight ==
    ASSUME TypeOK, NEW r \in Requests, req[r] # Idle
    PROVE  req[r] \in Request
BY DEF TypeOK

LEMMA ClockType ==
    ASSUME TypeOK, NEW p \in DOMAIN proofs
    PROVE  ApprovalDeadline(p) \in Int
<1> DEFINE Second(i) == Cardinality({j \in EarlierThan(p) : Before(j, i)}) = 1
<1>1. \A i \in DOMAIN proofs : proofs[i].created \in Int
  <2> SUFFICES ASSUME NEW i \in DOMAIN proofs PROVE proofs[i].created \in Int
    OBVIOUS
  <2>1. i \in 1..Len(proofs) /\ proofs \in Seq(Proof)
    BY LenProperties DEF TypeOK
  <2>2. proofs[i] \in Proof
    BY <2>1, ElementOfSeq
  <2> QED
    BY <2>2, BoundsAssumption DEF Proof, Day
<1>2. CASE \E i \in EarlierThan(p) : Second(i)
  <2>1. (CHOOSE i \in EarlierThan(p) : Second(i)) \in EarlierThan(p)
    BY <1>2
  <2>2. ReviewClockStart(p) \in Int
    BY <1>1, <1>2, <2>1 DEF ReviewClockStart, EarlierThan
  <2> QED
    BY <2>2, WindowAssumption DEF ApprovalDeadline
<1>3. CASE ~\E i \in EarlierThan(p) : Second(i)
  BY <1>1, <1>3, WindowAssumption DEF ApprovalDeadline, ReviewClockStart
<1> QED
  BY <1>2, <1>3

LEMMA EntryType ==
    ASSUME NEW kind \in RecordKinds, NEW actor \in {"brand", "creator", "system"},
           NEW occurred \in Int, NEW now \in Day,
           NEW terms \in TermsSet \union {NoTerms}, NEW p \in 0..MaxProofs
    PROVE  EntryOf(kind, actor, occurred, now, terms, p) \in Entry
BY DEF EntryOf, Entry

LEMMA SealedType ==
    ASSUME TypeOK, NEW entry \in Entry, NEW terms \in TermsSet
    PROVE  /\ Sealed(entry, terms) \in Seq(Entry)
           /\ Len(Sealed(entry, terms)) > Len(record)
<1> DEFINE started == EntryOf("record_started", "system", entry.recorded,
                              entry.recorded, terms, 0)
<1>1. started \in Entry
  <2>1. entry.recorded \in Day
    BY DEF Entry
  <2> QED
    BY <2>1, EntryType, BoundsAssumption DEF RecordKinds, Day
<1>2. record \in Seq(Entry)
  BY DEF TypeOK
<1>3. CASE record = <<>> /\ (entry.kind # "memo_sent" \/ memo.revisions > 0)
  BY <1>1, <1>3 DEF Sealed
<1>4. CASE ~(record = <<>> /\ (entry.kind # "memo_sent" \/ memo.revisions > 0))
  BY <1>2, <1>4 DEF Sealed
<1> QED
  BY <1>3, <1>4

LEMMA ApproveType ==
    ASSUME TypeOK, NEW p \in DOMAIN proofs,
           NEW kind \in RecordKinds, NEW actor \in {"brand", "system"},
           NEW at \in Int, NEW now \in Day,
           Approve(p, kind, actor, at, now)
    PROVE  /\ proofs' \in Seq(Proof)
           /\ Len(proofs') = Len(proofs)
           /\ payments' \in Seq(Payment)
           /\ record' \in Seq(Entry)
<1> DEFINE first == EntryOf(kind, actor, at, now, NoTerms, p)
           opened == EntryOf("payment_opened", "system", now, now, NoTerms, 0)
<1>1. p \in 1..Len(proofs) /\ p \in 0..MaxProofs /\ proofs[p] \in Proof
  BY ElementOfSeq, LenProperties, BoundsAssumption DEF TypeOK
<1>2. first \in Entry /\ opened \in Entry
  BY SMTT(30), <1>1, EntryType, BoundsAssumption DEF RecordKinds, Day
<1>3. memo.terms \in TermsSet /\ memo.terms.fee \in Nat
  BY TermsAssumption DEF TypeOK, Memo, TermsSet
<1>4. Sealed(first, memo.terms) \in Seq(Entry)
  BY <1>2, <1>3, SealedType
<1>5. record' \in Seq(Entry)
  BY <1>2, <1>4 DEF Approve
<1>6. payments' \in Seq(Payment)
  <2>1. [amount |-> memo.terms.fee, dueOn |-> at + PaymentDue] \in Payment
    BY <1>3, WindowAssumption DEF Payment
  <2> QED
    BY <2>1 DEF Approve, TypeOK
<1>7. proofs' \in Seq(Proof) /\ Len(proofs') = Len(proofs)
  <2> DEFINE approved == [proofs[p] EXCEPT !.status = "approved",
                                           !.approvedAt = at,
                                           !.auto = (actor = "system")]
  <2>1. approved \in Proof
    BY <1>1 DEF Proof, ProofStatuses
  <2>2. proofs' = [proofs EXCEPT ![p] = approved]
    BY DEF Approve
  <2> QED
    BY <1>1, <2>1, <2>2, ExceptSeq DEF TypeOK
<1> QED
  BY <1>5, <1>6, <1>7

(* A request about a submission names one that exists.                       *)
AnswersNameAProof ==
    \A r \in Requests :
        (req[r] # Idle /\ req[r].op \in AnswerOps \union EitherOps) =>
            req[r].proof \in DOMAIN proofs

Typed == TypeOK /\ AnswersNameAProof

LEMMA FinishType ==
    ASSUME TypeOK, NEW r \in Requests, Finish(r)
    PROVE  /\ req' \in [Requests -> Request \union {Idle}]
           /\ \A s \in Requests : req'[s] # Idle => req'[s] = req[s]
BY DEF TypeOK, Finish

LEMMA ToMoveType ==
    ASSUME TypeOK, NEW r \in Requests, req[r] # Idle,
           req' = [req EXCEPT ![r].stage = "move"]
    PROVE  /\ req' \in [Requests -> Request \union {Idle}]
           /\ \A s \in Requests : req'[s] # Idle =>
                 /\ req[s] # Idle
                 /\ req'[s].op = req[s].op
                 /\ req'[s].proof = req[s].proof
                 /\ req'[s].row = req[s].row /\ req'[s].new = req[s].new
<1>1. req[r] \in Request
  BY InFlight
<1>2. [req[r] EXCEPT !.stage = "move"] \in Request
  BY <1>1 DEF Request
<1>3. req' = [req EXCEPT ![r] = [req[r] EXCEPT !.stage = "move"]]
  OBVIOUS
<1>4. /\ [req[r] EXCEPT !.stage = "move"].op = req[r].op
      /\ [req[r] EXCEPT !.stage = "move"].proof = req[r].proof
      /\ [req[r] EXCEPT !.stage = "move"].row = req[r].row
      /\ [req[r] EXCEPT !.stage = "move"].new = req[r].new
  BY <1>1 DEF Request
<1> QED
  BY <1>2, <1>3, <1>4 DEF TypeOK

LEMMA InitTyped == Init => Typed
<1> SUFFICES ASSUME Init PROVE Typed
  OBVIOUS
<1>1. memo \in Memo
  <2>1. ASSUME NEW status \in MemoStatuses, NEW terms \in TermsSet,
               NEW revisions \in 0..MaxRevisions
        PROVE  NewMemo(status, terms, revisions) \in Memo
    BY DEF NewMemo, Memo, CancellationKinds
  <2>2. 0 \in 0..MaxRevisions /\ (MaxRevisions > 0 => 1 \in 0..MaxRevisions)
    BY BoundsAssumption
  <2> QED
    BY <2>1, <2>2 DEF Init, MemoStatuses
<1>2. req \in [Requests -> Request \union {Idle}]
  BY DEF Init
<1>3. today \in Day
  BY BoundsAssumption DEF Init, Day
<1>4. record \in Seq(Entry) /\ proofs \in Seq(Proof) /\ payments \in Seq(Payment)
      /\ Len(proofs) <= MaxProofs
  BY BoundsAssumption DEF Init
<1> QED
  BY <1>1, <1>2, <1>3, <1>4 DEF Typed, TypeOK, AnswersNameAProof, Init

LEMMA ReadTyped ==
    ASSUME Typed, NEW r \in Requests, NEW op \in Ops, NEW new \in TermsSet,
           NEW p \in 0..MaxProofs, NEW stage \in {"settle", "move"},
           op \in AnswerOps \union EitherOps => p \in DOMAIN proofs,
           Read(r, op, new, p, stage)
    PROVE  Typed'
<1> DEFINE q == [op |-> op, now |-> today,
                 row |-> [terms |-> memo.terms, sent |-> memo.sent],
                 new |-> new, proof |-> p, stage |-> stage]
<1>1. q \in Request
  BY DEF Request, Typed, TypeOK, Memo
<1>2. req' = [req EXCEPT ![r] = q]
  BY DEF Read
<1>3. TypeOK'
  BY <1>1, <1>2 DEF Read, Typed, TypeOK
<1>4. AnswersNameAProof'
  BY <1>2 DEF Read, Typed, TypeOK, AnswersNameAProof
<1> QED
  BY <1>3, <1>4 DEF Typed

LEMMA ReadsTyped ==
    ASSUME Typed, NEW r \in Requests, Reads(r)
    PROVE  Typed'
<1>1. ASSUME NEW new \in TermsSet, ReadForUpdate(r, new)
      PROVE  Typed'
  BY <1>1, ReadTyped, BoundsAssumption
     DEF ReadForUpdate, Ops, BrandOps, AnswerOps, EitherOps
<1>2. ASSUME NEW op \in {"send", "cancel"} \union CreatorOps, ReadForMove(r, op)
      PROVE  Typed'
  <2>1. memo.terms \in TermsSet
    BY DEF Typed, TypeOK, Memo
  <2> QED
    BY <1>2, <2>1, ReadTyped, BoundsAssumption
       DEF ReadForMove, Ops, BrandOps, CreatorOps, AnswerOps, EitherOps
<1>3. ASSUME NEW p \in DOMAIN proofs,
             \/ \E op \in AnswerOps : ReadForAnswer(r, op, p)
             \/ ReadForLook(r, p)
      PROVE  Typed'
  <2>1. memo.terms \in TermsSet
    BY DEF Typed, TypeOK, Memo
  <2>2. p \in 0..MaxProofs
    BY LenProperties, BoundsAssumption DEF Typed, TypeOK
  <2>3. ASSUME NEW op \in AnswerOps, ReadForAnswer(r, op, p)
        PROVE  Typed'
    BY <2>1, <2>2, <2>3, ReadTyped DEF ReadForAnswer, Ops, BrandOps, AnswerOps
  <2>4. CASE ReadForLook(r, p)
    BY <2>1, <2>2, <2>4, ReadTyped DEF ReadForLook, Ops, EitherOps
  <2> QED
    BY <1>3, <2>3, <2>4
<1> QED
  BY <1>1, <1>2, <1>3 DEF Reads

LEMMA RequestParts ==
    ASSUME TypeOK, NEW r \in Requests, req[r] # Idle
    PROVE  /\ req[r].op \in Ops
           /\ req[r].now \in Day /\ req[r].now \in Int
           /\ req[r].row.terms \in TermsSet
           /\ req[r].new \in TermsSet
           /\ req[r].proof \in 0..MaxProofs
BY InFlight, BoundsAssumption DEF Request, Day

(* A transaction that moves the memo and adds to the record is well typed.   *)
LEMMA MoveTyped ==
    ASSUME Typed, NEW r \in Requests, Finish(r),
           memo' \in Memo, record' \in Seq(Entry),
           UNCHANGED <<proofs, payments, today>>
    PROVE  Typed'
<1>1. TypeOK'
  BY FinishType DEF Typed, TypeOK
<1>2. AnswersNameAProof'
  BY FinishType DEF Typed, AnswersNameAProof
<1> QED
  BY <1>1, <1>2 DEF Typed

LEMMA UpdateTyped ==
    ASSUME Typed, NEW r \in Requests, Update(r)
    PROVE  Typed'
<1>1. req[r].new \in TermsSet
  BY RequestParts DEF Update, Runs, Typed
<1>2. memo' \in Memo
  BY <1>1 DEF Update, Typed, TypeOK, Memo, TermsSet
<1> QED
  BY <1>2, MoveTyped DEF Update, Typed, TypeOK

LEMMA SealedMoveType ==
    ASSUME Typed, NEW r \in Requests, req[r] # Idle,
           NEW kind \in RecordKinds, NEW actor \in {"brand", "creator"},
           NEW terms \in TermsSet \union {NoTerms}
    PROVE  /\ Sealed(EntryOf(kind, actor, req[r].now, req[r].now, terms, 0),
                     req[r].row.terms) \in Seq(Entry)
           /\ Len(Sealed(EntryOf(kind, actor, req[r].now, req[r].now, terms, 0),
                         req[r].row.terms)) > Len(record)
<1>1. EntryOf(kind, actor, req[r].now, req[r].now, terms, 0) \in Entry
  BY RequestParts, EntryType, BoundsAssumption DEF Typed
<1> QED
  BY <1>1, RequestParts, SealedType DEF Typed

LEMMA SendTyped ==
    ASSUME Typed, NEW r \in Requests, Send(r)
    PROVE  Typed'
<1>1. memo' \in Memo
  BY DEF Send, Typed, TypeOK, Memo, MemoStatuses
<1>2. record' \in Seq(Entry)
  BY SealedMoveType, RequestParts DEF Send, Runs, Typed, RecordKinds
<1> QED
  BY <1>1, <1>2, MoveTyped DEF Send

LEMMA AcceptTyped ==
    ASSUME Typed, NEW r \in Requests, Accept(r)
    PROVE  Typed'
<1>1. memo' \in Memo
  BY DEF Accept, Typed, TypeOK, Memo, MemoStatuses
<1>2. record' \in Seq(Entry)
  BY SealedMoveType, RequestParts DEF Accept, Runs, Typed, RecordKinds
<1> QED
  BY <1>1, <1>2, MoveTyped DEF Accept

LEMMA DeclineTyped ==
    ASSUME Typed, NEW r \in Requests, Decline(r)
    PROVE  Typed'
<1>1. memo' \in Memo
  BY DEF Decline, Typed, TypeOK, Memo, MemoStatuses
<1>2. record' \in Seq(Entry)
  BY SealedMoveType, RequestParts DEF Decline, Runs, Typed, RecordKinds
<1> QED
  BY <1>1, <1>2, MoveTyped DEF Decline

LEMMA RequestChangeTyped ==
    ASSUME Typed, NEW r \in Requests, RequestChange(r)
    PROVE  Typed'
<1>1. memo.revisions < MaxRevisions
  BY DEF RequestChange, Runs, Permitted, AnswerOps
<1>2. memo' \in Memo
  <2>1. memo \in Memo /\ memo.revisions + 1 \in 0..MaxRevisions
    BY <1>1, BoundsAssumption DEF Typed, TypeOK, Memo
  <2> QED
    BY <2>1 DEF RequestChange, Memo, MemoStatuses
<1>3. record' \in Seq(Entry)
  BY SealedMoveType, RequestParts DEF RequestChange, Runs, Typed, RecordKinds
<1> QED
  BY <1>2, <1>3, MoveTyped DEF RequestChange

LEMMA CancelTyped ==
    ASSUME Typed, NEW r \in Requests, Cancel(r)
    PROVE  Typed'
<1> DEFINE actor == IF req[r].op = "cancel" THEN "brand" ELSE "creator"
<1>1. KindOfCancellation(actor) \in CancellationKinds
  BY DEF KindOfCancellation, CancellationKinds
<1>2. memo' \in Memo
  BY <1>1, RequestParts DEF Cancel, Runs, Typed, TypeOK, Memo, MemoStatuses
<1>3. record' \in Seq(Entry)
  <2>1. actor \in {"brand", "creator"} /\ req[r] # Idle
    BY DEF Cancel, Runs
  <2> DEFINE sealed == Sealed(EntryOf("memo_cancelled", actor, req[r].now,
                                     req[r].now, NoTerms, 0), req[r].row.terms)
  <2>2. sealed \in Seq(Entry)
    BY <2>1, SealedMoveType DEF RecordKinds
  <2>3. record' = IF req[r].row.sent THEN sealed ELSE record
    BY DEF Cancel
  <2> QED
    BY <2>2, <2>3 DEF Typed, TypeOK
<1> QED
  BY <1>2, <1>3, MoveTyped DEF Cancel

LEMMA SubmitProofTyped ==
    ASSUME Typed, NEW r \in Requests, SubmitProof(r)
    PROVE  Typed'
<1> DEFINE new == [status |-> "submitted", created |-> req[r].now,
                   approvedAt |-> NoDay, auto |-> FALSE]
           entry == EntryOf("proof_submitted", "creator", req[r].now, req[r].now,
                            NoTerms, Len(proofs) + 1)
<1>1. req[r] # Idle /\ Len(proofs) < MaxProofs
  BY DEF SubmitProof, Runs, Permitted, AnswerOps
<1>2. new \in Proof
  BY <1>1, RequestParts DEF Typed, Proof, ProofStatuses, NoDay
<1>3. /\ proofs' \in Seq(Proof)
      /\ Len(proofs') = Len(proofs) + 1
      /\ DOMAIN proofs \subseteq DOMAIN proofs'
  BY <1>2, LenProperties DEF SubmitProof, Typed, TypeOK
<1>4. entry \in Entry
  <2>1. Len(proofs) + 1 \in 0..MaxProofs
    BY <1>1, LenProperties, BoundsAssumption DEF Typed, TypeOK
  <2> QED
    BY <1>1, <2>1, RequestParts, EntryType DEF Typed, RecordKinds
<1>5. record' \in Seq(Entry)
  BY <1>4, SealedType DEF SubmitProof, Typed, TypeOK, Memo
<1>6. memo' \in Memo
  BY DEF SubmitProof, Typed, TypeOK, Memo
<1>7. Len(proofs') <= MaxProofs
  BY <1>1, <1>3, LenProperties, BoundsAssumption DEF Typed, TypeOK
<1>8. TypeOK'
  BY <1>3, <1>5, <1>6, <1>7, FinishType DEF SubmitProof, Typed, TypeOK
<1>9. AnswersNameAProof'
  BY <1>3, FinishType DEF SubmitProof, Typed, AnswersNameAProof
<1> QED
  BY <1>8, <1>9 DEF Typed

(* An approval leaves the state well typed, whatever becomes of the request. *)
LEMMA ApproveTyped ==
    ASSUME Typed, NEW p \in DOMAIN proofs,
           NEW kind \in RecordKinds, NEW actor \in {"brand", "system"},
           NEW at \in Int, NEW now \in Day,
           Approve(p, kind, actor, at, now),
           UNCHANGED <<memo, today>>,
           req' \in [Requests -> Request \union {Idle}],
           \A s \in Requests : req'[s] # Idle =>
               req[s] # Idle /\ req'[s].op = req[s].op /\ req'[s].proof = req[s].proof
    PROVE  Typed'
<1>1. /\ proofs' \in Seq(Proof) /\ Len(proofs') = Len(proofs)
      /\ payments' \in Seq(Payment) /\ record' \in Seq(Entry)
  BY ApproveType DEF Typed
<1>2. TypeOK'
  BY <1>1 DEF Typed, TypeOK
<1>3. DOMAIN proofs' = DOMAIN proofs
  BY <1>1, LenProperties DEF Typed, TypeOK
<1>4. AnswersNameAProof'
  BY <1>3 DEF Typed, AnswersNameAProof
<1> QED
  BY <1>2, <1>4 DEF Typed

LEMMA AnswersTyped ==
    ASSUME Typed, NEW r \in Requests,
           SettleIfOverdue(r) \/ ApproveProof(r)
    PROVE  Typed'
<1>1. /\ req[r] # Idle
      /\ req[r].proof \in DOMAIN proofs
      /\ req[r].now \in Day /\ req[r].now \in Int
  BY RequestParts
     DEF SettleIfOverdue, ApproveProof, Runs, AnswerOps, Typed, AnswersNameAProof
<1>2. ApprovalDeadline(req[r].proof) \in Int
  BY <1>1, ClockType DEF Typed
<1>3. /\ req' \in [Requests -> Request \union {Idle}]
      /\ \A s \in Requests : req'[s] # Idle =>
            req[s] # Idle /\ req'[s].op = req[s].op /\ req'[s].proof = req[s].proof
  BY <1>1, FinishType, ToMoveType DEF SettleIfOverdue, ApproveProof, Typed
<1>4. CASE SettleIfOverdue(r)
  BY <1>1, <1>2, <1>3, <1>4, ApproveTyped DEF SettleIfOverdue, ClockApproves, RecordKinds
<1>5. CASE ApproveProof(r)
  BY <1>1, <1>3, <1>5, ApproveTyped DEF ApproveProof, RecordKinds
<1> QED
  BY <1>4, <1>5

LEMMA RequestRevisionTyped ==
    ASSUME Typed, NEW r \in Requests, RequestRevision(r)
    PROVE  Typed'
<1> DEFINE p == req[r].proof
           revised == [proofs[p] EXCEPT !.status = "revision_requested"]
<1>1. /\ req[r] # Idle
      /\ p \in DOMAIN proofs
      /\ req[r].now \in Day /\ req[r].now \in Int
  BY RequestParts DEF RequestRevision, Runs, AnswerOps, Typed, AnswersNameAProof
<1>2. p \in 1..Len(proofs) /\ p \in 0..MaxProofs /\ proofs[p] \in Proof
  BY <1>1, ElementOfSeq, LenProperties, BoundsAssumption DEF Typed, TypeOK
<1>3. revised \in Proof
  BY <1>2 DEF Proof, ProofStatuses
<1>4. proofs' \in Seq(Proof) /\ Len(proofs') = Len(proofs)
  <2>1. proofs' = [proofs EXCEPT ![p] = revised]
    BY DEF RequestRevision
  <2> QED
    BY <1>2, <1>3, <2>1, ExceptSeq DEF Typed, TypeOK
<1>5. record' \in Seq(Entry)
  <2>1. EntryOf("proof_revision_requested", "brand", req[r].now, req[r].now,
                NoTerms, p) \in Entry
    BY <1>1, <1>2, EntryType DEF RecordKinds
  <2> QED
    BY <2>1, SealedType DEF RequestRevision, Typed, TypeOK, Memo
<1>6. TypeOK'
  BY <1>4, <1>5, FinishType DEF RequestRevision, Typed, TypeOK
<1>7. DOMAIN proofs' = DOMAIN proofs
  BY <1>4, LenProperties DEF Typed, TypeOK
<1>8. AnswersNameAProof'
  BY <1>7, FinishType DEF RequestRevision, Typed, AnswersNameAProof
<1> QED
  BY <1>6, <1>8 DEF Typed

LEMMA RefuseTyped ==
    ASSUME Typed, NEW r \in Requests, Refuse(r)
    PROVE  Typed'
<1>1. /\ req' \in [Requests -> Request \union {Idle}]
      /\ \A s \in Requests : req'[s] # Idle =>
            req[s] # Idle /\ req'[s].op = req[s].op /\ req'[s].proof = req[s].proof
  BY FinishType, ToMoveType DEF Refuse, Typed
<1>2. TypeOK'
  BY <1>1 DEF Refuse, Typed, TypeOK
<1>3. AnswersNameAProof'
  BY <1>1 DEF Refuse, Typed, AnswersNameAProof
<1> QED
  BY <1>2, <1>3 DEF Typed

LEMMA NextDayTyped ==
    ASSUME Typed, NextDay
    PROVE  Typed'
<1>1. today' \in Day
  BY BoundsAssumption DEF NextDay, Typed, TypeOK, Day
<1> QED
  BY <1>1 DEF NextDay, Typed, TypeOK, AnswersNameAProof

LEMMA StepTyped == Typed /\ [Next]_vars => Typed'
<1> SUFFICES ASSUME Typed, [Next]_vars PROVE Typed'
  OBVIOUS
<1>1. CASE NextDay
  BY <1>1, NextDayTyped
<1>2. ASSUME NEW r \in Requests, Reads(r) PROVE Typed'
  BY <1>2, ReadsTyped
<1>3. ASSUME NEW r \in Requests, Transacts(r) PROVE Typed'
  BY <1>3, UpdateTyped, SendTyped, AcceptTyped, DeclineTyped, RequestChangeTyped,
     CancelTyped, SubmitProofTyped, AnswersTyped, RequestRevisionTyped, RefuseTyped
     DEF Transacts
<1>4. CASE UNCHANGED vars
  BY <1>4 DEF vars, Typed, TypeOK, AnswersNameAProof
<1> QED
  BY <1>1, <1>2, <1>3, <1>4 DEF Next

LEMMA AlwaysTyped == Spec => []Typed
BY InitTyped, StepTyped, PTL DEF Spec

(* In every deal each row, entry and request in flight is one the source's   *)
(* models and services can write.                                            *)
THEOREM TypeCorrect == Spec => []TypeOK
<1>1. Typed => TypeOK
  BY DEF Typed
<1> QED
  BY <1>1, AlwaysTyped, PTL

-----------------------------------------------------------------------------
(* What one step does to the deal, whichever request takes it.               *)

MovesTheMemo ==
    /\ UNCHANGED <<proofs, payments>>
    /\ \/ UNCHANGED memo
       \/ \E terms \in TermsSet : memo' = [memo EXCEPT !.terms = terms]
       \/ /\ memo.status \in EditableStatuses
          /\ memo' = [memo EXCEPT !.status = "sent", !.sent = TRUE]
       \/ /\ memo.status = "sent"
          /\ memo' = [memo EXCEPT !.status = "accepted"]
       \/ /\ memo.status = "sent"
          /\ memo' = [memo EXCEPT !.status = "declined"]
       \/ /\ memo.status = "sent"
          /\ memo' = [memo EXCEPT !.status = "change_requested", !.revisions = @ + 1]
       \/ /\ memo.status \in EditableStatuses \union {"sent", "accepted"}
          /\ \E actor \in {"brand", "creator"}, now \in Day :
                /\ memo' = [memo EXCEPT !.status = "cancelled", !.cancelledAt = now,
                                        !.kind = KindOfCancellation(actor)]
                /\ (actor = "brand" /\ memo.status = "accepted") => NoProofWaiting(now)

SubmitsWork ==
    /\ memo.status = "accepted"
    /\ NoneWaiting
    /\ \E now \in Day :
          proofs' = Append(proofs, [status |-> "submitted", created |-> now,
                                    approvedAt |-> NoDay, auto |-> FALSE])
    /\ memo' = [memo EXCEPT !.workStarted = TRUE]
    /\ UNCHANGED payments

ApprovesWork(p) ==
    /\ Waiting(p)
    /\ \E kind \in RecordKinds, at \in Int, now \in Day :
          \/ /\ memo.status = "accepted"
             /\ Approve(p, kind, "brand", at, now)
          \/ /\ AgreedAt(at) /\ at = ApprovalDeadline(p)
             /\ Approve(p, kind, "system", at, now)
    /\ UNCHANGED memo

ReturnsWork(p) ==
    /\ Waiting(p)
    /\ memo.status = "accepted"
    /\ proofs' = [proofs EXCEPT ![p].status = "revision_requested"]
    /\ UNCHANGED <<memo, payments>>

LEMMA MemoSteps ==
    ASSUME Typed, NEW r \in Requests,
           \/ Update(r) \/ Send(r) \/ Accept(r) \/ Decline(r) \/ RequestChange(r)
           \/ Cancel(r)
    PROVE  MovesTheMemo
<1>1. memo \in Memo
  BY DEF Typed, TypeOK
<1>2. CASE Update(r)
  <2> DEFINE old == req[r].row.terms
             new == req[r].new
             terms == [fee |-> IF new.fee # old.fee THEN new.fee ELSE memo.terms.fee,
                       due |-> IF new.due # old.due THEN new.due ELSE memo.terms.due]
  <2>1. terms \in TermsSet
    BY <1>1, <1>2, RequestParts DEF Update, Runs, Typed, Memo, TermsSet
  <2>2. memo' = [memo EXCEPT !.terms = terms]
    <3>1. memo.terms \in TermsSet
      BY <1>1 DEF Memo
    <3>2. [memo.terms EXCEPT !.fee = terms.fee, !.due = terms.due] = terms
      BY <3>1 DEF TermsSet
    <3>3. memo' = [memo EXCEPT !.terms = [memo.terms EXCEPT !.fee = terms.fee,
                                                            !.due = terms.due]]
      BY <1>1, <1>2, <3>1 DEF Update, Memo, TermsSet
    <3> QED
      BY <3>2, <3>3
  <2> QED
    BY <1>2, <2>1, <2>2 DEF Update, MovesTheMemo
<1>3. CASE Send(r)
  <2>1. memo.status \in EditableStatuses
    BY <1>1, <1>3 DEF Send, Runs, Permitted, CanMove, BrandTransitions, Memo, AnswerOps,
       EditableStatuses, MemoStatuses
  <2> QED
    BY <1>3, <2>1 DEF Send, MovesTheMemo
<1>4. ASSUME Accept(r) \/ Decline(r) \/ RequestChange(r)
      PROVE  memo.status = "sent"
  BY <1>1, <1>4 DEF Accept, Decline, RequestChange, Runs, Permitted, CanMove,
     CreatorTransitions, Memo, AnswerOps, MemoStatuses
<1>5. CASE Accept(r) \/ Decline(r) \/ RequestChange(r)
  BY <1>4, <1>5 DEF Accept, Decline, RequestChange, MovesTheMemo
<1>6. CASE Cancel(r)
  <2> DEFINE actor == IF req[r].op = "cancel" THEN "brand" ELSE "creator"
  <2>1. req[r].now \in Day
    BY <1>6, RequestParts DEF Cancel, Runs, Typed
  <2>2. memo' = [memo EXCEPT !.status = "cancelled", !.cancelledAt = req[r].now,
                             !.kind = KindOfCancellation(actor)]
    BY <1>6 DEF Cancel
  <2>3. CASE req[r].op = "cancel"
    <3>1. CanMove("brand", "cancelled")
          /\ (memo.status = "accepted" => NoProofWaiting(req[r].now))
      BY <1>6, <2>3 DEF Cancel, Runs, Permitted, AnswerOps
    <3>2. memo.status \in EditableStatuses \union {"sent", "accepted"}
      BY <1>1, <3>1 DEF CanMove, BrandTransitions, Memo, MemoStatuses, EditableStatuses
    <3> QED
      BY <1>6, <2>1, <2>2, <2>3, <3>1, <3>2 DEF Cancel, MovesTheMemo
  <2>4. CASE req[r].op # "cancel"
    <3>1. CanMove("creator", "cancelled")
      BY <1>6, <2>4 DEF Cancel, Runs, Permitted, AnswerOps
    <3>2. memo.status = "accepted"
      BY <1>1, <3>1 DEF CanMove, CreatorTransitions, Memo, MemoStatuses
    <3> QED
      BY <1>6, <2>1, <2>2, <2>4, <3>2 DEF Cancel, MovesTheMemo
  <2> QED
    BY <2>3, <2>4
<1> QED
  BY <1>2, <1>3, <1>5, <1>6

LEMMA ProofSteps ==
    ASSUME Typed, NEW r \in Requests,
           \/ SubmitProof(r) \/ SettleIfOverdue(r) \/ ApproveProof(r) \/ RequestRevision(r)
    PROVE  SubmitsWork \/ \E p \in DOMAIN proofs : ApprovesWork(p) \/ ReturnsWork(p)
<1>1. CASE SubmitProof(r)
  <2>1. req[r].now \in Day
    BY <1>1, RequestParts DEF SubmitProof, Runs, Typed
  <2>2. memo.status = "accepted" /\ NoneWaiting
    BY <1>1 DEF SubmitProof, Runs, Permitted, AnswerOps
  <2> QED
    BY <1>1, <2>1, <2>2 DEF SubmitProof, SubmitsWork
<1>2. CASE SettleIfOverdue(r) \/ ApproveProof(r) \/ RequestRevision(r)
  <2> DEFINE p == req[r].proof
  <2>1. /\ p \in DOMAIN proofs
        /\ req[r].now \in Day /\ req[r].now \in Int
    BY <1>2, RequestParts
       DEF SettleIfOverdue, ApproveProof, RequestRevision, Runs, AnswerOps, Typed,
           AnswersNameAProof
  <2>2. CASE SettleIfOverdue(r)
    <3>1. Waiting(p) /\ AgreedAt(ApprovalDeadline(p))
      BY <2>2 DEF SettleIfOverdue, Runs, Permitted, SettlePermitted
    <3>2. ApprovalDeadline(p) \in Int
      BY <2>1, ClockType DEF Typed
    <3> QED
      BY <2>1, <2>2, <3>1, <3>2
         DEF SettleIfOverdue, ClockApproves, ApprovesWork, RecordKinds
  <2>3. CASE ApproveProof(r) \/ RequestRevision(r)
    <3>1. Waiting(p) /\ memo.status = "accepted"
      BY <2>3 DEF ApproveProof, RequestRevision, Runs, Permitted, AnswerOps
    <3> QED
      BY <2>1, <2>3, <3>1
         DEF ApproveProof, RequestRevision, ApprovesWork, ReturnsWork, RecordKinds
  <2> QED
    BY <1>2, <2>2, <2>3
<1> QED
  BY <1>1, <1>2

LEMMA Steps ==
    ASSUME Typed, [Next]_vars
    PROVE  \/ MovesTheMemo
           \/ SubmitsWork
           \/ \E p \in DOMAIN proofs : ApprovesWork(p) \/ ReturnsWork(p)
<1>1. CASE NextDay
  BY <1>1 DEF NextDay, MovesTheMemo
<1>2. ASSUME NEW r \in Requests, Reads(r) PROVE MovesTheMemo
  BY <1>2 DEF Reads, ReadForUpdate, ReadForMove, ReadForAnswer, ReadForLook, Read,
     MovesTheMemo
<1>3. ASSUME NEW r \in Requests, Transacts(r)
      PROVE  \/ MovesTheMemo
             \/ SubmitsWork
             \/ \E p \in DOMAIN proofs : ApprovesWork(p) \/ ReturnsWork(p)
  <2>1. CASE Refuse(r)
    BY <2>1 DEF Refuse, MovesTheMemo
  <2> QED
    BY <1>3, <2>1, MemoSteps, ProofSteps DEF Transacts
<1>4. CASE UNCHANGED vars
  BY <1>4 DEF vars, MovesTheMemo
<1> QED
  BY <1>1, <1>2, <1>3, <1>4 DEF Next

(* What an approval or a return writes on a submission, and what it leaves.  *)
LEMMA AnswerEffect ==
    ASSUME Typed, NEW p \in DOMAIN proofs, ApprovesWork(p) \/ ReturnsWork(p)
    PROVE  /\ DOMAIN proofs' = DOMAIN proofs
           /\ proofs'[p].status \in {"approved", "revision_requested"}
           /\ proofs'[p].created = proofs[p].created
           /\ \A i \in DOMAIN proofs : i # p => proofs'[i] = proofs[i]
           /\ UNCHANGED memo
<1>1. proofs[p] \in Proof
  BY ElementOfSeq, LenProperties DEF Typed, TypeOK
<1>2. CASE ApprovesWork(p)
  <2> DEFINE approved(actor, at) ==
               [proofs[p] EXCEPT !.status = "approved", !.approvedAt = at,
                                 !.auto = (actor = "system")]
  <2>1. ASSUME NEW kind, NEW actor, NEW at, NEW now, Approve(p, kind, actor, at, now)
        PROVE  /\ DOMAIN proofs' = DOMAIN proofs
               /\ proofs'[p] = approved(actor, at)
               /\ \A i \in DOMAIN proofs : i # p => proofs'[i] = proofs[i]
    <3>1. proofs' = [proofs EXCEPT ![p] = approved(actor, at)]
      BY <2>1 DEF Approve
    <3> HIDE DEF approved
    <3> QED
      BY <3>1
  <2>2. PICK actor, at :
          /\ DOMAIN proofs' = DOMAIN proofs
          /\ proofs'[p] = approved(actor, at)
          /\ \A i \in DOMAIN proofs : i # p => proofs'[i] = proofs[i]
    <3> HIDE DEF approved
    <3> QED
      BY <1>2, <2>1 DEF ApprovesWork
  <2>3. proofs'[p].status = "approved" /\ proofs'[p].created = proofs[p].created
    BY <1>1, <2>2 DEF Proof
  <2> QED
    BY <1>2, <2>2, <2>3 DEF ApprovesWork
<1>3. CASE ReturnsWork(p)
  <2>1. proofs' = [proofs EXCEPT ![p] =
                     [proofs[p] EXCEPT !.status = "revision_requested"]]
    BY <1>3 DEF ReturnsWork
  <2> QED
    BY <1>1, <1>3, <2>1 DEF ReturnsWork, Proof
<1> QED
  BY <1>2, <1>3

LEMMA SubmitEffect ==
    ASSUME Typed, SubmitsWork
    PROVE  /\ DOMAIN proofs' = DOMAIN proofs \union {Len(proofs) + 1}
           /\ Len(proofs) + 1 \notin DOMAIN proofs
           /\ \A i \in DOMAIN proofs : proofs'[i] = proofs[i]
           /\ proofs'[Len(proofs) + 1].status = "submitted"
           /\ proofs'[Len(proofs) + 1].auto = FALSE
           /\ UNCHANGED <<memo.status, memo.kind, memo.terms, memo.cancelledAt>>
           /\ memo'.workStarted
<1>1. PICK now \in Day :
          proofs' = Append(proofs, [status |-> "submitted", created |-> now,
                                    approvedAt |-> NoDay, auto |-> FALSE])
  BY DEF SubmitsWork
<1>2. proofs \in Seq(Proof) /\ Len(proofs) \in Nat /\ DOMAIN proofs = 1..Len(proofs)
  BY LenProperties DEF Typed, TypeOK
<1>3. DOMAIN proofs' = 1..(Len(proofs) + 1)
  BY <1>1, <1>2
<1> QED
  BY <1>1, <1>2, <1>3 DEF SubmitsWork, Typed, TypeOK, Memo

-----------------------------------------------------------------------------
(* The deal's promises.                                                      *)

(* A decided submission is never decided again: every step that writes one   *)
(* reads under its lock that it still waits (proof_service).                 *)
THEOREM DecidedStands == Spec => DecidedProofStands
<1>1. Typed /\ [Next]_vars =>
        [\A p \in DOMAIN proofs : ~Waiting(p) => proofs'[p] = proofs[p]]_vars
  <2> SUFFICES ASSUME Typed, [Next]_vars, NEW p \in DOMAIN proofs, ~Waiting(p)
               PROVE  proofs'[p] = proofs[p]
    OBVIOUS
  <2>1. CASE MovesTheMemo
    BY <2>1 DEF MovesTheMemo
  <2>2. CASE SubmitsWork
    BY <2>2, SubmitEffect
  <2>3. ASSUME NEW w \in DOMAIN proofs, ApprovesWork(w) \/ ReturnsWork(w)
        PROVE  proofs'[p] = proofs[p]
    BY <2>3, AnswerEffect DEF ApprovesWork, ReturnsWork
  <2> QED
    BY <2>1, <2>2, <2>3, Steps
<1> QED
  BY <1>1, AlwaysTyped, PTL DEF Spec, DecidedProofStands

(* The clock approves only what was still agreed at its deadline (D-146).    *)
THEOREM ClockOnlyAgreed == Spec => ClockApprovesOnlyAgreedDeals
<1>1. Typed /\ [Next]_vars =>
        [\A p \in DOMAIN proofs :
           proofs'[p].auto /\ ~proofs[p].auto => AgreedAt(proofs'[p].approvedAt)]_vars
  <2> SUFFICES ASSUME Typed, [Next]_vars, NEW p \in DOMAIN proofs,
                      proofs'[p].auto, ~proofs[p].auto
               PROVE  AgreedAt(proofs'[p].approvedAt)
    OBVIOUS
  <2>1. CASE MovesTheMemo
    BY <2>1 DEF MovesTheMemo
  <2>2. CASE SubmitsWork
    BY <2>2, SubmitEffect
  <2>3. ASSUME NEW w \in DOMAIN proofs, ApprovesWork(w) \/ ReturnsWork(w)
        PROVE  AgreedAt(proofs'[p].approvedAt)
    <3>1. p = w
      BY <2>3, AnswerEffect
    <3>2. proofs[p] \in Proof
      BY ElementOfSeq, LenProperties DEF Typed, TypeOK
    <3>3. CASE ReturnsWork(p)
      BY <3>2, <3>3 DEF ReturnsWork, Proof
    <3>4. CASE ApprovesWork(p)
      BY <3>2, <3>4 DEF ApprovesWork, Approve, Proof
    <3> QED
      BY <2>3, <3>1, <3>3, <3>4
  <2> QED
    BY <2>1, <2>2, <2>3, Steps
<1> QED
  BY <1>1, AlwaysTyped, PTL DEF Spec, ClockApprovesOnlyAgreedDeals

-----------------------------------------------------------------------------
(* The invariant behind the cancellation rule: the mark work_started_at says *)
(* that work was handed in, work exists only on a deal that was agreed, and  *)
(* a cancelled deal is one whose cancellation was given its kind.            *)
WorkInv ==
    /\ memo.workStarted <=> proofs # <<>>
    /\ proofs # <<>> => memo.status \in {"accepted", "cancelled"}
    /\ memo.status = "cancelled" <=> memo.kind # "none"
    /\ CancellationCountsOnlyAfterWork
    /\ OneProofWaits

LEMMA WorkInvInit == Init => WorkInv
<1> SUFFICES ASSUME Init PROVE WorkInv
  OBVIOUS
<1>1. proofs = <<>> /\ DOMAIN proofs = {}
  BY DEF Init
<1>2. ~memo.workStarted /\ memo.status # "cancelled" /\ memo.kind = "none"
  <2>1. ASSUME NEW status, NEW terms, NEW revisions,
               memo = NewMemo(status, terms, revisions)
        PROVE  memo.status = status /\ ~memo.workStarted /\ memo.kind = "none"
    BY <2>1 DEF NewMemo
  <2> QED
    BY <2>1 DEF Init
<1> QED
  BY <1>1, <1>2 DEF WorkInv, CancellationCountsOnlyAfterWork, OneProofWaits

LEMMA WorkInvStep == Typed /\ WorkInv /\ [Next]_vars => WorkInv'
<1> SUFFICES ASSUME Typed, WorkInv, [Next]_vars PROVE WorkInv'
  OBVIOUS
<1>1. Typed'
  BY StepTyped
<1>2. /\ memo \in Memo /\ memo' \in Memo
      /\ proofs = <<>> <=> DOMAIN proofs = {}
      /\ proofs' = <<>> <=> DOMAIN proofs' = {}
  BY <1>1, LenProperties DEF Typed, TypeOK
<1>3. CASE MovesTheMemo
  <2>1. OneProofWaits'
    BY <1>3 DEF MovesTheMemo, WorkInv, OneProofWaits, Waiting
  <2>2. UNCHANGED memo.workStarted /\ UNCHANGED proofs
    BY <1>2, <1>3 DEF MovesTheMemo, Memo
  <2>3. /\ proofs # <<>> => memo'.status \in {"accepted", "cancelled"}
        /\ memo'.status = "cancelled" <=> memo'.kind # "none"
        /\ memo'.status = "cancelled" => (memo'.kind = "withdrawn_early" <=> proofs = <<>>)
    BY <1>2, <1>3 DEF MovesTheMemo, Memo, WorkInv, EditableStatuses,
       KindOfCancellation, CancellationCountsOnlyAfterWork
  <2> QED
    BY <2>1, <2>2, <2>3 DEF WorkInv, CancellationCountsOnlyAfterWork
<1>4. CASE SubmitsWork
  <2>1. proofs' # <<>>
    BY <1>2, <1>4, SubmitEffect
  <2>2. OneProofWaits'
    BY <1>4, SubmitEffect DEF SubmitsWork, NoneWaiting, OneProofWaits, Waiting
  <2>3. memo.status = "accepted" /\ memo'.status = "accepted"
        /\ memo'.kind = memo.kind /\ memo'.workStarted
    BY <1>4, SubmitEffect DEF SubmitsWork
  <2> QED
    BY <2>1, <2>2, <2>3 DEF WorkInv, CancellationCountsOnlyAfterWork
<1>5. ASSUME NEW p \in DOMAIN proofs, ApprovesWork(p) \/ ReturnsWork(p)
      PROVE  WorkInv'
  <2>1. proofs' # <<>> /\ proofs # <<>>
    BY <1>2, <1>5, AnswerEffect
  <2>2. OneProofWaits'
    BY <1>5, AnswerEffect DEF WorkInv, OneProofWaits, Waiting
  <2>3. UNCHANGED memo
    BY <1>5, AnswerEffect
  <2> QED
    BY <2>1, <2>2, <2>3 DEF WorkInv, CancellationCountsOnlyAfterWork
<1> QED
  BY <1>3, <1>4, <1>5, Steps

LEMMA AlwaysWorkInv == Spec => []WorkInv
BY WorkInvInit, WorkInvStep, AlwaysTyped, PTL DEF Spec

(* However requests race, at most one submission waits for the brand, which  *)
(* the database's partial unique index would otherwise turn into a failure.  *)
THEOREM OneWaits == Spec => []OneProofWaits
<1>1. WorkInv => OneProofWaits
  BY DEF WorkInv
<1> QED
  BY <1>1, AlwaysWorkInv, PTL

(* A cancellation is free exactly when no work had been handed in (D-026).   *)
THEOREM FreeOnlyBeforeWork == Spec => []CancellationCountsOnlyAfterWork
<1>1. WorkInv => CancellationCountsOnlyAfterWork
  BY DEF WorkInv
<1> QED
  BY <1>1, AlwaysWorkInv, PTL

-----------------------------------------------------------------------------
(* Terms that fit the campaign, under the PATCH race.                        *)

(* The fee always fits the campaign: a PATCH checks each fee it brings in    *)
(* against the campaign and never mixes an unchecked one in.                 *)
FeeInv ==
    /\ FeeFits(memo.terms.fee)
    /\ \A r \in Requests :
          (req[r] # Idle /\ req[r].op = "update"
             /\ req[r].new.fee # req[r].row.terms.fee) => FeeFits(req[r].new.fee)

LEMMA FeeInvInit == Init => FeeInv
<1> SUFFICES ASSUME Init PROVE FeeInv
  OBVIOUS
<1>1. ASSUME NEW status, NEW terms, NEW revisions, FeeFits(terms.fee),
             memo = NewMemo(status, terms, revisions)
      PROVE  FeeFits(memo.terms.fee)
  BY <1>1 DEF NewMemo
<1> QED
  BY <1>1 DEF Init, FeeInv

LEMMA FeeInvStep == Typed /\ FeeInv /\ [Next]_vars => FeeInv'
<1> SUFFICES ASSUME Typed, FeeInv, [Next]_vars PROVE FeeInv'
  OBVIOUS
<1>1. CASE NextDay \/ UNCHANGED vars
  BY <1>1 DEF NextDay, vars, FeeInv, FeeFits
<1>2. ASSUME NEW r \in Requests, Reads(r) PROVE FeeInv'
  <2>1. PICK op, new, p, stage :
          /\ Read(r, op, new, p, stage)
          /\ (op = "update" /\ new.fee # memo.terms.fee) => FeeFits(new.fee)
    BY <1>2 DEF Reads, ReadForUpdate, ReadForMove, ReadForAnswer, ReadForLook,
       CreatorOps, AnswerOps
  <2> DEFINE q == [op |-> op, now |-> today,
                   row |-> [terms |-> memo.terms, sent |-> memo.sent],
                   new |-> new, proof |-> p, stage |-> stage]
  <2>2. /\ req'[r] = q
        /\ \A s \in Requests : s # r => req'[s] = req[s]
        /\ UNCHANGED memo
    BY <2>1 DEF Read, Typed, TypeOK
  <2> QED
    BY <2>1, <2>2 DEF FeeInv, FeeFits
<1>3. ASSUME NEW r \in Requests, Transacts(r) PROVE FeeInv'
  <2>1. \A s \in Requests : req'[s] # Idle =>
          /\ req[s] # Idle
          /\ req'[s].op = req[s].op
          /\ req'[s].row = req[s].row /\ req'[s].new = req[s].new
    <3>1. CASE Finish(r)
      BY <3>1, FinishType DEF Typed
    <3>2. CASE req[r] # Idle /\ req' = [req EXCEPT ![r].stage = "move"]
      BY <3>2, ToMoveType DEF Typed
    <3>3. Finish(r) \/ (req[r] # Idle /\ req' = [req EXCEPT ![r].stage = "move"])
      BY <1>3
         DEF Transacts, Update, Send, Accept, Decline, RequestChange, Cancel,
             SubmitProof, SettleIfOverdue, ApproveProof, RequestRevision, Refuse, Runs
    <3> QED
      BY <3>1, <3>2, <3>3
  <2>2. FeeFits(memo'.terms.fee)
    <3>1. CASE Update(r)
      <4>1. /\ req[r] # Idle /\ req[r].op = "update"
            /\ memo'.terms.fee = IF req[r].new.fee # req[r].row.terms.fee
                                 THEN req[r].new.fee ELSE memo.terms.fee
        BY <3>1 DEF Update, Runs, Typed, TypeOK, Memo, TermsSet
      <4> QED
        BY <4>1 DEF FeeInv
    <3>2. CASE ~Update(r)
      <4>1. memo'.terms = memo.terms
        BY <1>3, <3>2
           DEF Transacts, Send, Accept, Decline, RequestChange, Cancel, SubmitProof,
               SettleIfOverdue, ApproveProof, RequestRevision, Refuse, Typed, TypeOK, Memo
      <4> QED
        BY <4>1 DEF FeeInv
    <3> QED
      BY <3>1, <3>2
  <2> QED
    BY <2>1, <2>2 DEF FeeInv, FeeFits
<1> QED
  BY <1>1, <1>2, <1>3 DEF Next

LEMMA AlwaysFeeInv == Spec => []FeeInv
BY FeeInvInit, FeeInvStep, AlwaysTyped, PTL DEF Spec

-----------------------------------------------------------------------------
(* The services keep the deal's promise.                                     *)

LEMMA WorkType ==
    ASSUME Typed
    PROVE  /\ Work \in Seq(ProofStatuses)
           /\ DOMAIN Work = DOMAIN proofs
           /\ Len(Work) = Len(proofs)
           /\ \A p \in DOMAIN proofs : Work[p] = proofs[p].status
<1>1. DOMAIN proofs = 1..Len(proofs) /\ Len(proofs) \in Nat
  BY LenProperties DEF Typed, TypeOK
<1>2. ASSUME NEW p \in 1..Len(proofs) PROVE proofs[p].status \in ProofStatuses
  <2>1. proofs[p] \in Proof
    BY ElementOfSeq DEF Typed, TypeOK
  <2> QED
    BY <2>1 DEF Proof
<1>3. Work \in [1..Len(proofs) -> ProofStatuses]
  BY <1>1, <1>2 DEF Work
<1> QED
  BY <1>1, <1>3 DEF Work

LEMMA PromiseInit == Init => Promise!Init
<1> SUFFICES ASSUME Init PROVE Promise!Init
  OBVIOUS
<1>1. Phase \in {"talks", "agreed"} /\ Ending = "none"
  <2>1. ASSUME NEW status \in {"draft", "sent", "change_requested", "accepted"},
               NEW terms, NEW revisions, memo = NewMemo(status, terms, revisions)
        PROVE  Phase \in {"talks", "agreed"} /\ Ending = "none"
    BY <2>1 DEF NewMemo, Phase, Ending
  <2> QED
    BY <2>1 DEF Init
<1>2. Work = <<>>
  <2>1. Work \in Seq(ProofStatuses) /\ Len(Work) = Len(proofs) /\ Len(proofs) = 0
    BY InitTyped, WorkType DEF Init
  <2> QED
    BY <2>1, EmptySeq
<1> QED
  BY <1>1, <1>2 DEF Promise!Init, Init

LEMMA PromiseMemoStep ==
    ASSUME Typed, Typed', WorkInv, MovesTheMemo
    PROVE  [Promise!Next]_(Promise!vars)
<1>1. UNCHANGED <<Work, payments>>
  BY DEF MovesTheMemo, Work
<1>2. memo \in Memo
  BY DEF Typed, TypeOK
<1>3. CASE UNCHANGED <<memo.status, memo.kind>>
  BY <1>1, <1>3 DEF Phase, Ending, Promise!vars
<1>4. CASE memo.status \in EditableStatuses \union {"sent"}
           /\ memo'.status \in EditableStatuses \union {"sent"} /\ memo'.kind = memo.kind
  BY <1>1, <1>4 DEF Phase, Ending, Promise!vars, EditableStatuses
<1>5. CASE memo.status = "sent" /\ memo' = [memo EXCEPT !.status = "accepted"]
  BY <1>1, <1>2, <1>5 DEF Phase, Ending, Memo, Promise!Next, Promise!Agree
<1>6. CASE memo.status = "sent" /\ memo' = [memo EXCEPT !.status = "declined"]
  BY <1>1, <1>2, <1>6 DEF Phase, Ending, Memo, Promise!Next, Promise!Decline
<1>7. ASSUME NEW actor \in {"brand", "creator"}, NEW now \in Day,
             memo.status \in EditableStatuses \union {"sent", "accepted"},
             memo' = [memo EXCEPT !.status = "cancelled", !.cancelledAt = now,
                                  !.kind = KindOfCancellation(actor)]
      PROVE  [Promise!Next]_(Promise!vars)
  <2>1. Phase \in {"talks", "agreed"} /\ Phase' = "cancelled"
    BY <1>2, <1>7 DEF Phase, Memo, EditableStatuses
  <2>2. memo'.kind = KindOfCancellation(actor)
    BY <1>2, <1>7 DEF Memo
  <2>3. memo.workStarted <=> Work # <<>>
    <3>1. Work \in Seq(ProofStatuses) /\ Len(Work) = Len(proofs)
          /\ proofs \in Seq(Proof)
      BY WorkType DEF Typed, TypeOK
    <3>2. proofs = <<>> <=> Work = <<>>
      BY <3>1, EmptySeq
    <3> QED
      BY <3>2 DEF WorkInv
  <2>4. Ending' = IF Work = <<>> THEN "free" ELSE "counted"
    BY <1>7, <2>2, <2>3 DEF Ending, KindOfCancellation
  <2> QED
    BY <1>1, <2>1, <2>4 DEF Promise!Next, Promise!Cancel
<1> QED
  BY <1>2, <1>3, <1>4, <1>5, <1>6, <1>7 DEF MovesTheMemo, Memo, EditableStatuses

LEMMA PromiseSubmitStep ==
    ASSUME Typed, Typed', SubmitsWork
    PROVE  Promise!Submit
<1>1. Phase = "agreed" /\ Phase' = "agreed" /\ UNCHANGED Ending
  <2>1. memo.status = "accepted" /\ memo'.status = "accepted" /\ memo'.kind = memo.kind
    BY SubmitEffect DEF SubmitsWork
  <2> QED
    BY <2>1 DEF Phase, Ending
<1>2. Promise!NothingWaits
  BY WorkType DEF SubmitsWork, NoneWaiting, Waiting, Promise!NothingWaits
<1>3. Work' = Append(Work, "submitted")
  <2>1. Work \in Seq(ProofStatuses) /\ Len(Work) = Len(proofs)
        /\ \A p \in DOMAIN proofs : Work[p] = proofs[p].status
    BY WorkType
  <2>2. DOMAIN proofs = 1..Len(proofs) /\ Len(proofs) \in Nat
        /\ DOMAIN proofs' = 1..(Len(proofs) + 1)
    <3>1. DOMAIN proofs = 1..Len(proofs) /\ Len(proofs) \in Nat
      BY LenProperties DEF Typed, TypeOK
    <3>2. 1..(Len(proofs) + 1) = (1..Len(proofs)) \union {Len(proofs) + 1}
      BY <3>1
    <3> QED
      BY <3>1, <3>2, SubmitEffect
  <2>3. Work' = [p \in 1..(Len(proofs) + 1) |-> proofs'[p].status]
    BY <2>2 DEF Work
  <2>4. Append(Work, "submitted") \in [1..(Len(proofs) + 1) -> ProofStatuses]
        /\ \A p \in 1..Len(proofs) : Append(Work, "submitted")[p] = proofs[p].status
        /\ Append(Work, "submitted")[Len(proofs) + 1] = "submitted"
    <3>1. "submitted" \in ProofStatuses
      BY DEF ProofStatuses
    <3>2. Append(Work, "submitted") \in Seq(ProofStatuses)
          /\ Len(Append(Work, "submitted")) = Len(proofs) + 1
          /\ \A p \in 1..Len(proofs) : Append(Work, "submitted")[p] = Work[p]
          /\ Append(Work, "submitted")[Len(proofs) + 1] = "submitted"
      BY <2>1, <3>1, AppendProperties
    <3> QED
      BY <2>1, <2>2, <3>2, LenProperties
  <2>5. \A p \in 1..(Len(proofs) + 1) :
           proofs'[p].status = Append(Work, "submitted")[p]
    BY <2>2, <2>4, SubmitEffect
  <2> QED
    BY <2>3, <2>4, <2>5
<1> QED
  BY <1>1, <1>2, <1>3 DEF Promise!Submit, SubmitsWork

LEMMA PromiseAnswerStep ==
    ASSUME Typed, Typed', WorkInv, FeeInv, NEW p \in DOMAIN proofs,
           ApprovesWork(p) \/ ReturnsWork(p)
    PROVE  Promise!Approve(p) \/ Promise!Return(p)
<1>1. UNCHANGED <<Phase, Ending>>
  BY AnswerEffect DEF Phase, Ending
<1>2. Work[p] = "submitted"
  BY WorkType DEF ApprovesWork, ReturnsWork, Waiting
<1>3. Work' = [Work EXCEPT ![p] = proofs'[p].status]
  BY AnswerEffect DEF Work
<1>4. CASE ReturnsWork(p)
  <2>1. proofs'[p].status = "revision_requested"
    <3>1. proofs[p] \in Proof
      BY ElementOfSeq, LenProperties DEF Typed, TypeOK
    <3> QED
      BY <1>4, <3>1 DEF ReturnsWork, Proof
  <2>2. Phase = "agreed"
    BY <1>4 DEF ReturnsWork, Phase
  <2> QED
    BY <1>1, <1>2, <1>3, <1>4, <2>1, <2>2 DEF Promise!Return, ReturnsWork
<1>5. CASE ApprovesWork(p)
  <2>1. PICK kind, actor, at, now : Approve(p, kind, actor, at, now)
    BY <1>5 DEF ApprovesWork
  <2>2. proofs'[p].status = "approved"
    <3>1. proofs[p] \in Proof
      BY ElementOfSeq, LenProperties DEF Typed, TypeOK
    <3> QED
      BY <2>1, <3>1 DEF Approve, Proof
  <2>3. Phase \in {"agreed", "cancelled"}
    <3>1. proofs # <<>>
      BY LenProperties DEF Typed, TypeOK
    <3> QED
      BY <3>1 DEF Phase, WorkInv
  <2>4. \E pays \in PaidChoices : (payments' # <<>>) = ((payments # <<>>) \/ pays)
    <3>1. (memo.terms.fee > 0) \in PaidChoices
      BY DEF FeeInv, PaidChoices, Typed, TypeOK, Memo, TermsSet
    <3>2. (payments' # <<>>) = ((payments # <<>>) \/ memo.terms.fee > 0)
      BY <2>1 DEF Approve, OpensPayment
    <3> QED
      BY <3>1, <3>2
  <2> QED
    BY <1>1, <1>2, <1>3, <2>2, <2>3, <2>4 DEF Promise!Approve
<1> QED
  BY <1>4, <1>5

(* Whichever requests race, each step of the services is one the deal's      *)
(* promise allows, or changes nothing it speaks of.                          *)
THEOREM PromiseKept == Spec => KeepsThePromise
<1>1. Typed /\ Typed' /\ WorkInv /\ FeeInv /\ [Next]_vars => [Promise!Next]_(Promise!vars)
  <2> SUFFICES ASSUME Typed, Typed', WorkInv, FeeInv, [Next]_vars
               PROVE  [Promise!Next]_(Promise!vars)
    OBVIOUS
  <2>1. CASE MovesTheMemo
    BY <2>1, PromiseMemoStep
  <2>2. CASE SubmitsWork
    BY <2>2, PromiseSubmitStep DEF Promise!Next
  <2>3. ASSUME NEW p \in DOMAIN proofs, ApprovesWork(p) \/ ReturnsWork(p)
        PROVE  Promise!Next
    BY <2>3, PromiseAnswerStep, WorkType DEF Promise!Next
  <2> QED
    BY <2>1, <2>2, <2>3, Steps
<1> QED
  BY <1>1, PromiseInit, AlwaysTyped, AlwaysWorkInv, AlwaysFeeInv, PTL
     DEF Spec, KeepsThePromise, Promise!Spec

-----------------------------------------------------------------------------
(* The clock, once started, does not move while its submission waits.        *)

LEMMA ClockStable ==
    ASSUME NEW p \in DOMAIN proofs,
           DOMAIN proofs' = DOMAIN proofs,
           \A i \in DOMAIN proofs : proofs'[i].created = proofs[i].created
    PROVE  ApprovalDeadline(p)' = ApprovalDeadline(p)
<1>1. \A i, j \in DOMAIN proofs : Before(i, j)' <=> Before(i, j)
  BY DEF Before
<1>2. EarlierThan(p)' = EarlierThan(p)
  BY <1>1 DEF EarlierThan
<1>3. EarlierThan(p) \subseteq DOMAIN proofs
  BY DEF EarlierThan
<1>4. \A i \in EarlierThan(p) : {j \in EarlierThan(p) : Before(j, i)}'
                                = {j \in EarlierThan(p) : Before(j, i)}
  BY <1>1, <1>2, <1>3
<1> DEFINE Second(i) == Cardinality({j \in EarlierThan(p) : Before(j, i)}) = 1
<1>5. \A i \in EarlierThan(p) : Second(i)' <=> Second(i)
  BY <1>4
<1>6. (CHOOSE i \in EarlierThan(p) : Second(i))'
        = (CHOOSE i \in EarlierThan(p) : Second(i))
  BY <1>2, <1>5
<1>7. (\E i \in EarlierThan(p) : Second(i)) =>
        (CHOOSE i \in EarlierThan(p) : Second(i)) \in DOMAIN proofs
  BY <1>3
<1>8. ReviewClockStart(p)' = ReviewClockStart(p)
  BY ZenonT(40), <1>2, <1>5, <1>6, <1>7 DEF ReviewClockStart
<1> QED
  BY <1>8 DEF ApprovalDeadline

LEMMA ClockStableInAnswer ==
    ASSUME Typed, NEW w \in DOMAIN proofs, ApprovesWork(w) \/ ReturnsWork(w),
           NEW p \in DOMAIN proofs
    PROVE  ApprovalDeadline(p)' = ApprovalDeadline(p)
<1>1. DOMAIN proofs' = DOMAIN proofs
      /\ \A i \in DOMAIN proofs : proofs'[i].created = proofs[i].created
  BY AnswerEffect
<1> QED
  BY <1>1, ClockStable

LEMMA BrandCancelStep ==
    Typed /\ WorkInv /\ BrandCannotCancelAwayWork /\ [Next]_vars
        => BrandCannotCancelAwayWork'
<1> SUFFICES ASSUME Typed, WorkInv, BrandCannotCancelAwayWork, [Next]_vars,
                    memo'.kind = "cancelled_by_brand",
                    NEW p \in DOMAIN proofs', Waiting(p)'
             PROVE  AgreedAt(ApprovalDeadline(p))'
  BY DEF BrandCannotCancelAwayWork
<1>1. memo \in Memo
  BY DEF Typed, TypeOK
<1>2. CASE MovesTheMemo
  <2>1. p \in DOMAIN proofs /\ Waiting(p) /\ UNCHANGED proofs /\ proofs # <<>>
    <3>1. UNCHANGED proofs
      BY <1>2 DEF MovesTheMemo
    <3>2. p \in DOMAIN proofs /\ Waiting(p)
      BY <3>1 DEF Waiting
    <3> QED
      BY <3>1, <3>2
  <2>2. ApprovalDeadline(p)' = ApprovalDeadline(p)
    BY <2>1, ClockStable
  <2>3. CASE UNCHANGED memo \/ \E terms \in TermsSet : memo' = [memo EXCEPT !.terms = terms]
    <3>1. UNCHANGED <<memo.kind, memo.status, memo.cancelledAt>>
      BY <1>1, <2>3 DEF Memo
    <3>2. AgreedAt(ApprovalDeadline(p))
      BY <2>1, <3>1 DEF BrandCannotCancelAwayWork
    <3> QED
      BY <2>2, <3>1, <3>2 DEF AgreedAt
  <2>4. CASE memo.status \in EditableStatuses \union {"sent"}
    BY <2>1, <2>4 DEF WorkInv, EditableStatuses
  <2>5. ASSUME NEW actor \in {"brand", "creator"}, NEW now \in Day,
               memo.status = "accepted",
               memo' = [memo EXCEPT !.status = "cancelled", !.cancelledAt = now,
                                    !.kind = KindOfCancellation(actor)],
               actor = "brand" => NoProofWaiting(now)
        PROVE  AgreedAt(ApprovalDeadline(p))'
    <3>1. memo'.kind = KindOfCancellation(actor) /\ memo'.status = "cancelled"
          /\ memo'.cancelledAt = now
      BY <1>1, <2>5 DEF Memo
    <3>2. actor = "brand"
      BY <2>5, <3>1 DEF KindOfCancellation
    <3>3. now >= ApprovalDeadline(p)
      BY <2>1, <2>5, <3>2 DEF NoProofWaiting
    <3> QED
      BY <2>2, <3>1, <3>3 DEF AgreedAt
  <2> QED
    BY <1>2, <2>3, <2>4, <2>5 DEF MovesTheMemo, EditableStatuses
<1>3. CASE SubmitsWork
  <2>1. memo.status = "accepted" /\ memo.kind = "cancelled_by_brand"
    BY <1>3, SubmitEffect DEF SubmitsWork
  <2> QED
    BY <2>1 DEF WorkInv
<1>4. ASSUME NEW w \in DOMAIN proofs, ApprovesWork(w) \/ ReturnsWork(w)
      PROVE  AgreedAt(ApprovalDeadline(p))'
  <2>1. p \in DOMAIN proofs /\ Waiting(p) /\ UNCHANGED memo
    BY <1>4, AnswerEffect DEF Waiting
  <2>2. ApprovalDeadline(p)' = ApprovalDeadline(p)
    BY <1>4, <2>1, ClockStableInAnswer
  <2>3. AgreedAt(ApprovalDeadline(p))
    BY <2>1 DEF BrandCannotCancelAwayWork
  <2> QED
    BY <2>1, <2>2, <2>3 DEF AgreedAt
<1> QED
  BY <1>2, <1>3, <1>4, Steps

(* A brand cannot cancel its way out of paying for posted work: what waits   *)
(* when it cancels is what the clock has approved, and stays so (D-147).     *)
THEOREM BrandStaysBound == Spec => []BrandCannotCancelAwayWork
<1>1. Init => BrandCannotCancelAwayWork
  BY DEF Init, BrandCannotCancelAwayWork
<1> QED
  BY <1>1, BrandCancelStep, AlwaysTyped, AlwaysWorkInv, PTL DEF Spec

(* So a cancellation is counted as what it is, and undoes no work.           *)
THEOREM CancellationsBind == Spec => []CancellationsAreHonest
<1>1. CancellationCountsOnlyAfterWork /\ BrandCannotCancelAwayWork => CancellationsAreHonest
  BY DEF CancellationsAreHonest
<1> QED
  BY <1>1, FreeOnlyBeforeWork, BrandStaysBound, PTL

-----------------------------------------------------------------------------
(* Why an answer that holds its locks never finds the window already over:   *)
(* one that reads a submission past its window settles it first, and a later *)
(* day changes neither the request's now nor the submission's clock.         *)
InTime ==
    \A r \in Requests, p \in DOMAIN proofs :
        (req[r] # Idle /\ req[r].op \in AnswerOps /\ req[r].stage = "move"
           /\ req[r].proof = p /\ memo.status = "accepted" /\ Waiting(p)) =>
            req[r].now < ApprovalDeadline(p)

LEMMA InTimeImplies == Typed /\ InTime => AnswersComeInTime
<1> SUFFICES ASSUME Typed, InTime, NEW r \in Requests,
                    req[r] # Idle, req[r].op \in AnswerOps, req[r].stage = "move",
                    Permitted(req[r]), Overdue(req[r].proof, req[r].now)
             PROVE  FALSE
  BY DEF AnswersComeInTime
<1>1. memo.status = "accepted" /\ Waiting(req[r].proof)
  BY DEF Permitted, AnswerOps
<1>2. /\ req[r].now \in Int /\ ApprovalDeadline(req[r].proof) \in Int
      /\ req[r].proof \in DOMAIN proofs
  BY RequestParts, ClockType DEF Typed, AnswersNameAProof
<1> QED
  BY <1>1, <1>2 DEF InTime, Overdue

(* The only requests a step brings to their answer are one that reads a      *)
(* submission inside its window and one whose settling was refused.          *)
LEMMA AnswersInFlight ==
    ASSUME Typed, [Next]_vars, NEW r \in Requests,
           req'[r] # Idle, req'[r].op \in AnswerOps, req'[r].stage = "move"
    PROVE  \/ req[r] = req'[r]
           \/ /\ ~Overdue(req'[r].proof, req'[r].now)
              /\ req'[r].proof \in DOMAIN proofs
              /\ UNCHANGED <<memo, proofs>>
              /\ req'[r].now \in Int
           \/ /\ req'[r].proof \in DOMAIN proofs
              /\ ~Waiting(req'[r].proof) \/ memo.status # "accepted"
              /\ UNCHANGED <<memo, proofs>>
           \/ proofs'[req'[r].proof].status # "submitted"
<1>1. CASE NextDay \/ UNCHANGED vars
  BY <1>1 DEF NextDay, vars
<1>2. ASSUME NEW s \in Requests, s # r, Reads(s) \/ Transacts(s)
      PROVE  req[r] = req'[r]
  BY <1>2
     DEF Reads, ReadForUpdate, ReadForMove, ReadForAnswer, ReadForLook, Read, Finish,
         Transacts, Update, Send, Accept, Decline, RequestChange, Cancel, SubmitProof,
         SettleIfOverdue, ApproveProof, RequestRevision, Refuse, Typed, TypeOK
<1>3. CASE Reads(r)
  <2>1. PICK p \in DOMAIN proofs, op \in AnswerOps : ReadForAnswer(r, op, p)
    BY <1>3
       DEF Reads, ReadForUpdate, ReadForMove, ReadForLook, Read, CreatorOps, AnswerOps,
           Typed, TypeOK
  <2>2. /\ req'[r].proof = p /\ req'[r].now = today /\ today \in Int
        /\ req'[r].stage = IF Overdue(p, today) THEN "settle" ELSE "move"
        /\ UNCHANGED <<memo, proofs>>
    BY <2>1, BoundsAssumption DEF ReadForAnswer, Read, Typed, TypeOK, Day
  <2> QED
    BY <2>2
<1>4. CASE Transacts(r) /\ Finish(r)
  BY <1>4 DEF Finish, Typed, TypeOK
<1>5. CASE Transacts(r) /\ ~Finish(r)
  <2>1. /\ req[r] # Idle /\ req[r].stage = "settle" /\ req[r].op \in AnswerOps
        /\ req' = [req EXCEPT ![r].stage = "move"]
        /\ Refuse(r) \/ SettleIfOverdue(r)
    BY <1>5
       DEF Transacts, Update, Send, Accept, Decline, RequestChange, Cancel, SubmitProof,
           SettleIfOverdue, ApproveProof, RequestRevision, Refuse, Runs, AnswerOps,
           EitherOps
  <2>2. /\ req'[r].proof = req[r].proof
        /\ req[r].proof \in DOMAIN proofs
    BY <2>1, ToMoveType DEF Typed, AnswersNameAProof
  <2>3. CASE Refuse(r)
    BY <2>1, <2>2, <2>3 DEF Refuse, Permitted, SettlePermitted, AgreedAt
  <2>4. CASE SettleIfOverdue(r)
    <3>1. proofs'[req[r].proof].status = "approved"
      <4>1. proofs[req[r].proof] \in Proof
        BY <2>2, ElementOfSeq, LenProperties DEF Typed, TypeOK
      <4> QED
        BY <2>2, <2>4, <4>1 DEF SettleIfOverdue, ClockApproves, Approve, Proof
    <3> QED
      BY <2>2, <3>1
  <2> QED
    BY <2>1, <2>3, <2>4
<1> QED
  BY <1>1, <1>2, <1>3, <1>4, <1>5 DEF Next

LEMMA InTimeStep == Typed /\ WorkInv /\ InTime /\ [Next]_vars => InTime'
<1> SUFFICES ASSUME Typed, WorkInv, InTime, [Next]_vars,
                    NEW r \in Requests, NEW p \in DOMAIN proofs',
                    req'[r] # Idle, req'[r].op \in AnswerOps, req'[r].stage = "move",
                    req'[r].proof = p, memo'.status = "accepted",
                    proofs'[p].status = "submitted"
             PROVE  req'[r].now < ApprovalDeadline(p)'
  BY DEF InTime, Waiting
<1>1. CASE req[r] = req'[r]
  <2>1. p \in DOMAIN proofs
    BY <1>1 DEF Typed, AnswersNameAProof
  <2>2. (memo.status = "accepted" /\ Waiting(p)) => req'[r].now < ApprovalDeadline(p)
    BY <1>1, <2>1 DEF InTime
  <2>3. CASE MovesTheMemo
    <3>1. UNCHANGED proofs /\ Waiting(p)
      BY <2>3 DEF MovesTheMemo, Waiting
    <3>2. memo.status = "accepted"
      <4>1. memo.status \in {"accepted", "cancelled"} /\ memo \in Memo
        BY <2>1 DEF WorkInv, Typed, TypeOK
      <4> QED
        BY <2>3, <4>1 DEF MovesTheMemo, Memo, EditableStatuses
    <3>3. ApprovalDeadline(p)' = ApprovalDeadline(p)
      BY <2>1, <3>1, ClockStable
    <3> QED
      BY <2>2, <3>1, <3>2, <3>3
  <2>4. CASE SubmitsWork
    BY <2>1, <2>4, SubmitEffect DEF SubmitsWork, NoneWaiting, Waiting
  <2>5. ASSUME NEW w \in DOMAIN proofs, ApprovesWork(w) \/ ReturnsWork(w)
        PROVE  req'[r].now < ApprovalDeadline(p)'
    <3>1. UNCHANGED memo /\ Waiting(p)
      BY <2>1, <2>5, AnswerEffect DEF Waiting
    <3>2. ApprovalDeadline(p)' = ApprovalDeadline(p)
      BY <2>1, <2>5, ClockStableInAnswer
    <3> QED
      BY <2>2, <3>1, <3>2
  <2> QED
    BY <2>3, <2>4, <2>5, Steps
<1>2. CASE ~Overdue(p, req'[r].now) /\ p \in DOMAIN proofs /\ UNCHANGED <<memo, proofs>>
           /\ req'[r].now \in Int
  <2>1. ApprovalDeadline(p)' = ApprovalDeadline(p) /\ ApprovalDeadline(p) \in Int
    BY <1>2, ClockStable, ClockType DEF Typed
  <2> QED
    BY <1>2, <2>1 DEF Overdue, AgreedAt
<1> QED
  BY <1>1, <1>2, AnswersInFlight DEF Waiting

(* The settling that approve_proof and request_revision do under their locks *)
(* never has anything to settle.                                             *)
THEOREM AnswersInTime == Spec => []AnswersComeInTime
<1>1. Init => InTime
  BY DEF Init, InTime
<1> QED
  BY <1>1, InTimeStep, InTimeImplies, AlwaysTyped, AlwaysWorkInv, PTL DEF Spec

-----------------------------------------------------------------------------
(* What a step adds to the deal record: one entry, and beside it only the    *)
(* line that opens the record of an older deal and the payment's.            *)

Aside == {"record_started", "payment_opened"}

Adds(entry) ==
    /\ DOMAIN record \subseteq DOMAIN record'
    /\ \E m \in DOMAIN record' \ DOMAIN record :
          /\ record'[m] = entry
          /\ \A i \in DOMAIN record : i < m /\ record'[i] = record[i]
          /\ \A i \in DOMAIN record' \ DOMAIN record :
                i # m => record'[i].kind \in Aside /\ record'[i].proof = 0

LEMMA RecordIndices ==
    ASSUME TypeOK
    PROVE  /\ DOMAIN record = 1..Len(record) /\ Len(record) \in Nat
           /\ \A i \in DOMAIN record : i \in Int /\ record[i] \in Entry
BY LenProperties, ElementOfSeq DEF TypeOK

LEMMA SealedAdds ==
    ASSUME TypeOK, NEW entry, NEW terms, record' = Sealed(entry, terms)
    PROVE  Adds(entry)
<1> DEFINE started == EntryOf("record_started", "system", entry.recorded,
                              entry.recorded, terms, 0)
<1>1. CASE record = <<>> /\ (entry.kind # "memo_sent" \/ memo.revisions > 0)
  <2>1. record' = <<started, entry>>
    BY <1>1 DEF Sealed
  <2>2. started.kind = "record_started" /\ started.proof = 0
    BY DEF EntryOf
  <2> HIDE DEF started
  <2>3. /\ DOMAIN record = {} /\ DOMAIN record' = {1, 2}
        /\ record'[1] = started /\ record'[2] = entry
    BY <1>1, <2>1
  <2> QED
    BY <2>2, <2>3 DEF Adds, Aside
<1>2. CASE ~(record = <<>> /\ (entry.kind # "memo_sent" \/ memo.revisions > 0))
  <2>1. record' = Append(record, entry)
    BY <1>2 DEF Sealed
  <2>2. /\ DOMAIN record = 1..Len(record) /\ Len(record) \in Nat
        /\ DOMAIN record' = 1..(Len(record) + 1)
        /\ record'[Len(record) + 1] = entry
        /\ \A i \in 1..Len(record) : record'[i] = record[i]
    BY <2>1, LenProperties DEF TypeOK
  <2>3. DOMAIN record' \ DOMAIN record = {Len(record) + 1}
    BY <2>2
  <2> QED
    BY <2>2, <2>3 DEF Adds
<1> QED
  BY <1>1, <1>2

(* An approval adds its own entry, before the payment's if it opens one.     *)
LEMMA ApproveAdds ==
    ASSUME TypeOK, NEW p \in DOMAIN proofs, NEW kind \in RecordKinds,
           NEW actor \in {"brand", "system"}, NEW at \in Int, NEW now \in Day,
           Approve(p, kind, actor, at, now)
    PROVE  Adds(EntryOf(kind, actor, at, now, NoTerms, p))
<1> DEFINE entry == EntryOf(kind, actor, at, now, NoTerms, p)
           sealed == Sealed(entry, memo.terms)
           opened == EntryOf("payment_opened", "system", now, now, NoTerms, 0)
           started == EntryOf("record_started", "system", entry.recorded,
                              entry.recorded, memo.terms, 0)
<1>1. p \in 0..MaxProofs
  BY LenProperties, BoundsAssumption DEF TypeOK
<1>2. entry \in Entry /\ opened \in Entry
  BY <1>1, EntryType, BoundsAssumption DEF RecordKinds, Day
<1>3. /\ opened.kind = "payment_opened" /\ opened.proof = 0
      /\ started.kind = "record_started" /\ started.proof = 0
  BY DEF EntryOf
<1>4. sealed = (IF record = <<>> /\ (entry.kind # "memo_sent" \/ memo.revisions > 0)
                THEN <<started, entry>> ELSE Append(record, entry))
  BY DEF Sealed
<1>5. sealed \in Seq(Entry)
  BY <1>2, SealedType DEF TypeOK, Memo
<1>6. CASE ~OpensPayment
  BY <1>6, SealedAdds DEF Approve
<1>7. CASE OpensPayment
  <2>1. record' = Append(sealed, opened)
    BY <1>7 DEF Approve
  <2> HIDE DEF entry, opened, started, sealed
  <2>2. /\ Len(record') = Len(sealed) + 1 /\ record'[Len(sealed) + 1] = opened
        /\ \A i \in 1..Len(sealed) : record'[i] = sealed[i]
        /\ DOMAIN record' = 1..(Len(sealed) + 1)
    <3>1. /\ Len(record') = Len(sealed) + 1 /\ record'[Len(sealed) + 1] = opened
          /\ \A i \in 1..Len(sealed) : record'[i] = sealed[i]
          /\ record' \in Seq(Entry)
      BY <1>2, <1>5, <2>1, AppendProperties
    <3> QED
      BY <3>1, LenProperties
  <2>3. CASE sealed = <<started, entry>> /\ record = <<>>
    <3>1. Len(sealed) = 2 /\ sealed[1] = started /\ sealed[2] = entry
      BY <2>3
    <3>2. /\ DOMAIN record = {} /\ DOMAIN record' = {1, 2, 3}
          /\ record'[1] = started /\ record'[2] = entry /\ record'[3] = opened
      BY <2>3, <2>2, <3>1
    <3>3. Adds(entry)
      BY <1>3, <3>2 DEF Adds, Aside
    <3> QED
      BY <3>3 DEF entry
  <2>4. CASE sealed = Append(record, entry)
    <3>1. /\ DOMAIN record = 1..Len(record) /\ Len(record) \in Nat
          /\ record \in Seq(Entry)
      BY LenProperties DEF TypeOK
    <3>2. /\ Len(sealed) = Len(record) + 1 /\ sealed[Len(record) + 1] = entry
          /\ \A i \in 1..Len(record) : sealed[i] = record[i]
      BY <1>2, <2>4, <3>1, AppendProperties
    <3>3. /\ DOMAIN record' = 1..(Len(record) + 2)
          /\ record'[Len(record) + 2] = opened /\ record'[Len(record) + 1] = entry
          /\ \A i \in 1..Len(record) : record'[i] = record[i]
      BY <2>2, <3>1, <3>2
    <3>4. DOMAIN record' \ DOMAIN record = {Len(record) + 1, Len(record) + 2}
      BY <3>1, <3>3
    <3>5. Adds(entry)
      BY <1>3, <3>1, <3>3, <3>4 DEF Adds, Aside
    <3> QED
      BY <3>5 DEF entry
  <2> QED
    BY <1>4, <2>3, <2>4
<1> QED
  BY <1>6, <1>7

RecordsNothing ==
    /\ UNCHANGED <<record, proofs, payments>>
    /\ memo'.status \in {memo.status, "cancelled"}

RecordsMove(entry) ==
    /\ Adds(entry) /\ entry.kind \in DOMAIN StatusAfter /\ entry.proof = 0
    /\ memo'.status = StatusAfter[entry.kind]
    /\ memo'.status \in BrandTransitions[memo.status] \union CreatorTransitions[memo.status]
    /\ UNCHANGED <<proofs, payments>>

RecordsSubmission(entry) ==
    /\ Adds(entry) /\ entry.kind = "proof_submitted" /\ entry.proof = Len(proofs) + 1
    /\ SubmitsWork

RecordsReturn(p, entry) ==
    /\ Adds(entry) /\ entry.kind = "proof_revision_requested" /\ entry.proof = p
    /\ ReturnsWork(p)

ApprovalKind(actor) == IF actor = "system" THEN "proof_auto_approved" ELSE "proof_approved"

RecordsApproval(p, actor, at, now) ==
    /\ Waiting(p) /\ (actor = "system" => at = ApprovalDeadline(p))
    /\ Approve(p, ApprovalKind(actor), actor, at, now)
    /\ Adds(EntryOf(ApprovalKind(actor), actor, at, now, NoTerms, p))
    /\ UNCHANGED memo

LEMMA RecordedMove ==
    ASSUME Typed, NEW r \in Requests,
           Send(r) \/ Accept(r) \/ Decline(r) \/ RequestChange(r) \/ Cancel(r)
    PROVE  RecordsNothing \/ \E entry : RecordsMove(entry)
<1>1. memo \in Memo /\ TypeOK /\ req[r] # Idle
  BY DEF Typed, TypeOK, Send, Accept, Decline, RequestChange, Cancel, Runs
<1>2. UNCHANGED <<proofs, payments>>
  BY DEF Send, Accept, Decline, RequestChange, Cancel
<1>3. ASSUME NEW kind \in DOMAIN StatusAfter, NEW actor, NEW terms, NEW read,
             record' = Sealed(EntryOf(kind, actor, req[r].now, req[r].now, terms, 0), read),
             memo'.status = StatusAfter[kind],
             StatusAfter[kind]
                \in BrandTransitions[memo.status] \union CreatorTransitions[memo.status]
      PROVE  \E entry : RecordsMove(entry)
  <2>1. PICK entry : entry = EntryOf(kind, actor, req[r].now, req[r].now, terms, 0)
    OBVIOUS
  <2>2. entry.kind = kind /\ entry.proof = 0
    BY <2>1 DEF EntryOf
  <2> QED
    BY <1>1, <1>2, <1>3, <2>1, <2>2, SealedAdds DEF RecordsMove
<1>4. CASE Send(r)
  <2>1. /\ "sent" \in BrandTransitions[memo.status] /\ memo'.status = "sent"
        /\ record' = Sealed(EntryOf("memo_sent", "brand", req[r].now, req[r].now,
                                    req[r].row.terms, 0), req[r].row.terms)
    BY <1>1, <1>4 DEF Send, Runs, Permitted, CanMove, AnswerOps, Memo
  <2> QED
    BY <1>3, <2>1 DEF StatusAfter
<1>5. CASE Accept(r)
  <2>1. /\ "accepted" \in CreatorTransitions[memo.status] /\ memo'.status = "accepted"
        /\ record' = Sealed(EntryOf("memo_accepted", "creator", req[r].now, req[r].now,
                                    req[r].row.terms, 0), req[r].row.terms)
    BY <1>1, <1>5 DEF Accept, Runs, Permitted, CanMove, AnswerOps, Memo
  <2> QED
    BY <1>3, <2>1 DEF StatusAfter
<1>6. CASE Decline(r)
  <2>1. /\ "declined" \in CreatorTransitions[memo.status] /\ memo'.status = "declined"
        /\ record' = Sealed(EntryOf("memo_declined", "creator", req[r].now, req[r].now,
                                    NoTerms, 0), req[r].row.terms)
    BY <1>1, <1>6 DEF Decline, Runs, Permitted, CanMove, AnswerOps, Memo
  <2> QED
    BY <1>3, <2>1 DEF StatusAfter
<1>7. CASE RequestChange(r)
  <2>1. /\ "change_requested" \in CreatorTransitions[memo.status]
        /\ memo'.status = "change_requested"
        /\ record' = Sealed(EntryOf("memo_change_requested", "creator", req[r].now,
                                    req[r].now, NoTerms, 0), req[r].row.terms)
    BY <1>1, <1>7 DEF RequestChange, Runs, Permitted, CanMove, AnswerOps, Memo
  <2> QED
    BY <1>3, <2>1 DEF StatusAfter
<1>8. CASE Cancel(r)
  <2> DEFINE actor == IF req[r].op = "cancel" THEN "brand" ELSE "creator"
  <2>1. memo'.status = "cancelled"
    BY <1>1, <1>8 DEF Cancel, Memo
  <2>2. "cancelled" \in BrandTransitions[memo.status] \union CreatorTransitions[memo.status]
    BY <1>8 DEF Cancel, Runs, Permitted, CanMove, AnswerOps
  <2>3. CASE record' = record
    BY <1>2, <2>1, <2>3 DEF RecordsNothing
  <2>4. CASE record' # record
    <3>1. record' = Sealed(EntryOf("memo_cancelled", actor, req[r].now, req[r].now,
                                   NoTerms, 0), req[r].row.terms)
      BY <1>8, <2>4 DEF Cancel
    <3> HIDE DEF actor
    <3> QED
      BY <1>3, <2>1, <2>2, <3>1 DEF StatusAfter
  <2> QED
    BY <2>3, <2>4
<1> QED
  BY <1>4, <1>5, <1>6, <1>7, <1>8

LEMMA RecordedProof ==
    ASSUME Typed, NEW r \in Requests,
           SubmitProof(r) \/ SettleIfOverdue(r) \/ ApproveProof(r) \/ RequestRevision(r)
    PROVE  \/ \E entry : RecordsSubmission(entry)
           \/ \E p \in DOMAIN proofs :
                 \/ \E entry : RecordsReturn(p, entry)
                 \/ \E actor \in {"brand", "system"}, at \in Int, now \in Day :
                       RecordsApproval(p, actor, at, now)
<1>1. TypeOK
  BY DEF Typed
<1>2. CASE SubmitProof(r)
  <2>1. req[r].now \in Day
    BY <1>2, RequestParts DEF SubmitProof, Runs, Typed
  <2>2. memo.status = "accepted" /\ NoneWaiting
    BY <1>2 DEF SubmitProof, Runs, Permitted, AnswerOps
  <2>3. SubmitsWork
    BY <1>2, <2>1, <2>2 DEF SubmitProof, SubmitsWork
  <2>4. PICK entry : entry = EntryOf("proof_submitted", "creator", req[r].now, req[r].now,
                                     NoTerms, Len(proofs) + 1)
    OBVIOUS
  <2>5. entry.kind = "proof_submitted" /\ entry.proof = Len(proofs) + 1
    BY <2>4 DEF EntryOf
  <2>6. record' = Sealed(entry, memo.terms)
    BY <1>2, <2>4 DEF SubmitProof
  <2> QED
    BY <1>1, <2>3, <2>5, <2>6, SealedAdds DEF RecordsSubmission
<1>3. CASE SettleIfOverdue(r) \/ ApproveProof(r) \/ RequestRevision(r)
  <2>1. PICK p : p = req[r].proof
    OBVIOUS
  <2>2. /\ p \in DOMAIN proofs
        /\ req[r].now \in Day /\ req[r].now \in Int
    BY <1>3, <2>1, RequestParts
       DEF SettleIfOverdue, ApproveProof, RequestRevision, Runs, AnswerOps, Typed,
           AnswersNameAProof
  <2>3. CASE SettleIfOverdue(r)
    <3>1. Waiting(p) /\ UNCHANGED memo
      BY <2>1, <2>3 DEF SettleIfOverdue, Runs, Permitted, SettlePermitted
    <3>2. ApprovalDeadline(p) \in Int
      BY <1>1, <2>2, ClockType
    <3>3. Approve(p, ApprovalKind("system"), "system", ApprovalDeadline(p), req[r].now)
      BY <2>1, <2>3 DEF SettleIfOverdue, ClockApproves, ApprovalKind
    <3>4. RecordsApproval(p, "system", ApprovalDeadline(p), req[r].now)
      <4>1. ApprovalKind("system") \in RecordKinds
        BY DEF ApprovalKind, RecordKinds
      <4> QED
        BY <1>1, <2>2, <3>1, <3>2, <3>3, <4>1, ApproveAdds DEF RecordsApproval
    <3> QED
      BY <2>2, <3>2, <3>4
  <2>4. CASE ApproveProof(r)
    <3>1. Waiting(p) /\ UNCHANGED memo
      BY <2>1, <2>4 DEF ApproveProof, Runs, Permitted, AnswerOps
    <3>2. Approve(p, ApprovalKind("brand"), "brand", req[r].now, req[r].now)
      BY <2>1, <2>4 DEF ApproveProof, ApprovalKind
    <3>3. RecordsApproval(p, "brand", req[r].now, req[r].now)
      <4>1. ApprovalKind("brand") \in RecordKinds
        BY DEF ApprovalKind, RecordKinds
      <4> QED
        BY <1>1, <2>2, <3>1, <3>2, <4>1, ApproveAdds DEF RecordsApproval
    <3> QED
      BY <2>2, <3>3
  <2>5. CASE RequestRevision(r)
    <3>1. Waiting(p) /\ memo.status = "accepted"
      BY <2>1, <2>5 DEF RequestRevision, Runs, Permitted, AnswerOps
    <3>2. ReturnsWork(p)
      BY <2>1, <2>5, <3>1 DEF RequestRevision, ReturnsWork
    <3>3. PICK entry : entry = EntryOf("proof_revision_requested", "brand", req[r].now,
                                       req[r].now, NoTerms, p)
      OBVIOUS
    <3>4. /\ entry.kind = "proof_revision_requested" /\ entry.proof = p
          /\ record' = Sealed(entry, memo.terms)
      BY <2>1, <2>5, <3>3 DEF EntryOf, RequestRevision
    <3> QED
      BY <1>1, <2>2, <3>2, <3>4, SealedAdds DEF RecordsReturn
  <2> QED
    BY <1>3, <2>3, <2>4, <2>5
<1> QED
  BY <1>2, <1>3

(* What any step does to the record and to what the record tells.            *)
LEMMA RecordSteps ==
    ASSUME Typed, [Next]_vars
    PROVE  \/ RecordsNothing
           \/ \E entry : RecordsMove(entry) \/ RecordsSubmission(entry)
           \/ \E p \in DOMAIN proofs :
                 \/ \E entry : RecordsReturn(p, entry)
                 \/ \E actor \in {"brand", "system"}, at \in Int, now \in Day :
                       RecordsApproval(p, actor, at, now)
<1>1. CASE NextDay \/ UNCHANGED vars
  BY <1>1 DEF NextDay, vars, RecordsNothing
<1>2. ASSUME NEW r \in Requests, Reads(r) \/ Refuse(r) PROVE RecordsNothing
  BY <1>2 DEF Reads, ReadForUpdate, ReadForMove, ReadForAnswer, ReadForLook, Read,
     Refuse, RecordsNothing
<1>3. ASSUME NEW r \in Requests, Update(r) PROVE RecordsNothing
  BY <1>3 DEF Update, RecordsNothing, Typed, TypeOK, Memo
<1> QED
  BY <1>1, <1>2, <1>3, RecordedMove, RecordedProof DEF Next, Transacts

IsMemoStep(entry) == entry.kind \in DOMAIN StatusAfter
IsApproval(entry) == entry.kind \in {"proof_approved", "proof_auto_approved"}

(* The entry a step adds is the last of each sort it belongs to.             *)
LEMMA AddsLast ==
    ASSUME NEW entry, Adds(entry)
    PROVE  \E m \in DOMAIN record' \ DOMAIN record :
              /\ record'[m] = entry
              /\ \A i \in DOMAIN record : i < m /\ i \in DOMAIN record' /\ record'[i] = record[i]
              /\ MemoEntries' = MemoEntries \union (IF IsMemoStep(entry) THEN {m} ELSE {})
              /\ ApprovalEntries' =
                    ApprovalEntries \union (IF IsApproval(entry) THEN {m} ELSE {})
              /\ \A p : p # 0 => EntriesOn(p)' =
                    EntriesOn(p) \union (IF entry.proof = p THEN {m} ELSE {})
<1>1. PICK m \in DOMAIN record' \ DOMAIN record :
          /\ record'[m] = entry
          /\ \A i \in DOMAIN record : i < m /\ record'[i] = record[i]
          /\ \A i \in DOMAIN record' \ DOMAIN record :
                i # m => record'[i].kind \in Aside /\ record'[i].proof = 0
  BY DEF Adds
<1>2. DOMAIN record \subseteq DOMAIN record'
  BY DEF Adds
<1>3. \A i \in DOMAIN record' : i \notin DOMAIN record /\ i # m =>
          /\ record'[i].kind \notin DOMAIN StatusAfter
          /\ record'[i].kind \notin {"proof_approved", "proof_auto_approved"}
          /\ record'[i].proof = 0
  BY <1>1 DEF Aside, StatusAfter
<1>4. MemoEntries' = MemoEntries \union (IF IsMemoStep(entry) THEN {m} ELSE {})
  BY <1>1, <1>2, <1>3 DEF MemoEntries, IsMemoStep
<1>5. ApprovalEntries' = ApprovalEntries \union (IF IsApproval(entry) THEN {m} ELSE {})
  BY <1>1, <1>2, <1>3 DEF ApprovalEntries, IsApproval
<1>6. \A p : p # 0 => EntriesOn(p)' = EntriesOn(p) \union (IF entry.proof = p THEN {m} ELSE {})
  BY <1>1, <1>2, <1>3 DEF EntriesOn
<1> QED
  BY <1>1, <1>2, <1>4, <1>5, <1>6

(* The record's memo entries are a legal course that ends where the memo is. *)
CourseInv == RecordIsALegalDeal /\ RecordTellsTheStatus

LEMMA CourseInvInit == Init => CourseInv
BY DEF Init, CourseInv, RecordIsALegalDeal, RecordTellsTheStatus, MemoEntries

(* An entry that tells of no move leaves the course as it is.                *)
LEMMA CourseStays ==
    ASSUME CourseInv, NEW entry, Adds(entry), ~IsMemoStep(entry),
           UNCHANGED memo.status
    PROVE  CourseInv'
<1>1. PICK m :
         /\ \A i \in DOMAIN record : record'[i] = record[i]
         /\ MemoEntries' = MemoEntries
  BY AddsLast
<1>2. \A i \in MemoEntries : StatusTold(i)' = StatusTold(i)
  BY <1>1 DEF MemoEntries, StatusTold
<1> QED
  BY <1>1, <1>2 DEF CourseInv, RecordIsALegalDeal, RecordTellsTheStatus

LEMMA CourseMoves ==
    ASSUME Typed, Typed', CourseInv, NEW entry, RecordsMove(entry)
    PROVE  CourseInv'
<1>1. PICK m \in DOMAIN record' :
         /\ record'[m] = entry
         /\ \A i \in DOMAIN record : i < m /\ record'[i] = record[i]
         /\ MemoEntries' = MemoEntries \union {m}
  BY AddsLast DEF RecordsMove, IsMemoStep
<1>2. /\ \A i \in MemoEntries : i < m /\ i \in Int /\ StatusTold(i)' = StatusTold(i)
      /\ StatusTold(m)' = memo'.status /\ m \in Int
  <2>1. MemoEntries \subseteq DOMAIN record /\ m \in Int
    BY <1>1, LenProperties DEF Typed, TypeOK, MemoEntries
  <2> QED
    BY <1>1, <2>1, RecordIndices DEF Typed, StatusTold, RecordsMove
<1>3. RecordTellsTheStatus'
  BY <1>1, <1>2 DEF RecordTellsTheStatus
<1>4. RecordIsALegalDeal'
  <2> SUFFICES ASSUME NEW i \in MemoEntries', NEW j \in MemoEntries', i < j,
                      \A k \in MemoEntries' : k <= i \/ j <= k
               PROVE  StatusTold(j)' \in BrandTransitions[StatusTold(i)']
                                          \union CreatorTransitions[StatusTold(i)']
    BY DEF RecordIsALegalDeal
  <2>1. i \in MemoEntries
    BY <1>1, <1>2
  <2>2. CASE j # m
    BY <1>1, <1>2, <2>1, <2>2 DEF CourseInv, RecordIsALegalDeal
  <2>3. CASE j = m
    <3>1. memo.status \in {StatusTold(i), "cancelled"}
      BY <1>1, <1>2, <2>1, <2>3 DEF CourseInv, RecordTellsTheStatus
    <3>2. memo.status # "cancelled"
      BY DEF RecordsMove, BrandTransitions, CreatorTransitions, MemoStatuses, EditableStatuses
    <3> QED
      BY <1>2, <2>1, <2>3, <3>1, <3>2 DEF RecordsMove
  <2> QED
    BY <2>2, <2>3
<1> QED
  BY <1>3, <1>4 DEF CourseInv

LEMMA CourseInvStep == Typed /\ CourseInv /\ [Next]_vars => CourseInv'
<1> SUFFICES ASSUME Typed, CourseInv, [Next]_vars PROVE CourseInv'
  OBVIOUS
<1>1. CASE RecordsNothing
  BY <1>1 DEF RecordsNothing, CourseInv, RecordIsALegalDeal, RecordTellsTheStatus,
     MemoEntries, StatusTold
<1>2. ASSUME NEW entry, RecordsMove(entry) PROVE CourseInv'
  BY <1>2, CourseMoves, StepTyped
<1>3. ASSUME NEW entry, RecordsSubmission(entry) PROVE CourseInv'
  <2>1. UNCHANGED memo.status /\ ~IsMemoStep(entry)
    BY <1>3, SubmitEffect DEF RecordsSubmission, IsMemoStep, StatusAfter
  <2> QED
    BY <1>3, <2>1, CourseStays DEF RecordsSubmission
<1>4. ASSUME NEW p, NEW entry, RecordsReturn(p, entry) PROVE CourseInv'
  <2>1. UNCHANGED memo.status /\ ~IsMemoStep(entry)
    BY <1>4 DEF RecordsReturn, ReturnsWork, IsMemoStep, StatusAfter
  <2> QED
    BY <1>4, <2>1, CourseStays DEF RecordsReturn
<1>5. ASSUME NEW p, NEW actor, NEW at, NEW now, RecordsApproval(p, actor, at, now)
      PROVE  CourseInv'
  <2>1. UNCHANGED memo.status
        /\ ~IsMemoStep(EntryOf(ApprovalKind(actor), actor, at, now, NoTerms, p))
    BY <1>5 DEF RecordsApproval, IsMemoStep, StatusAfter, EntryOf, ApprovalKind
  <2> QED
    BY <1>5, <2>1, CourseStays DEF RecordsApproval
<1> QED
  BY <1>1, <1>2, <1>3, <1>4, <1>5, RecordSteps

(* The entries on a submission are its own and its answer's.                 *)
AnswerTold(p, a) ==
    IF proofs[p].status = "approved" THEN a \in Approvals(p)
    ELSE record[a].kind = "proof_revision_requested"

StepsTold(p) ==
    \E s \in EntriesOn(p) :
        /\ record[s].kind = "proof_submitted"
        /\ IF Waiting(p) THEN EntriesOn(p) = {s}
           ELSE \E a \in EntriesOn(p) : EntriesOn(p) = {s, a} /\ AnswerTold(p, a)

StepsInv ==
    /\ \A i \in DOMAIN record : record[i].proof \in {0} \union DOMAIN proofs
    /\ \A p \in DOMAIN proofs : StepsTold(p)

LEMMA ProofParts ==
    ASSUME Typed, NEW p \in DOMAIN proofs
    PROVE  /\ proofs[p] \in Proof /\ p # 0 /\ p \in 1..Len(proofs)
           /\ Len(proofs) \in Nat /\ DOMAIN proofs = 1..Len(proofs)
BY LenProperties, ElementOfSeq DEF Typed, TypeOK

LEMMA StepsToldTell == Typed /\ StepsInv => ProofStepsAreRecorded
<1> SUFFICES ASSUME Typed, StepsInv, NEW p \in DOMAIN proofs
             PROVE  LET answers == {i \in EntriesOn(p) : record[i].kind # "proof_submitted"}
                    IN  /\ Cardinality(EntriesOn(p) \ answers) = 1
                        /\ CASE proofs[p].status = "submitted" -> answers = {}
                             [] proofs[p].status = "approved" ->
                                    answers = Approvals(p) /\ Cardinality(answers) = 1
                             [] proofs[p].status = "revision_requested" ->
                                    /\ Cardinality(answers) = 1
                                    /\ \A i \in answers :
                                          record[i].kind = "proof_revision_requested"
  BY DEF ProofStepsAreRecorded
<1> DEFINE answers == {i \in EntriesOn(p) : record[i].kind # "proof_submitted"}
<1>1. proofs[p].status \in ProofStatuses
  BY ProofParts DEF Proof
<1>2. PICK s \in EntriesOn(p) :
        /\ record[s].kind = "proof_submitted"
        /\ IF Waiting(p) THEN EntriesOn(p) = {s}
           ELSE \E a \in EntriesOn(p) : EntriesOn(p) = {s, a} /\ AnswerTold(p, a)
  BY DEF StepsInv, StepsTold
<1>3. CASE Waiting(p)
  <2>1. answers = {} /\ EntriesOn(p) \ answers = {s}
    BY <1>2, <1>3
  <2> QED
    BY <1>3, <2>1, FS_Singleton DEF Waiting
<1>4. CASE ~Waiting(p)
  <2>1. PICK a \in EntriesOn(p) : EntriesOn(p) = {s, a} /\ AnswerTold(p, a)
    BY <1>2, <1>4
  <2>2. record[a].kind # "proof_submitted"
    BY <2>1 DEF AnswerTold, Approvals
  <2>3. answers = {a} /\ EntriesOn(p) \ answers = {s}
    BY <1>2, <2>1, <2>2
  <2>4. Cardinality(answers) = 1 /\ Cardinality(EntriesOn(p) \ answers) = 1
    BY <2>3, FS_Singleton
  <2>5. proofs[p].status = "approved" => Approvals(p) = {a}
    BY <1>2, <2>1 DEF AnswerTold, Approvals, EntriesOn
  <2>6. proofs[p].status = "revision_requested" => record[a].kind = "proof_revision_requested"
    BY <2>1 DEF AnswerTold
  <2> QED
    BY <1>1, <1>4, <2>3, <2>4, <2>5, <2>6 DEF Waiting, ProofStatuses
<1> QED
  BY <1>3, <1>4

(* An entry about something else changes nothing told of a submission.       *)
LEMMA ToldStays ==
    ASSUME NEW entry, Adds(entry), NEW p, p # 0, entry.proof # p,
           proofs'[p] = proofs[p], StepsTold(p)
    PROVE  StepsTold(p)'
<1>1. /\ EntriesOn(p)' = EntriesOn(p)
      /\ \A i \in DOMAIN record : i \in DOMAIN record' /\ record'[i] = record[i]
  BY SMTT(30), AddsLast
<1>2. EntriesOn(p) \subseteq DOMAIN record
  BY DEF EntriesOn
<1>3. \A a \in EntriesOn(p) : AnswerTold(p, a) => AnswerTold(p, a)'
  BY <1>1, <1>2 DEF AnswerTold, Approvals
<1>4. Waiting(p)' <=> Waiting(p)
  BY DEF Waiting
<1> QED
  BY <1>1, <1>2, <1>3, <1>4 DEF StepsTold

LEMMA NamesStay ==
    ASSUME StepsInv, NEW entry, Adds(entry), DOMAIN proofs \subseteq DOMAIN proofs',
           entry.proof \in {0} \union DOMAIN proofs'
    PROVE  \A i \in DOMAIN record' : record'[i].proof \in {0} \union DOMAIN proofs'
BY DEF StepsInv, Adds

(* The entry that answers a submission is told of it.                        *)
LEMMA AnswerIsTold ==
    ASSUME NEW p, p # 0, StepsTold(p), Waiting(p), ~Waiting(p)', NEW entry, Adds(entry),
           entry.proof = p,
           proofs'[p].status = "approved" =>
              /\ entry.kind = (IF proofs'[p].auto THEN "proof_auto_approved"
                                                  ELSE "proof_approved")
              /\ entry.occurred = proofs'[p].approvedAt,
           proofs'[p].status # "approved" => entry.kind = "proof_revision_requested"
    PROVE  StepsTold(p)'
<1>1. PICK m \in DOMAIN record' :
          /\ record'[m] = entry
          /\ \A i \in DOMAIN record : record'[i] = record[i]
          /\ EntriesOn(p)' = EntriesOn(p) \union {m}
  BY AddsLast
<1>2. PICK s \in EntriesOn(p) : record[s].kind = "proof_submitted" /\ EntriesOn(p) = {s}
  BY DEF StepsTold
<1>3. record'[s].kind = "proof_submitted" /\ EntriesOn(p)' = {s, m}
  BY <1>1, <1>2 DEF EntriesOn
<1>4. AnswerTold(p, m)'
  BY <1>1 DEF AnswerTold, Approvals
<1> QED
  BY <1>3, <1>4 DEF StepsTold

LEMMA StepsInvInit == Init => StepsInv
BY DEF Init, StepsInv

LEMMA StepsInvStep == Typed /\ StepsInv /\ [Next]_vars => StepsInv'
<1> SUFFICES ASSUME Typed, StepsInv, [Next]_vars PROVE StepsInv'
  OBVIOUS
<1>1. CASE RecordsNothing
  BY <1>1 DEF RecordsNothing, StepsInv, StepsTold, AnswerTold, Approvals, EntriesOn, Waiting
<1>2. ASSUME NEW entry, RecordsMove(entry) PROVE StepsInv'
  <2>1. \A p \in DOMAIN proofs : StepsTold(p)'
    BY <1>2, ToldStays, ProofParts DEF RecordsMove, StepsInv
  <2> QED
    BY <1>2, <2>1, NamesStay DEF RecordsMove, StepsInv
<1>3. ASSUME NEW entry, RecordsSubmission(entry) PROVE StepsInv'
  <2>1. PICK n : n = Len(proofs) + 1
    OBVIOUS
  <2>2. /\ DOMAIN proofs' = DOMAIN proofs \union {n} /\ n \notin DOMAIN proofs
        /\ \A p \in DOMAIN proofs : proofs'[p] = proofs[p]
        /\ proofs'[n].status = "submitted" /\ n # 0
        /\ Adds(entry) /\ entry.kind = "proof_submitted" /\ entry.proof = n
    <3>1. SubmitsWork /\ Adds(entry) /\ entry.kind = "proof_submitted" /\ entry.proof = n
      BY <1>3, <2>1 DEF RecordsSubmission
    <3>2. n # 0
      BY <2>1, LenProperties DEF Typed, TypeOK
    <3> QED
      BY <2>1, <3>1, <3>2, SubmitEffect
  <2>3. \A p \in DOMAIN proofs : StepsTold(p)'
    BY <2>2, ToldStays, ProofParts DEF StepsInv
  <2>4. StepsTold(n)'
    <3>1. EntriesOn(n) = {}
      BY <2>2 DEF StepsInv, EntriesOn
    <3>2. PICK m \in DOMAIN record' : record'[m] = entry /\ EntriesOn(n)' = {m}
      BY <2>2, <3>1, AddsLast
    <3> QED
      BY <2>2, <3>2 DEF StepsTold, Waiting
  <2>5. \A i \in DOMAIN record' : record'[i].proof \in {0} \union DOMAIN proofs'
    BY <2>2, NamesStay
  <2> QED
    BY <2>2, <2>3, <2>4, <2>5 DEF StepsInv
<1>4. ASSUME NEW p \in DOMAIN proofs, NEW entry, RecordsReturn(p, entry)
      PROVE  StepsInv'
  <2>1. /\ DOMAIN proofs' = DOMAIN proofs /\ Adds(entry) /\ entry.proof = p
        /\ \A i \in DOMAIN proofs : i # p => proofs'[i] = proofs[i]
    BY <1>4, AnswerEffect DEF RecordsReturn
  <2>2. proofs'[p].status = "revision_requested"
    BY <1>4, ProofParts DEF RecordsReturn, ReturnsWork, Proof
  <2>3. StepsTold(p)'
    BY <1>4, <2>1, <2>2, AnswerIsTold, ProofParts
       DEF RecordsReturn, ReturnsWork, Waiting, StepsInv
  <2>4. \A i \in DOMAIN proofs : i # p => StepsTold(i)'
    BY <2>1, ToldStays, ProofParts DEF StepsInv
  <2>5. \A i \in DOMAIN record' : record'[i].proof \in {0} \union DOMAIN proofs'
    BY <2>1, NamesStay
  <2> QED
    BY <2>1, <2>3, <2>4, <2>5 DEF StepsInv
<1>5. ASSUME NEW p \in DOMAIN proofs, NEW actor \in {"brand", "system"}, NEW at \in Int,
             NEW now \in Day, RecordsApproval(p, actor, at, now)
      PROVE  StepsInv'
  <2>1. PICK entry : entry = EntryOf(ApprovalKind(actor), actor, at, now, NoTerms, p)
    OBVIOUS
  <2>2. /\ Adds(entry) /\ entry.proof = p /\ entry.kind = ApprovalKind(actor)
        /\ entry.occurred = at
    BY <1>5, <2>1 DEF RecordsApproval, EntryOf
  <2>3. proofs' = [proofs EXCEPT ![p] = [proofs[p] EXCEPT !.status = "approved",
                                         !.approvedAt = at, !.auto = (actor = "system")]]
    BY <1>5 DEF RecordsApproval, Approve
  <2>4. /\ DOMAIN proofs' = DOMAIN proofs
        /\ \A i \in DOMAIN proofs : i # p => proofs'[i] = proofs[i]
        /\ proofs'[p] = [proofs[p] EXCEPT !.status = "approved",
                                         !.approvedAt = at, !.auto = (actor = "system")]
    BY <2>3
  <2>5. /\ proofs'[p].status = "approved" /\ proofs'[p].approvedAt = at
        /\ proofs'[p].auto = (actor = "system")
    BY <2>4, ProofParts DEF Proof
  <2>6. StepsTold(p)'
    <3>1. entry.kind = (IF proofs'[p].auto THEN "proof_auto_approved" ELSE "proof_approved")
      BY <2>2, <2>5 DEF ApprovalKind
    <3>2. Waiting(p) /\ ~Waiting(p)' /\ StepsTold(p) /\ p # 0
      BY <1>5, <2>5, ProofParts DEF RecordsApproval, Waiting, StepsInv
    <3> QED
      BY <2>2, <2>5, <3>1, <3>2, AnswerIsTold
  <2>7. \A i \in DOMAIN proofs : i # p => StepsTold(i)'
    BY <2>2, <2>4, ToldStays, ProofParts DEF StepsInv
  <2>8. \A i \in DOMAIN record' : record'[i].proof \in {0} \union DOMAIN proofs'
    BY <2>2, <2>4, NamesStay
  <2> QED
    BY <2>4, <2>6, <2>7, <2>8 DEF StepsInv
<1> QED
  BY <1>1, <1>2, <1>3, <1>4, <1>5, RecordSteps

(* The sealed record, read alone, is the story of one legal deal, ends where *)
(* the memo stands and tells each submission's steps, whichever requests     *)
(* raced on the memo and whatever the clock answered for a silent brand.     *)
THEOREM RecordIsTrusted == Spec => []RecordTellsTheDeal
<1>1. Typed /\ CourseInv /\ StepsInv => RecordTellsTheDeal
  BY StepsToldTell DEF CourseInv, RecordTellsTheDeal
<1> QED
  BY <1>1, CourseInvInit, CourseInvStep, StepsInvInit, StepsInvStep, AlwaysTyped, PTL DEF Spec

-----------------------------------------------------------------------------
(* The payment, opened with the first approval and never again.              *)

Owes == CampaignType \in {"paid", "local_business"}

DatedByTheFirst ==
    \E i \in ApprovalEntries :
        /\ payments[1].dueOn = record[i].occurred + PaymentDue
        /\ \A j \in ApprovalEntries : i <= j

PayInv ==
    /\ CampaignType = "barter" => payments = <<>>
    /\ Owes =>
          /\ Approved # {} <=> payments # <<>>
          /\ ApprovalEntries # {} <=> payments # <<>>
          /\ payments # <<>> => Len(payments) = 1 /\ DatedByTheFirst

LEMMA PayInvInit == Init => PayInv
BY DEF Init, PayInv, Approved, ApprovalEntries

(* A step that approves nothing leaves the payment and its date.             *)
LEMMA PayStays ==
    ASSUME PayInv, UNCHANGED payments, UNCHANGED record \/ \E entry : Adds(entry) /\ ~IsApproval(entry),
           Approved' = Approved
    PROVE  PayInv'
<1>1. /\ ApprovalEntries' = ApprovalEntries
      /\ \A i \in ApprovalEntries : record'[i] = record[i]
  <2>1. CASE UNCHANGED record
    BY <2>1 DEF ApprovalEntries
  <2>2. ASSUME NEW entry, Adds(entry), ~IsApproval(entry)
        PROVE  /\ ApprovalEntries' = ApprovalEntries
               /\ \A i \in ApprovalEntries : record'[i] = record[i]
    BY <2>2, AddsLast DEF ApprovalEntries
  <2> QED
    BY <2>1, <2>2
<1> QED
  BY <1>1 DEF PayInv, Owes, DatedByTheFirst

LEMMA PayOpens ==
    ASSUME Typed, PayInv, FeeInv, NEW p \in DOMAIN proofs, NEW actor \in {"brand", "system"},
           NEW at \in Int, NEW now \in Day, RecordsApproval(p, actor, at, now)
    PROVE  PayInv'
<1>1. PICK entry : entry = EntryOf(ApprovalKind(actor), actor, at, now, NoTerms, p)
  OBVIOUS
<1>2. Adds(entry) /\ IsApproval(entry) /\ entry.occurred = at
  BY <1>1 DEF RecordsApproval, EntryOf, IsApproval, ApprovalKind
<1>3. PICK m \in DOMAIN record' \ DOMAIN record :
         /\ record'[m] = entry
         /\ \A i \in DOMAIN record : i < m /\ record'[i] = record[i]
         /\ ApprovalEntries' = ApprovalEntries \union {m}
  BY <1>2, AddsLast
<1>4. /\ payments' = IF OpensPayment
                     THEN <<[amount |-> memo.terms.fee, dueOn |-> at + PaymentDue]>>
                     ELSE payments
      /\ proofs' = [proofs EXCEPT ![p] = [proofs[p] EXCEPT !.status = "approved",
                                          !.approvedAt = at, !.auto = (actor = "system")]]
  BY DEF RecordsApproval, Approve
<1>5. Approved' # {}
  <2>1. p \in DOMAIN proofs' /\ proofs'[p].status = "approved"
    BY <1>4, ProofParts DEF Proof
  <2> QED
    BY <2>1 DEF Approved
<1>6. CampaignType = "barter" => payments' = <<>>
  BY <1>4 DEF PayInv, FeeInv, FeeFits, OpensPayment
<1>7. ASSUME Owes
      PROVE  payments' # <<>> /\ Len(payments') = 1 /\ DatedByTheFirst'
  <2>1. memo.terms.fee > 0
    BY <1>7 DEF Owes, FeeInv, FeeFits
  <2>2. CASE payments = <<>>
    <3>1. payments' = <<[amount |-> memo.terms.fee, dueOn |-> at + PaymentDue]>>
      BY <1>4, <2>1, <2>2 DEF OpensPayment
    <3>2. Len(payments') = 1 /\ payments'[1].dueOn = at + PaymentDue /\ payments' # <<>>
      BY <3>1
    <3>3. ApprovalEntries' = {m}
      BY <1>3, <1>7, <2>2 DEF PayInv
    <3>4. m <= m
      <4>1. ApprovalEntries' \subseteq DOMAIN record' /\ DOMAIN record' \subseteq Int
        BY StepTyped, <1>3, LenProperties, ApproveType
           DEF ApprovalEntries, RecordsApproval, Typed, ApprovalKind, RecordKinds
      <4> QED
        BY <1>3, <4>1
    <3> QED
      BY <1>2, <1>3, <3>2, <3>3, <3>4 DEF DatedByTheFirst
  <2>3. CASE payments # <<>>
    <3>1. payments' = payments
      BY <1>4, <2>3 DEF OpensPayment
    <3>2. PICK i \in ApprovalEntries :
            /\ payments[1].dueOn = record[i].occurred + PaymentDue
            /\ \A j \in ApprovalEntries : i <= j
      BY <1>7, <2>3 DEF PayInv, DatedByTheFirst
    <3>3. i \in DOMAIN record /\ i < m /\ i \in Int
      BY <1>3, <3>2, RecordIndices DEF ApprovalEntries, Typed
    <3>4. i <= m
      <4>1. m \in Int
        BY <1>3, LenProperties, ApproveType
           DEF RecordsApproval, Typed, ApprovalKind, RecordKinds
      <4> QED
        BY <3>3, <4>1
    <3> QED
      BY <1>3, <1>7, <2>3, <3>1, <3>2, <3>3, <3>4 DEF PayInv, DatedByTheFirst
  <2> QED
    BY <2>2, <2>3
<1> QED
  BY <1>3, <1>5, <1>6, <1>7 DEF PayInv, Owes

LEMMA PayInvStep == Typed /\ FeeInv /\ PayInv /\ [Next]_vars => PayInv'
<1> SUFFICES ASSUME Typed, FeeInv, PayInv, [Next]_vars PROVE PayInv'
  OBVIOUS
<1>1. CASE RecordsNothing
  BY <1>1, PayStays DEF RecordsNothing, Approved
<1>2. ASSUME NEW entry, RecordsMove(entry) PROVE PayInv'
  <2>1. ~IsApproval(entry) /\ Approved' = Approved
    BY <1>2 DEF RecordsMove, IsApproval, StatusAfter, Approved
  <2> QED
    BY <1>2, <2>1, PayStays DEF RecordsMove
<1>3. ASSUME NEW entry, RecordsSubmission(entry) PROVE PayInv'
  <2>1. Approved' = Approved
    BY <1>3, SubmitEffect DEF RecordsSubmission, Approved
  <2> QED
    BY <1>3, <2>1, PayStays DEF RecordsSubmission, IsApproval, SubmitsWork
<1>4. ASSUME NEW p \in DOMAIN proofs, NEW entry, RecordsReturn(p, entry)
      PROVE  PayInv'
  <2>1. proofs'[p].status = "revision_requested" /\ proofs[p].status = "submitted"
    BY <1>4, ProofParts DEF RecordsReturn, ReturnsWork, Waiting, Proof
  <2>2. Approved' = Approved
    BY <1>4, <2>1, AnswerEffect DEF RecordsReturn, Approved
  <2> QED
    BY <1>4, <2>2, PayStays DEF RecordsReturn, ReturnsWork, IsApproval
<1> QED
  BY <1>1, <1>2, <1>3, <1>4, PayOpens, RecordSteps

(* A paid deal owes one payment from the first approval of its work on, and  *)
(* none before; its date is counted from that approval and never moves.      *)
THEOREM PaymentOpensOnce == Spec => []FirstApprovalOpensThePayment
<1>1. PayInv => FirstApprovalOpensThePayment
  <2>1. Len(<<>>) = 0
    OBVIOUS
  <2> QED
    BY <2>1 DEF PayInv, Owes, DatedByTheFirst, FirstApprovalOpensThePayment
<1> QED
  BY <1>1, PayInvInit, PayInvStep, AlwaysTyped, AlwaysFeeInv, PTL DEF Spec

-----------------------------------------------------------------------------
(* The clock and the window it gives.                                        *)

(* Only the last submission waits, so the clock never runs on a later one.   *)
LastWaits == \A p \in DOMAIN proofs : Waiting(p) => p = Len(proofs)

ClockInv == LastWaits /\ ClockGivesTheWindow

LEMMA DeadlineIsFair ==
    ASSUME Typed, NEW p \in DOMAIN proofs, p = Len(proofs)
    PROVE  \/ ApprovalDeadline(p) = proofs[p].created + Window + 1
           \/ /\ p > 2
              /\ \E i, j \in 1..(p - 1) :
                    /\ i # j /\ proofs[i].created <= proofs[j].created
                    /\ ApprovalDeadline(p) = proofs[j].created + Window + 1
<1> DEFINE Second(j) == Cardinality({k \in EarlierThan(p) : Before(k, j)}) = 1
<1>1. EarlierThan(p) \subseteq 1..(p - 1)
  <2> SUFFICES ASSUME NEW i \in EarlierThan(p) PROVE i \in 1..(p - 1)
    OBVIOUS
  <2>1. i \in 1..p /\ p \in Nat /\ proofs[p].created \in Int
    BY ProofParts, BoundsAssumption DEF EarlierThan, Proof, Day
  <2>2. i # p
    BY <2>1 DEF EarlierThan, Before
  <2> QED
    BY <2>1, <2>2
<1>2. CASE \E j \in EarlierThan(p) : Second(j)
  <2>1. PICK j : j = CHOOSE i \in EarlierThan(p) : Second(i)
    OBVIOUS
  <2>2. j \in EarlierThan(p) /\ Second(j)
    BY <1>2, <2>1
  <2>3. ApprovalDeadline(p) = proofs[j].created + Window + 1
    BY <1>2, <2>1 DEF ApprovalDeadline, ReviewClockStart
  <2>4. PICK i \in EarlierThan(p) : Before(i, j)
    <3>1. PICK S : S = {k \in EarlierThan(p) : Before(k, j)}
      OBVIOUS
    <3>2. Cardinality(S) = 1
      BY <2>2, <3>1
    <3>3. S # {}
      BY <3>2, FS_EmptySet
    <3> QED
      BY <3>1, <3>3
  <2>5. /\ i \in 1..(p - 1) /\ j \in 1..(p - 1) /\ p \in Nat
        /\ proofs[i].created \in Int /\ proofs[j].created \in Int
    <3>1. i \in DOMAIN proofs /\ j \in DOMAIN proofs
      BY <2>2, <2>4 DEF EarlierThan
    <3> QED
      BY <1>1, <2>2, <2>4, <3>1, ProofParts, BoundsAssumption DEF Proof, Day
  <2>6. i # j /\ proofs[i].created <= proofs[j].created
    BY <2>4, <2>5 DEF Before
  <2>7. p > 2
    BY <2>5, <2>6
  <2> QED
    BY <2>3, <2>5, <2>6, <2>7
<1>3. CASE ~\E j \in EarlierThan(p) : Second(j)
  BY <1>3 DEF ApprovalDeadline, ReviewClockStart
<1> QED
  BY <1>2, <1>3

(* What was approved keeps the dates its window is counted from.             *)
LEMMA WindowStays ==
    ASSUME Typed, ClockGivesTheWindow, NEW p \in DOMAIN proofs,
           proofs'[p] = proofs[p], proofs[p].auto,
           \A i \in DOMAIN proofs : proofs'[i].created = proofs[i].created
    PROVE  \/ proofs'[p].approvedAt = proofs'[p].created + Window + 1
           \/ /\ p > 2
              /\ \E i, j \in 1..(p - 1) :
                    /\ i # j /\ proofs'[i].created <= proofs'[j].created
                    /\ proofs'[p].approvedAt = proofs'[j].created + Window + 1
<1>1. 1..(p - 1) \subseteq DOMAIN proofs
  BY ProofParts
<1> QED
  BY <1>1 DEF ClockGivesTheWindow

LEMMA ClockInvInit == Init => ClockInv
BY DEF Init, ClockInv, LastWaits, ClockGivesTheWindow

LEMMA ClockInvStep == Typed /\ ClockInv /\ [Next]_vars => ClockInv'
<1> SUFFICES ASSUME Typed, ClockInv, [Next]_vars PROVE ClockInv'
  OBVIOUS
<1>1. CASE UNCHANGED proofs
  BY <1>1 DEF ClockInv, LastWaits, ClockGivesTheWindow, Waiting
<1>2. CASE SubmitsWork
  <2>1. PICK n : n = Len(proofs) + 1
    OBVIOUS
  <2>2. /\ DOMAIN proofs' = DOMAIN proofs \union {n}
        /\ \A i \in DOMAIN proofs : proofs'[i] = proofs[i]
        /\ proofs'[n].auto = FALSE
    BY <1>2, <2>1, SubmitEffect
  <2>3. Len(proofs') = n
    BY <1>2, <2>1 DEF SubmitsWork, Typed, TypeOK
  <2>4. LastWaits'
    BY <1>2, <2>2, <2>3 DEF LastWaits, SubmitsWork, NoneWaiting, Waiting
  <2>5. ClockGivesTheWindow'
    <3>1. ClockGivesTheWindow
      BY DEF ClockInv
    <3> SUFFICES ASSUME NEW i \in DOMAIN proofs, proofs'[i].auto
                 PROVE  \/ proofs'[i].approvedAt = proofs'[i].created + Window + 1
                        \/ /\ i > 2
                           /\ \E a, b \in 1..(i - 1) :
                                 /\ a # b /\ proofs'[a].created <= proofs'[b].created
                                 /\ proofs'[i].approvedAt = proofs'[b].created + Window + 1
      BY <2>2 DEF ClockGivesTheWindow
    <3> QED
      BY <2>2, <3>1, WindowStays
  <2> QED
    BY <2>4, <2>5 DEF ClockInv
<1>3. ASSUME NEW p \in DOMAIN proofs, NEW entry, RecordsReturn(p, entry)
      PROVE  ClockInv'
  <2>1. /\ DOMAIN proofs' = DOMAIN proofs
        /\ \A i \in DOMAIN proofs : i # p => proofs'[i] = proofs[i]
        /\ proofs'[p].created = proofs[p].created
    BY <1>3, AnswerEffect DEF RecordsReturn
  <2>2. proofs'[p].status = "revision_requested" /\ proofs'[p].auto = proofs[p].auto
        /\ proofs'[p].approvedAt = proofs[p].approvedAt
    BY <1>3, ProofParts DEF RecordsReturn, ReturnsWork, Proof
  <2>3. Len(proofs') = Len(proofs)
    BY <1>3, ProofParts DEF RecordsReturn, ReturnsWork, Typed, TypeOK
  <2>4. LastWaits'
    BY <2>1, <2>2, <2>3 DEF ClockInv, LastWaits, Waiting
  <2>5. ClockGivesTheWindow'
    <3>1. \A i \in DOMAIN proofs : 1..(i - 1) \subseteq DOMAIN proofs
      BY ProofParts
    <3>2. \A i \in DOMAIN proofs : /\ proofs'[i].created = proofs[i].created
                                   /\ proofs'[i].auto = proofs[i].auto
                                   /\ proofs'[i].approvedAt = proofs[i].approvedAt
      BY <2>1, <2>2
    <3> QED
      BY <2>1, <3>1, <3>2 DEF ClockInv, ClockGivesTheWindow
  <2> QED
    BY <2>4, <2>5 DEF ClockInv
<1>4. ASSUME NEW p \in DOMAIN proofs, NEW actor \in {"brand", "system"}, NEW at \in Int,
             NEW now \in Day, RecordsApproval(p, actor, at, now)
      PROVE  ClockInv'
  <2>1. proofs' = [proofs EXCEPT ![p] = [proofs[p] EXCEPT !.status = "approved",
                                         !.approvedAt = at, !.auto = (actor = "system")]]
    BY <1>4 DEF RecordsApproval, Approve
  <2>2. /\ DOMAIN proofs' = DOMAIN proofs /\ Len(proofs') = Len(proofs)
        /\ \A i \in DOMAIN proofs : i # p => proofs'[i] = proofs[i]
        /\ proofs'[p] = [proofs[p] EXCEPT !.status = "approved",
                                         !.approvedAt = at, !.auto = (actor = "system")]
    BY <2>1, ProofParts DEF Typed, TypeOK
  <2>3. /\ proofs'[p].status = "approved" /\ proofs'[p].approvedAt = at
        /\ proofs'[p].auto = (actor = "system") /\ proofs'[p].created = proofs[p].created
    BY <2>2, ProofParts DEF Proof
  <2>4. LastWaits'
    BY <2>2, <2>3 DEF ClockInv, LastWaits, Waiting
  <2>5. \A i \in DOMAIN proofs : proofs'[i].created = proofs[i].created
    BY <2>2, <2>3
  <2>6. ClockGivesTheWindow'
    <3> SUFFICES ASSUME NEW i \in DOMAIN proofs, proofs'[i].auto
                 PROVE  \/ proofs'[i].approvedAt = proofs'[i].created + Window + 1
                        \/ /\ i > 2
                           /\ \E a, b \in 1..(i - 1) :
                                 /\ a # b /\ proofs'[a].created <= proofs'[b].created
                                 /\ proofs'[i].approvedAt = proofs'[b].created + Window + 1
      BY <2>2 DEF ClockGivesTheWindow
    <3>1. CASE i # p
      <4>1. proofs'[i] = proofs[i] /\ ClockGivesTheWindow
        BY <2>2, <3>1 DEF ClockInv
      <4>2. proofs[i].auto
        BY <4>1
      <4> QED
        BY <2>5, <4>1, <4>2, WindowStays
    <3>2. CASE i = p
      <4>1. at = ApprovalDeadline(p) /\ p = Len(proofs)
        BY <1>4, <2>3, <3>2 DEF RecordsApproval, ClockInv, LastWaits
      <4>2. 1..(p - 1) \subseteq DOMAIN proofs
        BY ProofParts
      <4>3. \/ at = proofs[p].created + Window + 1
            \/ /\ p > 2
               /\ \E a, b \in 1..(p - 1) :
                     /\ a # b /\ proofs[a].created <= proofs[b].created
                     /\ at = proofs[b].created + Window + 1
        <5> HIDE DEF Typed
        <5> QED
          BY <4>1, DeadlineIsFair
      <4>4. CASE at = proofs[p].created + Window + 1
        BY <2>3, <3>2, <4>4
      <4>5. ASSUME p > 2, NEW a \in 1..(p - 1), NEW b \in 1..(p - 1),
                   a # b, proofs[a].created <= proofs[b].created,
                   at = proofs[b].created + Window + 1
            PROVE  /\ proofs'[a].created <= proofs'[b].created
                   /\ proofs'[p].approvedAt = proofs'[b].created + Window + 1
        <5>1. a \in DOMAIN proofs /\ b \in DOMAIN proofs
          BY <4>2
        <5> QED
          BY <2>3, <2>5, <4>5, <5>1
      <4> QED
        BY <3>2, <4>3, <4>4, <4>5
    <3> QED
      BY <3>1, <3>2
  <2> QED
    BY <2>4, <2>6 DEF ClockInv
<1> QED
  BY <1>1, <1>2, <1>3, <1>4, RecordSteps DEF RecordsNothing, RecordsMove, RecordsSubmission

(* Nobody's silence is turned into approval early: what the clock approved   *)
(* was given its whole window, or followed a second submission that was.     *)
THEOREM WindowIsGiven == Spec => []ClockGivesTheWindow
<1>1. ClockInv => ClockGivesTheWindow
  BY DEF ClockInv
<1> QED
  BY <1>1, ClockInvInit, ClockInvStep, AlwaysTyped, PTL DEF Spec
=============================================================================
