------------------------ MODULE IdempotencyStoreProofs ------------------------
(* What IdempotencyStore promises of its replays, for any number of attempts  *)
(* and bodies, whatever fails, expires or dies.                               *)
EXTENDS IdempotencyStore, TLAPS

\* What Redis holds was written by an attempt with that body, and an answer by
\* one whose work is committed.
EntryIsTrue ==
    entry # Nothing =>
        /\ attempt[entry.by] # Unsent
        /\ attempt[entry.by].body = entry.body
        /\ entry.state = "done" => entry.by \in committed

\* Work is committed before it is answered.
WorkedIsCommitted == \A a \in Attempts : Stage(a) = "worked" => a \in committed

\* Who earned the answer a replay gave.
ReplayIsOfAnAttempt ==
    \A a \in Attempts : Stage(a) = "replayed" => attempt[attempt[a].of] # Unsent

ReplayInv ==
    /\ TypeOK /\ EntryIsTrue /\ WorkedIsCommitted /\ ReplayIsOfAnAttempt
    /\ SuccessesAreTrue

\* Shapes of the values the variables take, for the proofs below.
LEMMA Shapes ==
    ASSUME TypeOK, NEW a \in Attempts
    PROVE  /\ attempt[a] # Unsent => attempt[a].body \in Bodies
           /\ attempt[a] # Unsent <=> Stage(a) # "unsent"
           /\ Stage(a) = "replayed" => attempt[a].of \in Attempts
           /\ entry # Nothing => /\ entry.by \in Attempts /\ entry.body \in Bodies
                                 /\ entry.state \in {"in_flight", "done"}
  <1>1. attempt[a] \in Attempt \union {Unsent}
    BY DEF TypeOK
  <1>2. entry \in Entry \union {Nothing}
    BY DEF TypeOK
  <1> QED
    BY <1>1, <1>2 DEF Attempt, Unsent, Stages, Stage, Entry, Nothing

\* Changing one attempt to a later stage with its body keeps the rest.
LEMMA Moves ==
    ASSUME TypeOK, NEW a \in Attempts, attempt[a] # Unsent,
           NEW new \in Attempt, new.body = attempt[a].body,
           attempt' = [attempt EXCEPT ![a] = new]
    PROVE  /\ attempt' \in [Attempts -> Attempt \union {Unsent}]
           /\ attempt'[a] = new
           /\ \A b \in Attempts : b # a => attempt'[b] = attempt[b]
           /\ \A b \in Attempts : attempt[b] # Unsent =>
                 attempt'[b] # Unsent /\ attempt'[b].body = attempt[b].body
  <1>1. new # Unsent
    BY DEF Attempt, Unsent, Stages
  <1> QED
    BY <1>1 DEF TypeOK

LEMMA ReplayStart == Init => ReplayInv
  BY DEF Init, ReplayInv, TypeOK, EntryIsTrue, WorkedIsCommitted,
         ReplayIsOfAnAttempt, SuccessesAreTrue, Stage, Unsent, Nothing, Attempt

LEMMA ReplayStep == ReplayInv /\ [Next]_vars => ReplayInv'
  <1> SUFFICES ASSUME ReplayInv, [Next]_vars PROVE ReplayInv'
    OBVIOUS
  <1> USE DEF ReplayInv
  <1>1. ASSUME NEW a \in Attempts, NEW body \in Bodies, Send(a, body)
        PROVE  ReplayInv'
    <2>1. attempt'[a] = [stage |-> "arrived", body |-> body]
      BY <1>1 DEF Send, TypeOK
    <2>2. \A b \in Attempts : attempt[b] # Unsent => b # a /\ attempt'[b] = attempt[b]
      BY <1>1 DEF Send, TypeOK
    <2>3. TypeOK'
      BY <1>1 DEF Send, TypeOK, Attempt, Stages
    <2>4. \A b \in Attempts : b # a => attempt'[b] = attempt[b]
      BY <1>1 DEF Send, TypeOK
    <2>5. EntryIsTrue'
      BY <1>1, <2>2, Shapes DEF Send, EntryIsTrue
    <2>6. WorkedIsCommitted' /\ ReplayIsOfAnAttempt'
      BY <1>1, <2>1, <2>2, <2>4, Shapes
         DEF Send, WorkedIsCommitted, ReplayIsOfAnAttempt, Stage
    <2>7. SuccessesAreTrue'
      BY <1>1, <2>1, <2>2, <2>4, Shapes
         DEF Send, SuccessesAreTrue, ReplayIsOfAnAttempt, Stage
    <2> QED
      BY <2>3, <2>5, <2>6, <2>7
  <1>2. ASSUME NEW a \in Attempts, Proceeds(a) \/ Crash(a)
        PROVE  ReplayInv'
    <2>1. attempt[a] # Unsent /\ attempt[a].body \in Bodies
      BY <1>2, Shapes
         DEF Proceeds, ClaimSet, ClaimGet, ClaimUnavailable, Work, Complete,
             CompleteUnavailable, Release, Crash, Unsent, Stage
    <2>2. PICK new \in Attempt :
             /\ new.body = attempt[a].body
             /\ attempt' = [attempt EXCEPT ![a] = new]
             /\ new.stage = "worked" => a \in committed'
             /\ new.stage = "answered" /\ new.answer = "own" => a \in committed'
             /\ new.stage = "replayed" =>
                   /\ new.of \in Attempts /\ new.of \in committed
                   /\ attempt[new.of] # Unsent
                   /\ attempt[new.of].body = new.body
      <3>1. CASE \E stage \in Stages :
                    Goes(a, stage) /\ (stage = "worked" => a \in committed')
        BY ZenonT(40), <3>1, <2>1 DEF Goes, Attempt, Stages
      <3>2. CASE \E answer \in Answers :
                    Answered(a, answer) /\ (answer = "own" => a \in committed')
        BY <3>2, <2>1 DEF Answered, Attempt
      <3>3. CASE Replayed(a, entry.by) /\ entry # Nothing /\ entry.state = "done"
                    /\ entry.body = attempt[a].body
        <4> DEFINE new == [stage |-> "replayed", body |-> attempt[a].body,
                           of |-> entry.by]
        <4>1. entry.by \in Attempts /\ attempt[entry.by] # Unsent
              /\ entry.by \in committed /\ attempt[entry.by].body = attempt[a].body
          BY <3>3, Shapes DEF EntryIsTrue
        <4>2. new \in Attempt
          BY <4>1, <2>1 DEF Attempt
        <4>3. attempt' = [attempt EXCEPT ![a] = new]
          BY <3>3 DEF Replayed
        <4>4. new.body = attempt[a].body /\ new.of = entry.by /\ new.stage = "replayed"
          OBVIOUS
        <4> HIDE DEF new
        <4> QED
          BY <4>1, <4>2, <4>3, <4>4
      <3>4. \/ \E stage \in Stages :
                  Goes(a, stage) /\ (stage = "worked" => a \in committed')
            \/ \E answer \in Answers :
                  Answered(a, answer) /\ (answer = "own" => a \in committed')
            \/ Replayed(a, entry.by) /\ entry # Nothing /\ entry.state = "done"
                  /\ entry.body = attempt[a].body
        <4>1. CASE ClaimSet(a)
          BY <4>1 DEF ClaimSet, Stages
        <4>2. CASE ClaimGet(a)
          BY <4>2, Shapes DEF ClaimGet, Stages, Answers
        <4>3. CASE ClaimUnavailable(a) \/ CompleteUnavailable(a) \/ Release(a)
          BY <4>3 DEF ClaimUnavailable, CompleteUnavailable, Release, Answers
        <4>4. CASE Work(a)
          BY <4>4 DEF Work, Stages
        <4>5. CASE Complete(a)
          BY <4>5 DEF Complete, Answers, WorkedIsCommitted
        <4>6. CASE Crash(a)
          BY <4>6 DEF Crash, Stages
        <4> QED
          BY <1>2, <4>1, <4>2, <4>3, <4>4, <4>5, <4>6 DEF Proceeds
      <3> QED
        BY <3>1, <3>2, <3>3, <3>4
    <2>3. committed \subseteq committed' /\ committed' \subseteq committed \union {a}
      BY <1>2
         DEF Proceeds, ClaimSet, ClaimGet, ClaimUnavailable, Work, Complete,
             CompleteUnavailable, Release, Crash
    <2>4. \/ entry' = entry
          \/ entry' = Nothing
          \/ /\ entry' \in Entry /\ entry'.by = a /\ entry'.body = attempt[a].body
             /\ entry'.state = "done" => a \in committed
      <3>1. CASE ClaimSet(a)
        BY <3>1, <2>1 DEF ClaimSet, Entry
      <3>2. CASE Complete(a)
        BY <3>2, <2>1 DEF Complete, Entry, WorkedIsCommitted
      <3>3. CASE Release(a)
        BY <3>3 DEF Release
      <3>4. CASE \/ ClaimGet(a) \/ ClaimUnavailable(a) \/ Work(a)
                 \/ CompleteUnavailable(a) \/ Crash(a)
        BY <3>4 DEF ClaimGet, ClaimUnavailable, Work, CompleteUnavailable, Crash
      <3> QED
        BY <1>2, <3>1, <3>2, <3>3, <3>4 DEF Proceeds
    <2>5. /\ attempt' \in [Attempts -> Attempt \union {Unsent}]
          /\ attempt'[a] = new
          /\ \A b \in Attempts : b # a => attempt'[b] = attempt[b]
          /\ \A b \in Attempts : attempt[b] # Unsent =>
                attempt'[b] # Unsent /\ attempt'[b].body = attempt[b].body
      BY <2>1, <2>2, Moves
    <2>6. TypeOK'
      BY <2>3, <2>4, <2>5 DEF TypeOK
    <2>7. EntryIsTrue'
      BY <2>1, <2>3, <2>4, <2>5, Shapes DEF EntryIsTrue, Nothing
    <2>8. WorkedIsCommitted'
      BY <2>2, <2>3, <2>5 DEF WorkedIsCommitted, Stage
    <2>9. ReplayIsOfAnAttempt' /\ SuccessesAreTrue'
      BY <2>2, <2>3, <2>5, Shapes DEF ReplayIsOfAnAttempt, SuccessesAreTrue, Stage
    <2> QED
      BY <2>6, <2>7, <2>8, <2>9
  <1>3. CASE Expire
    BY <1>3 DEF Expire, TypeOK, EntryIsTrue, WorkedIsCommitted, ReplayIsOfAnAttempt,
                SuccessesAreTrue, Stage
  <1>4. CASE UNCHANGED vars
    BY <1>4 DEF vars, TypeOK, EntryIsTrue, WorkedIsCommitted, ReplayIsOfAnAttempt,
                SuccessesAreTrue, Stage
  <1> QED
    BY <1>1, <1>2, <1>3, <1>4 DEF Next

\* For every number of attempts and bodies: a success, earned or replayed, is of
\* committed work for that body (core/idempotency.py claim and complete).
THEOREM RepliesAreTrue == Spec => []SuccessesAreTrue
  <1>1. Spec => []ReplayInv
    BY ReplayStart, ReplayStep, PTL DEF Spec
  <1>2. ReplayInv => SuccessesAreTrue
    BY DEF ReplayInv
  <1> QED
    BY <1>1, <1>2, PTL
=============================================================================
