-------------------------- MODULE IdempotencyStore ---------------------------
(***************************************************************************)
(* The Idempotency-Key of a retried POST: the claims and answers kept in   *)
(* Redis (core/idempotency.py) and the route that uses them                *)
(* (core/idempotent_route.py).  One key of one caller: storage_key scopes  *)
(* keys so that no two meet.                                               *)
(*                                                                         *)
(* Each call to Redis is atomic and a step; between two of them the other  *)
(* attempts, an expiry or a crash may come.  The endpoint itself is one    *)
(* step: its transaction commits or it does not.                           *)
(***************************************************************************)
EXTENDS FiniteSets

CONSTANTS
    Attempts,  \* the requests sent with the key, each sent once
    Bodies     \* their bodies: a fingerprint stands for one

VARIABLES
    entry,     \* what Redis holds under the key
    attempt,   \* where each attempt has come to
    committed  \* the attempts whose work the database committed

vars == <<entry, attempt, committed>>

Nothing == [state |-> "none"]
\* by: the attempt that wrote the entry.  Redis does not keep it; the expiry
\* below reads it, and a replay returns its answer.
Entry == [state : {"in_flight", "done"}, body : Bodies, by : Attempts]

Unsent == [stage |-> "unsent"]
Stages == {"arrived", "taken", "running", "worked", "failed", "crashed"}
Answers == {"own", "error", "unavailable", "in_flight", "body_changed"}
Attempt ==
    [stage : Stages, body : Bodies]
        \union [stage : {"answered"}, body : Bodies, answer : Answers]
        \union [stage : {"replayed"}, body : Bodies, of : Attempts]

Stage(a) == attempt[a].stage
Goes(a, stage) ==
    attempt' = [attempt EXCEPT ![a] = [stage |-> stage, body |-> attempt[a].body]]
Answered(a, answer) ==
    attempt' = [attempt EXCEPT ![a] =
                  [stage |-> "answered", body |-> attempt[a].body, answer |-> answer]]
Replayed(a, of) ==
    attempt' = [attempt EXCEPT ![a] =
                  [stage |-> "replayed", body |-> attempt[a].body, of |-> of]]
Ended(a) == Stage(a) \in {"answered", "replayed", "crashed"}

-----------------------------------------------------------------------------
Send(a, body) ==
    /\ attempt[a] = Unsent
    /\ attempt' = [attempt EXCEPT ![a] = [stage |-> "arrived", body |-> body]]
    /\ UNCHANGED <<entry, committed>>

\* SET NX: the key is claimed if it is free.
ClaimSet(a) ==
    /\ Stage(a) = "arrived"
    /\ IF entry = Nothing
       THEN /\ entry' = [state |-> "in_flight", body |-> attempt[a].body, by |-> a]
            /\ Goes(a, "running")
       ELSE /\ Goes(a, "taken")
            /\ UNCHANGED entry
    /\ UNCHANGED committed

\* Variant: the bodies are not compared.
ClaimGetAnyBody(a) ==
    /\ Stage(a) = "taken"
    /\ \/ entry = Nothing /\ Goes(a, "running")
       \/ /\ entry # Nothing
          /\ \/ entry.state = "in_flight" /\ Answered(a, "in_flight")
             \/ entry.state = "done" /\ Replayed(a, entry.by)
    /\ UNCHANGED <<entry, committed>>

\* GET, as the key was not free: an answer to replay, a claim that runs, another
\* body, or nothing, and then the attempt proceeds without a claim of its own.
ClaimGet(a) ==
    /\ Stage(a) = "taken"
    /\ \/ entry = Nothing /\ Goes(a, "running")
       \/ /\ entry # Nothing /\ entry.body # attempt[a].body
          /\ Answered(a, "body_changed")
       \/ /\ entry # Nothing /\ entry.body = attempt[a].body
          /\ \/ entry.state = "in_flight" /\ Answered(a, "in_flight")
             \/ entry.state = "done" /\ Replayed(a, entry.by)
    /\ UNCHANGED <<entry, committed>>

\* Redis does not answer: nobody runs on an uncertain claim.
ClaimUnavailable(a) ==
    /\ Stage(a) \in {"arrived", "taken"}
    /\ Answered(a, "unavailable")
    /\ UNCHANGED <<entry, committed>>

\* The endpoint commits and has a response below 500, or fails, before its commit
\* or after: a domain error, a fault, or a response of 500 and above.
Work(a) ==
    /\ Stage(a) = "running"
    /\ \/ Goes(a, "worked") /\ committed' = committed \union {a}
       \/ Goes(a, "failed") /\ committed' \in {committed, committed \union {a}}
    /\ UNCHANGED entry

\* SET, over whatever is there.
Complete(a) ==
    /\ Stage(a) = "worked"
    /\ entry' = [state |-> "done", body |-> attempt[a].body, by |-> a]
    /\ Answered(a, "own")
    /\ UNCHANGED committed

\* The work is committed, but its answer cannot be stored: 503.
CompleteUnavailable(a) ==
    /\ Stage(a) = "worked"
    /\ Answered(a, "unavailable")
    /\ UNCHANGED <<entry, committed>>

\* DELETE, whoever's entry is there; or Redis fails and the key is left.
Release(a) ==
    /\ Stage(a) = "failed"
    /\ entry' \in {Nothing, entry}
    /\ Answered(a, "error")
    /\ UNCHANGED committed

\* The process dies; what is committed stays and nobody is answered.
Crash(a) ==
    /\ Stage(a) \in {"arrived", "taken", "running", "worked", "failed"}
    /\ Goes(a, "crashed")
    /\ UNCHANGED <<entry, committed>>

\* Variant: a claim is set without a time to live.
ExpireDone ==
    /\ entry # Nothing /\ entry.state = "done"
    /\ entry' = Nothing
    /\ UNCHANGED <<attempt, committed>>

\* A claim lives 60 seconds, "longer than any request we allow", so the attempt
\* that set it has ended; an answer lives 24 hours.
Expire ==
    /\ entry # Nothing
    /\ entry.state = "in_flight" => Ended(entry.by)
    /\ entry' = Nothing
    /\ UNCHANGED <<attempt, committed>>

-----------------------------------------------------------------------------
Init ==
    /\ entry = Nothing
    /\ attempt = [a \in Attempts |-> Unsent]
    /\ committed = {}

Proceeds(a) ==
    \/ ClaimSet(a) \/ ClaimGet(a) \/ ClaimUnavailable(a)
    \/ Work(a) \/ Complete(a) \/ CompleteUnavailable(a) \/ Release(a)

Next ==
    \/ \E a \in Attempts :
          \/ \E body \in Bodies : Send(a, body)
          \/ Proceeds(a) \/ Crash(a)
    \/ Expire

Spec == Init /\ [][Next]_vars

\* Whatever arrived is run on or dies; Redis expires what it was told to.
FairSpec == Spec /\ WF_vars(Expire) /\ \A a \in Attempts : WF_vars(Proceeds(a) \/ Crash(a))

-----------------------------------------------------------------------------
(* What the code promises. *)

TypeOK ==
    /\ entry \in Entry \union {Nothing}
    /\ attempt \in [Attempts -> Attempt \union {Unsent}]
    /\ committed \subseteq Attempts

\* A success, told to the caller who earned it or replayed to a retry, is of
\* work that was committed for that very body; a failure is never replayed.
SuccessesAreTrue ==
    \A a \in Attempts :
        /\ Stage(a) = "answered" /\ attempt[a].answer = "own" => a \in committed
        /\ Stage(a) = "replayed" =>
              /\ attempt[a].of \in committed
              /\ attempt[attempt[a].of].body = attempt[a].body

\* A process that dies with the key in its hand never keeps it: every claim
\* gives way, to an answer or to nothing.
ClaimsGiveWay ==
    \A a \in Attempts :
        (entry # Nothing /\ entry.state = "in_flight" /\ entry.by = a)
            ~> ~(entry # Nothing /\ entry.state = "in_flight" /\ entry.by = a)

(* What the documents say and the code does not keep. *)

\* "Retrying while the first attempt is still running gives 409".
OneRunsAtATime ==
    \A a, b \in Attempts : Stage(a) = "running" /\ Stage(b) = "running" => a = b
=============================================================================
