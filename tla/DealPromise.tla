---------------------------- MODULE DealPromise -----------------------------
(* What a deal promises its two sides, whatever the services do to keep it:  *)
(* work is asked for only while both agree, one piece of work is judged at a *)
(* time and each judgement is final, money is owed from the first approval   *)
(* on, and walking away is free exactly until work has been handed in.       *)
EXTENDS Naturals, Sequences

CONSTANT Paid  \* {TRUE} for a paid deal, {FALSE} for an unpaid one, or either

VARIABLES
    phase,   \* "talks", "agreed", "declined" or "cancelled"
    work,    \* the judgement of each piece of work handed in, in order
    ending,  \* "none", "free" or "counted"
    owed     \* whether the payment is owed

vars == <<phase, work, ending, owed>>

Judgements == {"approved", "revision_requested"}
NothingWaits == \A w \in DOMAIN work : work[w] # "submitted"

Init ==
    /\ phase \in {"talks", "agreed"}
    /\ work = <<>>
    /\ ending = "none"
    /\ owed = FALSE

Agree ==
    /\ phase = "talks"
    /\ phase' = "agreed"
    /\ UNCHANGED <<work, ending, owed>>

Decline ==
    /\ phase = "talks"
    /\ phase' = "declined"
    /\ UNCHANGED <<work, ending, owed>>

Cancel ==
    /\ phase \in {"talks", "agreed"}
    /\ phase' = "cancelled"
    /\ ending' = IF work = <<>> THEN "free" ELSE "counted"
    /\ UNCHANGED <<work, owed>>

Submit ==
    /\ phase = "agreed"
    /\ NothingWaits
    /\ work' = Append(work, "submitted")
    /\ UNCHANGED <<phase, ending, owed>>

\* Work handed in before a cancellation may still be approved after it.
Approve(w) ==
    /\ phase \in {"agreed", "cancelled"}
    /\ work[w] = "submitted"
    /\ work' = [work EXCEPT ![w] = "approved"]
    /\ \E pays \in Paid : owed' = (owed \/ pays)
    /\ UNCHANGED <<phase, ending>>

Return(w) ==
    /\ phase = "agreed"
    /\ work[w] = "submitted"
    /\ work' = [work EXCEPT ![w] = "revision_requested"]
    /\ UNCHANGED <<phase, ending, owed>>

Next ==
    \/ Agree \/ Decline \/ Cancel \/ Submit
    \/ \E w \in DOMAIN work : Approve(w) \/ Return(w)

Spec == Init /\ [][Next]_vars
=============================================================================
