---------------------------- MODULE MoneyPromise ----------------------------
(* What the two sides of a deal may rely on when they say what became of its *)
(* money, whatever is under way at once: each request is heard whole, at one *)
(* moment, or not at all.  What it was told is then exactly what it did, to  *)
(* every deal it names, as if it had been alone.                             *)
EXTENDS Integers, Sequences

CONSTANTS
    People,   \* who says something, each once
    Deals,
    Moments,  \* when it may be said
    NoOne,    \* who acted before them
    Nothing,  \* the money of a deal nobody owes yet
    Never     \* a moment that has not come, earlier than every other

VARIABLES
    money,    \* of each deal: marked (when), by (whom) and confirmed (when)
    quarrel,  \* of each deal: "none", "open" or "closed"
    lines,    \* how much the record of each deal holds
    told      \* what each has been told: nothing yet, or the deals recorded

vars == <<money, quarrel, lines, told>>

Init ==
    /\ \A d \in Deals : money[d] # Nothing => money[d].confirmed = Never
    /\ quarrel = [d \in Deals |-> "none"]
    /\ lines \in [Deals -> Nat]
    /\ told = [r \in People |-> <<>>]

\* Whoever speaks is answered once, with one line on each deal recorded.
Hear(r, ds) ==
    /\ told[r] = <<>>
    /\ told' = [told EXCEPT ![r] = <<ds>>]
    /\ lines' = [d \in Deals |-> IF d \in ds THEN lines[d] + 1 ELSE lines[d]]

\* Money falls due on an approval.
Owe(d) ==
    /\ money[d] = Nothing
    /\ money' = [money EXCEPT ![d] =
                   [marked |-> Never, by |-> NoOne, confirmed |-> Never]]
    /\ lines' = [lines EXCEPT ![d] = @ + 1]
    /\ UNCHANGED <<quarrel, told>>

Refused(r) ==
    /\ Hear(r, {})
    /\ UNCHANGED <<money, quarrel>>

\* Every payment recorded as paid was owed and not marked before.
MarkPaid(r, ds, now) ==
    /\ \A d \in ds : money[d] # Nothing /\ money[d].marked = Never
    /\ money' = [d \in Deals |->
                   IF d \in ds THEN [money[d] EXCEPT !.marked = now, !.by = r]
                   ELSE money[d]]
    /\ Hear(r, ds)
    /\ UNCHANGED quarrel

\* Only what was marked is confirmed, once, and no earlier than it was marked.
Confirm(r, d, now) ==
    /\ money[d] # Nothing
    /\ money[d].marked # Never /\ money[d].marked <= now
    /\ money[d].confirmed = Never
    /\ money' = [money EXCEPT ![d].confirmed = now]
    /\ Hear(r, {d})
    /\ UNCHANGED quarrel

Quarrel(r, d) ==
    /\ money[d] # Nothing /\ quarrel[d] = "none"
    /\ quarrel' = [quarrel EXCEPT ![d] = "open"]
    /\ Hear(r, {d})
    /\ UNCHANGED money

Add(r, d) ==
    /\ quarrel[d] = "open"
    /\ Hear(r, {d})
    /\ UNCHANGED <<money, quarrel>>

Close(r, d) ==
    /\ quarrel[d] = "open"
    /\ quarrel' = [quarrel EXCEPT ![d] = "closed"]
    /\ Hear(r, {d})
    /\ UNCHANGED money

Next ==
    \/ \E d \in Deals : Owe(d)
    \/ \E r \in People :
          \/ Refused(r)
          \/ \E ds \in SUBSET Deals, now \in Moments : MarkPaid(r, ds, now)
          \/ \E d \in Deals :
                \/ \E now \in Moments : Confirm(r, d, now)
                \/ Quarrel(r, d) \/ Add(r, d) \/ Close(r, d)

Spec == Init /\ [][Next]_vars
=============================================================================
