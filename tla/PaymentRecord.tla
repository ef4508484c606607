---------------------------- MODULE PaymentRecord ----------------------------
(***************************************************************************)
(* What the two sides say about the money of a deal: the payment record    *)
(* (payment_status/service.py), marked one at a time or in bulk, its       *)
(* dispute (disputes/service.py) and the entries both leave on the deal    *)
(* record.                                                                 *)
(*                                                                         *)
(* Every change is one transaction that takes row locks one by one, checks *)
(* the first row again once it holds it, and commits at the end.  The lock *)
(* steps are steps here, so requests meet in every order and may wait for  *)
(* each other.  What a transaction wrote is seen when it commits: every    *)
(* row it writes is locked until then.                                     *)
(*                                                                         *)
(* A request stamps its time (get_now) when it arrives and reads later, so *)
(* requests read in one order with stamps in any other.                    *)
(***************************************************************************)
EXTENDS Integers, Sequences, FiniteSets

CONSTANTS
    Requests,  \* requests, each sent once
    Deals,     \* the deals of one brand; a payment and a dispute have its name
    NoOne,     \* who acted before the requests modelled
    MaxStamp   \* bound: the last moment at which a request arrives

ASSUME RequestsAssumption == NoOne \notin Requests
ASSUME DealsAssumption == IsFiniteSet(Deals)
ASSUME MaxStampAssumption == MaxStamp \in Nat

Moment == 0..MaxStamp
Never == -1

-----------------------------------------------------------------------------
VARIABLES
    payment,  \* the payment_status row of each deal
    dispute,  \* the dispute row of each payment
    events,   \* the dispute_event rows of each dispute, in the order committed
    record,   \* the deal record of each deal: its payment and dispute entries
    req,      \* the requests
    held      \* the row locks each request's transaction holds

vars == <<payment, dispute, events, record, req, held>>

NoRow == [row |-> "none"]
Payment == [marked : Moment \union {Never},        \* marked_paid_at
            by : Requests \union {NoOne},          \* whose method and reference
            confirmed : Moment \union {Never}]     \* confirmed_at
Dispute == [closed : BOOLEAN]                      \* outcome is set
Event == [kind : {"opened", "entry", "closed"}, at : Moment]  \* created_at
EntryKinds ==
    {"payment_opened", "payment_marked_paid", "payment_confirmed",
     "dispute_opened", "dispute_entry_added", "dispute_closed"}
Entry == [kind : EntryKinds, by : Requests \union {NoOne}]

PaymentOps == {"mark", "bulk", "confirm"}
DisputeOps == {"open", "add", "close"}
Ops == PaymentOps \union DisputeOps

\* bulk names each deal at most once; the other operations name one.
Lists == {list \in UNION {[1..n -> Deals] : n \in 1..Cardinality(Deals)} :
            \A i, j \in DOMAIN list : list[i] = list[j] => i = j}
ListsFor(op) == IF op = "bulk" THEN Lists ELSE {list \in Lists : Len(list) = 1}

Unsent == [stage |-> "unsent"]
Request ==
    [stage : {"running", "answered", "failed"},
     op : Ops, deals : Lists, stamp : Moment,
     found : SUBSET Deals,  \* deals whose payment the first read found
     step : 1..3,           \* the next lock of the current row
     outcomes : Seq({"recorded", "refused"})]

-----------------------------------------------------------------------------
(* Row locks. *)

RowOf(table, d, mode) == [table |-> table, deal |-> d, mode |-> mode]
Locks == [table : {"payment", "dispute", "memo"}, deal : Deals,
          mode : {"update", "key_share"}]

\* Variant: a confirmation locks the deal's record before the payment.
LocksMemoFirst(op, d) ==
    LET last == RowOf("memo", d, "update")
    IN  CASE op \in {"mark", "bulk"} -> <<RowOf("payment", d, "update"), last>>
          [] op = "confirm" -> <<last, RowOf("payment", d, "update")>>
          [] op = "open" -> <<RowOf("dispute", d, "update"),
                              RowOf("payment", d, "key_share"), last>>
          [] op \in {"add", "close"} -> <<RowOf("dispute", d, "update"), last>>

\* The locks an operation takes on one deal, in order: the row it changes, then
\* the deal itself as its entry is sealed.  The insert of a dispute waits at its
\* unique index and its foreign key shares the payment.
LockOrder(op, d) ==
    LET last == RowOf("memo", d, "update")
    IN  CASE op \in PaymentOps -> <<RowOf("payment", d, "update"), last>>
          [] op = "open" -> <<RowOf("dispute", d, "update"),
                              RowOf("payment", d, "key_share"), last>>
          [] op \in {"add", "close"} -> <<RowOf("dispute", d, "update"), last>>

Running(r) == req[r].stage = "running"
RowAt(q) == Len(q.outcomes) + 1
MoreRows(r) == Running(r) /\ RowAt(req[r]) <= Len(req[r].deals)
DealAt(r) == req[r].deals[RowAt(req[r])]
Order(r) == LockOrder(req[r].op, DealAt(r))
NextLock(r) == Order(r)[req[r].step]

Conflict(a, b) ==
    /\ a.table = b.table /\ a.deal = b.deal
    /\ ~(a.mode = "key_share" /\ b.mode = "key_share")
WaitsFor(r, s) ==
    /\ r # s
    /\ MoreRows(r)
    /\ \E lock \in held[s] : Conflict(NextLock(r), lock)
Free(r) == \A s \in Requests : ~WaitsFor(r, s)

-----------------------------------------------------------------------------
(* The operations. *)

\* Reading first, without a lock: no payment, no dispute to add to, or one
\* already there is answered at once.
Begin(r, op, deals, stamp) ==
    LET d == deals[1]
        found == {e \in Deals : payment[e] # NoRow}
    IN  /\ req[r] = Unsent
        /\ op # "bulk" => d \in found
        /\ op = "open" => dispute[d] = NoRow
        /\ op \in {"add", "close"} => dispute[d] # NoRow
        /\ req' = [req EXCEPT ![r] =
                     [stage |-> "running", op |-> op, deals |-> deals,
                      stamp |-> stamp, found |-> found, step |-> 1,
                      outcomes |-> <<>>]]
        /\ UNCHANGED <<payment, dispute, events, record, held>>

\* Variants: one check is not made again once the row is locked.
PassesMarkedAgain(r, d) ==
    LET q == req[r] IN
    CASE q.op \in {"mark", "bulk"} -> d \in q.found
      [] q.op = "confirm" -> payment[d].confirmed = Never /\ payment[d].marked # Never
      [] q.op = "open" -> dispute[d] = NoRow
      [] q.op \in {"add", "close"} -> ~dispute[d].closed
PassesClosed(r, d) ==
    LET q == req[r] IN
    CASE q.op \in {"mark", "bulk"} -> d \in q.found /\ payment[d].marked = Never
      [] q.op = "confirm" -> payment[d].confirmed = Never /\ payment[d].marked # Never
      [] q.op = "open" -> dispute[d] = NoRow
      [] q.op \in {"add", "close"} -> TRUE

\* What the operation checks once it holds the row it changes.
Passes(r, d) ==
    LET q == req[r] IN
    CASE q.op \in {"mark", "bulk"} -> d \in q.found /\ payment[d].marked = Never
      [] q.op = "confirm" -> payment[d].confirmed = Never /\ payment[d].marked # Never
      [] q.op = "open" -> dispute[d] = NoRow
      [] q.op \in {"add", "close"} -> ~dispute[d].closed

\* The CHECK confirmed_after_marked_paid, met when the entry is flushed.
CheckHolds(q, d) == q.op = "confirm" => payment[d].marked <= q.stamp

\* The next lock is granted; after the last of a deal its row is flushed.
Lock(r) ==
    /\ MoreRows(r) /\ Free(r)
    /\ req[r].step = 1 => Passes(r, DealAt(r))
    /\ held' = [held EXCEPT ![r] = @ \union {NextLock(r)}]
    /\ req' = IF req[r].step < Len(Order(r))
              THEN [req EXCEPT ![r].step = @ + 1]
              ELSE [req EXCEPT ![r].step = 1,
                               ![r].outcomes = Append(@,
                                  IF CheckHolds(req[r], DealAt(r))
                                  THEN "recorded" ELSE "refused")]
    /\ UNCHANGED <<payment, dispute, events, record>>

\* The row is refused, its savepoint rolled back with the lock it took; a row
\* whose payment was not found is refused without a lock.
Refuse(r) ==
    /\ MoreRows(r)
    /\ req[r].step = 1
    /\ ~Passes(r, DealAt(r))
    /\ DealAt(r) \in req[r].found => Free(r)
    /\ req' = [req EXCEPT ![r].outcomes = Append(@, "refused")]
    /\ UNCHANGED <<payment, dispute, events, record, held>>

\* The deals whose rows the request has recorded.
Recorded(q) ==
    {q.deals[i] : i \in {j \in DOMAIN q.outcomes : q.outcomes[j] = "recorded"}}

EntryFor(op) ==
    CASE op \in {"mark", "bulk"} -> "payment_marked_paid"
      [] op = "confirm" -> "payment_confirmed"
      [] op = "open"    -> "dispute_opened"
      [] op = "add"     -> "dispute_entry_added"
      [] op = "close"   -> "dispute_closed"
EventFor(op) ==
    CASE op = "open" -> "opened" [] op = "add" -> "entry" [] op = "close" -> "closed"

\* What the request wrote to the deals it recorded.
Write(r) ==
    LET q       == req[r]
        written == Recorded(q)
    IN  /\ payment' = [d \in Deals |->
              CASE d \in written /\ q.op \in {"mark", "bulk"} ->
                      [payment[d] EXCEPT !.marked = q.stamp, !.by = r]
                [] d \in written /\ q.op = "confirm" ->
                      [payment[d] EXCEPT !.confirmed = q.stamp]
                [] OTHER -> payment[d]]
        /\ dispute' = [d \in Deals |->
              IF d \in written /\ q.op \in {"open", "close"}
              THEN [closed |-> q.op = "close"] ELSE dispute[d]]
        /\ events' = [d \in Deals |->
              IF d \in written /\ q.op \in DisputeOps
              THEN Append(events[d], [kind |-> EventFor(q.op), at |-> q.stamp])
              ELSE events[d]]
        /\ record' = [d \in Deals |->
              IF d \in written
              THEN Append(record[d], [kind |-> EntryFor(q.op), by |-> r])
              ELSE record[d]]

\* One commit for every row, or the rollback of a request refused outright.
Commit(r) ==
    /\ Running(r) /\ ~MoreRows(r)
    /\ Write(r)
    /\ req' = [req EXCEPT ![r].stage = "answered"]
    /\ held' = [held EXCEPT ![r] = {}]

\* Variant: the rows recorded before the failure are kept.
TimeOutKeepingRows(r) ==
    /\ ~Free(r)
    /\ Write(r)
    /\ req' = [req EXCEPT ![r].stage = "failed"]
    /\ held' = [held EXCEPT ![r] = {}]

\* A wait for a lock ends in an error, by PostgreSQL's deadlock check or its
\* statement_timeout: the whole transaction is rolled back.
TimeOut(r) ==
    /\ ~Free(r)
    /\ req' = [req EXCEPT ![r].stage = "failed"]
    /\ held' = [held EXCEPT ![r] = {}]
    /\ UNCHANGED <<payment, dispute, events, record>>

\* The work of a deal is approved and its payment record opens.
OpenOnApproval(d) ==
    /\ payment[d] = NoRow
    /\ \A r \in Requests : RowOf("memo", d, "update") \notin held[r]
    /\ payment' = [payment EXCEPT ![d] =
                     [marked |-> Never, by |-> NoOne, confirmed |-> Never]]
    /\ record' = [record EXCEPT ![d] =
                    Append(@, [kind |-> "payment_opened", by |-> NoOne])]
    /\ UNCHANGED <<dispute, events, req, held>>

-----------------------------------------------------------------------------
\* Deals of any age: not approved yet, open, or already marked as paid.
Init ==
    /\ \E opened, marked \in SUBSET Deals :
          /\ marked \subseteq opened
          /\ payment = [d \in Deals |->
               IF d \in opened
               THEN [marked |-> IF d \in marked THEN 0 ELSE Never,
                     by |-> NoOne, confirmed |-> Never]
               ELSE NoRow]
          /\ record = [d \in Deals |->
               IF d \in marked
               THEN <<[kind |-> "payment_opened", by |-> NoOne],
                      [kind |-> "payment_marked_paid", by |-> NoOne]>>
               ELSE IF d \in opened
               THEN <<[kind |-> "payment_opened", by |-> NoOne]>> ELSE <<>>]
    /\ dispute = [d \in Deals |-> NoRow]
    /\ events = [d \in Deals |-> <<>>]
    /\ req = [r \in Requests |-> Unsent]
    /\ held = [r \in Requests |-> {}]

Proceeds(r) == Lock(r) \/ Refuse(r) \/ Commit(r)

Next ==
    \/ \E r \in Requests :
          \/ \E op \in Ops : \E deals \in ListsFor(op), stamp \in Moment :
                Begin(r, op, deals, stamp)
          \/ Proceeds(r) \/ TimeOut(r)
    \/ \E d \in Deals : OpenOnApproval(d)

Spec == Init /\ [][Next]_vars

\* The server runs every request it took on; PostgreSQL grants a lock that
\* stays free.  Nothing makes a wait fail: a wait that must end, ends by itself.
FairSpec == Spec /\ \A r \in Requests : WF_vars(Proceeds(r))

-----------------------------------------------------------------------------
(* What the code promises. *)

TypeOK ==
    /\ payment \in [Deals -> Payment \union {NoRow}]
    /\ dispute \in [Deals -> Dispute \union {NoRow}]
    /\ events \in [Deals -> Seq(Event)]
    /\ record \in [Deals -> Seq(Entry)]
    /\ req \in [Requests -> Request \union {Unsent}]
    /\ held \in [Requests -> SUBSET Locks]

EntriesBy(r, d) == {i \in DOMAIN record[d] : record[d][i].by = r}

\* Each row is recorded or refused on its own, and an unexpected failure
\* leaves none: what a request was told is exactly what the record holds.
AnswersTellTheRecord ==
    \A r \in Requests, d \in Deals :
        Cardinality(EntriesBy(r, d)) =
            IF req[r].stage = "answered" /\ d \in Recorded(req[r]) THEN 1 ELSE 0

\* The method and reference a payment was first marked with, and the moment it
\* was confirmed, are never replaced by a second tap.
FirstWordStands ==
    [][\A d \in Deals : payment[d] # NoRow =>
         /\ payment'[d] # NoRow
         /\ payment[d].marked # Never =>
              /\ payment'[d].marked = payment[d].marked
              /\ payment'[d].by = payment[d].by
         /\ payment[d].confirmed # Never => payment'[d] = payment[d]]_vars

PlaceOf(d, kind) == {i \in DOMAIN record[d] : record[d][i].kind = kind}
FollowsOnce(d, first, then) ==
    /\ Cardinality(PlaceOf(d, then)) <= 1
    /\ \A i \in PlaceOf(d, then) : \E j \in PlaceOf(d, first) : j < i

\* The record alone tells one legal story of the payment and its dispute, and
\* the rows say the same: opened, marked once, then confirmed once; disputed
\* once, and nothing added after the close.
RecordTellsThePayment ==
    \A d \in Deals :
        /\ FollowsOnce(d, "payment_opened", "payment_marked_paid")
        /\ FollowsOnce(d, "payment_marked_paid", "payment_confirmed")
        /\ FollowsOnce(d, "payment_opened", "dispute_opened")
        /\ FollowsOnce(d, "dispute_opened", "dispute_closed")
        /\ \A i \in PlaceOf(d, "dispute_entry_added") :
              /\ \E j \in PlaceOf(d, "dispute_opened") : j < i
              /\ \A j \in PlaceOf(d, "dispute_closed") : i < j
        /\ payment[d] # NoRow =>
              /\ payment[d].marked # Never <=> PlaceOf(d, "payment_marked_paid") # {}
              /\ payment[d].confirmed # Never <=> PlaceOf(d, "payment_confirmed") # {}
              /\ \A i \in PlaceOf(d, "payment_marked_paid") :
                    record[d][i].by = payment[d].by
        /\ dispute[d] # NoRow =>
              (dispute[d].closed <=> PlaceOf(d, "dispute_closed") # {})

\* Both: what was answered is what is recorded, and that is one legal story.
RecordIsTrue == AnswersTellTheRecord /\ RecordTellsThePayment

\* Some ranking of the deals is followed by the list of each of these requests.
InOneOrder(S) ==
    \E rank \in [Deals -> 1..Cardinality(Deals)] :
        \A r \in S : Running(r) =>
            \A i, j \in DOMAIN req[r].deals :
                i < j => rank[req[r].deals[i]] < rank[req[r].deals[j]]

\* A set of requests each waiting for another of them: none will move again.
Stuck(S) == S # {} /\ \A r \in S : \E s \in S : WaitsFor(r, s)

\* The locks are ordered: requests wait for each other in a circle only if
\* their bulk lists cross, that is, follow no common order of the deals.
OnlyCrossedListsDeadlock ==
    \A S \in SUBSET Requests : Stuck(S) => ~InOneOrder(S)

\* While no bulk lists cross, every request taken on is answered, and no wait
\* has to be broken off for that.
EveryRequestIsAnswered ==
    []InOneOrder(Requests) => \A r \in Requests : Running(r) ~> ~Running(r)

(* The same, seen as what the two sides of a deal may rely on. *)
QuarrelOver(row) ==
    IF row = NoRow THEN "none" ELSE IF row.closed THEN "closed" ELSE "open"
Told(q) == IF q.stage = "answered" THEN <<Recorded(q)>> ELSE <<>>

Promise == INSTANCE MoneyPromise WITH
    People <- Requests, Moments <- Moment, Nothing <- NoRow,
    money <- payment, quarrel <- [d \in Deals |-> QuarrelOver(dispute[d])],
    lines <- [d \in Deals |-> Len(record[d])],
    told <- [r \in Requests |-> Told(req[r])]

\* Requests that take their locks one by one, wait, are refused in part or fail
\* are to everyone else as good as one at a time: each is one statement, made at
\* its commit, and what was said before it stands.
KeepsItsWord == Promise!Spec

(* What the documents say and the code does not keep. *)

\* The timeline is read in the order of created_at; "the order entries were
\* made in ... is preserved exactly".
TimelineKeepsTheOrder ==
    \A d \in Deals : \A i, j \in DOMAIN events[d] :
        i < j => events[d][i].at <= events[d][j].at
=============================================================================
