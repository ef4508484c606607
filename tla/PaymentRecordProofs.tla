------------------------- MODULE PaymentRecordProofs -------------------------
(* What PaymentRecord promises for any number of requests and deals: the      *)
(* first word about a payment stands, requests wait for each other in a       *)
(* circle only if their bulk lists cross, and the record of a deal is one     *)
(* legal story that holds exactly what the requests were told.                *)
EXTENDS PaymentRecord, FiniteSetTheorems, WellFoundedInduction, TLAPS

-----------------------------------------------------------------------------
(* Shapes.                                                                    *)

LEMMA ListType ==
    ASSUME NEW list \in Lists
    PROVE  /\ list \in Seq(Deals)
           /\ Len(list) \in Nat /\ Len(list) >= 1
           /\ DOMAIN list = 1..Len(list)
<1>1. Cardinality(Deals) \in Nat
  BY DealsAssumption, FS_CardinalityType
<1>2. PICK n \in 1..Cardinality(Deals) : list \in [1..n -> Deals]
  BY DEF Lists
<1> QED
  BY <1>1, <1>2

LEMMA ListsForType ==
    ASSUME NEW op \in Ops, NEW list \in ListsFor(op)
    PROVE  list \in Lists /\ (op # "bulk" => Len(list) = 1)
BY DEF ListsFor

\* The tables in the order in which one deal's rows are locked.
TableRank(table) ==
    CASE table = "dispute" -> 0 [] table = "payment" -> 1 [] table = "memo" -> 2

LEMMA TwoLocks ==
    ASSUME NEW a \in Locks, NEW b \in Locks, NEW d \in Deals,
           a.deal = d, b.deal = d, TableRank(a.table) \in 0..2,
           TableRank(b.table) \in 0..2, TableRank(a.table) < TableRank(b.table)
    PROVE  /\ <<a, b>> \in Seq(Locks) /\ Len(<<a, b>>) = 2
           /\ \A k \in 1..2 :
                 /\ <<a, b>>[k].deal = d /\ TableRank(<<a, b>>[k].table) \in 0..2
                 /\ \A j \in 1..(k - 1) : TableRank(<<a, b>>[j].table)
                                            < TableRank(<<a, b>>[k].table)
<1>1. \A k \in 1..2 : k = 1 \/ k = 2
  OBVIOUS
<1>2. <<a, b>>[1] = a /\ <<a, b>>[2] = b
  OBVIOUS
<1>3. \A j \in 1..(1 - 1) : FALSE
  OBVIOUS
<1>4. \A j \in 1..(2 - 1) : j = 1
  OBVIOUS
<1>5. <<a, b>> \in Seq(Locks) /\ Len(<<a, b>>) = 2
  OBVIOUS
<1> QED
  BY <1>1, <1>2, <1>3, <1>4, <1>5

LEMMA ThreeLocks ==
    ASSUME NEW a \in Locks, NEW b \in Locks, NEW c \in Locks, NEW d \in Deals,
           a.deal = d, b.deal = d, c.deal = d,
           TableRank(a.table) \in 0..2, TableRank(b.table) \in 0..2,
           TableRank(c.table) \in 0..2, TableRank(a.table) < TableRank(b.table),
           TableRank(b.table) < TableRank(c.table)
    PROVE  /\ <<a, b, c>> \in Seq(Locks) /\ Len(<<a, b, c>>) = 3
           /\ \A k \in 1..3 :
                 /\ <<a, b, c>>[k].deal = d /\ TableRank(<<a, b, c>>[k].table) \in 0..2
                 /\ \A j \in 1..(k - 1) : TableRank(<<a, b, c>>[j].table)
                                            < TableRank(<<a, b, c>>[k].table)
<1>1. \A k \in 1..3 : k = 1 \/ k = 2 \/ k = 3
  OBVIOUS
<1>2. <<a, b, c>>[1] = a /\ <<a, b, c>>[2] = b /\ <<a, b, c>>[3] = c
  OBVIOUS
<1>3. \A j \in 1..(1 - 1) : FALSE
  OBVIOUS
<1>4. \A j \in 1..(2 - 1) : j = 1
  OBVIOUS
<1>5. \A j \in 1..(3 - 1) : j = 1 \/ j = 2
  OBVIOUS
<1>6. TableRank(a.table) < TableRank(c.table)
  OBVIOUS
<1>7. <<a, b, c>> \in Seq(Locks) /\ Len(<<a, b, c>>) = 3
  OBVIOUS
<1> QED
  BY <1>1, <1>2, <1>3, <1>4, <1>5, <1>6, <1>7

LEMMA RowLocks ==
    ASSUME NEW d \in Deals
    PROVE  /\ RowOf("payment", d, "update") \in Locks
           /\ RowOf("payment", d, "update").deal = d
           /\ TableRank(RowOf("payment", d, "update").table) = 1
           /\ RowOf("payment", d, "key_share") \in Locks
           /\ RowOf("payment", d, "key_share").deal = d
           /\ TableRank(RowOf("payment", d, "key_share").table) = 1
           /\ RowOf("dispute", d, "update") \in Locks
           /\ RowOf("dispute", d, "update").deal = d
           /\ TableRank(RowOf("dispute", d, "update").table) = 0
           /\ RowOf("memo", d, "update") \in Locks
           /\ RowOf("memo", d, "update").deal = d
           /\ TableRank(RowOf("memo", d, "update").table) = 2
BY DEF RowOf, Locks, TableRank

LEMMA OrderType ==
    ASSUME NEW op \in Ops, NEW d \in Deals
    PROVE  /\ LockOrder(op, d) \in Seq(Locks)
           /\ Len(LockOrder(op, d)) = IF op = "open" THEN 3 ELSE 2
           /\ \A k \in 1..Len(LockOrder(op, d)) :
                 /\ LockOrder(op, d)[k].deal = d
                 /\ TableRank(LockOrder(op, d)[k].table) \in 0..2
                 /\ \A j \in 1..(k - 1) : TableRank(LockOrder(op, d)[j].table)
                                            < TableRank(LockOrder(op, d)[k].table)
           /\ op \in PaymentOps => LockOrder(op, d)[1] = RowOf("payment", d, "update")
<1>1. CASE op \in PaymentOps
  <2>1. LockOrder(op, d) = <<RowOf("payment", d, "update"), RowOf("memo", d, "update")>>
    BY <1>1 DEF LockOrder, PaymentOps
  <2>2. op # "open"
    BY <1>1 DEF PaymentOps
  <2>3. LockOrder(op, d)[1] = RowOf("payment", d, "update")
    BY <2>1
  <2>4. /\ LockOrder(op, d) \in Seq(Locks) /\ Len(LockOrder(op, d)) = 2
        /\ \A k \in 1..2 :
                 /\ LockOrder(op, d)[k].deal = d
                 /\ TableRank(LockOrder(op, d)[k].table) \in 0..2
                 /\ \A j \in 1..(k - 1) : TableRank(LockOrder(op, d)[j].table)
                                            < TableRank(LockOrder(op, d)[k].table)
    BY <2>1, RowLocks, TwoLocks
  <2> QED
    BY <2>2, <2>3, <2>4
<1>2. CASE op = "open"
  <2>1. LockOrder(op, d) = <<RowOf("dispute", d, "update"),
                             RowOf("payment", d, "key_share"),
                             RowOf("memo", d, "update")>>
    BY <1>2 DEF LockOrder, PaymentOps
  <2>2. op \notin PaymentOps
    BY <1>2 DEF PaymentOps
  <2>3. /\ LockOrder(op, d) \in Seq(Locks) /\ Len(LockOrder(op, d)) = 3
        /\ \A k \in 1..3 :
                 /\ LockOrder(op, d)[k].deal = d
                 /\ TableRank(LockOrder(op, d)[k].table) \in 0..2
                 /\ \A j \in 1..(k - 1) : TableRank(LockOrder(op, d)[j].table)
                                            < TableRank(LockOrder(op, d)[k].table)
    BY <2>1, RowLocks, ThreeLocks
  <2> QED
    BY <1>2, <2>2, <2>3
<1>3. CASE op \in {"add", "close"}
  <2>1. LockOrder(op, d) = <<RowOf("dispute", d, "update"), RowOf("memo", d, "update")>>
    BY <1>3 DEF LockOrder, PaymentOps
  <2>2. op # "open" /\ op \notin PaymentOps
    BY <1>3 DEF PaymentOps
  <2> QED
    BY <2>1, <2>2, RowLocks, TwoLocks
<1> QED
  BY <1>1, <1>2, <1>3 DEF Ops, DisputeOps

LEMMA RunningType ==
    ASSUME TypeOK, NEW r \in Requests, Running(r)
    PROVE  /\ req[r] \in Request
           /\ req[r].op \in Ops /\ req[r].deals \in Lists /\ req[r].stamp \in Moment
           /\ req[r].found \subseteq Deals /\ req[r].step \in 1..3
           /\ req[r].outcomes \in Seq({"recorded", "refused"})
           /\ RowAt(req[r]) \in Nat /\ RowAt(req[r]) >= 1
<1>1. req[r] \in Request
  BY DEF TypeOK, Running, Unsent
<1> QED
  BY <1>1 DEF Request, RowAt

LEMMA RowType ==
    ASSUME TypeOK, NEW r \in Requests, MoreRows(r)
    PROVE  /\ Running(r)
           /\ RowAt(req[r]) \in DOMAIN req[r].deals
           /\ DealAt(r) \in Deals
           /\ DealAt(r) = req[r].deals[RowAt(req[r])]
<1>1. Running(r) /\ RowAt(req[r]) <= Len(req[r].deals)
  BY DEF MoreRows
<1> QED
  BY <1>1, RunningType, ListType DEF DealAt

-----------------------------------------------------------------------------
(* Types.                                                                     *)

\* A request takes its next lock from its operation's order.
StepFits ==
    \A r \in Requests :
        Running(r) /\ req[r].op # "open" => req[r].step \in 1..2

Typed == TypeOK /\ StepFits

LEMMA NextLockType ==
    ASSUME Typed, NEW r \in Requests, MoreRows(r)
    PROVE  /\ req[r].step \in 1..Len(Order(r))
           /\ Len(Order(r)) \in 2..3
           /\ NextLock(r) \in Locks
           /\ NextLock(r) = LockOrder(req[r].op, DealAt(r))[req[r].step]
           /\ NextLock(r).deal = DealAt(r)
<1>1. Running(r) /\ DealAt(r) \in Deals
  BY RowType DEF Typed
<1>2. req[r].op \in Ops /\ req[r].step \in 1..3
  BY <1>1, RunningType DEF Typed
<1>3. /\ Order(r) \in Seq(Locks)
      /\ Len(Order(r)) = IF req[r].op = "open" THEN 3 ELSE 2
      /\ \A k \in 1..Len(Order(r)) : Order(r)[k].deal = DealAt(r)
  BY ZenonT(40), <1>1, <1>2, OrderType DEF Order
<1>4. req[r].step \in 1..Len(Order(r)) /\ Len(Order(r)) \in 2..3
  BY <1>1, <1>2, <1>3 DEF Typed, StepFits
<1> QED
  BY <1>3, <1>4 DEF NextLock, Order

LEMMA InitTyped == Init => Typed
<1> SUFFICES ASSUME Init PROVE Typed
  OBVIOUS
<1>1. 0 \in Moment
  BY MaxStampAssumption DEF Moment
<1>2. payment \in [Deals -> Payment \union {NoRow}]
  BY <1>1 DEF Init, Payment, NoRow, Never
<1>3. record \in [Deals -> Seq(Entry)]
  <2>1. /\ [kind |-> "payment_opened", by |-> NoOne] \in Entry
        /\ [kind |-> "payment_marked_paid", by |-> NoOne] \in Entry
    BY DEF Entry, EntryKinds
  <2> QED
    BY <2>1 DEF Init
<1>4. events \in [Deals -> Seq(Event)] /\ dispute \in [Deals -> Dispute \union {NoRow}]
  BY DEF Init
<1>5. req \in [Requests -> Request \union {Unsent}] /\ held \in [Requests -> SUBSET Locks]
  BY DEF Init
<1>6. StepFits
  BY DEF Init, StepFits, Running, Unsent
<1> QED
  BY <1>2, <1>3, <1>4, <1>5, <1>6 DEF Typed, TypeOK

\* What a step of one request does to the requests.
LEMMA OthersUnmoved ==
    ASSUME TypeOK, NEW r \in Requests, NEW new, req' = [req EXCEPT ![r] = new]
    PROVE  /\ req'[r] = new
           /\ \A s \in Requests : s # r => req'[s] = req[s]
           /\ new \in Request \union {Unsent} =>
                 req' \in [Requests -> Request \union {Unsent}]
BY DEF TypeOK

LEMMA BeginTyped ==
    ASSUME Typed, NEW r \in Requests, NEW op \in Ops, NEW deals \in ListsFor(op),
           NEW stamp \in Moment, Begin(r, op, deals, stamp)
    PROVE  Typed'
<1> DEFINE found == {e \in Deals : payment[e] # NoRow}
           new == [stage |-> "running", op |-> op, deals |-> deals, stamp |-> stamp,
                   found |-> found, step |-> 1, outcomes |-> <<>>]
<1>1. req' = [req EXCEPT ![r] = new] /\ UNCHANGED <<payment, dispute, events, record, held>>
  BY DEF Begin
<1>2. new \in Request
  BY ListsForType DEF Request
<1>3. new.step = 1
  OBVIOUS
<1> HIDE DEF new
<1>4. TypeOK'
  BY <1>1, <1>2, OthersUnmoved DEF Typed, TypeOK
<1>5. StepFits'
  BY <1>1, <1>2, <1>3, OthersUnmoved DEF Typed, StepFits, Running
<1> QED
  BY <1>4, <1>5 DEF Typed

LEMMA StepUp ==
    ASSUME NEW step \in 1..3, NEW len \in 2..3, step < len
    PROVE  step + 1 \in 1..3 /\ (len = 2 => step + 1 \in 1..2)
OBVIOUS

LEMMA LockTyped ==
    ASSUME Typed, NEW r \in Requests, Lock(r)
    PROVE  Typed'
<1>1. MoreRows(r) /\ Running(r)
  BY RowType DEF Lock, Typed
<1>2. /\ req[r] \in Request /\ req[r].step \in 1..3 /\ req[r].stage = "running"
      /\ req[r].outcomes \in Seq({"recorded", "refused"})
  BY <1>1, RunningType DEF Typed, Running
<1>6. req[r].step \in 1..Len(Order(r)) /\ Len(Order(r)) \in 2..3 /\ NextLock(r) \in Locks
  BY <1>1, NextLockType
<1>3. held' \in [Requests -> SUBSET Locks]
  BY <1>6 DEF Lock, Typed, TypeOK
<1>4. CASE req[r].step < Len(Order(r))
  <2> DEFINE new == [req[r] EXCEPT !.step = @ + 1]
  <2>1. req' = [req EXCEPT ![r] = new]
    BY <1>4 DEF Lock
  <2>2. req[r].step + 1 \in 1..3
    BY <1>2, <1>4, <1>6, StepUp
  <2>3. new \in Request
    BY <1>2, <2>2 DEF Request
  <2>4. new.op # "open" => new.step \in 1..2
    <3>1. new.op = req[r].op /\ new.step = req[r].step + 1
      BY <1>2 DEF Request
    <3>2. req[r].op # "open" => Len(Order(r)) = 2
      BY <1>1, <1>2, RowType, RunningType, OrderType DEF Order, Typed
    <3> QED
      BY <1>2, <1>4, <1>6, <3>1, <3>2, StepUp
  <2> HIDE DEF new
  <2>5. TypeOK'
    BY <1>3, <2>1, <2>3, OthersUnmoved DEF Typed, TypeOK, Lock
  <2>6. StepFits'
    BY <2>1, <2>4, OthersUnmoved DEF Typed, StepFits, Running
  <2> QED
    BY <2>5, <2>6 DEF Typed
<1>5. CASE ~(req[r].step < Len(Order(r)))
  <2> DEFINE outcome == IF CheckHolds(req[r], DealAt(r)) THEN "recorded" ELSE "refused"
             new == [req[r] EXCEPT !.step = 1, !.outcomes = Append(@, outcome)]
  <2>1. req' = [req EXCEPT ![r] = new]
    BY <1>5 DEF Lock
  <2>2. Append(req[r].outcomes, outcome) \in Seq({"recorded", "refused"})
    BY <1>2
  <2>7. [req[r] EXCEPT !.step = 1] \in Request /\ [req[r] EXCEPT !.step = 1].step = 1
        /\ [req[r] EXCEPT !.step = 1].outcomes = req[r].outcomes
    BY <1>2 DEF Request
  <2>8. new = [[req[r] EXCEPT !.step = 1] EXCEPT !.outcomes = Append(req[r].outcomes, outcome)]
    BY <2>7
  <2> HIDE DEF outcome
  <2>3. new \in Request /\ new.step = 1
    BY <2>2, <2>7, <2>8 DEF Request
  <2>4. new.step = 1
    BY <2>3
  <2> HIDE DEF new
  <2>5. TypeOK'
    BY <1>3, <2>1, <2>3, OthersUnmoved DEF Typed, TypeOK, Lock
  <2>6. StepFits'
    BY <2>1, <2>4, OthersUnmoved DEF Typed, StepFits, Running
  <2> QED
    BY <2>5, <2>6 DEF Typed
<1> QED
  BY <1>4, <1>5

LEMMA RefuseTyped ==
    ASSUME Typed, NEW r \in Requests, Refuse(r)
    PROVE  Typed'
<1> DEFINE new == [req[r] EXCEPT !.outcomes = Append(@, "refused")]
<1>1. req' = [req EXCEPT ![r] = new] /\ UNCHANGED <<payment, dispute, events, record, held>>
  BY DEF Refuse
<1>2. Running(r) /\ req[r].step = 1
  BY RowType DEF Refuse, Typed
<1>3. /\ req[r] \in Request
      /\ req[r].outcomes \in Seq({"recorded", "refused"})
  BY <1>2, RunningType DEF Typed
<1>4. Append(req[r].outcomes, "refused") \in Seq({"recorded", "refused"})
  BY <1>3
<1>5. new \in Request /\ new.step = 1
  BY <1>2, <1>3, <1>4 DEF Request
<1> HIDE DEF new
<1>6. TypeOK'
  BY <1>1, <1>5, OthersUnmoved DEF Typed, TypeOK
<1>7. StepFits'
  BY <1>1, <1>5, OthersUnmoved DEF Typed, StepFits, Running
<1> QED
  BY <1>6, <1>7 DEF Typed

LEMMA EndTyped ==
    ASSUME Typed, NEW r \in Requests, Running(r), NEW stage \in {"answered", "failed"},
           req' = [req EXCEPT ![r].stage = stage], held' = [held EXCEPT ![r] = {}]
    PROVE  /\ req' \in [Requests -> Request \union {Unsent}]
           /\ held' \in [Requests -> SUBSET Locks]
           /\ StepFits'
           /\ ~Running(r)'
           /\ \A s \in Requests : s # r => req'[s] = req[s] /\ held'[s] = held[s]
<1> DEFINE new == [req[r] EXCEPT !.stage = stage]
<1>1. req[r] \in Request
  BY RunningType DEF Typed
<1>2. new \in Request /\ new.stage # "running"
  BY <1>1 DEF Request
<1>3. req' = [req EXCEPT ![r] = new]
  OBVIOUS
<1> HIDE DEF new
<1>4. req' \in [Requests -> Request \union {Unsent}] /\ ~Running(r)'
      /\ \A s \in Requests : s # r => req'[s] = req[s]
  BY <1>2, <1>3, OthersUnmoved DEF Typed, Running
<1>5. StepFits'
  BY <1>4 DEF Typed, StepFits, Running
<1> QED
  BY <1>4, <1>5 DEF Typed, TypeOK

-----------------------------------------------------------------------------
(* The locks, and what is written under them.                                 *)

\* Every lock held is of a row done with, or an earlier one of the current row.
BehindOf(q, locks) ==
    \A lock \in locks :
        /\ q.stage = "running"
        /\ \E i \in DOMAIN q.deals :
              /\ i <= RowAt(q)
              /\ lock.deal = q.deals[i]
              /\ i = RowAt(q) =>
                    \E k \in 1..(q.step - 1) : lock = LockOrder(q.op, q.deals[i])[k]

\* The payments a request has checked and will write.
WritesTo(q, d) ==
    /\ q.stage = "running" /\ q.op \in PaymentOps
    /\ \/ d \in Recorded(q)
       \/ RowAt(q) <= Len(q.deals) /\ q.step > 1 /\ d = q.deals[RowAt(q)]

\* What it checked of them still holds, because it holds their rows.
GuardedBy(q, locks, d, row) ==
    WritesTo(q, d) =>
        /\ RowOf("payment", d, "update") \in locks
        /\ row # NoRow
        /\ q.op \in {"mark", "bulk"} => row.marked = Never
        /\ q.op = "confirm" => row.confirmed = Never /\ row.marked # Never

\* A payment found by the first read stays.
FoundOf(q, rows) ==
    q.stage = "running" =>
        /\ \A d \in q.found : rows[d] # NoRow
        /\ q.op # "bulk" => \A i \in DOMAIN q.deals : q.deals[i] \in q.found

HeldIsBehind == \A r \in Requests : BehindOf(req[r], held[r])
Exclusive ==
    \A r, s \in Requests : r # s =>
        \A a \in held[r], b \in held[s] : ~Conflict(a, b)
WritesAreGuarded ==
    \A r \in Requests, d \in Deals : GuardedBy(req[r], held[r], d, payment[d])
FoundHavePayments == \A r \in Requests : FoundOf(req[r], payment)
ConfirmedWasMarked ==
    \A d \in Deals : payment[d] # NoRow /\ payment[d].confirmed # Never =>
                         payment[d].marked # Never

LockInv ==
    /\ Typed /\ HeldIsBehind /\ Exclusive /\ WritesAreGuarded /\ FoundHavePayments
    /\ ConfirmedWasMarked

LEMMA ConflictSymmetric ==
    ASSUME NEW a, NEW b
    PROVE  Conflict(a, b) <=> Conflict(b, a)
BY DEF Conflict

LEMMA InitLockInv == Init => LockInv
<1> SUFFICES ASSUME Init PROVE LockInv
  OBVIOUS
<1>1. /\ \A r \in Requests : req[r] = Unsent /\ held[r] = {}
  BY DEF Init
<1>2. Unsent.stage # "running"
  BY DEF Unsent
<1>3. HeldIsBehind /\ Exclusive /\ WritesAreGuarded /\ FoundHavePayments
  BY <1>1, <1>2
     DEF HeldIsBehind, BehindOf, Exclusive, WritesAreGuarded, GuardedBy, WritesTo,
         FoundHavePayments, FoundOf
<1>4. ConfirmedWasMarked
  BY DEF Init, ConfirmedWasMarked, NoRow
<1> QED
  BY <1>3, <1>4, InitTyped DEF LockInv

\* A step of one request that writes no payment.
LEMMA OneMoves ==
    ASSUME LockInv, Typed', NEW r \in Requests, UNCHANGED payment,
           \A s \in Requests : s # r => req'[s] = req[s] /\ held'[s] = held[s],
           BehindOf(req'[r], held'[r]),
           \A d \in Deals : GuardedBy(req'[r], held'[r], d, payment[d]),
           FoundOf(req'[r], payment),
           \A lock \in held'[r] \ held[r] : \A s \in Requests : s # r =>
               \A b \in held[s] : ~Conflict(lock, b)
    PROVE  LockInv'
<1>1. HeldIsBehind'
  BY DEF LockInv, HeldIsBehind
<1>2. Exclusive'
  BY ConflictSymmetric DEF LockInv, Exclusive
<1>3. WritesAreGuarded' /\ FoundHavePayments' /\ ConfirmedWasMarked'
  BY DEF LockInv, WritesAreGuarded, FoundHavePayments, ConfirmedWasMarked
<1> QED
  BY <1>1, <1>2, <1>3 DEF LockInv

LEMMA BeginLocks ==
    ASSUME LockInv, NEW r \in Requests, NEW op \in Ops, NEW deals \in ListsFor(op),
           NEW stamp \in Moment, Begin(r, op, deals, stamp)
    PROVE  LockInv'
<1> DEFINE found == {e \in Deals : payment[e] # NoRow}
           new == [stage |-> "running", op |-> op, deals |-> deals, stamp |-> stamp,
                   found |-> found, step |-> 1, outcomes |-> <<>>]
<1>1. req' = [req EXCEPT ![r] = new] /\ UNCHANGED <<payment, held>>
  BY DEF Begin
<1>2. req'[r] = new /\ \A s \in Requests : s # r => req'[s] = req[s]
  BY <1>1, OthersUnmoved DEF LockInv, Typed
<1>3. held[r] = {}
  BY DEF Begin, LockInv, HeldIsBehind, BehindOf, Unsent
<1>4. Recorded(new) = {}
  BY DEF Recorded
<1>5. \A d \in Deals : ~WritesTo(new, d)
  BY <1>4 DEF WritesTo
<1>6. FoundOf(new, payment)
  <2>1. op # "bulk" => deals[1] \in found /\ DOMAIN deals = 1..1
    BY ListsForType, ListType DEF Begin
  <2> QED
    BY <2>1 DEF FoundOf
<1>7. Typed'
  BY BeginTyped DEF LockInv
<1> HIDE DEF new
<1> QED
  BY <1>1, <1>2, <1>3, <1>5, <1>6, <1>7, OneMoves DEF BehindOf, GuardedBy

LEMMA RecordedGrows ==
    ASSUME NEW q \in Request, NEW new \in Request, NEW outcome \in {"recorded", "refused"},
           new.outcomes = Append(q.outcomes, outcome), new.deals = q.deals
    PROVE  /\ RowAt(new) = RowAt(q) + 1 /\ RowAt(q) \in Nat
           /\ \A d \in Recorded(new) :
                 d \in Recorded(q) \/ (outcome = "recorded" /\ d = q.deals[RowAt(q)])
<1>1. q.outcomes \in Seq({"recorded", "refused"})
  BY DEF Request
<1>2. RowAt(new) = RowAt(q) + 1 /\ RowAt(q) \in Nat
  BY <1>1 DEF RowAt
<1>3. \A i \in DOMAIN new.outcomes :
          \/ i \in DOMAIN q.outcomes /\ new.outcomes[i] = q.outcomes[i]
          \/ i = RowAt(q) /\ new.outcomes[i] = outcome
  BY <1>1 DEF RowAt
<1>4. ASSUME NEW d \in Recorded(new)
      PROVE  d \in Recorded(q) \/ (outcome = "recorded" /\ d = q.deals[RowAt(q)])
  <2>1. PICK i \in DOMAIN new.outcomes : new.outcomes[i] = "recorded" /\ d = new.deals[i]
    BY <1>4 DEF Recorded
  <2>2. CASE i \in DOMAIN q.outcomes /\ new.outcomes[i] = q.outcomes[i]
    <3>1. q.outcomes[i] = "recorded" /\ d = q.deals[i]
      BY <2>1, <2>2
    <3>2. q.deals[i] \in Recorded(q)
      BY <2>2, <3>1 DEF Recorded
    <3> QED
      BY <3>1, <3>2
  <2>3. CASE i = RowAt(q) /\ new.outcomes[i] = outcome
    BY <2>1, <2>3
  <2> QED
    BY <1>3, <2>2, <2>3
<1> QED
  BY <1>2, <1>4

\* A running request is none that was never sent.
LEMMA RunningIsSent ==
    ASSUME NEW q \in Request \union {Unsent}, q.stage = "running"
    PROVE  q \in Request
BY DEF Unsent

LEMMA LastStep ==
    ASSUME NEW step \in 1..3, NEW len \in 2..3, ~(step < len)
    PROVE  step > 1
OBVIOUS

\* Passing the first check of a payment, under its lock.
LEMMA PassedIsGuarded ==
    ASSUME LockInv, NEW r \in Requests, MoreRows(r), req[r].op \in PaymentOps,
           Passes(r, DealAt(r))
    PROVE  /\ payment[DealAt(r)] # NoRow
           /\ req[r].op \in {"mark", "bulk"} => payment[DealAt(r)].marked = Never
           /\ req[r].op = "confirm" => /\ payment[DealAt(r)].confirmed = Never
                                       /\ payment[DealAt(r)].marked # Never
<1>1. req[r].stage = "running" /\ RowAt(req[r]) \in DOMAIN req[r].deals
      /\ DealAt(r) = req[r].deals[RowAt(req[r])]
  BY RowType DEF LockInv, Typed, Running
<1>2. CASE req[r].op \in {"mark", "bulk"}
  <2>1. DealAt(r) \in req[r].found /\ payment[DealAt(r)].marked = Never
    BY <1>2 DEF Passes
  <2> QED
    BY <1>1, <1>2, <2>1 DEF LockInv, FoundHavePayments, FoundOf
<1>3. CASE req[r].op = "confirm"
  <2>1. payment[DealAt(r)].confirmed = Never /\ payment[DealAt(r)].marked # Never
    BY <1>3 DEF Passes
  <2>2. DealAt(r) \in req[r].found
    BY <1>1, <1>3 DEF LockInv, FoundHavePayments, FoundOf
  <2> QED
    BY <1>1, <1>3, <2>1, <2>2 DEF LockInv, FoundHavePayments, FoundOf
<1> QED
  BY <1>2, <1>3 DEF PaymentOps

LEMMA LockLocks ==
    ASSUME LockInv, NEW r \in Requests, Lock(r)
    PROVE  LockInv'
<1> DEFINE q == req[r]
           lock == NextLock(r)
<1>1. MoreRows(r) /\ Running(r) /\ Free(r)
  BY RowType DEF Lock, LockInv, Typed
<1>2. /\ q \in Request /\ q.stage = "running" /\ q.op \in Ops /\ q.step \in 1..3
      /\ RowAt(q) \in Nat
  BY <1>1, RunningType DEF LockInv, Typed, Running
<1>3. /\ RowAt(q) \in DOMAIN q.deals /\ RowAt(q) <= Len(q.deals)
      /\ DealAt(r) = q.deals[RowAt(q)] /\ DealAt(r) \in Deals
  BY <1>1, RowType DEF LockInv, Typed, MoreRows
<1>4. /\ q.step \in 1..Len(Order(r)) /\ Len(Order(r)) \in 2..3
      /\ lock = LockOrder(q.op, DealAt(r))[q.step] /\ lock.deal = DealAt(r)
  BY <1>1, NextLockType DEF LockInv
<1>5. held'[r] = held[r] \union {lock} /\ UNCHANGED payment
      /\ \A s \in Requests : s # r => held'[s] = held[s]
  BY DEF Lock, LockInv, Typed, TypeOK
<1>6. Typed'
  BY LockTyped DEF LockInv
<1>7. \A x \in held'[r] \ held[r] : \A s \in Requests : s # r =>
          \A b \in held[s] : ~Conflict(x, b)
  BY <1>1, <1>5 DEF Free, WaitsFor
<1>8. BehindOf(q, held[r]) /\ FoundOf(q, payment)
      /\ \A d \in Deals : GuardedBy(q, held[r], d, payment[d])
  BY DEF LockInv, HeldIsBehind, FoundHavePayments, WritesAreGuarded
<1>9. CASE q.step < Len(Order(r))
  <2> DEFINE new == [q EXCEPT !.step = @ + 1]
  <2>1. req'[r] = new /\ \A s \in Requests : s # r => req'[s] = req[s]
    BY <1>9 DEF Lock, LockInv, Typed, TypeOK
  <2>2. /\ new.stage = "running" /\ new.op = q.op /\ new.deals = q.deals
        /\ new.found = q.found /\ new.outcomes = q.outcomes /\ new.step = q.step + 1
    BY <1>2 DEF Request
  <2> HIDE DEF new
  <2>3. RowAt(new) = RowAt(q) /\ Recorded(new) = Recorded(q)
    BY <2>2 DEF RowAt, Recorded
  <2>4. BehindOf(new, held'[r])
    <3>1. ASSUME NEW x \in held[r]
          PROVE  \E i \in DOMAIN new.deals :
                    /\ i <= RowAt(new) /\ x.deal = new.deals[i]
                    /\ i = RowAt(new) =>
                          \E k \in 1..(new.step - 1) : x = LockOrder(new.op, new.deals[i])[k]
      <4>1. \A k \in 1..(q.step - 1) : k \in 1..(new.step - 1)
        BY <1>2, <2>2
      <4> QED
        BY <1>8, <2>2, <2>3, <4>1 DEF BehindOf
    <3>2. \E i \in DOMAIN new.deals :
                    /\ i <= RowAt(new) /\ lock.deal = new.deals[i]
                    /\ i = RowAt(new) =>
                          \E k \in 1..(new.step - 1) : lock = LockOrder(new.op, new.deals[i])[k]
      <4>1. q.step \in 1..(new.step - 1)
        BY <1>2, <2>2
      <4> QED
        BY <1>2, <1>3, <1>4, <2>2, <2>3, <4>1
    <3> HIDE DEF lock
    <3> QED
      BY <1>5, <2>2, <3>1, <3>2 DEF BehindOf
  <2>5. ASSUME NEW d \in Deals
        PROVE  GuardedBy(new, held'[r], d, payment[d])
    <3>1. CASE WritesTo(q, d)
      BY <1>5, <1>8, <2>2, <3>1 DEF GuardedBy
    <3>2. CASE WritesTo(new, d) /\ ~WritesTo(q, d)
      <4>1. d = DealAt(r) /\ q.op \in PaymentOps /\ ~(q.step > 1)
        BY <1>2, <1>3, <2>2, <2>3, <3>2 DEF WritesTo
      <4>2. q.step = 1
        BY <1>2, <4>1
      <4>3. Passes(r, d) /\ lock = RowOf("payment", d, "update")
        BY <1>2, <1>3, <1>4, <4>1, <4>2, OrderType DEF Lock
      <4> QED
        BY <1>1, <1>5, <2>2, <4>1, <4>3, PassedIsGuarded DEF GuardedBy
    <3> QED
      BY <3>1, <3>2 DEF GuardedBy
  <2>6. FoundOf(new, payment)
    BY <1>8, <2>2, <1>2 DEF FoundOf
  <2> QED
    BY <1>5, <1>6, <1>7, <2>1, <2>4, <2>5, <2>6, OneMoves
<1>10. CASE ~(q.step < Len(Order(r)))
  <2> DEFINE outcome == IF CheckHolds(q, DealAt(r)) THEN "recorded" ELSE "refused"
             new == [q EXCEPT !.step = 1, !.outcomes = Append(@, outcome)]
  <2>1. req'[r] = new /\ \A s \in Requests : s # r => req'[s] = req[s]
    BY <1>10 DEF Lock, LockInv, Typed, TypeOK
  <2>2. /\ new.stage = "running" /\ new.op = q.op /\ new.deals = q.deals
        /\ new.found = q.found /\ new.step = 1
        /\ new.outcomes = Append(q.outcomes, outcome)
    BY <1>2 DEF Request
  <2>4. outcome \in {"recorded", "refused"}
    OBVIOUS
  <2> HIDE DEF new, outcome
  <2>3. new \in Request
    <3>1. req'[r] \in Request \union {Unsent}
      BY <1>6 DEF Typed, TypeOK
    <3> QED
      BY <2>1, <2>2, <3>1, RunningIsSent
  <2>10. q.step > 1
    BY <1>2, <1>4, <1>10, LastStep
  <2>5. /\ RowAt(new) = RowAt(q) + 1
        /\ \A d \in Recorded(new) : d \in Recorded(q) \/ d = q.deals[RowAt(q)]
    BY <1>2, <2>2, <2>3, <2>4, RecordedGrows
  <2>6. BehindOf(new, held'[r])
    <3>1. \A i \in Nat : i <= RowAt(q) => i <= RowAt(new) /\ i # RowAt(new)
      BY <1>2, <2>5
    <3>2. DOMAIN q.deals \subseteq Nat
      BY <1>1, RunningType, ListType DEF LockInv, Typed
    <3>3. \A x \in held'[r] : \E i \in DOMAIN q.deals : i <= RowAt(q) /\ x.deal = q.deals[i]
      BY SMTT(30), <1>2, <1>3, <1>4, <1>5, <1>8 DEF BehindOf
    <3> QED
      BY <2>2, <3>1, <3>2, <3>3 DEF BehindOf
  <2>7. ASSUME NEW d \in Deals, WritesTo(new, d)
        PROVE  WritesTo(q, d)
    BY <1>2, <1>3, <2>2, <2>10, <2>5, <2>7 DEF WritesTo
  <2>8. \A d \in Deals : GuardedBy(new, held'[r], d, payment[d])
    BY <1>5, <1>8, <2>2, <2>7 DEF GuardedBy
  <2>9. FoundOf(new, payment)
    BY <1>8, <2>2, <1>2 DEF FoundOf
  <2> QED
    BY <1>5, <1>6, <1>7, <2>1, <2>6, <2>8, <2>9, OneMoves
<1> QED
  BY <1>9, <1>10

LEMMA RefuseLocks ==
    ASSUME LockInv, NEW r \in Requests, Refuse(r)
    PROVE  LockInv'
<1> DEFINE q == req[r]
           new == [q EXCEPT !.outcomes = Append(@, "refused")]
<1>1. Running(r) /\ q.step = 1
  BY RowType DEF Refuse, LockInv, Typed
<1>2. q \in Request /\ q.stage = "running" /\ RowAt(q) \in Nat
  BY <1>1, RunningType DEF LockInv, Typed, Running
<1>3. req'[r] = new /\ (\A s \in Requests : s # r => req'[s] = req[s])
      /\ UNCHANGED <<payment, held>>
  BY DEF Refuse, LockInv, Typed, TypeOK
<1>4. /\ new.stage = "running" /\ new.op = q.op /\ new.deals = q.deals
      /\ new.found = q.found /\ new.step = 1 /\ new.outcomes = Append(q.outcomes, "refused")
  BY <1>1, <1>2 DEF Request
<1>5. Typed'
  BY RefuseTyped DEF LockInv
<1> HIDE DEF new
<1>6. new \in Request
  <2>1. req'[r] \in Request \union {Unsent}
    BY <1>5 DEF Typed, TypeOK
  <2> QED
    BY <1>3, <1>4, <2>1, RunningIsSent
<1>7. RowAt(new) = RowAt(q) + 1 /\ Recorded(new) \subseteq Recorded(q)
  BY <1>2, <1>4, <1>6, RecordedGrows
<1>8. BehindOf(q, held[r]) /\ FoundOf(q, payment)
      /\ \A d \in Deals : GuardedBy(q, held[r], d, payment[d])
  BY DEF LockInv, HeldIsBehind, FoundHavePayments, WritesAreGuarded
<1>9. BehindOf(new, held[r])
  <2>1. \A i \in Nat : i <= RowAt(q) => i <= RowAt(new) /\ i # RowAt(new)
    BY <1>2, <1>7
  <2>2. DOMAIN q.deals \subseteq Nat
    BY <1>1, RunningType, ListType DEF LockInv, Typed
  <2>3. \A x \in held[r] : \E i \in DOMAIN q.deals : i <= RowAt(q) /\ x.deal = q.deals[i]
    BY <1>8 DEF BehindOf
  <2> QED
    BY <1>4, <2>1, <2>2, <2>3 DEF BehindOf
<1>10. \A d \in Deals : WritesTo(new, d) => WritesTo(q, d)
  BY <1>2, <1>4, <1>7 DEF WritesTo
<1>11. (\A d \in Deals : GuardedBy(new, held[r], d, payment[d])) /\ FoundOf(new, payment)
  BY <1>2, <1>4, <1>8, <1>10 DEF GuardedBy, FoundOf
<1> QED
  BY <1>3, <1>5, <1>9, <1>11, OneMoves

-----------------------------------------------------------------------------
(* The end of a request.                                                      *)

\* What a commit does to one payment: nothing, or what it checked it may do.
LEMMA WriteEffect ==
    ASSUME LockInv, NEW r \in Requests, Running(r), Write(r), NEW d \in Deals
    PROVE  \/ payment'[d] = payment[d]
           \/ /\ WritesTo(req[r], d)
              /\ payment[d] \in Payment
              /\ payment[d].confirmed = Never
              /\ \/ /\ payment[d].marked = Never
                    /\ payment'[d] = [payment[d] EXCEPT !.marked = req[r].stamp, !.by = r]
                 \/ /\ payment[d].marked # Never
                    /\ payment'[d] = [payment[d] EXCEPT !.confirmed = req[r].stamp]
<1> DEFINE q == req[r]
<1>1. GuardedBy(q, held[r], d, payment[d]) /\ q.stage = "running"
  BY DEF LockInv, WritesAreGuarded, Running
<1>2. payment[d] \in Payment \union {NoRow}
  BY DEF LockInv, Typed, TypeOK
<1>3. payment[d] # NoRow /\ payment[d].confirmed # Never => payment[d].marked # Never
  BY DEF LockInv, ConfirmedWasMarked
<1>4. CASE d \in Recorded(q) /\ q.op \in {"mark", "bulk"}
  <2>1. payment'[d] = [payment[d] EXCEPT !.marked = q.stamp, !.by = r]
    BY <1>4 DEF Write
  <2>2. WritesTo(q, d)
    BY <1>1, <1>4 DEF WritesTo, PaymentOps
  <2> QED
    BY <1>1, <1>2, <1>3, <1>4, <2>1, <2>2 DEF GuardedBy
<1>5. CASE d \in Recorded(q) /\ q.op = "confirm"
  <2>1. payment'[d] = [payment[d] EXCEPT !.confirmed = q.stamp]
    BY <1>5 DEF Write
  <2>2. WritesTo(q, d)
    BY <1>1, <1>5 DEF WritesTo, PaymentOps
  <2> QED
    BY <1>1, <1>2, <1>5, <2>1, <2>2 DEF GuardedBy
<1>6. CASE ~(d \in Recorded(q) /\ q.op \in {"mark", "bulk"})
           /\ ~(d \in Recorded(q) /\ q.op = "confirm")
  BY <1>6 DEF Write
<1> QED
  BY <1>4, <1>5, <1>6

LEMMA WriteTyped ==
    ASSUME LockInv, NEW r \in Requests, Running(r), Write(r)
    PROVE  /\ payment' \in [Deals -> Payment \union {NoRow}]
           /\ dispute' \in [Deals -> Dispute \union {NoRow}]
           /\ events' \in [Deals -> Seq(Event)]
           /\ record' \in [Deals -> Seq(Entry)]
<1> DEFINE q == req[r]
<1>1. q.op \in Ops /\ q.stamp \in Moment
  BY RunningType DEF LockInv, Typed
<1>2. payment' \in [Deals -> Payment \union {NoRow}]
  <2>1. ASSUME NEW d \in Deals PROVE payment'[d] \in Payment \union {NoRow}
    <3>1. payment[d] \in Payment \union {NoRow}
      BY DEF LockInv, Typed, TypeOK
    <3>2. \A row \in Payment :
              /\ [row EXCEPT !.marked = q.stamp, !.by = r] \in Payment
              /\ [row EXCEPT !.confirmed = q.stamp] \in Payment
      BY <1>1 DEF Payment
    <3> QED
      BY ZenonT(40), <3>1, <3>2, WriteEffect
  <2>2. payment' = [d \in Deals |-> payment'[d]]
    BY DEF Write
  <2> QED
    BY <2>1, <2>2
<1>3. dispute' \in [Deals -> Dispute \union {NoRow}]
  BY DEF Write, Dispute, LockInv, Typed, TypeOK
<1>4. events' \in [Deals -> Seq(Event)]
  <2> DEFINE event == [kind |-> EventFor(q.op), at |-> q.stamp]
  <2>1. q.op \in DisputeOps => event \in Event
    BY <1>1 DEF DisputeOps, EventFor, Event
  <2>2. events' = [d \in Deals |-> IF d \in Recorded(q) /\ q.op \in DisputeOps
                                   THEN Append(events[d], event) ELSE events[d]]
    BY DEF Write
  <2> HIDE DEF event
  <2>3. \A d \in Deals : events[d] \in Seq(Event)
    BY DEF LockInv, Typed, TypeOK
  <2>4. q.op \in DisputeOps => \A d \in Deals : Append(events[d], event) \in Seq(Event)
    BY <2>1, <2>3
  <2> QED
    BY <2>2, <2>3, <2>4
<1>5. record' \in [Deals -> Seq(Entry)]
  <2> DEFINE entry == [kind |-> EntryFor(q.op), by |-> r]
  <2>1. entry \in Entry
    BY <1>1 DEF Ops, PaymentOps, DisputeOps, EntryFor, Entry, EntryKinds
  <2>2. record' = [d \in Deals |-> IF d \in Recorded(q)
                                   THEN Append(record[d], entry) ELSE record[d]]
    BY DEF Write
  <2> HIDE DEF entry
  <2>3. \A d \in Deals : record[d] \in Seq(Entry)
    BY DEF LockInv, Typed, TypeOK
  <2>4. \A d \in Deals : Append(record[d], entry) \in Seq(Entry)
    BY <2>1, <2>3
  <2> QED
    BY <2>2, <2>3, <2>4
<1> QED
  BY <1>2, <1>3, <1>4, <1>5

\* A request ends and lets its locks go; it changed only rows it had locked.
LEMMA EndLocks ==
    ASSUME LockInv, Typed', NEW r \in Requests, ~Running(r)', held'[r] = {},
           \A s \in Requests : s # r => req'[s] = req[s] /\ held'[s] = held[s],
           \A d \in Deals :
               /\ payment[d] # NoRow => payment'[d] # NoRow
               /\ \/ payment'[d] = payment[d]
                  \/ RowOf("payment", d, "update") \in held[r],
           ConfirmedWasMarked'
    PROVE  LockInv'
<1>1. HeldIsBehind' /\ Exclusive'
  BY DEF LockInv, HeldIsBehind, BehindOf, Exclusive
<1>2. ASSUME NEW s \in Requests, NEW d \in Deals
      PROVE  GuardedBy(req[s], held[s], d, payment[d])'
  <2>1. CASE s = r
    BY <2>1 DEF GuardedBy, WritesTo, Running
  <2>2. CASE s # r /\ WritesTo(req[s], d)
    <3>1. GuardedBy(req[s], held[s], d, payment[d])
      BY DEF LockInv, WritesAreGuarded
    <3>2. RowOf("payment", d, "update") \notin held[r]
      BY <2>2, <3>1 DEF GuardedBy, LockInv, Exclusive, Conflict, RowOf
    <3> QED
      BY <2>2, <3>1, <3>2
  <2>3. CASE s # r /\ ~WritesTo(req[s], d)
    BY <2>3 DEF GuardedBy, WritesTo
  <2> QED
    BY <2>1, <2>2, <2>3
<1>3. ASSUME NEW s \in Requests PROVE FoundOf(req[s], payment)'
  <2>1. CASE s = r
    BY <2>1 DEF FoundOf, Running
  <2>2. CASE s # r
    <3>1. FoundOf(req[s], payment) /\ (req[s].stage = "running" => req[s].found \subseteq Deals)
      BY RunningType DEF LockInv, FoundHavePayments, Typed, Running
    <3> QED
      BY <2>2, <3>1 DEF FoundOf
  <2> QED
    BY <2>1, <2>2
<1> QED
  BY <1>1, <1>2, <1>3 DEF LockInv, WritesAreGuarded, FoundHavePayments

LEMMA TimeOutLocks ==
    ASSUME LockInv, NEW r \in Requests, TimeOut(r)
    PROVE  LockInv'
<1>1. Running(r)
  BY DEF TimeOut, Free, WaitsFor, MoreRows
<1>2. /\ req' \in [Requests -> Request \union {Unsent}]
      /\ held' \in [Requests -> SUBSET Locks] /\ StepFits' /\ ~Running(r)'
      /\ \A s \in Requests : s # r => req'[s] = req[s] /\ held'[s] = held[s]
  BY <1>1, EndTyped DEF TimeOut, LockInv
<1>3. Typed' /\ ConfirmedWasMarked' /\ UNCHANGED payment
  BY <1>2 DEF TimeOut, LockInv, Typed, TypeOK, ConfirmedWasMarked
<1>4. held'[r] = {}
  BY DEF TimeOut, LockInv, Typed, TypeOK
<1> QED
  BY <1>2, <1>3, <1>4, EndLocks

LEMMA CommitLocks ==
    ASSUME LockInv, NEW r \in Requests, Commit(r)
    PROVE  LockInv'
<1>1. Running(r) /\ Write(r)
  BY DEF Commit
<1>2. /\ req' \in [Requests -> Request \union {Unsent}]
      /\ held' \in [Requests -> SUBSET Locks] /\ StepFits' /\ ~Running(r)'
      /\ \A s \in Requests : s # r => req'[s] = req[s] /\ held'[s] = held[s]
  BY <1>1, EndTyped DEF Commit, LockInv
<1>3. Typed'
  BY <1>1, <1>2, WriteTyped DEF Typed, TypeOK
<1>4. held'[r] = {}
  BY DEF Commit, LockInv, Typed, TypeOK
<1>5. ASSUME NEW d \in Deals
      PROVE  /\ payment[d] # NoRow => payment'[d] # NoRow
             /\ \/ payment'[d] = payment[d]
                \/ RowOf("payment", d, "update") \in held[r]
             /\ payment'[d] # NoRow /\ payment'[d].confirmed # Never =>
                    payment'[d].marked # Never
  <2>1. req[r].stamp # Never
    BY <1>1, RunningType, MaxStampAssumption DEF LockInv, Typed, Moment, Never
  <2>2. WritesTo(req[r], d) => RowOf("payment", d, "update") \in held[r]
    BY DEF LockInv, WritesAreGuarded, GuardedBy
  <2>3. payment[d] # NoRow /\ payment[d].confirmed # Never => payment[d].marked # Never
    BY DEF LockInv, ConfirmedWasMarked
  <2>4. CASE payment'[d] = payment[d]
    BY <2>3, <2>4
  <2>5. CASE /\ WritesTo(req[r], d) /\ payment[d] \in Payment
             /\ payment[d].confirmed = Never /\ payment[d].marked = Never
             /\ payment'[d] = [payment[d] EXCEPT !.marked = req[r].stamp, !.by = r]
    BY <2>1, <2>2, <2>5 DEF Payment, NoRow
  <2>6. CASE /\ WritesTo(req[r], d) /\ payment[d] \in Payment
             /\ payment[d].confirmed = Never /\ payment[d].marked # Never
             /\ payment'[d] = [payment[d] EXCEPT !.confirmed = req[r].stamp]
    BY <2>1, <2>2, <2>6 DEF Payment, NoRow
  <2> QED
    BY <1>1, <2>4, <2>5, <2>6, WriteEffect
<1>6. ConfirmedWasMarked'
  BY <1>5 DEF ConfirmedWasMarked
<1> QED
  BY <1>2, <1>3, <1>4, <1>5, <1>6, EndLocks

LEMMA OpenLocks ==
    ASSUME LockInv, NEW d \in Deals, OpenOnApproval(d)
    PROVE  LockInv'
<1> DEFINE opened == [marked |-> Never, by |-> NoOne, confirmed |-> Never]
<1>1. /\ payment[d] = NoRow /\ payment'[d] = opened /\ UNCHANGED <<dispute, events, req, held>>
      /\ \A e \in Deals : e # d => payment'[e] = payment[e]
  BY DEF OpenOnApproval, LockInv, Typed, TypeOK
<1>2. Typed'
  <2>1. opened \in Payment
    BY DEF Payment
  <2>2. payment' \in [Deals -> Payment \union {NoRow}]
    BY <2>1 DEF OpenOnApproval, LockInv, Typed, TypeOK
  <2>3. record' \in [Deals -> Seq(Entry)]
    <3>1. [kind |-> "payment_opened", by |-> NoOne] \in Entry
      BY DEF Entry, EntryKinds
    <3> QED
      BY <3>1 DEF OpenOnApproval, LockInv, Typed, TypeOK
  <2>4. TypeOK'
    BY <1>1, <2>2, <2>3 DEF LockInv, Typed, TypeOK
  <2>5. StepFits'
    BY <1>1 DEF LockInv, Typed, StepFits, Running
  <2> QED
    BY <2>4, <2>5 DEF Typed
<1>3. HeldIsBehind' /\ Exclusive'
  BY <1>1 DEF LockInv, HeldIsBehind, Exclusive
<1>4. WritesAreGuarded'
  BY <1>1 DEF LockInv, WritesAreGuarded, GuardedBy
<1>5. ASSUME NEW s \in Requests PROVE FoundOf(req[s], payment)'
  <2>1. FoundOf(req[s], payment) /\ (req[s].stage = "running" => req[s].found \subseteq Deals)
    BY RunningType DEF LockInv, FoundHavePayments, Typed, Running
  <2>2. \A e \in Deals : payment[e] # NoRow => payment'[e] # NoRow
    BY <1>1
  <2> QED
    BY <1>1, <2>1, <2>2 DEF FoundOf
<1>6. ConfirmedWasMarked'
  BY <1>1 DEF LockInv, ConfirmedWasMarked
<1> QED
  BY <1>2, <1>3, <1>4, <1>5, <1>6 DEF LockInv, FoundHavePayments

LEMMA LockInvStep ==
    ASSUME LockInv, [Next]_vars
    PROVE  LockInv'
<1>1. ASSUME NEW r \in Requests, NEW op \in Ops, NEW deals \in ListsFor(op),
             NEW stamp \in Moment, Begin(r, op, deals, stamp)
      PROVE  LockInv'
  BY <1>1, BeginLocks
<1>2. ASSUME NEW r \in Requests, Proceeds(r)
      PROVE  LockInv'
  BY <1>2, LockLocks, RefuseLocks, CommitLocks DEF Proceeds
<1>3. ASSUME NEW r \in Requests, TimeOut(r)
      PROVE  LockInv'
  BY <1>3, TimeOutLocks
<1>4. ASSUME NEW d \in Deals, OpenOnApproval(d)
      PROVE  LockInv'
  BY <1>4, OpenLocks
<1>5. CASE UNCHANGED vars
  BY <1>5
     DEF vars, LockInv, Typed, TypeOK, StepFits, Running, HeldIsBehind, Exclusive,
         WritesAreGuarded, FoundHavePayments, ConfirmedWasMarked
<1> QED
  BY <1>1, <1>2, <1>3, <1>4, <1>5 DEF Next

LEMMA AlwaysLockInv == Spec => []LockInv
BY InitLockInv, LockInvStep, PTL DEF Spec

-----------------------------------------------------------------------------
(* The theorems.                                                              *)

\* Every row, lock and request keeps its shape, whatever the requests and
\* deals: what mark_as_paid, confirm_payment and the disputes service write.
THEOREM TypeCorrect == Spec => []TypeOK
BY AlwaysLockInv, PTL DEF LockInv, Typed

\* No second tap of mark_as_paid, one at a time or in bulk, replaces the method
\* and reference of a payment, and nothing changes it once confirm_payment has
\* confirmed it: each is checked again under the row lock (get_for_update).
THEOREM FirstWord == Spec => FirstWordStands
<1> DEFINE Stays(d) ==
             payment[d] # NoRow =>
               /\ payment'[d] # NoRow
               /\ payment[d].marked # Never =>
                    /\ payment'[d].marked = payment[d].marked
                    /\ payment'[d].by = payment[d].by
               /\ payment[d].confirmed # Never => payment'[d] = payment[d]
<1>1. ASSUME LockInv, [Next]_vars, NEW d \in Deals
      PROVE  Stays(d)
  <2>1. ASSUME NEW r \in Requests, Commit(r)
        PROVE  Stays(d)
    <3>1. \/ payment'[d] = payment[d]
          \/ /\ payment[d] \in Payment
             /\ payment[d].confirmed = Never
             /\ \/ /\ payment[d].marked = Never
                   /\ payment'[d] = [payment[d] EXCEPT !.marked = req[r].stamp, !.by = r]
                \/ /\ payment[d].marked # Never
                   /\ payment'[d] = [payment[d] EXCEPT !.confirmed = req[r].stamp]
      BY <1>1, <2>1, WriteEffect DEF Commit
    <3>2. CASE payment'[d] = payment[d]
      BY <3>2
    <3>3. CASE /\ payment[d] \in Payment
               /\ payment[d].confirmed = Never /\ payment[d].marked = Never
               /\ payment'[d] = [payment[d] EXCEPT !.marked = req[r].stamp, !.by = r]
      BY <3>3 DEF Payment, NoRow
    <3>4. CASE /\ payment[d] \in Payment
               /\ payment[d].confirmed = Never /\ payment[d].marked # Never
               /\ payment'[d] = [payment[d] EXCEPT !.confirmed = req[r].stamp]
      BY <3>4 DEF Payment, NoRow
    <3> QED
      BY <3>1, <3>2, <3>3, <3>4
  <2>2. ASSUME NEW e \in Deals, OpenOnApproval(e)
        PROVE  Stays(d)
    BY <1>1, <2>2 DEF OpenOnApproval, LockInv, Typed, TypeOK
  <2>3. CASE UNCHANGED payment
    BY <2>3
  <2> QED
    BY <1>1, <2>1, <2>2, <2>3
       DEF Next, vars, Proceeds, Begin, Lock, Refuse, TimeOut
<1>2. LockInv /\ [Next]_vars => [\A d \in Deals : Stays(d)]_vars
  BY <1>1
<1> QED
  BY <1>2, AlwaysLockInv, PTL DEF Spec, FirstWordStands

-----------------------------------------------------------------------------
(* Waiting in a circle.                                                       *)

LEMMA SmallestOf ==
    ASSUME NEW T \in SUBSET Nat, T # {}
    PROVE  \E x \in T : \A y \in T : x <= y
<1> DEFINE Less == OpToRel(<, Nat)
<1>1. \A x, y \in Nat : <<y, x>> \in Less <=> y < x
  BY DEF OpToRel
<1>2. IsWellFoundedOn(Less, Nat)
  BY NatLessThanWellFounded
<1> HIDE DEF Less
<1>3. PICK x \in T : \A y \in T : ~(<<y, x>> \in Less)
  BY <1>2, WFMin
<1>4. \A y \in T : ~(y < x)
  BY <1>1, <1>3
<1> QED
  BY <1>4

\* Row locks, ranked by their deal and then by their table.
Level(rank, lock) == 3 * rank[lock.deal] + TableRank(lock.table)
Top == 3 * Cardinality(Deals) + 2

Follows(rank, q) ==
    \A i, j \in DOMAIN q.deals : i < j => rank[q.deals[i]] < rank[q.deals[j]]

LEMMA LevelType ==
    ASSUME NEW rank \in [Deals -> 1..Cardinality(Deals)], NEW lock \in Locks
    PROVE  /\ rank[lock.deal] \in Nat /\ TableRank(lock.table) \in 0..2
           /\ Level(rank, lock) \in Nat /\ Top \in Nat
           /\ Top - Level(rank, lock) \in Nat
<1>1. Cardinality(Deals) \in Nat
  BY DealsAssumption, FS_CardinalityType
<1>2. lock.deal \in Deals /\ TableRank(lock.table) \in 0..2
  BY DEF Locks, TableRank
<1>3. rank[lock.deal] \in Nat /\ rank[lock.deal] <= Cardinality(Deals)
  BY <1>1, <1>2
<1> QED
  BY <1>1, <1>2, <1>3 DEF Level, Top

\* A request holds only locks below the one it asks for.
LEMMA HeldBelow ==
    ASSUME LockInv, NEW rank \in [Deals -> 1..Cardinality(Deals)],
           NEW s \in Requests, MoreRows(s), Follows(rank, req[s]), NEW lock \in held[s]
    PROVE  Level(rank, lock) < Level(rank, NextLock(s))
<1> DEFINE q == req[s]
           next == NextLock(s)
<1>1. /\ Running(s) /\ RowAt(q) \in DOMAIN q.deals /\ DealAt(s) \in Deals
      /\ DealAt(s) = q.deals[RowAt(q)]
  BY RowType DEF LockInv, Typed
<1>2. /\ next \in Locks /\ next.deal = DealAt(s)
      /\ next = LockOrder(q.op, DealAt(s))[q.step] /\ q.step \in 1..Len(Order(s))
  BY NextLockType DEF LockInv
<1>3. lock \in Locks
  BY DEF LockInv, Typed, TypeOK
<1>4. /\ rank[lock.deal] \in Nat /\ TableRank(lock.table) \in 0..2
      /\ rank[next.deal] \in Nat /\ TableRank(next.table) \in 0..2
  BY <1>2, <1>3, LevelType
<1>5. PICK i \in DOMAIN q.deals :
          /\ i <= RowAt(q) /\ lock.deal = q.deals[i]
          /\ i = RowAt(q) =>
                \E k \in 1..(q.step - 1) : lock = LockOrder(q.op, q.deals[i])[k]
  BY DEF LockInv, HeldIsBehind, BehindOf
<1>6. CASE i = RowAt(q)
  <2>1. PICK k \in 1..(q.step - 1) : lock = LockOrder(q.op, DealAt(s))[k]
    BY <1>1, <1>5, <1>6
  <2>2. q.op \in Ops
    BY <1>1, RunningType DEF LockInv, Typed
  <2>3. TableRank(lock.table) < TableRank(next.table)
    BY <1>1, <1>2, <2>1, <2>2, OrderType DEF Order
  <2>4. lock.deal = next.deal
    BY <1>1, <1>2, <1>5, <1>6
  <2> HIDE DEF next
  <2> QED
    BY <1>4, <2>3, <2>4 DEF Level, next
<1>7. CASE i # RowAt(q)
  <2>1. i < RowAt(q)
    BY <1>1, <1>5, <1>7, RunningType, ListType DEF LockInv, Typed
  <2>2. rank[lock.deal] < rank[next.deal]
    BY <1>1, <1>2, <1>5, <2>1 DEF Follows
  <2> QED
    BY <1>4, <2>2 DEF Level
<1> QED
  BY <1>6, <1>7

\* Requests over any number of deals, in lists of any length, wait for each
\* other in a circle only if their lists cross: mark_many_as_paid locks the
\* deals in the order it was given them, and every operation a deal's rows in
\* the order dispute, payment, deal.
THEOREM OnlyCrossedLists == Spec => []OnlyCrossedListsDeadlock
<1>1. ASSUME LockInv, NEW S \in SUBSET Requests, Stuck(S), InOneOrder(S)
      PROVE  FALSE
  <2>1. PICK rank \in [Deals -> 1..Cardinality(Deals)] :
            \A r \in S : Running(r) => Follows(rank, req[r])
    BY <1>1 DEF InOneOrder, Follows
  <2> DEFINE Ask(r) == Level(rank, NextLock(r))
             Below(r) == Top - Ask(r)
             T == {Below(r) : r \in S}
  <2>2. ASSUME NEW r \in S
        PROVE  /\ MoreRows(r) /\ Follows(rank, req[r])
               /\ NextLock(r) \in Locks /\ Ask(r) \in Nat /\ Top \in Nat /\ Below(r) \in Nat
    <3>1. MoreRows(r)
      BY <1>1 DEF Stuck, WaitsFor
    <3>2. NextLock(r) \in Locks
      BY <1>1, <3>1, NextLockType DEF LockInv
    <3> QED
      BY <2>1, <3>1, <3>2, LevelType DEF MoreRows
  <2>3. ASSUME NEW r \in S, NEW s \in S, WaitsFor(r, s)
        PROVE  Ask(r) < Ask(s)
    <3>1. PICK lock \in held[s] : Conflict(NextLock(r), lock)
      BY <2>3 DEF WaitsFor
    <3>2. Level(rank, lock) = Ask(r)
      BY <3>1 DEF Conflict, Level
    <3>3. Level(rank, lock) < Ask(s)
      BY <1>1, <2>2, HeldBelow
    <3> QED
      BY <3>2, <3>3
  <2>4. T \in SUBSET Nat /\ T # {}
    BY <1>1, <2>2 DEF Stuck
  <2>5. PICK x \in T : \A y \in T : x <= y
    BY <2>4, SmallestOf
  <2>6. PICK r \in S : x = Below(r)
    BY <2>5
  <2>7. PICK s \in S : WaitsFor(r, s)
    BY <1>1 DEF Stuck
  <2>8. Below(r) <= Below(s)
    BY <2>5, <2>6
  <2>9. Ask(r) < Ask(s) /\ Ask(r) \in Nat /\ Ask(s) \in Nat /\ Top \in Nat
    BY <2>2, <2>3, <2>7
  <2> HIDE DEF Ask
  <2> QED
    BY <2>8, <2>9
<1>2. LockInv => OnlyCrossedListsDeadlock
  BY <1>1 DEF OnlyCrossedListsDeadlock
<1> QED
  BY <1>2, AlwaysLockInv, PTL

\* While the lists follow one order somebody always goes on: of the requests
\* under way, one waits for nobody, whatever their number and their lists.
SomeoneGoesOn ==
    InOneOrder(Requests) /\ (\E r \in Requests : Running(r)) =>
        \E r \in Requests : Running(r) /\ Free(r)

\* While no bulk lists of mark_many_as_paid cross, PostgreSQL always has a lock
\* to grant or a commit to make: those under way are never all waiting.
THEOREM SomeoneMoves == Spec => []SomeoneGoesOn
<1>1. ASSUME LockInv, OnlyCrossedListsDeadlock, InOneOrder(Requests),
             NEW r \in Requests, Running(r),
             \A s \in Requests : Running(s) => ~Free(s)
      PROVE  FALSE
  <2> DEFINE S == {s \in Requests : Running(s)}
  <2>1. \A s, t \in Requests : WaitsFor(s, t) => Running(t)
    BY <1>1 DEF WaitsFor, LockInv, HeldIsBehind, BehindOf, Running
  <2>2. Stuck(S)
    BY <1>1, <2>1 DEF Stuck, Free
  <2>3. InOneOrder(S)
    BY <1>1 DEF InOneOrder
  <2> QED
    BY <1>1, <2>2, <2>3 DEF OnlyCrossedListsDeadlock
<1>2. LockInv /\ OnlyCrossedListsDeadlock => SomeoneGoesOn
  BY <1>1 DEF SomeoneGoesOn
<1> QED
  BY <1>2, AlwaysLockInv, OnlyCrossedLists, PTL

-----------------------------------------------------------------------------
(* The dispute rows, written under their own locks.                           *)

\* The deals whose rows a request has checked and will write.
Writes(q, d) ==
    /\ q.stage = "running"
    /\ \/ d \in Recorded(q)
       \/ RowAt(q) <= Len(q.deals) /\ q.step > 1 /\ d = q.deals[RowAt(q)]

DisputeGuarded(r, d) ==
    Writes(req[r], d) /\ req[r].op \in DisputeOps =>
        /\ RowOf("dispute", d, "update") \in held[r]
        /\ payment[d] # NoRow
        /\ req[r].op = "open" => dispute[d] = NoRow
        /\ req[r].op \in {"add", "close"} => dispute[d] # NoRow /\ ~dispute[d].closed

\* The dispute a request adds to was there when it began, and stays.
DisputeFound(r) ==
    req[r].stage = "running" /\ req[r].op \in {"add", "close"} =>
        \A i \in DOMAIN req[r].deals : dispute[req[r].deals[i]] # NoRow

DisputeInv ==
    /\ \A r \in Requests, d \in Deals : DisputeGuarded(r, d)
    /\ \A r \in Requests : DisputeFound(r)

LEMMA FirstDisputeLock ==
    ASSUME NEW op \in DisputeOps, NEW d \in Deals
    PROVE  LockOrder(op, d)[1] = RowOf("dispute", d, "update")
<1>1. CASE op = "open"
  BY <1>1 DEF LockOrder, PaymentOps
<1>2. CASE op \in {"add", "close"}
  BY <1>2 DEF LockOrder, PaymentOps
<1> QED
  BY <1>1, <1>2 DEF DisputeOps

\* A request that goes on keeps what it was asked; it comes to write a deal
\* only by passing the checks made under the deal's first lock.
GoesOn(r) ==
    /\ UNCHANGED <<payment, dispute, events, record>>
    /\ \A s \in Requests : s # r => req'[s] = req[s] /\ held'[s] = held[s]
    /\ Running(r) /\ req'[r].stage = "running" /\ held[r] \subseteq held'[r]
    /\ req'[r].op = req[r].op /\ req'[r].deals = req[r].deals
    /\ req'[r].stamp = req[r].stamp
    /\ RowAt(req[r]) <= Len(req[r].deals) /\ RowAt(req'[r]) \in {RowAt(req[r]), RowAt(req[r]) + 1}
    /\ \A d \in Recorded(req'[r]) :
          d \in Recorded(req[r]) \/ (d = DealAt(r) /\ CheckHolds(req[r], d))
    /\ \A d \in Deals : Writes(req'[r], d) =>
          \/ Writes(req[r], d)
          \/ /\ d = DealAt(r) /\ MoreRows(r) /\ Passes(r, d)
             /\ LockOrder(req[r].op, d)[1] \in held'[r]

LEMMA LockGoesOn ==
    ASSUME LockInv, NEW r \in Requests, Lock(r)
    PROVE  GoesOn(r)
<1> DEFINE q == req[r]
           lock == NextLock(r)
<1>1. MoreRows(r) /\ Running(r) /\ UNCHANGED <<payment, dispute, events, record>>
  BY RowType DEF Lock, LockInv, Typed
<1>2. /\ q \in Request /\ q.stage = "running" /\ q.op \in Ops /\ q.step \in 1..3
      /\ RowAt(q) \in Nat
  BY <1>1, RunningType DEF LockInv, Typed, Running
<1>3. /\ RowAt(q) \in DOMAIN q.deals /\ RowAt(q) <= Len(q.deals)
      /\ DealAt(r) = q.deals[RowAt(q)] /\ DealAt(r) \in Deals
  BY <1>1, RowType DEF LockInv, Typed, MoreRows
<1>4. /\ q.step \in 1..Len(Order(r)) /\ Len(Order(r)) \in 2..3
      /\ lock = LockOrder(q.op, DealAt(r))[q.step]
  BY <1>1, NextLockType DEF LockInv
<1>5. held'[r] = held[r] \union {lock} /\ \A s \in Requests : s # r => held'[s] = held[s]
  BY DEF Lock, LockInv, Typed, TypeOK
<1>6. CASE q.step < Len(Order(r))
  <2> DEFINE new == [q EXCEPT !.step = @ + 1]
  <2>1. req'[r] = new /\ \A s \in Requests : s # r => req'[s] = req[s]
    BY <1>6 DEF Lock, LockInv, Typed, TypeOK
  <2>2. /\ new.stage = "running" /\ new.op = q.op /\ new.deals = q.deals
        /\ new.outcomes = q.outcomes /\ new.stamp = q.stamp
    BY <1>2 DEF Request
  <2> HIDE DEF new
  <2>3. RowAt(new) = RowAt(q) /\ Recorded(new) = Recorded(q)
    BY <1>2, <2>2 DEF RowAt, Recorded
  <2>4. ASSUME NEW d \in Deals, Writes(new, d), ~Writes(q, d)
        PROVE  /\ d = DealAt(r) /\ Passes(r, d)
               /\ LockOrder(q.op, d)[1] \in held'[r]
    <3>1. d = DealAt(r) /\ ~(q.step > 1)
      BY <1>2, <1>3, <2>2, <2>3, <2>4 DEF Writes
    <3>2. q.step = 1
      BY <1>2, <3>1
    <3> QED
      BY <1>4, <1>5, <3>1, <3>2 DEF Lock
  <2> QED
    BY <1>1, <1>3, <1>5, <2>1, <2>2, <2>3, <2>4 DEF GoesOn
<1>7. CASE ~(q.step < Len(Order(r)))
  <2> DEFINE outcome == IF CheckHolds(q, DealAt(r)) THEN "recorded" ELSE "refused"
             new == [q EXCEPT !.step = 1, !.outcomes = Append(@, outcome)]
  <2>1. req'[r] = new /\ \A s \in Requests : s # r => req'[s] = req[s]
    BY <1>7 DEF Lock, LockInv, Typed, TypeOK
  <2>2. /\ new.stage = "running" /\ new.op = q.op /\ new.deals = q.deals
        /\ new.step = 1 /\ new.outcomes = Append(q.outcomes, outcome)
        /\ new.stamp = q.stamp
    BY <1>2 DEF Request
  <2>3. /\ outcome \in {"recorded", "refused"}
        /\ outcome = "recorded" => CheckHolds(q, DealAt(r))
    OBVIOUS
  <2> HIDE DEF new, outcome
  <2>4. new \in Request
    <3>1. req'[r] \in Request \union {Unsent}
      BY LockTyped DEF LockInv, Typed, TypeOK
    <3> QED
      BY <2>1, <2>2, <3>1, RunningIsSent
  <2>5. q.step > 1
    BY <1>2, <1>4, <1>7, LastStep
  <2>6. /\ RowAt(new) = RowAt(q) + 1
        /\ \A d \in Recorded(new) :
              d \in Recorded(q) \/ (d = DealAt(r) /\ CheckHolds(q, d))
    <3>1. PICK p \in Request : p = q
      BY <1>2
    <3>2. PICK n \in Request : n = new
      BY <2>4
    <3>3. n.outcomes = Append(p.outcomes, outcome) /\ n.deals = p.deals
      BY <2>2, <3>1, <3>2
    <3>4. /\ RowAt(n) = RowAt(p) + 1
          /\ \A d \in Recorded(n) :
                d \in Recorded(p) \/ (outcome = "recorded" /\ d = p.deals[RowAt(p)])
      BY <2>3, <3>3, RecordedGrows
    <3>5. p.deals[RowAt(p)] = DealAt(r)
      BY <1>3, <3>1
    <3> QED
      BY <2>3, <3>1, <3>2, <3>4, <3>5
  <2>7. \A d \in Deals : Writes(new, d) => Writes(q, d)
    BY <1>2, <1>3, <2>2, <2>5, <2>6 DEF Writes
  <2> QED
    BY <1>1, <1>3, <1>5, <2>1, <2>2, <2>6, <2>7 DEF GoesOn
<1> QED
  BY <1>6, <1>7

LEMMA RefuseGoesOn ==
    ASSUME LockInv, NEW r \in Requests, Refuse(r)
    PROVE  GoesOn(r)
<1> DEFINE q == req[r]
           new == [q EXCEPT !.outcomes = Append(@, "refused")]
<1>1. Running(r) /\ q.step = 1
  BY RowType DEF Refuse, LockInv, Typed
<1>2. q \in Request /\ q.stage = "running"
  BY <1>1, RunningType DEF LockInv, Typed, Running
<1>3. req'[r] = new /\ (\A s \in Requests : s # r => req'[s] = req[s])
      /\ UNCHANGED <<payment, dispute, events, record, held>>
  BY DEF Refuse, LockInv, Typed, TypeOK
<1>4. /\ new.stage = "running" /\ new.op = q.op /\ new.deals = q.deals
      /\ new.step = 1 /\ new.outcomes = Append(q.outcomes, "refused")
      /\ new.stamp = q.stamp
  BY <1>1, <1>2 DEF Request
<1> HIDE DEF new
<1>5. new \in Request
  <2>1. req'[r] \in Request \union {Unsent}
    BY RefuseTyped DEF LockInv, Typed, TypeOK
  <2> QED
    BY <1>3, <1>4, <2>1, RunningIsSent
<1>6. Recorded(new) \subseteq Recorded(q) /\ RowAt(new) = RowAt(q) + 1 /\ RowAt(q) \in Nat
  BY <1>2, <1>4, <1>5, RecordedGrows
<1>7. \A d \in Deals : Writes(new, d) => Writes(q, d)
  BY <1>2, <1>4, <1>6 DEF Writes
<1>8. RowAt(q) <= Len(q.deals)
  BY DEF Refuse, MoreRows
<1> QED
  BY <1>1, <1>3, <1>4, <1>6, <1>7, <1>8 DEF GoesOn

\* What a commit does to one dispute row.
LEMMA DisputeEffect ==
    ASSUME LockInv, DisputeInv, NEW r \in Requests, Running(r), Write(r), NEW d \in Deals
    PROVE  \/ dispute'[d] = dispute[d]
           \/ /\ Writes(req[r], d) /\ req[r].op \in DisputeOps
              /\ RowOf("dispute", d, "update") \in held[r]
              /\ dispute'[d] = [closed |-> req[r].op = "close"] /\ dispute'[d] # NoRow
<1>1. CASE d \in Recorded(req[r]) /\ req[r].op \in {"open", "close"}
  <2>1. dispute'[d] = [closed |-> req[r].op = "close"]
    BY <1>1 DEF Write
  <2>2. Writes(req[r], d) /\ req[r].op \in DisputeOps
    BY <1>1 DEF Writes, Running, DisputeOps
  <2>3. dispute'[d] # NoRow
    BY <2>1 DEF NoRow
  <2> QED
    BY <2>1, <2>2, <2>3 DEF DisputeInv, DisputeGuarded
<1>2. CASE ~(d \in Recorded(req[r]) /\ req[r].op \in {"open", "close"})
  BY <1>2 DEF Write
<1> QED
  BY <1>1, <1>2

LEMMA GoesOnDisputes ==
    ASSUME LockInv, DisputeInv, NEW r \in Requests, GoesOn(r)
    PROVE  DisputeInv'
<1>1. ASSUME NEW d \in Deals PROVE DisputeGuarded(r, d)'
  <2>1. CASE Writes(req[r], d)
    BY <2>1 DEF DisputeInv, DisputeGuarded, GoesOn
  <2>2. CASE Writes(req'[r], d) /\ ~Writes(req[r], d) /\ req[r].op \in DisputeOps
    <3>1. /\ d = DealAt(r) /\ MoreRows(r) /\ Passes(r, d)
          /\ LockOrder(req[r].op, d)[1] \in held'[r]
      BY <2>2 DEF GoesOn
    <3>2. /\ RowAt(req[r]) \in DOMAIN req[r].deals /\ d = req[r].deals[RowAt(req[r])]
          /\ req[r].stage = "running"
      BY <3>1, RowType DEF LockInv, Typed, Running
    <3>3. RowOf("dispute", d, "update") \in held'[r]
      BY <2>2, <3>1, FirstDisputeLock
    <3>4. payment[d] # NoRow
      BY <2>2, <3>2 DEF LockInv, FoundHavePayments, FoundOf, DisputeOps
    <3>5. req[r].op = "open" => dispute[d] = NoRow
      BY <3>1 DEF Passes
    <3>6. req[r].op \in {"add", "close"} => dispute[d] # NoRow /\ ~dispute[d].closed
      BY <3>1, <3>2 DEF Passes, DisputeInv, DisputeFound
    <3> QED
      BY <3>3, <3>4, <3>5, <3>6 DEF GoesOn, DisputeGuarded
  <2> QED
    BY <2>1, <2>2 DEF DisputeGuarded, GoesOn
<1> QED
  BY <1>1 DEF DisputeInv, DisputeGuarded, DisputeFound, GoesOn, Running

LEMMA DisputeInvInit == Init => DisputeInv
BY DEF Init, DisputeInv, DisputeGuarded, DisputeFound, Writes, Unsent

LEMMA DisputeInvStep ==
    ASSUME LockInv, DisputeInv, [Next]_vars
    PROVE  DisputeInv'
<1>1. ASSUME NEW r \in Requests, NEW op \in Ops, NEW deals \in ListsFor(op),
             NEW stamp \in Moment, Begin(r, op, deals, stamp)
      PROVE  DisputeInv'
  <2>1. PICK new : /\ new.stage = "running" /\ new.op = op /\ new.deals = deals
                   /\ new.step = 1 /\ new.outcomes = <<>>
                   /\ req' = [req EXCEPT ![r] = new]
    BY <1>1 DEF Begin
  <2>2. /\ req'[r] = new /\ UNCHANGED <<payment, dispute, held>>
        /\ \A s \in Requests : s # r => req'[s] = req[s]
    BY <1>1, <2>1 DEF Begin, LockInv, Typed, TypeOK
  <2>3. Recorded(new) = {}
    BY <2>1 DEF Recorded
  <2>4. \A d \in Deals : ~Writes(new, d)
    BY <2>1, <2>3 DEF Writes
  <2>5. DisputeFound(r)'
    <3>1. op \in {"add", "close"} => dispute[deals[1]] # NoRow /\ DOMAIN deals = 1..1
      BY <1>1, ListsForType, ListType DEF Begin
    <3> QED
      BY <2>1, <2>2, <3>1 DEF DisputeFound
  <2> QED
    BY <2>2, <2>4, <2>5 DEF DisputeInv, DisputeGuarded, DisputeFound
<1>2. ASSUME NEW r \in Requests, Lock(r) \/ Refuse(r) PROVE DisputeInv'
  BY <1>2, LockGoesOn, RefuseGoesOn, GoesOnDisputes
<1>3. ASSUME NEW r \in Requests, Commit(r) PROVE DisputeInv'
  <2>1. Running(r) /\ Write(r)
    BY <1>3 DEF Commit
  <2>2. /\ ~Running(r)'
        /\ \A s \in Requests : s # r => req'[s] = req[s] /\ held'[s] = held[s]
    BY <1>3, <2>1, EndTyped DEF Commit, LockInv
  <2>3. \A d \in Deals : payment[d] # NoRow => payment'[d] # NoRow
    BY <2>1, WriteEffect DEF Payment, NoRow
  <2>4. ASSUME NEW s \in Requests, NEW d \in Deals PROVE DisputeGuarded(s, d)'
    <3>1. CASE s = r
      BY <2>2, <3>1 DEF DisputeGuarded, Writes, Running
    <3>2. CASE s # r /\ Writes(req[s], d) /\ req[s].op \in DisputeOps
      <4>1. RowOf("dispute", d, "update") \in held[s]
        BY <3>2 DEF DisputeInv, DisputeGuarded
      <4>2. RowOf("dispute", d, "update") \notin held[r]
        BY <3>2, <4>1 DEF LockInv, Exclusive, Conflict, RowOf
      <4>3. dispute'[d] = dispute[d]
        BY <2>1, <4>2, DisputeEffect
      <4> QED
        BY <2>2, <2>3, <3>2, <4>3 DEF DisputeInv, DisputeGuarded
    <3> QED
      BY <2>2, <3>1, <3>2 DEF DisputeGuarded
  <2>5. ASSUME NEW s \in Requests PROVE DisputeFound(s)'
    <3>1. CASE s = r
      BY <2>2, <3>1 DEF DisputeFound, Running
    <3>2. CASE s # r /\ req[s].stage = "running" /\ req[s].op \in {"add", "close"}
      <4>1. \A i \in DOMAIN req[s].deals : req[s].deals[i] \in Deals
        BY <3>2, RunningType, ListType DEF LockInv, Typed, Running
      <4>2. \A d \in Deals : dispute[d] # NoRow => dispute'[d] # NoRow
        BY <2>1, DisputeEffect
      <4> QED
        BY <2>2, <3>2, <4>1, <4>2 DEF DisputeInv, DisputeFound
    <3> QED
      BY <2>2, <3>1, <3>2 DEF DisputeFound
  <2> QED
    BY <2>4, <2>5 DEF DisputeInv
<1>4. ASSUME NEW r \in Requests, TimeOut(r) PROVE DisputeInv'
  <2>1. Running(r)
    BY <1>4 DEF TimeOut, Free, WaitsFor, MoreRows
  <2>2. /\ ~Running(r)' /\ UNCHANGED <<payment, dispute>>
        /\ \A s \in Requests : s # r => req'[s] = req[s] /\ held'[s] = held[s]
    BY <1>4, <2>1, EndTyped DEF TimeOut, LockInv
  <2> QED
    BY <2>2 DEF DisputeInv, DisputeGuarded, DisputeFound, Writes, Running
<1>5. ASSUME NEW d \in Deals, OpenOnApproval(d) PROVE DisputeInv'
  <2>1. /\ UNCHANGED <<dispute, req, held>>
        /\ \A e \in Deals : payment[e] # NoRow => payment'[e] # NoRow
    BY <1>5 DEF OpenOnApproval, LockInv, Typed, TypeOK
  <2> QED
    BY <2>1 DEF DisputeInv, DisputeGuarded, DisputeFound
<1>6. CASE UNCHANGED vars
  BY <1>6 DEF vars, DisputeInv, DisputeGuarded, DisputeFound
<1> QED
  BY <1>1, <1>2, <1>3, <1>4, <1>5, <1>6 DEF Next, Proceeds

-----------------------------------------------------------------------------
(* The story the record of a deal tells, and whose entries it holds.          *)

Places(rec, kind) == {i \in DOMAIN rec : rec[i].kind = kind}
Once(rec, first, then) ==
    /\ \A i, j \in Places(rec, then) : i = j
    /\ \A i \in Places(rec, then) : \E j \in Places(rec, first) : j < i

PaymentStory(pay, rec) ==
    /\ pay = NoRow => rec = <<>>
    /\ pay # NoRow =>
          /\ Places(rec, "payment_opened") # {}
          /\ pay.marked # Never <=> Places(rec, "payment_marked_paid") # {}
          /\ pay.confirmed # Never <=> Places(rec, "payment_confirmed") # {}
          /\ \A i \in Places(rec, "payment_marked_paid") : rec[i].by = pay.by
    /\ Once(rec, "payment_opened", "payment_marked_paid")
    /\ Once(rec, "payment_marked_paid", "payment_confirmed")

DisputeStory(pay, dis, rec) ==
    /\ pay = NoRow => dis = NoRow
    /\ dis # NoRow <=> Places(rec, "dispute_opened") # {}
    /\ dis = NoRow =>
          Places(rec, "dispute_entry_added") = {} /\ Places(rec, "dispute_closed") = {}
    /\ dis # NoRow => (dis.closed <=> Places(rec, "dispute_closed") # {})
    /\ Once(rec, "payment_opened", "dispute_opened")
    /\ Once(rec, "dispute_opened", "dispute_closed")
    /\ \A i \in Places(rec, "dispute_entry_added") :
          /\ \E j \in Places(rec, "dispute_opened") : j < i
          /\ \A j \in Places(rec, "dispute_closed") : i < j

StoryOf(pay, dis, rec) == PaymentStory(pay, rec) /\ DisputeStory(pay, dis, rec)

PlacesBy(rec, r) == {i \in DOMAIN rec : rec[i].by = r}
OwnEntries(q, r, d, rec) ==
    IF q.stage = "answered" /\ d \in Recorded(q)
    THEN \E i \in DOMAIN rec : PlacesBy(rec, r) = {i}
    ELSE PlacesBy(rec, r) = {}

StoryInv ==
    /\ \A d \in Deals : StoryOf(payment[d], dispute[d], record[d])
    /\ \A r \in Requests, d \in Deals : OwnEntries(req[r], r, d, record[d])

\* A record gets one entry more, the last.
Grows(rec, new, entry, n) ==
    /\ \A kind : kind = entry.kind => Places(new, kind) = Places(rec, kind) \union {n}
    /\ \A kind : kind # entry.kind => Places(new, kind) = Places(rec, kind)
    /\ \A kind : \A i \in Places(rec, kind) : i < n /\ new[i] = rec[i]
    /\ \A r : r = entry.by => PlacesBy(new, r) = PlacesBy(rec, r) \union {n}
    /\ \A r : r # entry.by => PlacesBy(new, r) = PlacesBy(rec, r)
    /\ new[n] = entry /\ n \in DOMAIN new

LEMMA AppendGrows ==
    ASSUME NEW rec \in Seq(Entry), NEW entry \in Entry
    PROVE  Grows(rec, Append(rec, entry), entry, Len(rec) + 1)
<1> DEFINE n == Len(rec) + 1
           new == Append(rec, entry)
<1>1. /\ DOMAIN rec = 1..(n - 1) /\ DOMAIN new = 1..n /\ n \in Nat
      /\ new[n] = entry /\ n >= 1
      /\ \A i \in 1..(n - 1) : new[i] = rec[i]
  OBVIOUS
<1> HIDE DEF n, new
<1>2. /\ DOMAIN new = DOMAIN rec \union {n} /\ n \notin DOMAIN rec
      /\ \A i \in DOMAIN rec : i < n /\ new[i] = rec[i]
  BY <1>1
<1>3. Grows(rec, new, entry, n)
  BY <1>1, <1>2 DEF Grows, Places, PlacesBy
<1> QED
  BY <1>3 DEF n, new

LEMMA OnceGrows ==
    ASSUME NEW rec, NEW new, NEW entry, NEW n, Grows(rec, new, entry, n),
           NEW first, NEW then, Once(rec, first, then), first # then,
           entry.kind = then => Places(rec, then) = {} /\ Places(rec, first) # {}
    PROVE  Once(new, first, then)
<1>1. CASE entry.kind = then
  <2>1. Places(new, then) = {n} /\ Places(new, first) = Places(rec, first)
    BY <1>1 DEF Grows
  <2> QED
    BY <1>1, <2>1 DEF Grows, Once
<1>2. CASE entry.kind # then
  <2>1. Places(new, then) = Places(rec, then) /\ Places(rec, first) \subseteq Places(new, first)
    BY <1>2 DEF Grows
  <2> QED
    BY <2>1 DEF Once
<1> QED
  BY <1>1, <1>2

\* An entry of the payment leaves the story of the dispute.
LEMMA DisputeStoryStays ==
    ASSUME NEW pay, NEW pay2, NEW dis, NEW rec, NEW new, NEW entry, NEW n,
           DisputeStory(pay, dis, rec), Grows(rec, new, entry, n), pay2 # NoRow,
           entry.kind \in {"payment_opened", "payment_marked_paid", "payment_confirmed"}
    PROVE  DisputeStory(pay2, dis, new)
<1>1. /\ Places(new, "dispute_opened") = Places(rec, "dispute_opened")
      /\ Places(new, "dispute_closed") = Places(rec, "dispute_closed")
      /\ Places(new, "dispute_entry_added") = Places(rec, "dispute_entry_added")
  BY DEF Grows
<1>2. Once(new, "payment_opened", "dispute_opened")
  BY OnceGrows DEF DisputeStory
<1>3. Once(new, "dispute_opened", "dispute_closed")
  BY OnceGrows DEF DisputeStory
<1> QED
  BY <1>1, <1>2, <1>3 DEF DisputeStory

\* An entry of the dispute leaves the story of the payment.
LEMMA PaymentStoryStays ==
    ASSUME NEW pay, NEW rec, NEW new, NEW entry, NEW n,
           PaymentStory(pay, rec), Grows(rec, new, entry, n), pay # NoRow,
           entry.kind \in {"dispute_opened", "dispute_entry_added", "dispute_closed"}
    PROVE  PaymentStory(pay, new)
<1>1. /\ Places(new, "payment_opened") = Places(rec, "payment_opened")
      /\ Places(new, "payment_marked_paid") = Places(rec, "payment_marked_paid")
      /\ Places(new, "payment_confirmed") = Places(rec, "payment_confirmed")
      /\ \A i \in Places(rec, "payment_marked_paid") : new[i] = rec[i]
  BY DEF Grows
<1>2. Once(new, "payment_opened", "payment_marked_paid")
  BY OnceGrows DEF PaymentStory
<1>3. Once(new, "payment_marked_paid", "payment_confirmed")
  BY OnceGrows DEF PaymentStory
<1> QED
  BY <1>1, <1>2, <1>3 DEF PaymentStory

\* Each kind of entry tells the next part of the story.
LEMMA MarkStory ==
    ASSUME NEW pay, NEW pay2, NEW dis, NEW rec, NEW new, NEW entry, NEW n,
           StoryOf(pay, dis, rec), Grows(rec, new, entry, n),
           entry.kind = "payment_marked_paid",
           pay # NoRow, pay.marked = Never, pay2 # NoRow, pay2.marked # Never,
           pay2.by = entry.by, pay2.confirmed = pay.confirmed
    PROVE  StoryOf(pay2, dis, new)
<1>1. /\ Places(new, "payment_opened") = Places(rec, "payment_opened")
      /\ Places(rec, "payment_opened") # {}
      /\ Places(new, "payment_confirmed") = Places(rec, "payment_confirmed")
      /\ Places(rec, "payment_marked_paid") = {}
      /\ Places(new, "payment_marked_paid") = {n} /\ new[n] = entry
  BY DEF Grows, StoryOf, PaymentStory
<1>2. Once(new, "payment_opened", "payment_marked_paid")
  BY <1>1, OnceGrows DEF StoryOf, PaymentStory
<1>3. Once(new, "payment_marked_paid", "payment_confirmed")
  BY OnceGrows DEF StoryOf, PaymentStory
<1>4. PaymentStory(pay2, new)
  BY <1>1, <1>2, <1>3 DEF StoryOf, PaymentStory
<1> QED
  BY <1>4, DisputeStoryStays DEF StoryOf

LEMMA ConfirmStory ==
    ASSUME NEW pay, NEW pay2, NEW dis, NEW rec, NEW new, NEW entry, NEW n,
           StoryOf(pay, dis, rec), Grows(rec, new, entry, n),
           entry.kind = "payment_confirmed",
           pay # NoRow, pay.marked # Never, pay.confirmed = Never,
           pay2 # NoRow, pay2.marked = pay.marked, pay2.by = pay.by, pay2.confirmed # Never
    PROVE  StoryOf(pay2, dis, new)
<1>1. /\ Places(new, "payment_opened") = Places(rec, "payment_opened")
      /\ Places(new, "payment_marked_paid") = Places(rec, "payment_marked_paid")
      /\ Places(rec, "payment_marked_paid") # {}
      /\ \A i \in Places(rec, "payment_marked_paid") : new[i] = rec[i]
      /\ Places(rec, "payment_confirmed") = {}
      /\ Places(new, "payment_confirmed") = {n}
  BY DEF Grows, StoryOf, PaymentStory
<1>2. Once(new, "payment_opened", "payment_marked_paid")
  BY OnceGrows DEF StoryOf, PaymentStory
<1>3. Once(new, "payment_marked_paid", "payment_confirmed")
  BY <1>1, OnceGrows DEF StoryOf, PaymentStory
<1>4. PaymentStory(pay2, new)
  BY <1>1, <1>2, <1>3 DEF StoryOf, PaymentStory
<1> QED
  BY <1>4, DisputeStoryStays DEF StoryOf

LEMMA OpenStory ==
    ASSUME NEW pay, NEW dis, NEW rec, NEW new, NEW entry, NEW n,
           StoryOf(pay, NoRow, rec), Grows(rec, new, entry, n),
           entry.kind = "dispute_opened", pay # NoRow, dis # NoRow, ~dis.closed
    PROVE  StoryOf(pay, dis, new)
<1>1. PaymentStory(pay, new)
  BY PaymentStoryStays DEF StoryOf
<1>2. /\ Places(rec, "payment_opened") # {} /\ Places(rec, "dispute_opened") = {}
      /\ Places(new, "dispute_opened") = {n} /\ Places(new, "dispute_closed") = {}
      /\ Places(new, "dispute_entry_added") = {}
  BY DEF Grows, StoryOf, PaymentStory, DisputeStory
<1>3. Once(new, "payment_opened", "dispute_opened")
  BY <1>2, OnceGrows DEF StoryOf, DisputeStory
<1>4. Once(new, "dispute_opened", "dispute_closed")
  BY OnceGrows DEF StoryOf, DisputeStory
<1> QED
  BY <1>1, <1>2, <1>3, <1>4 DEF StoryOf, DisputeStory

LEMMA AddStory ==
    ASSUME NEW pay, NEW dis, NEW rec, NEW new, NEW entry, NEW n,
           StoryOf(pay, dis, rec), Grows(rec, new, entry, n),
           entry.kind = "dispute_entry_added", pay # NoRow, dis # NoRow, ~dis.closed
    PROVE  StoryOf(pay, dis, new)
<1>1. PaymentStory(pay, new)
  BY PaymentStoryStays DEF StoryOf
<1>2. /\ Places(new, "dispute_opened") = Places(rec, "dispute_opened")
      /\ Places(rec, "dispute_opened") # {} /\ Places(new, "dispute_closed") = {}
      /\ Places(new, "dispute_entry_added") = Places(rec, "dispute_entry_added") \union {n}
      /\ \A j \in Places(rec, "dispute_opened") : j < n
  BY DEF Grows, StoryOf, DisputeStory
<1>3. Once(new, "payment_opened", "dispute_opened")
  BY OnceGrows DEF StoryOf, DisputeStory
<1>4. Once(new, "dispute_opened", "dispute_closed")
  BY OnceGrows DEF StoryOf, DisputeStory
<1> QED
  BY <1>1, <1>2, <1>3, <1>4 DEF StoryOf, DisputeStory

LEMMA CloseStory ==
    ASSUME NEW pay, NEW dis, NEW dis2, NEW rec, NEW new, NEW entry, NEW n,
           StoryOf(pay, dis, rec), Grows(rec, new, entry, n),
           entry.kind = "dispute_closed", pay # NoRow, dis # NoRow, ~dis.closed,
           dis2 # NoRow, dis2.closed
    PROVE  StoryOf(pay, dis2, new)
<1>1. PaymentStory(pay, new)
  BY PaymentStoryStays DEF StoryOf
<1>2. /\ Places(new, "dispute_opened") = Places(rec, "dispute_opened")
      /\ Places(rec, "dispute_opened") # {} /\ Places(rec, "dispute_closed") = {}
      /\ Places(new, "dispute_closed") = {n}
      /\ Places(new, "dispute_entry_added") = Places(rec, "dispute_entry_added")
      /\ \A j \in Places(rec, "dispute_entry_added") : j < n
  BY DEF Grows, StoryOf, DisputeStory
<1>3. Once(new, "payment_opened", "dispute_opened")
  BY OnceGrows DEF StoryOf, DisputeStory
<1>4. Once(new, "dispute_opened", "dispute_closed")
  BY <1>2, OnceGrows DEF StoryOf, DisputeStory
<1> QED
  BY <1>1, <1>2, <1>3, <1>4 DEF StoryOf, DisputeStory

\* A commit tells the next part of the story, as the checks made under the
\* row's lock allow it.
LEMMA CommitStory ==
    ASSUME LockInv, DisputeInv, NEW r \in Requests, Running(r), Write(r), NEW d \in Deals,
           StoryOf(payment[d], dispute[d], record[d]), d \in Recorded(req[r]),
           NEW entry, entry = [kind |-> EntryFor(req[r].op), by |-> r],
           NEW new, NEW n, Grows(record[d], new, entry, n)
    PROVE  StoryOf(payment'[d], dispute'[d], new)
<1> DEFINE q == req[r]
<1>1. /\ q.op \in Ops /\ q.stamp \in Moment /\ q.stamp # Never /\ q.stage = "running"
  BY RunningType, MaxStampAssumption DEF LockInv, Typed, Moment, Never, Running
<1>2. /\ GuardedBy(q, held[r], d, payment[d]) /\ DisputeGuarded(r, d)
      /\ payment[d] \in Payment \union {NoRow}
  BY DEF LockInv, WritesAreGuarded, DisputeInv, Typed, TypeOK
<1>3. entry.kind = EntryFor(q.op) /\ entry.by = r
  OBVIOUS
<1>4. CASE q.op \in {"mark", "bulk"}
  <2>1. WritesTo(q, d)
    BY <1>1, <1>4 DEF WritesTo, PaymentOps
  <2>2. payment[d] # NoRow /\ payment[d].marked = Never
    BY <1>2, <1>4, <2>1 DEF GuardedBy
  <2>3. /\ payment'[d] = [payment[d] EXCEPT !.marked = q.stamp, !.by = r]
        /\ dispute'[d] = dispute[d]
    BY <1>4 DEF Write
  <2>4. /\ payment'[d].marked = q.stamp /\ payment'[d].by = r
        /\ payment'[d].confirmed = payment[d].confirmed /\ payment'[d] # NoRow
    BY <1>2, <2>2, <2>3 DEF Payment, NoRow
  <2>5. entry.kind = "payment_marked_paid"
    BY <1>3, <1>4 DEF EntryFor
  <2>6. StoryOf(payment'[d], dispute[d], new)
    BY <1>1, <1>3, <2>2, <2>4, <2>5, MarkStory
  <2> QED
    BY <2>3, <2>6
<1>5. CASE q.op = "confirm"
  <2>1. WritesTo(q, d)
    BY <1>1, <1>5 DEF WritesTo, PaymentOps
  <2>2. payment[d] # NoRow /\ payment[d].marked # Never /\ payment[d].confirmed = Never
    BY <1>2, <1>5, <2>1 DEF GuardedBy
  <2>3. /\ payment'[d] = [payment[d] EXCEPT !.confirmed = q.stamp]
        /\ dispute'[d] = dispute[d]
    BY <1>5 DEF Write
  <2>4. /\ payment'[d].marked = payment[d].marked /\ payment'[d].by = payment[d].by
        /\ payment'[d].confirmed = q.stamp /\ payment'[d] # NoRow
    BY <1>2, <2>2, <2>3 DEF Payment, NoRow
  <2>5. entry.kind = "payment_confirmed"
    BY <1>3, <1>5 DEF EntryFor
  <2>6. StoryOf(payment'[d], dispute[d], new)
    BY <1>1, <2>2, <2>4, <2>5, ConfirmStory
  <2> QED
    BY <2>3, <2>6
<1>6. CASE q.op \in DisputeOps
  <2>1. Writes(q, d)
    BY <1>1 DEF Writes
  <2>2. /\ payment[d] # NoRow
        /\ q.op = "open" => dispute[d] = NoRow
        /\ q.op \in {"add", "close"} => dispute[d] # NoRow /\ ~dispute[d].closed
    BY <1>2, <1>6, <2>1 DEF DisputeGuarded
  <2>3. payment'[d] = payment[d]
    BY <1>6 DEF Write, DisputeOps
  <2>4. CASE q.op = "open"
    <3>1. dispute'[d] = [closed |-> FALSE] /\ entry.kind = "dispute_opened"
      BY <1>3, <2>4 DEF Write, EntryFor
    <3>2. dispute'[d] # NoRow /\ ~dispute'[d].closed
      BY <3>1 DEF NoRow
    <3>3. StoryOf(payment[d], dispute'[d], new)
      BY <2>2, <2>4, <3>1, <3>2, OpenStory
    <3> QED
      BY <2>3, <3>3
  <2>5. CASE q.op = "add"
    <3>1. dispute'[d] = dispute[d] /\ entry.kind = "dispute_entry_added"
      BY <1>3, <2>5 DEF Write, EntryFor
    <3>2. StoryOf(payment[d], dispute[d], new)
      BY <2>2, <2>5, <3>1, AddStory
    <3> QED
      BY <2>3, <3>1, <3>2
  <2>6. CASE q.op = "close"
    <3>1. dispute'[d] = [closed |-> TRUE] /\ entry.kind = "dispute_closed"
      BY <1>3, <2>6 DEF Write, EntryFor
    <3>2. dispute'[d] # NoRow /\ dispute'[d].closed
      BY <3>1 DEF NoRow
    <3>3. StoryOf(payment[d], dispute'[d], new)
      BY <2>2, <2>6, <3>1, <3>2, CloseStory
    <3> QED
      BY <2>3, <3>3
  <2> QED
    BY <1>6, <2>4, <2>5, <2>6 DEF DisputeOps
<1> QED
  BY <1>1, <1>4, <1>5, <1>6 DEF Ops, PaymentOps

LEMMA StoryInvInit == Init => StoryInv
<1> SUFFICES ASSUME Init PROVE StoryInv
  OBVIOUS
<1> DEFINE opening == [kind |-> "payment_opened", by |-> NoOne]
           marking == [kind |-> "payment_marked_paid", by |-> NoOne]
           Row(marked) == [marked |-> marked, by |-> NoOne, confirmed |-> Never]
<1>1. PICK opened \in SUBSET Deals, marked \in SUBSET Deals :
        /\ marked \subseteq opened
        /\ payment = [d \in Deals |-> IF d \in opened
                                      THEN Row(IF d \in marked THEN 0 ELSE Never) ELSE NoRow]
        /\ record = [d \in Deals |-> IF d \in marked THEN <<opening, marking>>
                                     ELSE IF d \in opened THEN <<opening>> ELSE <<>>]
  BY DEF Init
<1>2. ASSUME NEW d \in Deals
      PROVE  StoryOf(payment[d], dispute[d], record[d])
             /\ \A r \in Requests : PlacesBy(record[d], r) = {}
  <2>1. dispute[d] = NoRow
    BY DEF Init
  <2>2. CASE d \in marked
    <3>1. record[d] = <<opening, marking>> /\ payment[d] = Row(0)
      BY <1>1, <2>2
    <3>2. /\ record[d][1].kind = "payment_opened" /\ record[d][1].by = NoOne
          /\ record[d][2].kind = "payment_marked_paid" /\ record[d][2].by = NoOne
          /\ DOMAIN record[d] = {1, 2}
      BY <3>1
    <3>3. payment[d] # NoRow /\ payment[d].marked = 0 /\ payment[d].confirmed = Never
          /\ payment[d].by = NoOne /\ 0 # Never
      BY <3>1 DEF NoRow, Never
    <3> QED
      BY <2>1, <3>2, <3>3, RequestsAssumption
         DEF StoryOf, PaymentStory, DisputeStory, Once, Places, PlacesBy
  <2>3. CASE d \in opened /\ d \notin marked
    <3>1. record[d] = <<opening>> /\ payment[d] = Row(Never)
      BY <1>1, <2>3
    <3>2. /\ record[d][1].kind = "payment_opened" /\ record[d][1].by = NoOne
          /\ DOMAIN record[d] = {1}
      BY <3>1
    <3>3. payment[d] # NoRow /\ payment[d].marked = Never /\ payment[d].confirmed = Never
      BY <3>1 DEF NoRow
    <3> QED
      BY <2>1, <3>2, <3>3, RequestsAssumption
         DEF StoryOf, PaymentStory, DisputeStory, Once, Places, PlacesBy
  <2>4. CASE d \notin opened
    <3>1. record[d] = <<>> /\ payment[d] = NoRow
      BY <1>1, <2>4
    <3> QED
      BY <2>1, <3>1 DEF StoryOf, PaymentStory, DisputeStory, Once, Places, PlacesBy
  <2> QED
    BY <2>2, <2>3, <2>4
<1> QED
  BY <1>2 DEF Init, StoryInv, OwnEntries, Unsent

\* A step of requests that answers none and writes nothing.
LEMMA NothingTold ==
    ASSUME StoryInv, UNCHANGED <<payment, dispute, record>>,
           \A r \in Requests : \/ req'[r] = req[r]
                               \/ req[r].stage # "answered" /\ req'[r].stage # "answered"
    PROVE  StoryInv'
BY DEF StoryInv, OwnEntries

LEMMA CommitTold ==
    ASSUME LockInv, DisputeInv, StoryInv, NEW r \in Requests, Commit(r)
    PROVE  StoryInv'
<1> DEFINE q == req[r]
           entry == [kind |-> EntryFor(q.op), by |-> r]
<1>1. Running(r) /\ Write(r) /\ q.stage = "running"
  BY DEF Commit, Running
<1>2. q.op \in Ops /\ q \in Request
  BY <1>1, RunningType DEF LockInv, Typed
<1>3. entry \in Entry /\ entry.by = r /\ entry.kind = EntryFor(q.op)
  BY <1>2 DEF Entry, EntryKinds, EntryFor, Ops, PaymentOps, DisputeOps
<1>4. /\ \A s \in Requests : s # r => req'[s] = req[s]
      /\ req'[r] = [q EXCEPT !.stage = "answered"]
  BY DEF Commit, LockInv, Typed, TypeOK
<1>5. req'[r].stage = "answered" /\ Recorded(req'[r]) = Recorded(q)
  BY <1>2, <1>4 DEF Request, Recorded
<1> HIDE DEF entry
<1>6. ASSUME NEW d \in Deals, d \notin Recorded(q)
      PROVE  /\ StoryOf(payment'[d], dispute'[d], record'[d])
             /\ \A s \in Requests : OwnEntries(req'[s], s, d, record'[d])
  <2>1. payment'[d] = payment[d] /\ dispute'[d] = dispute[d] /\ record'[d] = record[d]
    BY <1>1, <1>6 DEF Write
  <2> QED
    BY <1>1, <1>4, <1>5, <1>6, <2>1 DEF StoryInv, OwnEntries
<1>7. ASSUME NEW d \in Deals, d \in Recorded(q)
      PROVE  /\ StoryOf(payment'[d], dispute'[d], record'[d])
             /\ \A s \in Requests : OwnEntries(req'[s], s, d, record'[d])
  <2>1. PICK n : n = Len(record[d]) + 1
    OBVIOUS
  <2>2. record'[d] = Append(record[d], entry)
    BY <1>1, <1>7 DEF Write, entry
  <2>3. record[d] \in Seq(Entry)
    BY DEF LockInv, Typed, TypeOK
  <2>4. Grows(record[d], record'[d], entry, n)
    BY <1>3, <2>1, <2>2, <2>3, AppendGrows
  <2>5. StoryOf(payment'[d], dispute'[d], record'[d])
    BY <1>1, <1>7, <2>4, CommitStory DEF StoryInv, entry
  <2>6. ASSUME NEW s \in Requests PROVE OwnEntries(req'[s], s, d, record'[d])
    <3>1. CASE s = r
      <4>1. PlacesBy(record[d], r) = {}
        BY <1>1 DEF StoryInv, OwnEntries
      <4>2. PlacesBy(record'[d], r) = {n} /\ n \in DOMAIN record'[d]
        BY <1>3, <2>4, <4>1 DEF Grows
      <4> QED
        BY <1>5, <1>7, <3>1, <4>2 DEF OwnEntries
    <3>2. CASE s # r
      <4>1. PlacesBy(record'[d], s) = PlacesBy(record[d], s) /\ DOMAIN record[d] \subseteq DOMAIN record'[d]
        BY <1>3, <2>2, <2>3, <2>4, <3>2 DEF Grows
      <4> QED
        BY <1>4, <3>2, <4>1 DEF StoryInv, OwnEntries
    <3> QED
      BY <3>1, <3>2
  <2> QED
    BY <2>5, <2>6
<1> QED
  BY <1>6, <1>7 DEF StoryInv

LEMMA OpenTold ==
    ASSUME LockInv, StoryInv, NEW d \in Deals, OpenOnApproval(d)
    PROVE  StoryInv'
<1> DEFINE entry == [kind |-> "payment_opened", by |-> NoOne]
           row == [marked |-> Never, by |-> NoOne, confirmed |-> Never]
<1>1. /\ payment[d] = NoRow /\ payment'[d] = row /\ UNCHANGED <<dispute, req>>
      /\ record'[d] = Append(record[d], entry)
      /\ \A e \in Deals : e # d => payment'[e] = payment[e] /\ record'[e] = record[e]
  BY DEF OpenOnApproval, LockInv, Typed, TypeOK
<1>2. entry \in Entry /\ entry.by = NoOne /\ entry.kind = "payment_opened"
  BY DEF Entry, EntryKinds
<1>3. row # NoRow /\ row.marked = Never /\ row.confirmed = Never
  BY DEF NoRow
<1> HIDE DEF entry, row
<1>4. record[d] = <<>> /\ dispute[d] = NoRow
  BY <1>1 DEF StoryInv, StoryOf, PaymentStory, DisputeStory
<1>5. record'[d] = <<entry>>
  BY <1>1, <1>4
<1>6. DOMAIN record'[d] = {1} /\ record'[d][1] = entry
  BY <1>5
<1>7. StoryOf(payment'[d], dispute'[d], record'[d])
  BY <1>1, <1>2, <1>3, <1>4, <1>6
     DEF StoryOf, PaymentStory, DisputeStory, Once, Places
<1>8. ASSUME NEW s \in Requests PROVE OwnEntries(req'[s], s, d, record'[d])
  <2>1. PlacesBy(record'[d], s) = {} /\ PlacesBy(record[d], s) = {}
    BY <1>2, <1>4, <1>6, RequestsAssumption DEF PlacesBy
  <2> QED
    BY <1>1, <2>1 DEF StoryInv, OwnEntries
<1> QED
  BY <1>1, <1>7, <1>8 DEF StoryInv

LEMMA StoryInvStep ==
    ASSUME LockInv, DisputeInv, StoryInv, [Next]_vars
    PROVE  StoryInv'
<1>1. ASSUME NEW r \in Requests, NEW op \in Ops, NEW deals \in ListsFor(op),
             NEW stamp \in Moment, Begin(r, op, deals, stamp)
      PROVE  StoryInv'
  <2>1. /\ req[r].stage # "answered" /\ req'[r].stage # "answered"
        /\ \A s \in Requests : s # r => req'[s] = req[s]
        /\ UNCHANGED <<payment, dispute, record>>
    BY <1>1 DEF Begin, Unsent, LockInv, Typed, TypeOK
  <2> QED
    BY <2>1, NothingTold
<1>2. ASSUME NEW r \in Requests, Lock(r) \/ Refuse(r) PROVE StoryInv'
  <2>1. GoesOn(r)
    BY <1>2, LockGoesOn, RefuseGoesOn
  <2> QED
    BY <2>1, NothingTold DEF GoesOn, Running
<1>3. ASSUME NEW r \in Requests, TimeOut(r) PROVE StoryInv'
  <2>1. Running(r)
    BY <1>3 DEF TimeOut, Free, WaitsFor, MoreRows
  <2>2. /\ \A s \in Requests : s # r => req'[s] = req[s]
        /\ req'[r] = [req[r] EXCEPT !.stage = "failed"] /\ req[r] \in Request
    BY <1>3, <2>1, RunningType DEF TimeOut, LockInv, Typed, TypeOK
  <2>3. req[r].stage # "answered" /\ req'[r].stage # "answered"
    BY <2>1, <2>2 DEF Request, Running
  <2> QED
    BY <1>3, <2>2, <2>3, NothingTold DEF TimeOut
<1>4. CASE UNCHANGED vars
  BY <1>4, NothingTold DEF vars
<1> QED
  BY <1>1, <1>2, <1>3, <1>4, CommitTold, OpenTold DEF Next, Proceeds

LEMMA AtMostOne ==
    ASSUME NEW S, \A i, j \in S : i = j
    PROVE  Cardinality(S) <= 1
<1>1. CASE S = {}
  BY <1>1, FS_EmptySet
<1>2. CASE S # {}
  <2>1. PICK x \in S : TRUE
    BY <1>2
  <2>2. S = {x}
    BY <2>1
  <2> QED
    BY <2>2, FS_Singleton
<1> QED
  BY <1>1, <1>2

\* Whatever the requests and in whatever order they meet, time out and commit:
\* each was told exactly what the record holds of it (mark_many_as_paid answers
\* row by row), and the record of each deal is one legal story of its payment
\* and its dispute (mark_as_paid, confirm_payment, open_dispute, add_entry and
\* close_dispute each check again under the row's lock).
THEOREM RecordTold == Spec => []RecordIsTrue
<1>1. StoryInv => RecordTellsThePayment
  <2> SUFFICES ASSUME StoryInv, NEW d \in Deals
               PROVE  /\ FollowsOnce(d, "payment_opened", "payment_marked_paid")
                      /\ FollowsOnce(d, "payment_marked_paid", "payment_confirmed")
                      /\ FollowsOnce(d, "payment_opened", "dispute_opened")
                      /\ FollowsOnce(d, "dispute_opened", "dispute_closed")
                      /\ \A i \in PlaceOf(d, "dispute_entry_added") :
                            /\ \E j \in PlaceOf(d, "dispute_opened") : j < i
                            /\ \A j \in PlaceOf(d, "dispute_closed") : i < j
                      /\ payment[d] # NoRow =>
                            /\ payment[d].marked # Never <=>
                                  PlaceOf(d, "payment_marked_paid") # {}
                            /\ payment[d].confirmed # Never <=>
                                  PlaceOf(d, "payment_confirmed") # {}
                            /\ \A i \in PlaceOf(d, "payment_marked_paid") :
                                  record[d][i].by = payment[d].by
                      /\ dispute[d] # NoRow =>
                            (dispute[d].closed <=> PlaceOf(d, "dispute_closed") # {})
    BY DEF RecordTellsThePayment
  <2>1. \A kind : PlaceOf(d, kind) = Places(record[d], kind)
    BY DEF PlaceOf, Places
  <2>2. \A first, then : Once(record[d], first, then) => FollowsOnce(d, first, then)
    BY <2>1, AtMostOne DEF Once, FollowsOnce
  <2> QED
    BY <2>1, <2>2 DEF StoryInv, StoryOf, PaymentStory, DisputeStory
<1>2. StoryInv => AnswersTellTheRecord
  <2> SUFFICES ASSUME StoryInv, NEW r \in Requests, NEW d \in Deals
               PROVE  Cardinality(EntriesBy(r, d)) =
                          IF req[r].stage = "answered" /\ d \in Recorded(req[r]) THEN 1 ELSE 0
    BY DEF AnswersTellTheRecord
  <2>1. EntriesBy(r, d) = PlacesBy(record[d], r)
    BY DEF EntriesBy, PlacesBy
  <2>2. Cardinality({}) = 0 /\ \A i : Cardinality({i}) = 1
    BY FS_EmptySet, FS_Singleton
  <2> QED
    BY <2>1, <2>2 DEF StoryInv, OwnEntries
<1>3. LockInv /\ DisputeInv /\ StoryInv /\ [Next]_vars => DisputeInv' /\ StoryInv'
  BY DisputeInvStep, StoryInvStep
<1> QED
  BY <1>1, <1>2, <1>3, DisputeInvInit, StoryInvInit, AlwaysLockInv, PTL
     DEF Spec, RecordIsTrue

-----------------------------------------------------------------------------
(* One at a time.                                                             *)

\* What a request that runs will say when it commits: rows of deals on its
\* list, of the one deal if it is no bulk request; and a confirmation only of
\* what was marked by then, which its lock keeps so.
WordOf(q, rows) ==
    q.stage = "running" =>
        /\ RowAt(q) <= Len(q.deals) + 1
        /\ q.op # "bulk" => Len(q.deals) = 1
        /\ q.op = "confirm" => \A d \in Recorded(q) : rows[d].marked <= q.stamp
WordInv == \A r \in Requests : WordOf(req[r], payment)

LEMMA RecordedType ==
    ASSUME LockInv, WordInv, NEW r \in Requests, Running(r)
    PROVE  /\ Recorded(req[r]) \subseteq Deals
           /\ req[r].op # "bulk" =>
                 Recorded(req[r]) = {} \/ \E d \in Deals : Recorded(req[r]) = {d}
<1> DEFINE q == req[r]
<1>1. /\ q.deals \in Seq(Deals) /\ Len(q.deals) \in Nat /\ DOMAIN q.deals = 1..Len(q.deals)
      /\ q.outcomes \in Seq({"recorded", "refused"})
  BY RunningType, ListType DEF LockInv, Typed
<1>2. RowAt(q) <= Len(q.deals) + 1 /\ (q.op # "bulk" => Len(q.deals) = 1)
  BY DEF WordInv, WordOf, Running
<1>3. DOMAIN q.outcomes \subseteq DOMAIN q.deals
  BY <1>1, <1>2 DEF RowAt
<1>4. \A i \in DOMAIN q.deals : q.deals[i] \in Deals
  BY <1>1
<1>5. Recorded(q) \subseteq Deals
  BY <1>3, <1>4 DEF Recorded
<1>6. ASSUME q.op # "bulk", Recorded(q) # {}
      PROVE  \E d \in Deals : Recorded(q) = {d}
  <2>1. \A e \in Recorded(q) : e = q.deals[1]
    BY <1>1, <1>2, <1>3, <1>6 DEF Recorded
  <2> QED
    BY <1>5, <1>6, <2>1
<1> QED
  BY <1>5, <1>6

LEMMA GoesOnWord ==
    ASSUME LockInv, WordInv, NEW r \in Requests, GoesOn(r)
    PROVE  WordInv'
<1> DEFINE q == req[r]
<1>1. /\ q.stage = "running" /\ RowAt(q) \in Nat /\ Len(q.deals) \in Nat
      /\ WordOf(q, payment)
  BY RunningType, ListType DEF GoesOn, LockInv, Typed, Running, WordInv
<1>2. /\ req'[r].op = q.op /\ req'[r].deals = q.deals /\ req'[r].stamp = q.stamp
      /\ RowAt(q) <= Len(q.deals)
      /\ \A d \in Recorded(req'[r]) :
            d \in Recorded(q) \/ (d = DealAt(r) /\ CheckHolds(q, d))
  BY DEF GoesOn
<1>3. RowAt(req'[r]) \in {RowAt(q), RowAt(q) + 1}
  BY DEF GoesOn
<1>4. RowAt(req'[r]) <= Len(q.deals) + 1
  BY <1>1, <1>2, <1>3
<1>5. q.op = "confirm" => \A d \in Recorded(req'[r]) : payment[d].marked <= q.stamp
  BY <1>1, <1>2 DEF WordOf, CheckHolds
<1>6. WordOf(req'[r], payment)
  BY <1>1, <1>2, <1>4, <1>5 DEF WordOf
<1> QED
  BY <1>6 DEF WordInv, WordOf, GoesOn

LEMMA CommitWord ==
    ASSUME LockInv, WordInv, NEW r \in Requests, Commit(r)
    PROVE  WordInv'
<1>1. Running(r) /\ Write(r)
  BY DEF Commit
<1>2. /\ ~Running(r)'
      /\ \A s \in Requests : s # r => req'[s] = req[s] /\ held'[s] = held[s]
  BY <1>1, EndTyped DEF Commit, LockInv
<1>3. ASSUME NEW s \in Requests, s # r, Running(s), req[s].op = "confirm",
             NEW d \in Recorded(req[s])
      PROVE  payment'[d] = payment[d]
  <2>1. d \in Deals
    BY <1>3, RecordedType
  <2>2. WritesTo(req[s], d)
    BY <1>3 DEF WritesTo, PaymentOps, Running
  <2>3. RowOf("payment", d, "update") \in held[s]
    BY <2>1, <2>2 DEF LockInv, WritesAreGuarded, GuardedBy
  <2>4. RowOf("payment", d, "update") \notin held[r]
    BY <1>3, <2>3 DEF LockInv, Exclusive, Conflict, RowOf
  <2>5. ~WritesTo(req[r], d)
    BY <2>1, <2>4 DEF LockInv, WritesAreGuarded, GuardedBy
  <2> QED
    BY <1>1, <2>1, <2>5, WriteEffect
<1>4. ASSUME NEW s \in Requests PROVE WordOf(req'[s], payment')
  <2>1. CASE s = r
    BY <1>2, <2>1 DEF WordOf, Running
  <2>2. CASE s # r /\ ~Running(s)
    BY <1>2, <2>2 DEF WordOf, Running
  <2>3. CASE s # r /\ Running(s)
    <3>1. WordOf(req[s], payment)
      BY DEF WordInv
    <3> QED
      BY <1>2, <1>3, <2>3, <3>1 DEF WordOf
  <2> QED
    BY <2>1, <2>2, <2>3
<1> QED
  BY <1>4 DEF WordInv

LEMMA OpenWord ==
    ASSUME LockInv, WordInv, NEW d \in Deals, OpenOnApproval(d)
    PROVE  WordInv'
<1>1. /\ payment[d] = NoRow /\ UNCHANGED req
      /\ \A e \in Deals : e # d => payment'[e] = payment[e]
  BY DEF OpenOnApproval, LockInv, Typed, TypeOK
<1>2. ASSUME NEW s \in Requests, Running(s), req[s].op = "confirm",
             NEW e \in Recorded(req[s])
      PROVE  payment'[e] = payment[e]
  <2>1. e \in Deals
    BY <1>2, RecordedType
  <2>2. payment[e] # NoRow
    BY <1>2, <2>1
       DEF WritesTo, PaymentOps, Running, LockInv, WritesAreGuarded, GuardedBy
  <2> QED
    BY <1>1, <2>1, <2>2
<1>3. ASSUME NEW s \in Requests PROVE WordOf(req[s], payment')
  <2>1. WordOf(req[s], payment)
    BY DEF WordInv
  <2> QED
    BY <1>2, <2>1 DEF WordOf, Running
<1> QED
  BY <1>1, <1>3 DEF WordInv

LEMMA WordInvInit == Init => WordInv
BY DEF Init, WordInv, WordOf, Unsent

LEMMA WordInvStep ==
    ASSUME LockInv, WordInv, [Next]_vars
    PROVE  WordInv'
<1>1. ASSUME NEW r \in Requests, NEW op \in Ops, NEW deals \in ListsFor(op),
             NEW stamp \in Moment, Begin(r, op, deals, stamp)
      PROVE  WordInv'
  <2>1. PICK new : /\ new.stage = "running" /\ new.op = op /\ new.deals = deals
                   /\ new.outcomes = <<>>
                   /\ req' = [req EXCEPT ![r] = new]
    BY <1>1 DEF Begin
  <2>2. /\ req'[r] = new /\ UNCHANGED payment
        /\ \A s \in Requests : s # r => req'[s] = req[s]
    BY <1>1, <2>1 DEF Begin, LockInv, Typed, TypeOK
  <2>3. Recorded(new) = {} /\ RowAt(new) = 1
    BY <2>1 DEF Recorded, RowAt
  <2>4. Len(deals) \in Nat /\ Len(deals) >= 1 /\ (op # "bulk" => Len(deals) = 1)
    BY ListsForType, ListType
  <2>5. WordOf(new, payment)
    BY <2>1, <2>3, <2>4 DEF WordOf
  <2> QED
    BY <2>2, <2>5 DEF WordInv
<1>2. ASSUME NEW r \in Requests, Lock(r) \/ Refuse(r) PROVE WordInv'
  BY <1>2, LockGoesOn, RefuseGoesOn, GoesOnWord
<1>3. ASSUME NEW r \in Requests, TimeOut(r) PROVE WordInv'
  <2>1. Running(r)
    BY <1>3 DEF TimeOut, Free, WaitsFor, MoreRows
  <2>2. /\ ~Running(r)' /\ UNCHANGED payment
        /\ \A s \in Requests : s # r => req'[s] = req[s]
    BY <1>3, <2>1, EndTyped DEF TimeOut, LockInv
  <2> QED
    BY <2>2 DEF WordInv, WordOf, Running
<1>4. CASE UNCHANGED vars
  BY <1>4 DEF vars, WordInv
<1> QED
  BY <1>1, <1>2, <1>3, <1>4, CommitWord, OpenWord DEF Next, Proceeds

LEMMA PromiseInit == Init => Promise!Init
<1> SUFFICES ASSUME Init PROVE Promise!Init
  OBVIOUS
<1>1. \A d \in Deals : payment[d] # NoRow => payment[d].confirmed = Never
  BY DEF Init
<1>2. \A d \in Deals : QuarrelOver(dispute[d]) = "none"
  BY DEF Init, QuarrelOver
<1>3. \A d \in Deals : Len(record[d]) \in Nat
  BY InitTyped DEF Typed, TypeOK
<1>4. \A r \in Requests : Told(req[r]) = <<>>
  BY DEF Init, Told, Unsent
<1> QED
  BY <1>1, <1>2, <1>3, <1>4 DEF Promise!Init

\* Nothing is said before the commit.
LEMMA NothingSaid ==
    ASSUME UNCHANGED <<payment, dispute, record>>,
           \A r \in Requests : \/ req'[r] = req[r]
                               \/ req[r].stage # "answered" /\ req'[r].stage # "answered"
    PROVE  UNCHANGED Promise!vars
<1>1. \A r \in Requests : Told(req'[r]) = Told(req[r])
  BY DEF Told
<1> QED
  BY <1>1 DEF Promise!vars

\* The commit answers the request and adds a line for each row it recorded.
LEMMA CommitIsHeard ==
    ASSUME LockInv, WordInv, NEW r \in Requests, Commit(r)
    PROVE  Promise!Hear(r, Recorded(req[r]))
<1> DEFINE q == req[r]
           entry == [kind |-> EntryFor(q.op), by |-> r]
<1>1. Running(r) /\ Write(r) /\ q \in Request
  BY RunningType DEF Commit, LockInv, Typed
<1>2. /\ \A s \in Requests : s # r => req'[s] = req[s]
      /\ req'[r] = [q EXCEPT !.stage = "answered"]
  BY DEF Commit, LockInv, Typed, TypeOK
<1>3. req'[r].stage = "answered" /\ Recorded(req'[r]) = Recorded(q)
  BY <1>1, <1>2 DEF Request, Recorded
<1>4. Told(q) = <<>> /\ Told(req'[r]) = <<Recorded(q)>>
  BY <1>1, <1>3 DEF Told, Running
<1>5. [s \in Requests |-> Told(req'[s])]
        = [[s \in Requests |-> Told(req[s])] EXCEPT ![r] = <<Recorded(q)>>]
  BY <1>2, <1>4
<1>6. ASSUME NEW d \in Deals
      PROVE  Len(record'[d]) =
               IF d \in Recorded(q) THEN Len(record[d]) + 1 ELSE Len(record[d])
  <2>1. record'[d] = IF d \in Recorded(q) THEN Append(record[d], entry) ELSE record[d]
    BY <1>1 DEF Write
  <2> HIDE DEF entry
  <2>2. record[d] \in Seq(Entry) 
    BY DEF LockInv, Typed, TypeOK
  <2>3. Len(Append(record[d], entry)) = Len(record[d]) + 1
    BY <2>2
  <2> QED
    BY <2>1, <2>3
<1> QED
  BY <1>4, <1>5, <1>6 DEF Promise!Hear

\* What it does to payments and disputes is one statement of the promise.
LEMMA CommitIsSaid ==
    ASSUME LockInv, DisputeInv, WordInv, NEW r \in Requests, Commit(r)
    PROVE  Promise!Next
<1> DEFINE q == req[r]
           ds == Recorded(q)
           quarrels == [d \in Deals |-> QuarrelOver(dispute[d])]
<1>1. Running(r) /\ Write(r) /\ q.op \in Ops /\ q.stamp \in Moment /\ q.stage = "running"
  BY RunningType DEF Commit, LockInv, Typed, Running
<1>2. ds \subseteq Deals /\ (q.op # "bulk" => ds = {} \/ \E d \in Deals : ds = {d})
  BY <1>1, RecordedType
<1>3. Promise!Hear(r, ds)
  BY CommitIsHeard
<1>4. payment = [d \in Deals |-> payment[d]] /\ dispute = [d \in Deals |-> dispute[d]]
  BY DEF LockInv, Typed, TypeOK
<1> HIDE DEF q, ds
<1>5. /\ payment' = [d \in Deals |->
            CASE d \in ds /\ q.op \in {"mark", "bulk"} ->
                    [payment[d] EXCEPT !.marked = q.stamp, !.by = r]
              [] d \in ds /\ q.op = "confirm" ->
                    [payment[d] EXCEPT !.confirmed = q.stamp]
              [] OTHER -> payment[d]]
      /\ dispute' = [d \in Deals |->
            IF d \in ds /\ q.op \in {"open", "close"}
            THEN [closed |-> q.op = "close"] ELSE dispute[d]]
  BY <1>1 DEF Write, q, ds
<1>6. ASSUME NEW d \in ds
      PROVE  /\ q.op \in PaymentOps => GuardedBy(q, held[r], d, payment[d]) /\ WritesTo(q, d)
             /\ q.op \in DisputeOps => DisputeGuarded(r, d) /\ Writes(q, d)
  BY <1>1, <1>2 DEF LockInv, WritesAreGuarded, DisputeInv, WritesTo, Writes, q, ds
<1>7. CASE q.op \in {"mark", "bulk"}
  <2>1. \A d \in ds : payment[d] # NoRow /\ payment[d].marked = Never
    BY <1>6, <1>7 DEF GuardedBy, PaymentOps
  <2>2. /\ payment' = [d \in Deals |->
               IF d \in ds THEN [payment[d] EXCEPT !.marked = q.stamp, !.by = r]
               ELSE payment[d]]
        /\ dispute' = dispute
    BY <1>4, <1>5, <1>7
  <2>3. Promise!MarkPaid(r, ds, q.stamp)
    BY <1>3, <2>1, <2>2 DEF Promise!MarkPaid
  <2> QED
    BY <1>1, <1>2, <2>3 DEF Promise!Next, q
<1>8. \A one : ds = one => Promise!Hear(r, one)
  BY <1>3 DEF Promise!Hear
<1>9. CASE q.op \notin {"mark", "bulk"} /\ ds = {}
  <2>1. payment' = payment /\ dispute' = dispute
    BY <1>4, <1>5, <1>9
  <2> QED
    BY <1>8, <1>9, <2>1 DEF Promise!Next, Promise!Refused
<1>10. ASSUME NEW d \in Deals, ds = {d}, q.op = "confirm"
      PROVE  Promise!Next
  <2>1. /\ payment[d] # NoRow /\ payment[d].marked # Never
        /\ payment[d].confirmed = Never
    BY <1>6, <1>10 DEF GuardedBy, PaymentOps
  <2>2. payment[d].marked <= q.stamp
    BY <1>1, <1>10 DEF WordInv, WordOf, q, ds
  <2>3. dispute' = dispute /\ payment' = [payment EXCEPT ![d].confirmed = q.stamp]
    BY <1>4, <1>5, <1>10
  <2>4. Promise!Confirm(r, d, q.stamp)
    BY <1>8, <1>10, <2>1, <2>2, <2>3 DEF Promise!Confirm
  <2> QED
    BY <1>1, <2>4 DEF Promise!Next, q
<1>11. ASSUME NEW d \in Deals, ds = {d}, q.op \in DisputeOps
       PROVE  Promise!Next
  <2>1. /\ payment[d] # NoRow
        /\ q.op = "open" => dispute[d] = NoRow
        /\ q.op \in {"add", "close"} => dispute[d] # NoRow /\ ~dispute[d].closed
    BY <1>6, <1>11 DEF DisputeGuarded, q
  <2>2. payment' = payment
    BY <1>4, <1>5, <1>11 DEF DisputeOps
  <2>3. CASE q.op = "open"
    <3>1. dispute' = [dispute EXCEPT ![d] = [closed |-> FALSE]]
      BY <1>4, <1>5, <1>11, <2>3
    <3>2. QuarrelOver([closed |-> FALSE]) = "open" /\ quarrels[d] = "none"
      BY <2>1, <2>3 DEF QuarrelOver, NoRow
    <3>3. quarrels' = [quarrels EXCEPT ![d] = "open"]
      BY <1>4, <3>1, <3>2
    <3>4. Promise!Quarrel(r, d)
      BY <1>8, <1>11, <2>1, <2>2, <3>2, <3>3 DEF Promise!Quarrel
    <3> QED
      BY <3>4 DEF Promise!Next
  <2>4. CASE q.op = "add"
    <3>1. dispute' = dispute /\ quarrels[d] = "open"
      BY <1>4, <1>5, <2>1, <2>4 DEF QuarrelOver
    <3>2. Promise!Add(r, d)
      BY <1>8, <1>11, <2>2, <3>1 DEF Promise!Add
    <3> QED
      BY <3>2 DEF Promise!Next
  <2>5. CASE q.op = "close"
    <3>1. dispute' = [dispute EXCEPT ![d] = [closed |-> TRUE]]
      BY <1>4, <1>5, <1>11, <2>5
    <3>2. QuarrelOver([closed |-> TRUE]) = "closed" /\ quarrels[d] = "open"
      BY <2>1, <2>5 DEF QuarrelOver, NoRow
    <3>3. quarrels' = [quarrels EXCEPT ![d] = "closed"]
      BY <1>4, <3>1, <3>2
    <3>4. Promise!Close(r, d)
      BY <1>8, <1>11, <2>2, <3>2, <3>3 DEF Promise!Close
    <3> QED
      BY <3>4 DEF Promise!Next
  <2> QED
    BY <1>11, <2>3, <2>4, <2>5 DEF DisputeOps
<1> QED
  BY <1>1, <1>2, <1>7, <1>9, <1>10, <1>11 DEF Ops, PaymentOps, q

LEMMA OpeningIsOwed ==
    ASSUME LockInv, NEW d \in Deals, OpenOnApproval(d)
    PROVE  Promise!Owe(d)
<1>1. record[d] \in Seq(Entry) /\ record = [e \in Deals |-> record[e]]
  BY DEF LockInv, Typed, TypeOK
<1>2. record' = [record EXCEPT ![d] =
                    Append(@, [kind |-> "payment_opened", by |-> NoOne])]
  BY DEF OpenOnApproval
<1>3. Len(record'[d]) = Len(record[d]) + 1 /\ \A e \in Deals : e # d => record'[e] = record[e]
  BY <1>1, <1>2
<1>4. [e \in Deals |-> Len(record'[e])]
        = [[e \in Deals |-> Len(record[e])] EXCEPT ![d] = @ + 1]
  BY <1>3
<1> QED
  BY <1>4 DEF OpenOnApproval, Promise!Owe

\* Requests meet lock by lock, wait, are refused in part, time out: to everyone
\* else they are as good as one at a time, each heard whole at its commit or not
\* at all (mark_as_paid, mark_many_as_paid, confirm_payment, open_dispute,
\* add_entry and close_dispute, for any number of requests and deals).
THEOREM WordKept == Spec => KeepsItsWord
<1>1. LockInv /\ DisputeInv /\ WordInv /\ [Next]_vars
        => [Promise!Next]_(Promise!vars)
  <2> SUFFICES ASSUME LockInv, DisputeInv, WordInv, [Next]_vars
               PROVE  [Promise!Next]_(Promise!vars)
    OBVIOUS
  <2>1. ASSUME NEW r \in Requests, NEW op \in Ops, NEW deals \in ListsFor(op),
               NEW stamp \in Moment, Begin(r, op, deals, stamp)
        PROVE  UNCHANGED Promise!vars
    <3>1. /\ req[r].stage # "answered" /\ req'[r].stage # "answered"
          /\ \A s \in Requests : s # r => req'[s] = req[s]
          /\ UNCHANGED <<payment, dispute, record>>
      BY <2>1 DEF Begin, Unsent, LockInv, Typed, TypeOK
    <3> QED
      BY <3>1, NothingSaid
  <2>2. ASSUME NEW r \in Requests, Lock(r) \/ Refuse(r)
        PROVE  UNCHANGED Promise!vars
    <3>1. GoesOn(r)
      BY <2>2, LockGoesOn, RefuseGoesOn
    <3> QED
      BY <3>1, NothingSaid DEF GoesOn, Running
  <2>3. ASSUME NEW r \in Requests, TimeOut(r)
        PROVE  UNCHANGED Promise!vars
    <3>1. Running(r)
      BY <2>3 DEF TimeOut, Free, WaitsFor, MoreRows
    <3>2. /\ \A s \in Requests : s # r => req'[s] = req[s]
          /\ req'[r] = [req[r] EXCEPT !.stage = "failed"] /\ req[r] \in Request
      BY <2>3, <3>1, RunningType DEF TimeOut, LockInv, Typed, TypeOK
    <3>3. req[r].stage # "answered" /\ req'[r].stage # "answered"
      BY <3>1, <3>2 DEF Request, Running
    <3> QED
      BY <2>3, <3>2, <3>3, NothingSaid DEF TimeOut
  <2>4. CASE UNCHANGED vars
    BY <2>4, NothingSaid DEF vars
  <2>5. ASSUME NEW d \in Deals, OpenOnApproval(d)
        PROVE  Promise!Next
    BY <2>5, OpeningIsOwed DEF Promise!Next
  <2> QED
    BY <2>1, <2>2, <2>3, <2>4, <2>5, CommitIsSaid DEF Next, Proceeds
<1>2. LockInv /\ DisputeInv /\ WordInv /\ [Next]_vars => DisputeInv' /\ WordInv'
  BY DisputeInvStep, WordInvStep
<1> QED
  BY <1>1, <1>2, PromiseInit, DisputeInvInit, WordInvInit, AlwaysLockInv, PTL
     DEF Spec, KeepsItsWord, Promise!Spec
=============================================================================
