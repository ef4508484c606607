--------------------------- MODULE PasskeysProofs ---------------------------
(* What is proved of an account's passkeys, for every number of keys, of      *)
(* requests and of codes: what is stored stays well formed and an erased      *)
(* account stays empty, requests wait in a circle only with the erasure or    *)
(* the removal of a late key in it, each change spends a code made for        *)
(* exactly it, and a reset removes none of the keys its job locked that was   *)
(* used since it was asked for.                                               *)
EXTENDS Passkeys, TLAPS

-----------------------------------------------------------------------------
(* What every request in flight is, holds and has found.                      *)

Asks(op) == op \in {"add", "remove", "only"}
Answers(op) == op \in {"sign_in", "grant"}

\* Each request is what its sender may send: the jobs their own, the devices
\* the rest, and a change shows a code that was given and is for its kind.
FitsWorker(w, q, given) ==
    /\ q.op = "settle" <=> w = Settler
    /\ q.op = "erase" <=> w = Eraser
    /\ Answers(q.op) => q.key \in Keys
    /\ q.op = "add" => q.key \in Keys /\ q.for = <<"add">>
    /\ q.op = "remove" => q.key \in Keys /\ q.for = <<"remove", q.key>>
    /\ q.op = "only" => q.for \in {<<"only", "on">>, <<"only", "off">>}
    /\ Asks(q.op) => q.code \in 1..given
    /\ q.step <= Len(LockOrder(q)) + 1

AllFit ==
    \A w \in Workers : Running(w) => FitsWorker(w, req[w], Len(codes))

Exclusive ==
    \A v, w \in Workers : v # w =>
        \A a \in HeldBy(v), b \in HeldBy(w) : ~Conflict(a, b)

\* Whoever holds the number's lock has found a code that nobody spends meanwhile.
CodeStands(q) ==
    /\ ~codes[q.code].spent /\ codes[q.code].for = q.for
    /\ Held # {} => codes[q.code].by = "passkey"

\* Of these keys, those still held were not used since the reset was asked for.
NoneUsedSince(ks) == \A k \in Held \cap ks : key[k].used <= reset.since

Found(w) ==
    LET q == req[w] IN
    /\ Answers(q.op) /\ q.step > 1 => q.key \in Held
    /\ Asks(q.op) /\ q.step > 1 => CodeStands(q)
    /\ q.op = "settle" /\ q.step > 3 /\ q.verdict = "make" => NoneUsedSince(q.rows)
    /\ gone /\ (Answers(q.op) \/ Asks(q.op) \/ q.op = "reset") => q.step = 1
    /\ gone /\ Asks(q.op) => codes[q.code].spent

FoundStands == \A w \in Workers : Running(w) => Found(w)

NewAreUnused == \A k \in Keys : key[k].state = "new" => key[k].used = Never

KeysInv ==
    /\ TypeOK /\ AllFit /\ Exclusive /\ FoundStands /\ NewAreUnused
    /\ ErasedStaysErased

-----------------------------------------------------------------------------
(* Locks.                                                                     *)

\* What a request at this step holds.
HeldOf(q) == {LockOrder(q)[i] : i \in 1..(q.step - 1)}

Numbers == {"ask_code", "add", "remove", "only", "reset", "erase"}

\* Workers are the devices' requests and the two jobs.
LEMMA Jobs ==
    /\ Settler \in Workers /\ Eraser \in Workers
    /\ \A r \in Requests : r \in Workers /\ r # Settler /\ r # Eraser
BY WorkersAssumption DEF Workers

\* A change is an addition, a removal of one key, or the setting.
LEMMA Kinds ==
    /\ <<"add">> \in Changes
    /\ \A c \in Changes :
        /\ c[1] = "add" => c = <<"add">>
        /\ c[1] = "remove" => \E k \in Keys : c = <<"remove", k>>
        /\ c[1] = "only" => c \in {<<"only", "on">>, <<"only", "off">>}
BY DEF Changes

\* Each kind of request takes its locks in this order.
LEMMA Orders ==
    ASSUME NEW q \in Request
    PROVE  /\ Answers(q.op) =>
                LockOrder(q) = <<KeyRows({q.key}), Account("key_share")>>
           /\ q.op = "ask_code" => LockOrder(q) = <<Phone, Account("key_share")>>
           /\ q.op = "add" => LockOrder(q) = <<Phone, Account("no_key_update")>>
           /\ q.op = "remove" =>
                LockOrder(q) = <<Phone, KeyRows({q.key}), Account("no_key_update")>>
           /\ q.op = "only" =>
                \/ LockOrder(q) = <<Phone>>
                \/ LockOrder(q) = <<Phone, Account("no_key_update")>>
           /\ q.op = "reset" =>
                LockOrder(q) = <<Phone, ResetRow, Account("key_share")>>
           /\ q.op = "settle" /\ q.verdict # "make" =>
                LockOrder(q) = <<ResetRow, KeyRows(q.rows), Account("no_key_update")>>
           /\ q.op = "settle" /\ q.verdict = "make" =>
                LockOrder(q) = <<ResetRow, KeyRows(q.rows), Account("no_key_update"),
                                 KeyRows(Keys)>>
           /\ q.op = "erase" =>
                LockOrder(q) = <<Phone, Account("update"), ResetRow, KeyRows(Keys)>>
BY DEF LockOrder, Answers, AnswerLocks, RemoveLocks, OnlyLocks, SettleLocks, EraseLocks

\* What a request asks for is one of these.
LEMMA Ops ==
    ASSUME NEW q \in Request
    PROVE  q.op \in {"sign_in", "grant", "ask_code", "add", "remove", "only",
                     "reset", "settle", "erase"}
BY DEF Request

\* How many locks each kind takes, and which of them comes when.
LEMMA Lengths ==
    ASSUME NEW q \in Request
    PROVE  /\ Len(LockOrder(q)) \in 1..4
           /\ Answers(q.op) \/ q.op \in {"ask_code", "add"} => Len(LockOrder(q)) = 2
           /\ q.op \in {"remove", "reset"} => Len(LockOrder(q)) = 3
           /\ q.op = "settle" => Len(LockOrder(q)) = IF q.verdict = "make" THEN 4 ELSE 3
           /\ q.op = "only" => Len(LockOrder(q)) \in 1..2
           /\ q.op = "erase" => Len(LockOrder(q)) = 4
           /\ q.op \in Numbers => LockOrder(q)[1] = Phone
           /\ Answers(q.op) => LockOrder(q)[1] = KeyRows({q.key})
           /\ q.op = "remove" => LockOrder(q)[2] = KeyRows({q.key})
           /\ q.op = "reset" => LockOrder(q)[2] = ResetRow
           /\ q.op = "settle" => LockOrder(q)[1] = ResetRow /\ LockOrder(q)[2] = KeyRows(q.rows)
           /\ q.op = "settle" => LockOrder(q)[3] = Account("no_key_update")
           /\ q.op = "settle" /\ q.verdict = "make" => LockOrder(q)[4] = KeyRows(Keys)
           /\ q.op = "erase" => LockOrder(q)[3] = ResetRow /\ LockOrder(q)[4] = KeyRows(Keys)
<1>1. PICK o : o = LockOrder(q)
  OBVIOUS
<1>2. Answers(q.op) => o = <<KeyRows({q.key}), Account("key_share")>>
  BY <1>1, Orders
<1>3. q.op = "ask_code" => o = <<Phone, Account("key_share")>>
  BY <1>1, Orders
<1>4. q.op = "add" => o = <<Phone, Account("no_key_update")>>
  BY <1>1, Orders
<1>5. q.op = "remove" => o = <<Phone, KeyRows({q.key}), Account("no_key_update")>>
  BY <1>1, Orders
<1>6. q.op = "only" => o = <<Phone>> \/ o = <<Phone, Account("no_key_update")>>
  BY <1>1, Orders
<1>7. q.op = "reset" => o = <<Phone, ResetRow, Account("key_share")>>
  BY <1>1, Orders
<1>8. /\ q.op = "settle" /\ q.verdict # "make" =>
            o = <<ResetRow, KeyRows(q.rows), Account("no_key_update")>>
      /\ q.op = "settle" /\ q.verdict = "make" =>
            o = <<ResetRow, KeyRows(q.rows), Account("no_key_update"), KeyRows(Keys)>>
  BY <1>1, Orders
<1>9. q.op = "erase" => o = <<Phone, Account("update"), ResetRow, KeyRows(Keys)>>
  BY <1>1, Orders
<1>10. Answers(q.op) => Len(o) = 2 /\ o[1] = KeyRows({q.key})
  BY <1>2
<1>11. q.op \in {"ask_code", "add"} => Len(o) = 2 /\ o[1] = Phone
  BY <1>3, <1>4
<1>12. q.op = "remove" => Len(o) = 3 /\ o[1] = Phone /\ o[2] = KeyRows({q.key})
  BY <1>5
<1>13. q.op = "only" => Len(o) \in 1..2 /\ o[1] = Phone
  BY <1>6
<1>14. q.op = "reset" => Len(o) = 3 /\ o[1] = Phone /\ o[2] = ResetRow
  BY <1>7
<1>15. q.op = "settle" =>
          /\ Len(o) = IF q.verdict = "make" THEN 4 ELSE 3
          /\ o[1] = ResetRow /\ o[2] = KeyRows(q.rows) /\ o[3] = Account("no_key_update")
          /\ q.verdict = "make" => o[4] = KeyRows(Keys)
  <2>1. CASE q.verdict = "make"
    BY <1>8, <2>1
  <2>2. CASE q.verdict # "make"
    BY <1>8, <2>2
  <2> QED
    BY <2>1, <2>2
<1>16. q.op = "erase" =>
          Len(o) = 4 /\ o[1] = Phone /\ o[3] = ResetRow /\ o[4] = KeyRows(Keys)
  BY <1>9
<1> QED
  BY <1>1, <1>10, <1>11, <1>12, <1>13, <1>14, <1>15, <1>16, Ops DEF Answers, Numbers

\* The job's locks: the reset's row, the keys it found, the account and, to make
\* the reset, every key.
LEMMA SettleOrder ==
    ASSUME NEW q \in Request, q.op = "settle"
    PROVE  /\ LockOrder(q)[1] = ResetRow /\ LockOrder(q)[2] = KeyRows(q.rows)
           /\ LockOrder(q)[3] = Account("no_key_update")
           /\ q.verdict = "make" => Len(LockOrder(q)) = 4 /\ LockOrder(q)[4] = KeyRows(Keys)
           /\ q.verdict # "make" => Len(LockOrder(q)) = 3
<1>1. PICK o : o = LockOrder(q)
  OBVIOUS
<1>2. CASE q.verdict = "make"
  <2>1. o = <<ResetRow, KeyRows(q.rows), Account("no_key_update"), KeyRows(Keys)>>
    BY <1>1, <1>2, Orders
  <2>2. /\ Len(o) = 4 /\ o[1] = ResetRow /\ o[2] = KeyRows(q.rows)
        /\ o[3] = Account("no_key_update") /\ o[4] = KeyRows(Keys)
    BY <2>1
  <2> QED
    BY <1>1, <1>2, <2>2
<1>3. CASE q.verdict # "make"
  <2>1. o = <<ResetRow, KeyRows(q.rows), Account("no_key_update")>>
    BY <1>1, <1>3, Orders
  <2>2. /\ Len(o) = 3 /\ o[1] = ResetRow /\ o[2] = KeyRows(q.rows)
        /\ o[3] = Account("no_key_update")
    BY <2>1
  <2> QED
    BY <1>1, <1>3, <2>2
<1> QED
  BY <1>2, <1>3

\* Only the job that makes the reset comes to a fourth lock, every key.
LEMMA TheKeysAgain ==
    ASSUME NEW q \in Request, q.op = "settle", q.step = 4, q.step <= Len(LockOrder(q))
    PROVE  q.verdict = "make" /\ LockOrder(q)[q.step] = KeyRows(Keys)
<1>1. PICK n : n = Len(LockOrder(q))
  OBVIOUS
<1>2. n # 3
  BY <1>1
<1>3. q.verdict = "make"
  BY <1>1, <1>2, SettleOrder
<1> QED
  BY <1>3, SettleOrder

\* What a request holds at each step.
LEMMA Holding ==
    ASSUME NEW q \in Request
    PROVE  /\ q.op \in Numbers /\ q.step > 1 => Phone \in HeldOf(q)
           /\ Answers(q.op) /\ q.step > 1 => KeyRows({q.key}) \in HeldOf(q)
           /\ q.op = "remove" /\ q.step > 2 => KeyRows({q.key}) \in HeldOf(q)
           /\ q.op = "reset" /\ q.step > 2 => ResetRow \in HeldOf(q)
           /\ q.op = "settle" /\ q.step > 1 => ResetRow \in HeldOf(q)
           /\ q.op = "settle" /\ q.step > 2 => KeyRows(q.rows) \in HeldOf(q)
           /\ q.op = "settle" /\ q.step > 4 /\ q.verdict = "make" => KeyRows(Keys) \in HeldOf(q)
           /\ q.op = "erase" /\ q.step > 3 => ResetRow \in HeldOf(q)
           /\ q.op = "erase" /\ q.step > 4 => KeyRows(Keys) \in HeldOf(q)
<1>1. q.step \in 1..5
  BY DEF Request
<1>2. \A i \in 1..4 : q.step > i => LockOrder(q)[i] \in HeldOf(q)
  BY <1>1 DEF HeldOf
<1>3. /\ q.step > 1 => LockOrder(q)[1] \in HeldOf(q)
      /\ q.step > 2 => LockOrder(q)[2] \in HeldOf(q)
      /\ q.step > 3 => LockOrder(q)[3] \in HeldOf(q)
      /\ q.step > 4 => LockOrder(q)[4] \in HeldOf(q)
  BY <1>2
<1>4. q.op \in Numbers => LockOrder(q)[1] = Phone
  BY Lengths
<1>5. Answers(q.op) => LockOrder(q)[1] = KeyRows({q.key})
  BY Lengths
<1>6. q.op = "remove" => LockOrder(q)[2] = KeyRows({q.key})
  BY Lengths
<1>7. q.op = "reset" => LockOrder(q)[2] = ResetRow
  BY Lengths
<1>8. /\ q.op = "settle" => LockOrder(q)[1] = ResetRow /\ LockOrder(q)[2] = KeyRows(q.rows)
      /\ q.op = "settle" /\ q.verdict = "make" => LockOrder(q)[4] = KeyRows(Keys)
  BY Lengths
<1>9. q.op = "erase" => LockOrder(q)[3] = ResetRow /\ LockOrder(q)[4] = KeyRows(Keys)
  BY Lengths
<1> QED
  BY <1>1, <1>3, <1>4, <1>5, <1>6, <1>7, <1>8, <1>9

\* The number's lock, the reset's row and a key's row are held by one at most.
LEMMA Conflicts ==
    /\ Conflict(Phone, Phone)
    /\ Conflict(ResetRow, ResetRow)
    /\ \A ks, hs : ks \intersect hs # {} => Conflict(KeyRows(ks), KeyRows(hs))
    /\ \A a, b : Conflict(a, b) <=> Conflict(b, a)
<1>1. {"update", "update"} \notin Compatible
  BY DEF Compatible
<1>2. \A ks : KeyRows(ks).table = "key" /\ KeyRows(ks).of = ks /\ KeyRows(ks).mode = "update"
  BY DEF KeyRows, Row
<1>3. Phone.table = "phone" /\ Phone.mode = "update" /\ ResetRow.table = "reset" /\ ResetRow.mode = "update"
  BY DEF Phone, ResetRow, Row
<1>4. /\ Conflict(Phone, Phone) /\ Conflict(ResetRow, ResetRow)
  BY <1>1, <1>3 DEF Conflict
<1>5. ASSUME NEW ks, NEW hs, ks \intersect hs # {}
      PROVE  Conflict(KeyRows(ks), KeyRows(hs))
  BY <1>1, <1>2, <1>5 DEF Conflict
<1>6. ASSUME NEW a, NEW b
      PROVE  Conflict(a, b) <=> Conflict(b, a)
  <2>1. {a.mode, b.mode} = {b.mode, a.mode} /\ a.of \intersect b.of = b.of \intersect a.of
    OBVIOUS
  <2> QED
    BY <2>1 DEF Conflict
<1> QED
  BY <1>4, <1>5, <1>6

-----------------------------------------------------------------------------
(* Requests in flight.                                                        *)

\* A request in flight is well formed, and holds what its step says.
LEMMA InFlight ==
    ASSUME TypeOK, NEW w \in Workers, Running(w)
    PROVE  req[w] \in Request /\ HeldBy(w) = HeldOf(req[w])
BY DEF TypeOK, Running, HeldBy, HeldOf

\* Nobody can hold what another in flight holds.
LEMMA Alone ==
    ASSUME KeysInv, NEW v \in Workers, NEW w \in Workers, v # w, Running(v), Running(w)
    PROVE  /\ req[v].op \in Numbers /\ req[v].step > 1 =>
                ~(req[w].op \in Numbers /\ req[w].step > 1)
           /\ Answers(req[v].op) /\ req[v].step > 1 =>
                /\ Answers(req[w].op) /\ req[w].step > 1 => req[v].key # req[w].key
                /\ req[w].op = "remove" /\ req[w].step > 2 => req[v].key # req[w].key
                /\ req[w].op = "settle" /\ req[w].step > 2 => req[v].key \notin req[w].rows
                /\ ~(req[w].op = "settle" /\ req[w].step > 4 /\ req[w].verdict = "make")
                /\ ~(req[w].op = "erase" /\ req[w].step > 4)
           /\ req[v].op = "remove" /\ req[v].step > 2 /\ req[w].op = "settle" /\ req[w].step > 2 =>
                req[v].key \notin req[w].rows
           /\ req[v].op = "settle" /\ req[v].step > 1 =>
                /\ ~(req[w].op = "reset" /\ req[w].step > 2)
                /\ ~(req[w].op = "erase" /\ req[w].step > 3)
<1>1. PICK p \in Request : p = req[v] /\ HeldBy(v) = HeldOf(p)
  BY InFlight DEF KeysInv
<1>2. PICK q \in Request : q = req[w] /\ HeldBy(w) = HeldOf(q)
  BY InFlight DEF KeysInv
<1>3. \A a \in HeldOf(p), b \in HeldOf(q) : ~Conflict(a, b)
  BY <1>1, <1>2 DEF KeysInv, Exclusive
<1>4. ~(Phone \in HeldOf(p) /\ Phone \in HeldOf(q))
  BY <1>3, Conflicts
<1>5. ~(ResetRow \in HeldOf(p) /\ ResetRow \in HeldOf(q))
  BY <1>3, Conflicts
<1>6. \A ks, hs : KeyRows(ks) \in HeldOf(p) /\ KeyRows(hs) \in HeldOf(q) =>
                     ks \intersect hs = {}
  BY <1>3, Conflicts
<1>7. Answers(p.op) => p.key \in Keys
  BY <1>1 DEF KeysInv, AllFit, FitsWorker
<1>8. p.op \in Numbers /\ p.step > 1 => ~(q.op \in Numbers /\ q.step > 1)
  BY <1>4, Holding
<1>9. ASSUME Answers(p.op), p.step > 1
      PROVE  /\ Answers(q.op) /\ q.step > 1 => p.key # q.key
             /\ q.op = "remove" /\ q.step > 2 => p.key # q.key
             /\ q.op = "settle" /\ q.step > 2 => p.key \notin q.rows
             /\ ~(q.op = "settle" /\ q.step > 4 /\ q.verdict = "make")
             /\ ~(q.op = "erase" /\ q.step > 4)
  <2>1. KeyRows({p.key}) \in HeldOf(p)
    BY <1>9, Holding
  <2>2. \A hs : KeyRows(hs) \in HeldOf(q) => p.key \notin hs
    BY <2>1, <1>6
  <2>3. Answers(q.op) /\ q.step > 1 => KeyRows({q.key}) \in HeldOf(q)
    BY Holding
  <2>4. q.op = "remove" /\ q.step > 2 => KeyRows({q.key}) \in HeldOf(q)
    BY Holding
  <2>5. /\ q.op = "settle" /\ q.step > 2 => KeyRows(q.rows) \in HeldOf(q)
        /\ q.op = "settle" /\ q.step > 4 /\ q.verdict = "make" => KeyRows(Keys) \in HeldOf(q)
    BY Holding
  <2>6. q.op = "erase" /\ q.step > 4 => KeyRows(Keys) \in HeldOf(q)
    BY Holding
  <2> QED
    BY <1>7, <1>9, <2>2, <2>3, <2>4, <2>5, <2>6
<1>10. p.op = "settle" /\ p.step > 1 =>
         /\ ~(q.op = "reset" /\ q.step > 2)
         /\ ~(q.op = "erase" /\ q.step > 3)
  <2>1. p.op = "settle" /\ p.step > 1 => ResetRow \in HeldOf(p)
    BY Holding
  <2>2. q.op = "reset" /\ q.step > 2 => ResetRow \in HeldOf(q)
    BY Holding
  <2>3. q.op = "erase" /\ q.step > 3 => ResetRow \in HeldOf(q)
    BY Holding
  <2> QED
    BY <1>5, <2>1, <2>2, <2>3
<1>11. p.op = "remove" /\ p.step > 2 /\ q.op = "settle" /\ q.step > 2 => p.key \notin q.rows
  <2>1. p.op = "remove" /\ p.step > 2 => KeyRows({p.key}) \in HeldOf(p)
    BY Holding
  <2>2. q.op = "settle" /\ q.step > 2 => KeyRows(q.rows) \in HeldOf(q)
    BY Holding
  <2> QED
    BY <1>6, <2>1, <2>2
<1> QED
  BY <1>1, <1>2, <1>8, <1>9, <1>10, <1>11

\* A request that has all its locks is past its last one.
LEMMA Finished ==
    ASSUME KeysInv, NEW w \in Workers, HoldsAll(w)
    PROVE  /\ Running(w) /\ req[w] \in Request /\ FitsWorker(w, req[w], Len(codes))
           /\ Found(w) /\ req[w].step \in 2..5
           /\ Answers(req[w].op) \/ req[w].op \in {"ask_code", "add"} => req[w].step = 3
           /\ req[w].op \in {"remove", "reset"} => req[w].step = 4
           /\ req[w].op = "settle" => req[w].step = IF req[w].verdict = "make" THEN 5 ELSE 4
           /\ req[w].op = "erase" => req[w].step = 5
<1>1. Running(w) /\ req[w].step > Len(LockOrder(req[w]))
  BY DEF HoldsAll
<1>2. req[w] \in Request /\ FitsWorker(w, req[w], Len(codes)) /\ Found(w)
  BY <1>1, InFlight DEF KeysInv, AllFit, FoundStands
<1>3. PICK q \in Request : q = req[w]
  BY <1>2
<1>4. q.step \in 1..5 /\ q.step <= Len(LockOrder(q)) + 1 /\ q.step > Len(LockOrder(q))
  BY <1>1, <1>2, <1>3 DEF Request, FitsWorker
<1>5. PICK n \in 1..4 :
        /\ n = Len(LockOrder(q))
        /\ Answers(q.op) \/ q.op \in {"ask_code", "add"} => n = 2
        /\ q.op \in {"remove", "reset"} => n = 3
        /\ q.op = "settle" => n = IF q.verdict = "make" THEN 4 ELSE 3
        /\ q.op = "erase" => n = 4
  BY Lengths
<1>6. q.step = n + 1
  BY <1>4, <1>5
<1>7. PICK m : m = q.step
  OBVIOUS
<1>8. m = n + 1
  BY <1>6, <1>7
<1>9. m \in 2..5
  BY <1>8
<1>10. /\ Answers(q.op) \/ q.op \in {"ask_code", "add"} => n = 2
       /\ q.op \in {"remove", "reset"} => n = 3
       /\ q.op = "settle" => n = IF q.verdict = "make" THEN 4 ELSE 3
       /\ q.op = "erase" => n = 4
  BY <1>5
<1>11. /\ Answers(q.op) \/ q.op \in {"ask_code", "add"} => m = 3
       /\ q.op \in {"remove", "reset"} => m = 4
       /\ q.op = "settle" => m = IF q.verdict = "make" THEN 5 ELSE 4
       /\ q.op = "erase" => m = 5
  BY <1>8, <1>10
<1> QED
  BY <1>1, <1>2, <1>3, <1>7, <1>9, <1>11

-----------------------------------------------------------------------------
(* Beginning and locking.                                                     *)

\* A step that writes no more than what is asked: only the requests change.
Unwritten == UNCHANGED <<time, key, only, signedIn, codes, reset, gone>>

\* What begins is a request at its first lock, that its sender may send.
Begins(w, q) ==
    /\ q \in Request /\ q.step = 1 /\ FitsWorker(w, q, Len(codes))
    /\ gone => ~Asks(q.op)

LEMMA Freshly ==
    ASSUME TypeOK,
           NEW op \in {"sign_in", "grant", "ask_code", "add", "remove", "only",
                       "reset", "settle", "erase"}
    PROVE  Fresh(op) \in Request /\ Fresh(op).op = op /\ Fresh(op).step = 1
<1>1. time \in Times /\ only \in BOOLEAN
  BY DEF TypeOK
<1>2. (only /\ op \in {"remove", "only"}) \in BOOLEAN
  OBVIOUS
<1>3. PICK s \in BOOLEAN : s = (only /\ op \in {"remove", "only"})
  BY <1>2
<1>4. Fresh(op) = [op |-> op, key |-> "any", for |-> <<"add">>, saw |-> s, now |-> time,
                   code |-> 0, rows |-> {}, verdict |-> "none", step |-> 1]
  BY <1>3 DEF Fresh
<1> QED
  BY <1>1, <1>4, Kinds, LimitsAssumption DEF Request

\* The devices' requests begin so.
LEMMA DevicesBegin ==
    ASSUME KeysInv, NEW w \in Requests, Begin(w)
    PROVE  \E q : Begins(w, q) /\ Began(w, q)
<1> DEFINE Sent == {"sign_in", "grant", "ask_code", "add", "remove", "only", "reset"}
<1>1. w # Settler /\ w # Eraser
  BY Jobs
<1>2. TypeOK
  BY DEF KeysInv
<1>3. Len(codes) \in Nat /\ Len(codes) <= MaxCodes /\ DOMAIN codes = 1..Len(codes)
  BY <1>2, LimitsAssumption DEF TypeOK
<1>4. \A i \in DOMAIN codes : i \in 0..MaxCodes /\ i \in 1..Len(codes)
  BY <1>3, LimitsAssumption
<1>5. ASSUME NEW q \in Request, q.op \in Sent, q.step = 1, Began(w, q),
             Answers(q.op) => q.key \in Keys,
             q.op = "add" => q.key \in Keys /\ q.for = <<"add">>,
             q.op = "remove" => q.key \in Keys /\ q.for = <<"remove", q.key>>,
             q.op = "only" => q.for \in {<<"only", "on">>, <<"only", "off">>},
             Asks(q.op) => q.code \in 1..Len(codes) /\ ~gone
      PROVE  \E r : Begins(w, r) /\ Began(w, r)
  <2>1. q.step <= Len(LockOrder(q)) + 1
    <3>1. PICK n \in 1..4 : n = Len(LockOrder(q))
      BY Lengths
    <3> QED
      BY <3>1, <1>5
  <2>2. q.op # "settle" /\ q.op # "erase"
    BY <1>5
  <2>3. FitsWorker(w, q, Len(codes))
    BY <1>1, <1>5, <2>1, <2>2 DEF FitsWorker
  <2> QED
    BY <1>5, <2>3 DEF Begins
<1>6. Held \subseteq Keys
  BY DEF Held
<1>7. ASSUME NEW k \in Held, Began(w, [Fresh("sign_in") EXCEPT !.key = k])
      PROVE  \E r : Begins(w, r) /\ Began(w, r)
  <2>1. PICK f \in Request : f = Fresh("sign_in") /\ f.op = "sign_in" /\ f.step = 1
    BY <1>2, Freshly
  <2>2. PICK q : q = [f EXCEPT !.key = k]
    OBVIOUS
  <2>3. q \in Request /\ q.op = "sign_in" /\ q.step = 1 /\ q.key = k
    BY <1>6, <2>1, <2>2 DEF Request
  <2> QED
    BY <1>5, <1>6, <1>7, <2>1, <2>2, <2>3 DEF Asks, Answers
<1>8. ASSUME NEW k \in Held, NEW c \in Changes,
             Began(w, [Fresh("grant") EXCEPT !.key = k, !.for = c])
      PROVE  \E r : Begins(w, r) /\ Began(w, r)
  <2>1. PICK f \in Request : f = Fresh("grant") /\ f.op = "grant" /\ f.step = 1
    BY <1>2, Freshly
  <2>2. PICK q : q = [f EXCEPT !.key = k, !.for = c]
    OBVIOUS
  <2>3. q \in Request /\ q.op = "grant" /\ q.step = 1 /\ q.key = k
    BY <1>6, <2>1, <2>2 DEF Request
  <2> QED
    BY <1>5, <1>6, <1>8, <2>1, <2>2, <2>3 DEF Asks, Answers
<1>9. ASSUME ~gone, NEW c \in Changes, Began(w, [Fresh("ask_code") EXCEPT !.for = c])
      PROVE  \E r : Begins(w, r) /\ Began(w, r)
  <2>1. PICK f \in Request : f = Fresh("ask_code") /\ f.op = "ask_code" /\ f.step = 1
    BY <1>2, Freshly
  <2>2. PICK q : q = [f EXCEPT !.for = c]
    OBVIOUS
  <2>3. q \in Request /\ q.op = "ask_code" /\ q.step = 1
    BY <2>1, <2>2 DEF Request
  <2> QED
    BY <1>5, <1>9, <2>1, <2>2, <2>3 DEF Asks, Answers
<1>10. ASSUME ~gone, NEW c \in Changes, NEW i \in DOMAIN codes, NEW k \in Keys,
              c[1] = "add", Began(w, [Fresh("add") EXCEPT !.key = k, !.for = c, !.code = i])
       PROVE  \E r : Begins(w, r) /\ Began(w, r)
  <2>1. PICK f \in Request : f = Fresh("add") /\ f.op = "add" /\ f.step = 1
    BY <1>2, Freshly
  <2>2. PICK q : q = [f EXCEPT !.key = k, !.for = c, !.code = i]
    OBVIOUS
  <2>3. /\ q \in Request /\ q.op = "add" /\ q.step = 1
        /\ q.key = k /\ q.for = c /\ q.code = i
    BY <1>4, <2>1, <2>2 DEF Request
  <2>4. c = <<"add">>
    BY <1>10, Kinds
  <2> QED
    BY <1>4, <1>5, <1>10, <2>1, <2>2, <2>3, <2>4 DEF Asks, Answers
<1>11. ASSUME ~gone, NEW c \in Changes, NEW i \in DOMAIN codes, c[1] = "remove",
              Began(w, [Fresh("remove") EXCEPT !.key = c[2], !.for = c, !.code = i])
       PROVE  \E r : Begins(w, r) /\ Began(w, r)
  <2>1. PICK f \in Request : f = Fresh("remove") /\ f.op = "remove" /\ f.step = 1
    BY <1>2, Freshly
  <2>2. PICK k \in Keys : c = <<"remove", k>>
    BY <1>11, Kinds
  <2>3. c[2] = k
    BY <2>2
  <2>4. PICK q : q = [f EXCEPT !.key = c[2], !.for = c, !.code = i]
    OBVIOUS
  <2>5. /\ q \in Request /\ q.op = "remove" /\ q.step = 1
        /\ q.key = k /\ q.for = c /\ q.code = i
    BY <1>4, <2>1, <2>3, <2>4 DEF Request
  <2> QED
    BY <1>4, <1>5, <1>11, <2>1, <2>2, <2>4, <2>5 DEF Asks, Answers
<1>12. ASSUME ~gone, NEW c \in Changes, NEW i \in DOMAIN codes, c[1] = "only",
              Began(w, [Fresh("only") EXCEPT !.for = c, !.code = i])
       PROVE  \E r : Begins(w, r) /\ Began(w, r)
  <2>1. PICK f \in Request : f = Fresh("only") /\ f.op = "only" /\ f.step = 1
    BY <1>2, Freshly
  <2>2. PICK q : q = [f EXCEPT !.for = c, !.code = i]
    OBVIOUS
  <2>3. q \in Request /\ q.op = "only" /\ q.step = 1 /\ q.for = c /\ q.code = i
    BY <1>4, <2>1, <2>2 DEF Request
  <2>4. c \in {<<"only", "on">>, <<"only", "off">>}
    BY <1>12, Kinds
  <2> QED
    BY <1>4, <1>5, <1>12, <2>1, <2>2, <2>3, <2>4 DEF Asks, Answers
<1>13. ASSUME ~gone, Began(w, Fresh("reset"))
       PROVE  \E r : Begins(w, r) /\ Began(w, r)
  <2>1. PICK f \in Request : f = Fresh("reset") /\ f.op = "reset" /\ f.step = 1
    BY <1>2, Freshly
  <2> QED
    BY <1>5, <1>13, <2>1 DEF Asks, Answers
<1> QED
  BY <1>6, <1>7, <1>8, <1>9, <1>10, <1>11, <1>12, <1>13 DEF Begin

\* The jobs begin so too.
LEMMA JobsBegin ==
    ASSUME KeysInv
    PROVE  /\ BeginSettle => \E q : Begins(Settler, q) /\ Began(Settler, q)
           /\ BeginErase => \E q : Begins(Eraser, q) /\ Began(Eraser, q)
<1>1. TypeOK
  BY DEF KeysInv
<1>2. PICK s \in Request : s = Fresh("settle") /\ s.op = "settle" /\ s.step = 1
  BY <1>1, Freshly
<1>3. PICK e \in Request : e = Fresh("erase") /\ e.op = "erase" /\ e.step = 1
  BY <1>1, Freshly
<1>4. s.step <= Len(LockOrder(s)) + 1 /\ e.step <= Len(LockOrder(e)) + 1
  <2>1. PICK n \in 1..4 : n = Len(LockOrder(s))
    BY Lengths
  <2>2. PICK m \in 1..4 : m = Len(LockOrder(e))
    BY Lengths
  <2> QED
    BY <1>2, <1>3, <2>1, <2>2
<1>5. FitsWorker(Settler, s, Len(codes)) /\ FitsWorker(Eraser, e, Len(codes))
  BY <1>2, <1>3, <1>4, WorkersAssumption DEF FitsWorker, Answers, Asks
<1> QED
  BY <1>2, <1>3, <1>5 DEF Begins, BeginSettle, BeginErase, Asks

\* No request is nothing: a request has a step.
LEMMA NotIdle == \A q \in Request : q # Idle
<1> SUFFICES ASSUME NEW q \in Request, q = Idle
             PROVE  FALSE
  OBVIOUS
<1>1. q.op # "idle"
  BY Ops
<1> QED
  BY <1>1 DEF Idle

\* The requests after a step that changes one of them only.
LEMMA Replaced ==
    ASSUME TypeOK, NEW w \in Workers, NEW q \in Request \union {Idle},
           req' = [req EXCEPT ![w] = q]
    PROVE  /\ req' \in [Workers -> Request \union {Idle}]
           /\ req'[w] = q
           /\ \A v \in Workers \ {w} :
                /\ req'[v] = req[v]
                /\ Running(v)' <=> Running(v)
                /\ HeldBy(v)' = HeldBy(v)
<1>1. req \in [Workers -> Request \union {Idle}]
  BY DEF TypeOK
<1>2. req' \in [Workers -> Request \union {Idle}] /\ req'[w] = q
  BY <1>1
<1>3. \A v \in Workers \ {w} : req'[v] = req[v]
  BY <1>1
<1> QED
  BY <1>2, <1>3 DEF Running, HeldBy

\* What begins disturbs nobody.
LEMMA BeginKeeps ==
    ASSUME KeysInv, NEW w \in Workers, NEW q, Begins(w, q), Began(w, q)
    PROVE  KeysInv'
<1>1. TypeOK /\ q \in Request
  BY DEF KeysInv, Begins
<1>2. /\ req' \in [Workers -> Request \union {Idle}] /\ req'[w] = q
      /\ \A v \in Workers \ {w} :
           /\ req'[v] = req[v]
           /\ Running(v)' <=> Running(v)
           /\ HeldBy(v)' = HeldBy(v)
  BY <1>1, Replaced DEF Began
<1>3. UNCHANGED <<time, key, only, signedIn, codes, reset, gone>>
  BY DEF Began
<1>4. TypeOK'
  BY <1>1, <1>2, <1>3 DEF TypeOK
<1>5. AllFit'
  <2>1. ASSUME NEW v \in Workers, Running(v)'
        PROVE  FitsWorker(v, req'[v], Len(codes'))
    <3>1. CASE v = w
      BY <1>2, <1>3, <3>1 DEF Begins
    <3>2. CASE v # w
      BY <1>2, <1>3, <2>1, <3>2 DEF KeysInv, AllFit
    <3> QED
      BY <3>1, <3>2
  <2> QED
    BY <2>1 DEF AllFit
<1>6. HeldBy(w)' = {}
  <2>1. q.step = 1
    BY DEF Begins
  <2>2. q # Idle
    BY <1>1, NotIdle
  <2> QED
    BY <1>2, <2>1, <2>2 DEF HeldBy, Running
<1>7. Exclusive'
  BY <1>2, <1>6 DEF KeysInv, Exclusive
<1>8. FoundStands'
  <2>1. ASSUME NEW v \in Workers, Running(v)'
        PROVE  Found(v)'
    <3>1. CASE v = w
      <4>1. req'[v] = q /\ q.step = 1 /\ (gone' => ~Asks(q.op))
        BY <1>2, <1>3, <3>1 DEF Begins
      <4> QED
        BY <4>1 DEF Found
    <3>2. CASE v # w
      <4>1. Found(v) /\ req'[v] = req[v]
        BY <1>2, <2>1, <3>2 DEF KeysInv, FoundStands
      <4> QED
        BY <1>3, <4>1 DEF Found, CodeStands, NoneUsedSince, Held
    <3> QED
      BY <3>1, <3>2
  <2> QED
    BY <2>1 DEF FoundStands
<1> QED
  BY <1>3, <1>4, <1>5, <1>7, <1>8 DEF KeysInv, NewAreUnused, ErasedStaysErased, Held

\* A request that ends lets go of what it held, and disturbs no other's.
LEMMA Ending ==
    ASSUME KeysInv, NEW w \in Workers, req' = [req EXCEPT ![w] = Idle],
           Len(codes') \in Nat, Len(codes) <= Len(codes')
    PROVE  /\ req' \in [Workers -> Request \union {Idle}] /\ AllFit' /\ Exclusive'
           /\ ~Running(w)'
           /\ \A v \in Workers \ {w} : req'[v] = req[v] /\ (Running(v)' <=> Running(v))
<1>1. TypeOK
  BY DEF KeysInv
<1>2. /\ req' \in [Workers -> Request \union {Idle}] /\ req'[w] = Idle
      /\ \A v \in Workers \ {w} :
           /\ req'[v] = req[v]
           /\ Running(v)' <=> Running(v)
           /\ HeldBy(v)' = HeldBy(v)
  BY <1>1, Replaced
<1>3. Len(codes) \in Nat
  BY <1>1 DEF TypeOK
<1>4. ~Running(w)' /\ HeldBy(w)' = {}
  BY <1>2 DEF Running, HeldBy
<1>5. AllFit'
  <2>1. ASSUME NEW v \in Workers, Running(v)'
        PROVE  FitsWorker(v, req'[v], Len(codes'))
    <3>1. v # w /\ Running(v) /\ req'[v] = req[v]
      BY <1>2, <1>4, <2>1
    <3>2. FitsWorker(v, req[v], Len(codes))
      BY <3>1 DEF KeysInv, AllFit
    <3>3. \A i : i \in 1..Len(codes) => i \in 1..Len(codes')
      BY <1>3
    <3> QED
      BY <3>1, <3>2, <3>3 DEF FitsWorker
  <2> QED
    BY <2>1 DEF AllFit
<1>6. Exclusive'
  BY <1>2, <1>4 DEF KeysInv, Exclusive
<1> QED
  BY <1>2, <1>4, <1>5, <1>6

\* One that ends without writing keeps the invariant.
LEMMA EndKeeps ==
    ASSUME KeysInv, NEW w \in Workers, req' = [req EXCEPT ![w] = Idle],
           UNCHANGED <<time, key, only, signedIn, codes, reset, gone>>
    PROVE  KeysInv'
<1>1. TypeOK
  BY DEF KeysInv
<1>2. Len(codes') \in Nat /\ Len(codes) <= Len(codes')
  BY <1>1 DEF TypeOK
<1>3. /\ req' \in [Workers -> Request \union {Idle}] /\ AllFit' /\ Exclusive'
      /\ ~Running(w)'
      /\ \A v \in Workers \ {w} : req'[v] = req[v] /\ (Running(v)' <=> Running(v))
  BY <1>2, Ending
<1>4. TypeOK'
  BY <1>1, <1>3 DEF TypeOK
<1>5. FoundStands'
  <2>1. ASSUME NEW v \in Workers, Running(v)'
        PROVE  Found(v)'
    <3>1. v # w /\ Running(v) /\ req'[v] = req[v]
      BY <1>3, <2>1
    <3>2. Found(v)
      BY <3>1 DEF KeysInv, FoundStands
    <3> QED
      BY <3>1, <3>2 DEF Found, CodeStands, NoneUsedSince, Held
  <2> QED
    BY <2>1 DEF FoundStands
<1> QED
  BY <1>3, <1>4, <1>5 DEF KeysInv, NewAreUnused, ErasedStaysErased, Held

\* The locks a request has and the one it waits for do not change as it goes on:
\* the job's keys are found before it waits for them, and what else it needs is
\* settled with the third of its locks.
LEMMA SameOrder ==
    ASSUME NEW p \in Request, NEW q \in Request,
           p.op = q.op, p.key = q.key, p.for = q.for, p.saw = q.saw,
           q.step \in 1..4, q.step <= Len(LockOrder(q)),
           q.op = "settle" /\ q.step > 1 => p.rows = q.rows,
           q.op = "settle" /\ q.step > 3 => p.verdict = q.verdict
    PROVE  /\ q.step <= Len(LockOrder(p))
           /\ \A i \in 1..q.step : LockOrder(p)[i] = LockOrder(q)[i]
<1>1. CASE q.op # "settle"
  <2>1. LockOrder(p) = LockOrder(q)
    <3>1. CASE q.op = "only"
      <4>1. LockOrder(p) = OnlyLocks(p) /\ LockOrder(q) = OnlyLocks(q)
        BY <3>1 DEF LockOrder
      <4> QED
        BY <4>1 DEF OnlyLocks
    <3>2. CASE q.op # "only"
      BY <1>1, <3>2, Orders, Ops DEF Answers
    <3> QED
      BY <3>1, <3>2
  <2> QED
    BY <2>1
<1>2. CASE q.op = "settle"
  <2>1. /\ LockOrder(p)[1] = LockOrder(q)[1] /\ LockOrder(p)[3] = LockOrder(q)[3]
        /\ LockOrder(p)[2] = KeyRows(p.rows) /\ LockOrder(q)[2] = KeyRows(q.rows)
    BY <1>2, SettleOrder
  <2>2. PICK n \in 3..4 : n = Len(LockOrder(p)) /\ (p.verdict = "make" => n = 4)
    BY <1>2, SettleOrder
  <2>3. CASE q.step = 4
    <3>1. q.verdict = "make"
      BY <1>2, <2>3, TheKeysAgain
    <3>2. p.verdict = "make" /\ p.rows = q.rows
      BY <1>2, <2>3, <3>1
    <3>3. LockOrder(p)[4] = KeyRows(Keys) /\ LockOrder(q)[4] = KeyRows(Keys)
      BY <1>2, <3>1, <3>2, SettleOrder
    <3>4. \A i \in 1..4 : LockOrder(p)[i] = LockOrder(q)[i]
      BY <2>1, <3>2, <3>3
    <3> QED
      BY <2>2, <2>3, <3>2, <3>4
  <2>4. CASE q.step = 1
    BY <2>1, <2>2, <2>4
  <2>5. CASE q.step \in 2..3
    <3>1. p.rows = q.rows
      BY <1>2, <2>5
    <3>2. \A i \in 1..3 : LockOrder(p)[i] = LockOrder(q)[i]
      BY <2>1, <3>1
    <3> QED
      BY <2>2, <2>5, <3>2
  <2> QED
    BY <2>3, <2>4, <2>5
<1> QED
  BY <1>1, <1>2

\* A request that gets the lock it waits for, and finds what it needs.
LEMMA LockKeeps ==
    ASSUME KeysInv, NEW w \in Workers, Lock(w)
    PROVE  KeysInv'
<1>1. TypeOK
  BY DEF KeysInv
<1>2. Running(w) /\ ~HoldsAll(w) /\ \A v \in Workers : ~WaitsFor(w, v)
  BY DEF Lock
<1>3. UNCHANGED <<time, key, only, signedIn, codes, reset, gone>>
  BY DEF Lock
<1>4. CASE ~Finds(w, NextLock(w))
  BY <1>3, <1>4, EndKeeps DEF Lock
<1>5. CASE Finds(w, NextLock(w))
  <2>1. PICK q \in Request : q = req[w] /\ HeldBy(w) = HeldOf(q)
    BY <1>1, <1>2, InFlight
  <2>2. PICK lock : lock = NextLock(w) /\ lock = LockOrder(q)[q.step]
    BY <2>1 DEF NextLock
  <2>3. PICK verdict \in {"none", "cancel", "wait", "make"}, rows \in SUBSET Keys :
           /\ verdict = IF lock.table = "account" /\ q.op = "settle"
                        THEN Verdict(q) ELSE q.verdict
           /\ rows = IF lock = ResetRow /\ q.op = "settle" THEN Held ELSE q.rows
    <3>1. /\ q.verdict \in {"none", "cancel", "wait", "make"} /\ q.rows \subseteq Keys
          /\ Verdict(q) \in {"cancel", "wait", "make"} /\ Held \subseteq Keys
      BY DEF Request, Verdict, Held
    <3> QED
      BY <3>1
  <2>4. PICK n : n = [q EXCEPT !.step = q.step + 1, !.rows = rows, !.verdict = verdict]
    OBVIOUS
  <2>5. req' = [req EXCEPT ![w] = n]
    BY <1>5, <2>1, <2>2, <2>3, <2>4 DEF Lock
  <2>6. q.step \in 1..5 /\ ~(q.step > Len(LockOrder(q)))
    BY <1>2, <2>1 DEF HoldsAll, Request
  <2>7. q.step + 1 \in 1..5 /\ q.step \in 1..4 /\ q.step <= Len(LockOrder(q))
    <3>1. PICK len \in 1..4 : len = Len(LockOrder(q))
      BY Lengths
    <3>2. q.step \in 1..5 /\ ~(q.step > len)
      BY <2>6, <3>1
    <3>3. q.step + 1 \in 1..5 /\ q.step \in 1..4 /\ q.step <= len
      BY <3>2
    <3> QED
      BY <3>1, <3>3
  <2>8. /\ n \in Request /\ n.op = q.op /\ n.key = q.key /\ n.for = q.for
        /\ n.saw = q.saw /\ n.now = q.now /\ n.code = q.code
        /\ n.step = q.step + 1 /\ n.rows = rows /\ n.verdict = verdict
    BY <2>3, <2>4, <2>7 DEF Request
  <2>9. /\ req' \in [Workers -> Request \union {Idle}] /\ req'[w] = n
        /\ \A v \in Workers \ {w} :
             /\ req'[v] = req[v]
             /\ Running(v)' <=> Running(v)
             /\ HeldBy(v)' = HeldBy(v)
    BY <1>1, <2>5, <2>8, Replaced
  <2>10. /\ q.step <= Len(LockOrder(n))
         /\ \A i \in 1..q.step : LockOrder(n)[i] = LockOrder(q)[i]
         /\ q.op = "settle" /\ q.step = 3 => lock.table = "account"
         /\ q.op = "settle" /\ q.step > 3 => n.verdict = q.verdict /\ n.rows = q.rows
    <3>1. q.op = "settle" =>
            /\ q.step = 2 => lock.table = "key"
            /\ q.step = 3 => lock.table = "account"
            /\ q.step = 4 => lock.table = "key"
      <4>1. \A ks : KeyRows(ks).table = "key"
        BY DEF KeyRows, Row
      <4>2. ASSUME q.op = "settle", q.step \in {2, 4}
            PROVE  lock.table = "key"
        <5>1. lock = KeyRows(q.rows) \/ lock = KeyRows(Keys)
          BY <2>2, <2>7, <4>2, SettleOrder, TheKeysAgain
        <5> QED
          BY <4>1, <5>1
      <4>3. q.op = "settle" /\ q.step = 3 => lock.table = "account"
        BY <2>2, SettleOrder DEF Account, Row
      <4> QED
        BY <4>2, <4>3
    <3>2. ResetRow.table = "reset"
      BY DEF ResetRow, Row
    <3>3. q.op = "settle" /\ q.step > 1 => n.rows = q.rows
      BY <2>3, <2>7, <2>8, <3>1, <3>2
    <3>4. q.op = "settle" /\ q.step > 3 => n.verdict = q.verdict
      BY <2>3, <2>7, <2>8, <3>1
    <3>5. q.op = "settle" /\ q.step > 3 => n.rows = q.rows
      BY <2>7, <3>3
    <3> QED
      BY <2>7, <2>8, <3>1, <3>3, <3>4, <3>5, SameOrder
  <2>11. TypeOK'
    BY <1>1, <1>3, <2>9 DEF TypeOK
  <2>12. AllFit'
    <3>1. FitsWorker(w, q, Len(codes))
      BY <1>2, <2>1 DEF KeysInv, AllFit
    <3>2. n.step <= Len(LockOrder(n)) + 1
      <4>1. PICK len \in 1..4 : len = Len(LockOrder(n))
        BY <2>8, Lengths
      <4> QED
        BY <2>7, <2>8, <2>10, <4>1
    <3>3. FitsWorker(w, n, Len(codes))
      BY <2>8, <3>1, <3>2 DEF FitsWorker
    <3>4. ASSUME NEW v \in Workers, Running(v)'
          PROVE  FitsWorker(v, req'[v], Len(codes'))
      <4>1. CASE v = w
        BY <1>3, <2>9, <3>3, <4>1
      <4>2. CASE v # w
        BY <1>3, <2>9, <3>4, <4>2 DEF KeysInv, AllFit
      <4> QED
        BY <4>1, <4>2
    <3> QED
      BY <3>4 DEF AllFit
  <2>13. HeldBy(w)' = HeldBy(w) \union {lock}
    <3>1. HeldBy(w)' = HeldOf(n)
      BY <2>8, <2>9, NotIdle DEF HeldBy, HeldOf, Running
    <3>2. HeldOf(n) = {LockOrder(q)[i] : i \in 1..q.step}
      <4>1. HeldOf(n) = {LockOrder(n)[i] : i \in 1..q.step}
        BY <2>7, <2>8 DEF HeldOf
      <4> QED
        BY <2>10, <4>1
    <3>3. 1..q.step = 1..(q.step - 1) \union {q.step}
      BY <2>7
    <3> QED
      BY <2>1, <2>2, <3>1, <3>2, <3>3 DEF HeldOf
  <2>14. \A v \in Workers \ {w} : \A b \in HeldBy(v) : ~Conflict(lock, b)
    BY <1>2, <2>2 DEF WaitsFor
  <2>15. Exclusive'
    <3>1. ASSUME NEW v \in Workers, NEW u \in Workers, v # u,
                 NEW a \in HeldBy(v)', NEW b \in HeldBy(u)'
          PROVE  ~Conflict(a, b)
      <4>1. CASE v # w /\ u # w
        BY <2>9, <3>1, <4>1 DEF KeysInv, Exclusive
      <4>2. CASE v = w
        <5>1. b \in HeldBy(u) /\ u \in Workers \ {w}
          BY <2>9, <3>1, <4>2
        <5>2. a \in HeldBy(w) \/ a = lock
          BY <2>13, <4>2
        <5> QED
          BY <2>14, <5>1, <5>2 DEF KeysInv, Exclusive
      <4>3. CASE u = w
        <5>1. a \in HeldBy(v) /\ v \in Workers \ {w}
          BY <2>9, <3>1, <4>3
        <5>2. b \in HeldBy(w) \/ b = lock
          BY <2>13, <4>3
        <5> QED
          BY <2>14, <5>1, <5>2, Conflicts DEF KeysInv, Exclusive
      <4> QED
        BY <4>1, <4>2, <4>3
    <3> QED
      BY <3>1 DEF Exclusive
  <2>16. Found(w)'
    <3>1. Found(w) /\ FitsWorker(w, q, Len(codes))
      BY <1>2, <2>1 DEF KeysInv, FoundStands, AllFit
    <3>2. /\ q.op \in Numbers /\ q.step = 1 => lock = Phone
          /\ Answers(q.op) /\ q.step = 1 => lock = KeyRows({q.key})
          /\ q.op = "settle" /\ q.step = 3 => lock = Account("no_key_update")
      BY <2>2, Lengths
    <3>3. Finds(w, lock)
      BY <1>5, <2>2
    <3>4. Answers(q.op) => q.key \in Held
      <4>1. CASE q.step = 1
        BY <2>1, <3>2, <3>3, <4>1 DEF Finds, Answers, KeyRows, Row
      <4>2. CASE q.step > 1
        BY <2>1, <3>1, <4>2 DEF Found
      <4> QED
        BY <2>7, <4>1, <4>2
    <3>5. Asks(q.op) => CodeStands(q)
      <4>1. CASE q.step = 1 /\ Asks(q.op)
        <5>1. Spendable(q)
          BY <2>1, <3>2, <3>3, <4>1 DEF Finds, Asks, Numbers
        <5> QED
          BY <5>1 DEF Spendable, CodesFor, CodeStands
      <4>2. CASE q.step > 1
        BY <2>1, <3>1, <4>2 DEF Found
      <4> QED
        BY <2>7, <4>1, <4>2
    <3>6. q.op = "settle" /\ n.step > 3 /\ verdict = "make" => NoneUsedSince(rows)
      <4>1. SUFFICES ASSUME q.op = "settle", n.step > 3, verdict = "make"
                     PROVE  NoneUsedSince(rows)
        OBVIOUS
      <4>2. CASE q.step = 3
        <5>1. ~Stopped
          BY <2>3, <2>10, <4>1, <4>2 DEF Verdict
        <5>2. \A k \in Held : key[k].used \in Nat /\ reset.since \in Nat
          BY <1>1, LimitsAssumption DEF TypeOK, Held, Key, Times, Never, Reset, NoReset
        <5> QED
          BY <5>1, <5>2 DEF Stopped, NoneUsedSince
      <4>3. CASE q.step = 4
        <5>1. q.step > 3
          BY <4>3
        <5>2. q.verdict = "make" /\ rows = q.rows
          BY <2>8, <2>10, <4>1, <5>1
        <5> QED
          BY <2>1, <3>1, <4>1, <5>1, <5>2 DEF Found
      <4> QED
        BY <2>7, <2>8, <4>1, <4>2, <4>3
    <3>7. ~(gone /\ (Answers(q.op) \/ Asks(q.op) \/ q.op = "reset"))
      <4>1. SUFFICES ASSUME gone, Answers(q.op) \/ Asks(q.op) \/ q.op = "reset"
                     PROVE  FALSE
        OBVIOUS
      <4>2. Held = {}
        BY <4>1 DEF KeysInv, ErasedStaysErased
      <4>3. q.step = 1
        BY <2>1, <3>1, <4>1 DEF Found
      <4>4. Asks(q.op) => codes[q.code].spent
        BY <2>1, <3>1, <4>1 DEF Found
      <4>5. Asks(q.op) => ~codes[q.code].spent
        BY <3>5 DEF CodeStands
      <4>6. q.op # "reset"
        BY <2>1, <3>2, <3>3, <4>2, <4>3 DEF Finds, Numbers
      <4> QED
        BY <3>4, <4>1, <4>2, <4>4, <4>5, <4>6
    <3>8. /\ Answers(n.op) => n.key \in Held
          /\ Asks(n.op) => CodeStands(n)
          /\ n.op = "settle" /\ n.step > 3 /\ n.verdict = "make" => NoneUsedSince(n.rows)
          /\ ~(gone /\ (Answers(n.op) \/ Asks(n.op) \/ n.op = "reset"))
      BY <2>8, <3>4, <3>5, <3>6, <3>7 DEF CodeStands
    <3> QED
      BY <1>3, <2>9, <3>8 DEF Found, CodeStands, NoneUsedSince, Held
  <2>17. FoundStands'
    <3>1. ASSUME NEW v \in Workers, Running(v)'
          PROVE  Found(v)'
      <4>1. CASE v = w
        BY <2>16, <4>1
      <4>2. CASE v # w
        <5>1. Found(v) /\ req'[v] = req[v]
          BY <2>9, <3>1, <4>2 DEF KeysInv, FoundStands
        <5> QED
          BY <1>3, <5>1 DEF Found, CodeStands, NoneUsedSince, Held
      <4> QED
        BY <4>1, <4>2
    <3> QED
      BY <3>1 DEF FoundStands
  <2> QED
    BY <1>3, <2>11, <2>12, <2>15, <2>17 DEF KeysInv, NewAreUnused, ErasedStaysErased, Held
<1> QED
  BY <1>4, <1>5

\* The job that finds its keys again holds what it held.
LEMMA FindKeysKeeps ==
    ASSUME KeysInv, NEW w \in Workers, FindKeys(w)
    PROVE  KeysInv'
<1>1. TypeOK
  BY DEF KeysInv
<1>2. /\ Running(w) /\ req[w].op = "settle" /\ req[w].step = 2
      /\ UNCHANGED <<time, key, only, signedIn, codes, reset, gone>>
  BY DEF FindKeys
<1>3. PICK q \in Request : q = req[w] /\ HeldBy(w) = HeldOf(q)
  BY <1>1, <1>2, InFlight
<1>4. PICK n : n = [q EXCEPT !.rows = Held]
  OBVIOUS
<1>5. /\ n \in Request /\ n.op = q.op /\ n.key = q.key /\ n.for = q.for
      /\ n.code = q.code /\ n.step = q.step
  BY <1>3, <1>4 DEF Request, Held
<1>6. req' = [req EXCEPT ![w] = n]
  BY <1>3, <1>4 DEF FindKeys
<1>7. /\ req' \in [Workers -> Request \union {Idle}] /\ req'[w] = n
      /\ \A v \in Workers \ {w} :
           /\ req'[v] = req[v]
           /\ Running(v)' <=> Running(v)
           /\ HeldBy(v)' = HeldBy(v)
  BY <1>1, <1>5, <1>6, Replaced
<1>8. HeldBy(w)' = HeldBy(w)
  <2>1. HeldBy(w)' = HeldOf(n)
    BY <1>5, <1>7, NotIdle DEF HeldBy, HeldOf, Running
  <2>2. HeldOf(n) = {LockOrder(n)[1]} /\ HeldOf(q) = {LockOrder(q)[1]}
    BY <1>2, <1>3, <1>5 DEF HeldOf
  <2>3. LockOrder(n)[1] = ResetRow /\ LockOrder(q)[1] = ResetRow
    BY <1>2, <1>3, <1>5, Lengths
  <2> QED
    BY <1>3, <2>1, <2>2, <2>3
<1>9. TypeOK'
  BY <1>1, <1>2, <1>7 DEF TypeOK
<1>10. AllFit'
  <2>1. FitsWorker(w, q, Len(codes))
    BY <1>2, <1>3 DEF KeysInv, AllFit
  <2>2. n.step <= Len(LockOrder(n)) + 1
    <3>1. PICK len \in 1..4 : len = Len(LockOrder(n))
      BY <1>5, Lengths
    <3> QED
      BY <1>2, <1>3, <1>5, <3>1
  <2>3. FitsWorker(w, n, Len(codes))
    BY <1>5, <2>1, <2>2 DEF FitsWorker
  <2>4. ASSUME NEW v \in Workers, Running(v)'
        PROVE  FitsWorker(v, req'[v], Len(codes'))
    <3>1. CASE v = w
      BY <1>2, <1>7, <2>3, <3>1
    <3>2. CASE v # w
      BY <1>2, <1>7, <2>4, <3>2 DEF KeysInv, AllFit
    <3> QED
      BY <3>1, <3>2
  <2> QED
    BY <2>4 DEF AllFit
<1>11. Exclusive'
  BY <1>7, <1>8 DEF KeysInv, Exclusive
<1>12. FoundStands'
  <2>1. ASSUME NEW v \in Workers, Running(v)'
        PROVE  Found(v)'
    <3>1. CASE v = w
      <4>1. req'[v].op = "settle" /\ ~(req'[v].step > 3)
        BY <1>2, <1>3, <1>5, <1>7, <3>1
      <4> QED
        BY <4>1 DEF Found, Answers, Asks
    <3>2. CASE v # w
      <4>1. Found(v) /\ req'[v] = req[v]
        BY <1>7, <2>1, <3>2 DEF KeysInv, FoundStands
      <4> QED
        BY <1>2, <4>1 DEF Found, CodeStands, NoneUsedSince, Held
    <3> QED
      BY <3>1, <3>2
  <2> QED
    BY <2>1 DEF FoundStands
<1> QED
  BY <1>2, <1>9, <1>10, <1>11, <1>12 DEF KeysInv, NewAreUnused, ErasedStaysErased, Held

-----------------------------------------------------------------------------
(* What a commit writes.                                                      *)

\* A code that is given comes after all others.
LEMMA Given ==
    ASSUME TypeOK, NEW c \in Code, NewCode(c)
    PROVE  /\ codes' \in Seq(Code) /\ Len(codes') <= MaxCodes
           /\ Len(codes') \in Nat /\ Len(codes) <= Len(codes')
           /\ \A i \in 1..Len(codes) : codes'[i] = codes[i]
<1>1. codes \in Seq(Code) /\ Len(codes) \in Nat /\ MaxCodes \in Nat
  BY LimitsAssumption DEF TypeOK
<1>2. codes' = Append(codes, c) /\ Len(codes) < MaxCodes
  BY DEF NewCode
<1>3. Len(codes') = Len(codes) + 1 /\ codes' \in Seq(Code)
  BY <1>1, <1>2
<1>4. \A i \in 1..Len(codes) : codes'[i] = codes[i]
  BY <1>1, <1>2
<1> QED
  BY <1>1, <1>2, <1>3, <1>4

\* A code that is spent stays what it was made for, and no other changes.
LEMMA Spending ==
    ASSUME TypeOK, NEW n \in 1..Len(codes), Spend(n)
    PROVE  /\ codes' \in Seq(Code) /\ Len(codes') = Len(codes)
           /\ codes'[n].spent
           /\ \A i \in 1..Len(codes) :
                /\ codes'[i].for = codes[i].for /\ codes'[i].by = codes[i].by
                /\ codes[i].spent => codes'[i].spent
<1>1. codes \in Seq(Code) /\ Len(codes) \in Nat /\ DOMAIN codes = 1..Len(codes)
  BY DEF TypeOK
<1>2. codes' = [codes EXCEPT ![n] = [codes[n] EXCEPT !.spent = TRUE]]
  BY DEF Spend
<1>3. codes[n] \in Code
  BY <1>1
<1>4. PICK c : c = [codes[n] EXCEPT !.spent = TRUE]
  OBVIOUS
<1>5. c \in Code /\ c.spent /\ c.for = codes[n].for /\ c.by = codes[n].by
  BY <1>3, <1>4 DEF Code
<1>6. codes' \in Seq(Code) /\ Len(codes') = Len(codes)
  BY <1>1, <1>2, <1>4, <1>5
<1>7. codes'[n] = c /\ \A i \in 1..Len(codes) : i # n => codes'[i] = codes[i]
  BY <1>1, <1>2, <1>4
<1> QED
  BY <1>5, <1>6, <1>7

\* A key that answers is held, and is none of those the job has locked.
LEMMA Answering ==
    ASSUME KeysInv, NEW w \in Workers, HoldsAll(w), Answers(req[w].op),
           Use(req[w].key, req[w].now)
    PROVE  /\ key' \in [Keys -> Key] /\ Held' = Held /\ NewAreUnused' /\ ~gone
           /\ \A v \in Workers \ {w} :
                /\ Running(v) /\ req[v].op = "settle" /\ req[v].step > 3
                /\ NoneUsedSince(req[v].rows)
                => \A k \in Held \cap req[v].rows : key'[k].used <= reset.since
<1>1. /\ Running(w) /\ req[w] \in Request /\ Found(w) /\ req[w].step = 3
  BY Finished
<1>2. PICK q \in Request : q = req[w]
  BY <1>1
<1>3. q.key \in Held /\ ~gone
  BY <1>1, <1>2 DEF Found
<1>4. q.now \in Times
  BY DEF Request
<1>5. PICK k \in Keys : k = q.key /\ key[k].state = "held"
  BY <1>3 DEF Held
<1>6. key \in [Keys -> Key]
  BY DEF KeysInv, TypeOK
<1>7. key' = [key EXCEPT ![k] = [key[k] EXCEPT !.used = q.now]]
  BY <1>2, <1>5 DEF Use
<1>8. PICK row : row = [key[k] EXCEPT !.used = q.now]
  OBVIOUS
<1>9. row \in Key /\ row.state = "held"
  BY <1>4, <1>5, <1>6, <1>8 DEF Key
<1>10. key' \in [Keys -> Key] /\ \A j \in Keys : key'[j] = IF j = k THEN row ELSE key[j]
  BY <1>6, <1>7, <1>8, <1>9
<1>11. Held' = Held
  BY <1>5, <1>9, <1>10 DEF Held
<1>12. NewAreUnused'
  BY <1>5, <1>9, <1>10 DEF KeysInv, NewAreUnused
<1>13. ASSUME NEW v \in Workers \ {w}, Running(v), req[v].op = "settle", req[v].step > 3,
              NoneUsedSince(req[v].rows)
       PROVE  \A j \in Held \cap req[v].rows : key'[j].used <= reset.since
  <2>1. PICK p \in Request : p = req[v] /\ p.step \in 1..5
    BY <1>13, InFlight DEF KeysInv, Request
  <2>2. p.step > 2
    BY <1>13, <2>1
  <2>3. k \notin p.rows
    BY <1>1, <1>2, <1>5, <1>13, <2>1, <2>2, Alone
  <2>4. \A j \in Held \cap p.rows : key'[j] = key[j]
    BY <1>10, <2>3 DEF Held
  <2> QED
    BY <1>13, <2>1, <2>4 DEF NoneUsedSince
<1> QED
  BY <1>3, <1>10, <1>11, <1>12, <1>13

LEMMA LogInKeeps ==
    ASSUME KeysInv, NEW w \in Workers, LogIn(w)
    PROVE  KeysInv'
<1>1. HoldsAll(w) /\ Answers(req[w].op) /\ req' = [req EXCEPT ![w] = Idle]
  BY DEF LogIn, Commits, Answers
<1>2. UNCHANGED <<time, only, codes, reset, gone>> /\ signedIn' = TRUE
  BY DEF LogIn, Commits
<1>3. /\ key' \in [Keys -> Key] /\ Held' = Held /\ NewAreUnused' /\ ~gone
      /\ \A v \in Workers \ {w} :
           /\ Running(v) /\ req[v].op = "settle" /\ req[v].step > 3
           /\ NoneUsedSince(req[v].rows)
           => \A k \in Held \cap req[v].rows : key'[k].used <= reset.since
  BY <1>1, Answering DEF LogIn
<1>4. TypeOK
  BY DEF KeysInv
<1>5. Len(codes') \in Nat /\ Len(codes) <= Len(codes')
  BY <1>2, <1>4 DEF TypeOK
<1>6. /\ req' \in [Workers -> Request \union {Idle}] /\ AllFit' /\ Exclusive'
      /\ ~Running(w)'
      /\ \A v \in Workers \ {w} : req'[v] = req[v] /\ (Running(v)' <=> Running(v))
  BY <1>1, <1>5, Ending
<1>7. TypeOK'
  BY <1>2, <1>3, <1>4, <1>6 DEF TypeOK
<1>8. FoundStands'
  <2>1. ASSUME NEW v \in Workers, Running(v)'
        PROVE  Found(v)'
    <3>1. v # w /\ Running(v) /\ req'[v] = req[v]
      BY <1>6, <2>1
    <3>2. Found(v)
      BY <3>1 DEF KeysInv, FoundStands
    <3>3. req[v].op = "settle" /\ req[v].step > 3 /\ req[v].verdict = "make" =>
            \A k \in Held' \cap req[v].rows : key'[k].used <= reset.since
      BY <1>3, <3>1, <3>2 DEF Found
    <3> QED
      BY <1>2, <1>3, <3>1, <3>2, <3>3 DEF Found, CodeStands, NoneUsedSince
  <2> QED
    BY <2>1 DEF FoundStands
<1> QED
  BY <1>2, <1>3, <1>6, <1>7, <1>8 DEF KeysInv, ErasedStaysErased

LEMMA GrantKeeps ==
    ASSUME KeysInv, NEW w \in Workers, GrantForPasskey(w)
    PROVE  KeysInv'
<1>1. HoldsAll(w) /\ Answers(req[w].op) /\ req' = [req EXCEPT ![w] = Idle]
  BY DEF GrantForPasskey, Commits, Answers
<1>2. UNCHANGED <<time, only, signedIn, reset, gone>>
  BY DEF GrantForPasskey, Commits
<1>3. /\ key' \in [Keys -> Key] /\ Held' = Held /\ NewAreUnused' /\ ~gone
      /\ \A v \in Workers \ {w} :
           /\ Running(v) /\ req[v].op = "settle" /\ req[v].step > 3
           /\ NoneUsedSince(req[v].rows)
           => \A k \in Held \cap req[v].rows : key'[k].used <= reset.since
  BY <1>1, Answering DEF GrantForPasskey
<1>4. TypeOK
  BY DEF KeysInv
<1>5. PICK c \in Code : NewCode(c)
  <2>1. req[w] \in Request
    BY <1>1, Finished
  <2>2. PICK q \in Request : q = req[w]
    BY <2>1
  <2>3. [for |-> q.for, by |-> "passkey", at |-> q.now, spent |-> FALSE] \in Code
    BY DEF Request, Code
  <2> QED
    BY <2>2, <2>3 DEF GrantForPasskey
<1>6. /\ codes' \in Seq(Code) /\ Len(codes') <= MaxCodes
      /\ Len(codes') \in Nat /\ Len(codes) <= Len(codes')
      /\ \A i \in 1..Len(codes) : codes'[i] = codes[i]
  BY <1>4, <1>5, Given
<1>7. /\ req' \in [Workers -> Request \union {Idle}] /\ AllFit' /\ Exclusive'
      /\ ~Running(w)'
      /\ \A v \in Workers \ {w} : req'[v] = req[v] /\ (Running(v)' <=> Running(v))
  BY <1>1, <1>6, Ending
<1>8. TypeOK'
  BY <1>2, <1>3, <1>4, <1>6, <1>7 DEF TypeOK
<1>9. FoundStands'
  <2>1. ASSUME NEW v \in Workers, Running(v)'
        PROVE  Found(v)'
    <3>1. v # w /\ Running(v) /\ req'[v] = req[v]
      BY <1>7, <2>1
    <3>2. Found(v)
      BY <3>1 DEF KeysInv, FoundStands
    <3>3. Asks(req[v].op) => codes'[req[v].code] = codes[req[v].code]
      BY <1>6, <3>1 DEF KeysInv, AllFit, FitsWorker
    <3>4. req[v].op = "settle" /\ req[v].step > 3 /\ req[v].verdict = "make" =>
            \A k \in Held' \cap req[v].rows : key'[k].used <= reset.since
      BY <1>3, <3>1, <3>2 DEF Found
    <3> QED
      BY <1>2, <1>3, <3>1, <3>2, <3>3, <3>4 DEF Found, CodeStands, NoneUsedSince
  <2> QED
    BY <2>1 DEF FoundStands
<1> QED
  BY <1>2, <1>3, <1>7, <1>8, <1>9 DEF KeysInv, ErasedStaysErased

LEMMA RequestCodeKeeps ==
    ASSUME KeysInv, NEW w \in Workers, RequestCode(w)
    PROVE  KeysInv'
<1>1. HoldsAll(w) /\ req' = [req EXCEPT ![w] = Idle]
  BY DEF RequestCode, Commits
<1>2. UNCHANGED <<time, key, only, signedIn, reset, gone>>
  BY DEF RequestCode, Commits
<1>3. Held' = Held
  BY <1>2 DEF Held
<1>4. TypeOK
  BY DEF KeysInv
<1>5. PICK c \in Code : NewCode(c)
  <2>1. req[w] \in Request
    BY <1>1, Finished
  <2>2. PICK q \in Request : q = req[w]
    BY <2>1
  <2>3. [for |-> q.for, by |-> "phone", at |-> q.now, spent |-> FALSE] \in Code
    BY DEF Request, Code
  <2> QED
    BY <2>2, <2>3 DEF RequestCode
<1>6. /\ codes' \in Seq(Code) /\ Len(codes') <= MaxCodes
      /\ Len(codes') \in Nat /\ Len(codes) <= Len(codes')
      /\ \A i \in 1..Len(codes) : codes'[i] = codes[i]
  BY <1>4, <1>5, Given
<1>7. /\ req' \in [Workers -> Request \union {Idle}] /\ AllFit' /\ Exclusive'
      /\ ~Running(w)'
      /\ \A v \in Workers \ {w} : req'[v] = req[v] /\ (Running(v)' <=> Running(v))
  BY <1>1, <1>6, Ending
<1>8. TypeOK'
  BY <1>2, <1>4, <1>6, <1>7 DEF TypeOK
<1>9. FoundStands'
  <2>1. ASSUME NEW v \in Workers, Running(v)'
        PROVE  Found(v)'
    <3>1. v # w /\ Running(v) /\ req'[v] = req[v]
      BY <1>7, <2>1
    <3>2. Found(v)
      BY <3>1 DEF KeysInv, FoundStands
    <3>3. Asks(req[v].op) => codes'[req[v].code] = codes[req[v].code]
      BY <1>6, <3>1 DEF KeysInv, AllFit, FitsWorker
    <3> QED
      BY <1>2, <1>3, <3>1, <3>2, <3>3 DEF Found, CodeStands, NoneUsedSince
  <2> QED
    BY <2>1 DEF FoundStands
<1> QED
  BY <1>2, <1>3, <1>7, <1>8, <1>9 DEF KeysInv, ErasedStaysErased, NewAreUnused

\* Whoever changes what a code allows holds the number's lock, alone, and the
\* code it shows still counts.
LEMMA Allowing ==
    ASSUME KeysInv, NEW w \in Workers, HoldsAll(w), Asks(req[w].op)
    PROVE  /\ req[w] \in Request /\ FitsWorker(w, req[w], Len(codes))
           /\ CodeStands(req[w]) /\ ~gone /\ req[w].code \in 1..Len(codes)
           /\ \A v \in Workers \ {w} :
                Running(v) => req[v] \in Request /\ (req[v].op \in Numbers => req[v].step = 1)
<1>1. /\ Running(w) /\ req[w] \in Request /\ FitsWorker(w, req[w], Len(codes))
      /\ Found(w) /\ req[w].step \in 2..5
  BY Finished
<1>2. PICK q \in Request : q = req[w] /\ q.step \in 2..5
  BY <1>1
<1>3. q.step > 1 /\ q.step # 1 /\ q.op \in Numbers
  BY <1>2 DEF Asks, Numbers
<1>4. CodeStands(q) /\ ~gone /\ q.code \in 1..Len(codes)
  BY <1>1, <1>2, <1>3 DEF Found, FitsWorker
<1>5. ASSUME NEW v \in Workers \ {w}, Running(v)
      PROVE  req[v] \in Request /\ (req[v].op \in Numbers => req[v].step = 1)
  <2>1. PICK p \in Request : p = req[v] /\ p.step \in 1..5
    BY <1>5, InFlight DEF KeysInv, Request
  <2>2. ~(p.op \in Numbers /\ p.step > 1)
    BY <1>1, <1>2, <1>3, <1>5, <2>1, Alone
  <2> QED
    BY <2>1, <2>2
<1> QED
  BY <1>1, <1>2, <1>4, <1>5

LEMMA AddKeeps ==
    ASSUME KeysInv, NEW w \in Workers, Add(w)
    PROVE  KeysInv'
<1>1. HoldsAll(w) /\ req[w].op = "add" /\ Asks(req[w].op) /\ req' = [req EXCEPT ![w] = Idle]
  BY DEF Add, Commits, Asks
<1>2. UNCHANGED <<time, only, signedIn, reset, gone>>
  BY DEF Add, Commits
<1>3. /\ req[w] \in Request /\ FitsWorker(w, req[w], Len(codes))
      /\ ~gone /\ req[w].code \in 1..Len(codes)
      /\ \A v \in Workers \ {w} :
           Running(v) => req[v] \in Request /\ (req[v].op \in Numbers => req[v].step = 1)
  BY <1>1, Allowing
<1>4. TypeOK
  BY DEF KeysInv
<1>5. CASE UNCHANGED <<key, codes>>
  BY <1>1, <1>2, <1>5, EndKeeps
<1>6. CASE /\ key[req[w].key].state = "new" /\ Spend(req[w].code)
           /\ key' = [key EXCEPT ![req[w].key].state = "held"]
  <2>1. PICK k \in Keys : k = req[w].key
    BY <1>1, <1>3 DEF FitsWorker
  <2>2. key \in [Keys -> Key] /\ key[k].state = "new" /\ key[k].used = Never
    BY <1>4, <1>6, <2>1 DEF TypeOK, KeysInv, NewAreUnused
  <2>3. PICK row : row = [key[k] EXCEPT !.state = "held"]
    OBVIOUS
  <2>4. row \in Key /\ row.state = "held" /\ row.used = Never
    BY <2>2, <2>3 DEF Key
  <2>5. key' \in [Keys -> Key] /\ \A j \in Keys : key'[j] = IF j = k THEN row ELSE key[j]
    BY <1>6, <2>1, <2>2, <2>3, <2>4
  <2>6. Held' = Held \union {k}
    BY <2>2, <2>4, <2>5 DEF Held
  <2>7. /\ codes' \in Seq(Code) /\ Len(codes') = Len(codes)
        /\ \A i \in 1..Len(codes) :
             /\ codes'[i].for = codes[i].for /\ codes'[i].by = codes[i].by
             /\ codes[i].spent => codes'[i].spent
    BY <1>3, <1>4, <1>6, Spending
  <2>8. Len(codes') \in Nat /\ Len(codes) <= Len(codes')
    BY <1>4, <2>7 DEF TypeOK
  <2>9. /\ req' \in [Workers -> Request \union {Idle}] /\ AllFit' /\ Exclusive'
        /\ ~Running(w)'
        /\ \A v \in Workers \ {w} : req'[v] = req[v] /\ (Running(v)' <=> Running(v))
    BY <1>1, <2>8, Ending
  <2>10. TypeOK'
    BY <1>2, <1>4, <2>5, <2>7, <2>9 DEF TypeOK
  <2>11. NewAreUnused'
    BY <2>4, <2>5 DEF KeysInv, NewAreUnused
  <2>12. FoundStands'
    <3>1. ASSUME NEW v \in Workers, Running(v)'
          PROVE  Found(v)'
      <4>1. v # w /\ Running(v) /\ req'[v] = req[v]
        BY <2>9, <3>1
      <4>2. PICK q \in Request : q = req[v] /\ (q.op \in Numbers => q.step = 1)
        BY <1>3, <4>1
      <4>3. Found(v) /\ (Asks(q.op) => q.code \in 1..Len(codes))
        BY <4>1, <4>2 DEF KeysInv, FoundStands, AllFit, FitsWorker
      <4>4. Asks(q.op) => q.step = 1
        BY <4>2 DEF Asks, Numbers
      <4>5. q.op = "settle" /\ q.step > 3 /\ q.verdict = "make" => NoneUsedSince(q.rows)'
        <5>1. reset.since >= 0
          BY <1>4, LimitsAssumption DEF TypeOK, Reset, NoReset, Times, Never
        <5>2. \A j \in Held : key'[j].used = key[j].used
          BY <2>2, <2>5 DEF Held
        <5>3. key'[k].used = Never
          BY <2>4, <2>5
        <5> QED
          BY <1>2, <2>6, <4>2, <4>3, <5>1, <5>2, <5>3 DEF Found, NoneUsedSince, Never
      <4> QED
        BY <1>2, <1>3, <2>6, <4>1, <4>2, <4>3, <4>4, <4>5 DEF Found
    <3> QED
      BY <3>1 DEF FoundStands
  <2> QED
    BY <1>2, <1>3, <2>9, <2>10, <2>11, <2>12 DEF KeysInv, ErasedStaysErased
<1> QED
  BY <1>5, <1>6 DEF Add

LEMMA RemoveKeeps ==
    ASSUME KeysInv, NEW w \in Workers, Remove(w)
    PROVE  KeysInv'
<1>1. HoldsAll(w) /\ req[w].op = "remove" /\ Asks(req[w].op) /\ req' = [req EXCEPT ![w] = Idle]
  BY DEF Remove, Commits, Asks
<1>2. /\ UNCHANGED <<time, signedIn, reset, gone>> /\ Spend(req[w].code)
      /\ key' = [key EXCEPT ![req[w].key].state = "removed"]
      /\ only' = (only /\ ~(req[w].saw /\ Held \subseteq {req[w].key}))
  BY DEF Remove, Commits
<1>3. /\ req[w] \in Request /\ FitsWorker(w, req[w], Len(codes))
      /\ ~gone /\ req[w].code \in 1..Len(codes)
      /\ \A v \in Workers \ {w} :
           Running(v) => req[v] \in Request /\ (req[v].op \in Numbers => req[v].step = 1)
  BY <1>1, Allowing
<1>4. TypeOK
  BY DEF KeysInv
<1>5. PICK k \in Keys : k = req[w].key
  BY <1>1, <1>3 DEF FitsWorker
<1>6. key \in [Keys -> Key]
  BY <1>4 DEF TypeOK
<1>7. PICK row : row = [key[k] EXCEPT !.state = "removed"]
  OBVIOUS
<1>8. row \in Key /\ row.state = "removed"
  BY <1>6, <1>7 DEF Key
<1>9. key' \in [Keys -> Key] /\ \A j \in Keys : key'[j] = IF j = k THEN row ELSE key[j]
  BY <1>2, <1>5, <1>6, <1>7, <1>8
<1>10. Held' = Held \ {k}
  BY <1>8, <1>9 DEF Held
<1>11. /\ codes' \in Seq(Code) /\ Len(codes') = Len(codes)
       /\ \A i \in 1..Len(codes) :
            /\ codes'[i].for = codes[i].for /\ codes'[i].by = codes[i].by
            /\ codes[i].spent => codes'[i].spent
  BY <1>2, <1>3, <1>4, Spending
<1>12. Len(codes') \in Nat /\ Len(codes) <= Len(codes')
  BY <1>4, <1>11 DEF TypeOK
<1>13. /\ req' \in [Workers -> Request \union {Idle}] /\ AllFit' /\ Exclusive'
       /\ ~Running(w)'
       /\ \A v \in Workers \ {w} : req'[v] = req[v] /\ (Running(v)' <=> Running(v))
  BY <1>1, <1>12, Ending
<1>14. only' \in BOOLEAN
  BY <1>2
<1>15. TypeOK'
  BY <1>2, <1>4, <1>9, <1>11, <1>13, <1>14 DEF TypeOK
<1>16. NewAreUnused'
  BY <1>8, <1>9 DEF KeysInv, NewAreUnused
<1>17. FoundStands'
  <2>1. ASSUME NEW v \in Workers, Running(v)'
        PROVE  Found(v)'
    <3>1. v # w /\ Running(v) /\ req'[v] = req[v]
      BY <1>13, <2>1
    <3>2. PICK q \in Request : q = req[v] /\ (q.op \in Numbers => q.step = 1)
      BY <1>3, <3>1
    <3>3. Found(v)
      BY <3>1 DEF KeysInv, FoundStands
    <3>4. Asks(q.op) => q.step = 1
      BY <3>2 DEF Asks, Numbers
    <3>5. Answers(q.op) /\ q.step > 1 => q.key # k
      <4>1. Running(w) /\ req[w].step = 4
        BY <1>1, Finished
      <4>2. req[w].step > 2
        BY <4>1
      <4> QED
        BY <1>1, <1>5, <3>1, <3>2, <4>1, <4>2, Alone
    <3>6. q.op = "settle" /\ q.step > 3 /\ q.verdict = "make" => NoneUsedSince(q.rows)'
      <4>1. \A j \in Held' : j \in Held /\ key'[j].used = key[j].used
        BY <1>9, <1>10 DEF Held
      <4> QED
        BY <1>2, <3>2, <3>3, <4>1 DEF Found, NoneUsedSince
    <3> QED
      BY <1>2, <1>3, <1>10, <3>1, <3>2, <3>3, <3>4, <3>5, <3>6 DEF Found
  <2> QED
    BY <2>1 DEF FoundStands
<1> QED
  BY <1>2, <1>3, <1>13, <1>15, <1>16, <1>17 DEF KeysInv, ErasedStaysErased

LEMMA SetPasskeyOnlyKeeps ==
    ASSUME KeysInv, NEW w \in Workers, SetPasskeyOnly(w)
    PROVE  KeysInv'
<1>1. HoldsAll(w) /\ Asks(req[w].op) /\ req' = [req EXCEPT ![w] = Idle]
  BY DEF SetPasskeyOnly, Commits, Asks
<1>2. /\ UNCHANGED <<time, key, signedIn, reset, gone>> /\ Spend(req[w].code)
      /\ only' = IF req[w].saw # (req[w].for[2] = "on") THEN req[w].for[2] = "on" ELSE only
  BY DEF SetPasskeyOnly, Commits
<1>3. /\ req[w] \in Request /\ ~gone /\ req[w].code \in 1..Len(codes)
      /\ \A v \in Workers \ {w} :
           Running(v) => req[v] \in Request /\ (req[v].op \in Numbers => req[v].step = 1)
  BY <1>1, Allowing
<1>4. TypeOK
  BY DEF KeysInv
<1>5. Held' = Held
  BY <1>2 DEF Held
<1>6. /\ codes' \in Seq(Code) /\ Len(codes') = Len(codes)
      /\ \A i \in 1..Len(codes) :
           /\ codes'[i].for = codes[i].for /\ codes'[i].by = codes[i].by
           /\ codes[i].spent => codes'[i].spent
  BY <1>2, <1>3, <1>4, Spending
<1>7. Len(codes') \in Nat /\ Len(codes) <= Len(codes')
  BY <1>4, <1>6 DEF TypeOK
<1>8. /\ req' \in [Workers -> Request \union {Idle}] /\ AllFit' /\ Exclusive'
      /\ ~Running(w)'
      /\ \A v \in Workers \ {w} : req'[v] = req[v] /\ (Running(v)' <=> Running(v))
  BY <1>1, <1>7, Ending
<1>9. only' \in BOOLEAN
  BY <1>2, <1>4 DEF TypeOK
<1>10. TypeOK'
  BY <1>2, <1>4, <1>6, <1>8, <1>9 DEF TypeOK
<1>11. FoundStands'
  <2>1. ASSUME NEW v \in Workers, Running(v)'
        PROVE  Found(v)'
    <3>1. v # w /\ Running(v) /\ req'[v] = req[v]
      BY <1>8, <2>1
    <3>2. PICK q \in Request : q = req[v] /\ (q.op \in Numbers => q.step = 1)
      BY <1>3, <3>1
    <3>3. Found(v)
      BY <3>1 DEF KeysInv, FoundStands
    <3>4. Asks(q.op) => q.step = 1
      BY <3>2 DEF Asks, Numbers
    <3> QED
      BY <1>2, <1>3, <1>5, <3>1, <3>2, <3>3, <3>4 DEF Found, NoneUsedSince
  <2> QED
    BY <2>1 DEF FoundStands
<1> QED
  BY <1>2, <1>3, <1>8, <1>10, <1>11 DEF KeysInv, ErasedStaysErased, NewAreUnused

LEMMA RequestResetKeeps ==
    ASSUME KeysInv, NEW w \in Workers, RequestReset(w)
    PROVE  KeysInv'
<1>1. HoldsAll(w) /\ req[w].op = "reset" /\ req' = [req EXCEPT ![w] = Idle]
  BY DEF RequestReset, Commits
<1>2. /\ UNCHANGED <<time, key, only, signedIn, codes, gone>>
      /\ reset' = IF reset # NoReset /\ ~Stopped THEN reset
                  ELSE [since |-> req[w].now, due |-> req[w].now + ResetWait]
  BY DEF RequestReset, Commits
<1>3. /\ Running(w) /\ req[w] \in Request /\ Found(w) /\ req[w].step = 4
  BY <1>1, Finished
<1>4. TypeOK
  BY DEF KeysInv
<1>5. Held' = Held
  BY <1>2 DEF Held
<1>6. reset' \in Reset \union {NoReset}
  <2>1. PICK q \in Request : q = req[w]
    BY <1>3
  <2>2. [since |-> q.now, due |-> q.now + ResetWait] \in Reset
    BY LimitsAssumption DEF Request, Reset, Times
  <2>3. reset \in Reset \union {NoReset}
    BY <1>4 DEF TypeOK
  <2> QED
    BY <1>2, <2>1, <2>2, <2>3
<1>7. ~gone
  BY <1>1, <1>3 DEF Found
<1>8. Len(codes') \in Nat /\ Len(codes) <= Len(codes')
  BY <1>2, <1>4 DEF TypeOK
<1>9. /\ req' \in [Workers -> Request \union {Idle}] /\ AllFit' /\ Exclusive'
      /\ ~Running(w)'
      /\ \A v \in Workers \ {w} : req'[v] = req[v] /\ (Running(v)' <=> Running(v))
  BY <1>1, <1>8, Ending
<1>10. TypeOK'
  BY <1>2, <1>4, <1>6, <1>9 DEF TypeOK
<1>11. FoundStands'
  <2>1. ASSUME NEW v \in Workers, Running(v)'
        PROVE  Found(v)'
    <3>1. v # w /\ Running(v) /\ req'[v] = req[v]
      BY <1>9, <2>1
    <3>2. PICK q \in Request : q = req[v] /\ q.step \in 1..5
      BY <1>4, <3>1, InFlight DEF Request
    <3>3. Found(v)
      BY <3>1 DEF KeysInv, FoundStands
    <3>4. ~(q.op = "settle" /\ q.step > 1)
      <4>1. req[w].step > 2
        BY <1>3
      <4> QED
        BY <1>1, <1>3, <3>1, <3>2, <4>1, Alone
    <3>5. ~(q.op = "settle" /\ q.step > 3)
      BY <3>2, <3>4
    <3> QED
      BY <1>2, <1>5, <3>1, <3>2, <3>3, <3>5 DEF Found, CodeStands
  <2> QED
    BY <2>1 DEF FoundStands
<1> QED
  BY <1>2, <1>5, <1>7, <1>9, <1>10, <1>11 DEF KeysInv, ErasedStaysErased, NewAreUnused

\* All keys an account holds become removed ones.
RemoveAll ==
    key' = [k \in Keys |->
              IF k \in Held THEN [key[k] EXCEPT !.state = "removed"] ELSE key[k]]

LEMMA RemovingAll ==
    ASSUME KeysInv, RemoveAll
    PROVE  key' \in [Keys -> Key] /\ Held' = {} /\ NewAreUnused'
<1>1. key \in [Keys -> Key]
  BY DEF KeysInv, TypeOK
<1>2. ASSUME NEW k \in Keys
      PROVE  /\ key'[k] \in Key /\ key'[k].state # "held"
             /\ key'[k].state = "new" => key'[k].used = Never
  <2>1. key[k] \in Key
    BY <1>1, <1>2
  <2>2. CASE k \in Held
    <3>1. key'[k] = [key[k] EXCEPT !.state = "removed"]
      BY <1>2, <2>2 DEF RemoveAll
    <3>2. PICK row \in Key : row = key[k]
      BY <2>1
    <3>3. /\ [row EXCEPT !.state = "removed"] \in Key
          /\ [row EXCEPT !.state = "removed"].state = "removed"
      BY DEF Key
    <3> QED
      BY <3>1, <3>2, <3>3
  <2>3. CASE k \notin Held
    <3>1. key'[k] = key[k]
      BY <1>2, <2>3 DEF RemoveAll
    <3> QED
      BY <1>2, <2>1, <2>3, <3>1 DEF Held, KeysInv, NewAreUnused
  <2> QED
    BY <2>2, <2>3
<1>3. key' \in [Keys -> Key]
  BY <1>2 DEF RemoveAll
<1> QED
  BY <1>2, <1>3 DEF Held, NewAreUnused

LEMMA SettleKeeps ==
    ASSUME KeysInv, NEW w \in Workers, Settle(w)
    PROVE  KeysInv'
<1>1. HoldsAll(w) /\ req[w].op = "settle" /\ req' = [req EXCEPT ![w] = Idle]
  BY DEF Settle, Commits
<1>2. UNCHANGED <<time, signedIn, codes, gone>>
  BY DEF Settle, Commits
<1>3. /\ Running(w) /\ req[w] \in Request /\ w = Settler
      /\ req[w].verdict = "make" => req[w].step = 5
  BY <1>1, Finished DEF FitsWorker
<1>4. TypeOK
  BY DEF KeysInv
<1>5. Len(codes') \in Nat /\ Len(codes) <= Len(codes')
  BY <1>2, <1>4 DEF TypeOK
<1>6. /\ req' \in [Workers -> Request \union {Idle}] /\ AllFit' /\ Exclusive'
      /\ ~Running(w)'
      /\ \A v \in Workers \ {w} : req'[v] = req[v] /\ (Running(v)' <=> Running(v))
  BY <1>1, <1>5, Ending
<1>7. ASSUME NEW v \in Workers \ {w}, Running(v)
      PROVE  req[v].op # "settle"
  BY <1>3, <1>7 DEF KeysInv, AllFit, FitsWorker
<1>8. CASE UNCHANGED <<key, only>> /\ reset' \in {reset, NoReset}
  <2>1. Held' = Held
    BY <1>8 DEF Held
  <2>2. TypeOK'
    BY <1>2, <1>4, <1>6, <1>8 DEF TypeOK
  <2>3. FoundStands'
    <3>1. ASSUME NEW v \in Workers, Running(v)'
          PROVE  Found(v)'
      <4>1. v # w /\ Running(v) /\ req'[v] = req[v]
        BY <1>6, <3>1
      <4>2. Found(v) /\ req[v].op # "settle"
        BY <1>7, <4>1 DEF KeysInv, FoundStands
      <4> QED
        BY <1>2, <2>1, <4>1, <4>2 DEF Found, CodeStands
    <3> QED
      BY <3>1 DEF FoundStands
  <2> QED
    BY <1>2, <1>6, <1>8, <2>1, <2>2, <2>3 DEF KeysInv, ErasedStaysErased, NewAreUnused
<1>9. CASE req[w].verdict = "make" /\ RemoveAll /\ only' = FALSE /\ reset' = NoReset
  <2>1. key' \in [Keys -> Key] /\ Held' = {} /\ NewAreUnused'
    BY <1>9, RemovingAll
  <2>2. TypeOK'
    BY <1>2, <1>4, <1>6, <1>9, <2>1 DEF TypeOK
  <2>3. FoundStands'
    <3>1. ASSUME NEW v \in Workers, Running(v)'
          PROVE  Found(v)'
      <4>1. v # w /\ Running(v) /\ req'[v] = req[v]
        BY <1>6, <3>1
      <4>2. Found(v) /\ req[v].op # "settle"
        BY <1>7, <4>1 DEF KeysInv, FoundStands
      <4>3. ~(Answers(req[v].op) /\ req[v].step > 1)
        <5>1. req[w].step > 4
          BY <1>3, <1>9
        <5> QED
          BY <1>1, <1>3, <1>9, <4>1, <5>1, Alone
      <4> QED
        BY <1>2, <2>1, <4>1, <4>2, <4>3 DEF Found, CodeStands
    <3> QED
      BY <3>1 DEF FoundStands
  <2> QED
    BY <1>2, <1>6, <1>9, <2>1, <2>2, <2>3 DEF KeysInv, ErasedStaysErased
<1> QED
  BY <1>8, <1>9 DEF Settle, RemoveAll

LEMMA EraseKeeps ==
    ASSUME KeysInv, NEW w \in Workers, Erase(w)
    PROVE  KeysInv'
<1>1. HoldsAll(w) /\ req[w].op = "erase" /\ req' = [req EXCEPT ![w] = Idle]
  BY DEF Erase, Commits
<1>2. /\ UNCHANGED time /\ RemoveAll /\ only' = FALSE /\ signedIn' = FALSE
      /\ codes' = [i \in DOMAIN codes |-> [codes[i] EXCEPT !.spent = TRUE]]
      /\ reset' = NoReset /\ gone' = TRUE
  BY DEF Erase, Commits, RemoveAll
<1>3. Running(w) /\ req[w] \in Request /\ req[w].step = 5
  BY <1>1, Finished
<1>4. TypeOK
  BY DEF KeysInv
<1>5. key' \in [Keys -> Key] /\ Held' = {} /\ NewAreUnused'
  BY <1>2, RemovingAll
<1>6. /\ codes' \in Seq(Code) /\ Len(codes') = Len(codes) /\ Len(codes) \in Nat
      /\ \A i \in 1..Len(codes) : codes'[i].spent
  <2>1. codes \in Seq(Code) /\ Len(codes) \in Nat /\ DOMAIN codes = 1..Len(codes)
    BY <1>4 DEF TypeOK
  <2>2. ASSUME NEW i \in 1..Len(codes)
        PROVE  codes'[i] \in Code /\ codes'[i].spent
    <3>1. PICK c \in Code : c = codes[i]
      BY <2>1, <2>2
    <3>2. codes'[i] = [c EXCEPT !.spent = TRUE]
      BY <1>2, <2>1, <3>1
    <3> QED
      BY <3>2 DEF Code
  <2>3. codes' \in [1..Len(codes) -> Code]
    BY <1>2, <2>1, <2>2
  <2> QED
    BY <2>1, <2>2, <2>3
<1>7. Len(codes') \in Nat /\ Len(codes) <= Len(codes')
  BY <1>6
<1>8. /\ req' \in [Workers -> Request \union {Idle}] /\ AllFit' /\ Exclusive'
      /\ ~Running(w)'
      /\ \A v \in Workers \ {w} : req'[v] = req[v] /\ (Running(v)' <=> Running(v))
  BY <1>1, <1>7, Ending
<1>9. TypeOK'
  BY <1>2, <1>4, <1>5, <1>6, <1>8 DEF TypeOK
<1>10. FoundStands'
  <2>1. ASSUME NEW v \in Workers, Running(v)'
        PROVE  Found(v)'
    <3>1. v # w /\ Running(v) /\ req'[v] = req[v]
      BY <1>8, <2>1
    <3>2. PICK q \in Request : q = req[v] /\ q.step \in 1..5
      BY <1>4, <3>1, InFlight DEF Request
    <3>3. PICK s : s = req[w].step /\ s = 5
      BY <1>3
    <3>4. s > 1 /\ s > 3 /\ s > 4
      BY <3>3
    <3>5. "erase" \in Numbers /\ ~Answers("erase")
      BY DEF Numbers, Answers
    <3>6. q.op \in Numbers => q.step = 1
      <4>1. ~(q.op \in Numbers /\ q.step > 1)
        BY <1>1, <1>3, <3>1, <3>2, <3>3, <3>4, <3>5, Alone
      <4> QED
        BY <3>2, <4>1
    <3>7. Answers(q.op) => q.step = 1
      <4>1. ~(Answers(q.op) /\ q.step > 1)
        BY <1>1, <1>3, <3>1, <3>2, <3>3, <3>4, Alone
      <4> QED
        BY <3>2, <4>1
    <3>8. q.op = "settle" => q.step = 1
      <4>1. ~(q.op = "settle" /\ q.step > 1)
        BY <1>1, <1>3, <3>1, <3>2, <3>3, <3>4, Alone
      <4> QED
        BY <3>2, <4>1
    <3>9. Asks(q.op) \/ q.op = "reset" => q.op \in Numbers
      BY DEF Asks, Numbers
    <3>10. Asks(q.op) => codes'[q.code].spent
      BY <1>6, <3>1, <3>2 DEF KeysInv, AllFit, FitsWorker
    <3> QED
      BY <3>1, <3>2, <3>6, <3>7, <3>8, <3>9, <3>10 DEF Found
  <2> QED
    BY <2>1 DEF FoundStands
<1> QED
  BY <1>2, <1>5, <1>8, <1>9, <1>10 DEF KeysInv, ErasedStaysErased

\* The clock is not part of it.
LEMMA ClockKeeps ==
    ASSUME KeysInv, UNCHANGED <<key, only, signedIn, codes, reset, gone, req>>, time' \in Times
    PROVE  KeysInv'
<1>1. TypeOK'
  BY DEF KeysInv, TypeOK
<1>2. \A w \in Workers : Running(w)' <=> Running(w)
  BY DEF Running
<1>3. \A w \in Workers : HeldBy(w)' = HeldBy(w)
  BY DEF HeldBy, Running
<1>4. AllFit'
  BY <1>2 DEF KeysInv, AllFit
<1>5. Exclusive'
  BY <1>3 DEF KeysInv, Exclusive
<1>6. FoundStands'
  <2>1. ASSUME NEW w \in Workers, Running(w)
        PROVE  Found(w)'
    <3>1. Found(w)
      BY <2>1 DEF KeysInv, FoundStands
    <3> QED
      BY <3>1 DEF Found, CodeStands, NoneUsedSince, Held
  <2> QED
    BY <1>2, <2>1 DEF FoundStands
<1>7. NewAreUnused' /\ ErasedStaysErased'
  BY DEF KeysInv, NewAreUnused, ErasedStaysErased, Held
<1> QED
  BY <1>1, <1>4, <1>5, <1>6, <1>7 DEF KeysInv

-----------------------------------------------------------------------------
(* The invariant holds.                                                       *)

LEMMA Initially == Init => KeysInv
<1> SUFFICES ASSUME Init
             PROVE  KeysInv
  OBVIOUS
<1>1. \A w \in Workers : ~Running(w) /\ HeldBy(w) = {}
  BY DEF Init, Running, HeldBy
<1>2. TypeOK
  <2>1. key \in [Keys -> Key]
    BY DEF Init, Key
  <2>2. time \in Times /\ only \in BOOLEAN /\ signedIn \in BOOLEAN /\ gone \in BOOLEAN
    <3>1. 1 \in Times
      BY LimitsAssumption DEF Times
    <3> QED
      BY <3>1 DEF Init
  <2>3. codes \in Seq(Code) /\ Len(codes) <= MaxCodes
    BY LimitsAssumption DEF Init
  <2>4. req \in [Workers -> Request \union {Idle}]
    BY DEF Init
  <2> QED
    BY <2>1, <2>2, <2>3, <2>4 DEF Init, TypeOK
<1>3. NewAreUnused
  BY DEF Init, NewAreUnused
<1> QED
  BY <1>1, <1>2, <1>3 DEF Init, KeysInv, AllFit, Exclusive, FoundStands, ErasedStaysErased

LEMMA StepKeeps == KeysInv /\ [Next]_vars => KeysInv'
<1> SUFFICES ASSUME KeysInv, [Next]_vars
             PROVE  KeysInv'
  OBVIOUS
<1>1. ASSUME NEW r \in Requests, Begin(r)
      PROVE  KeysInv'
  BY <1>1, DevicesBegin, BeginKeeps, Jobs
<1>2. CASE BeginSettle
  BY <1>2, JobsBegin, BeginKeeps, Jobs
<1>3. CASE BeginErase
  BY <1>3, JobsBegin, BeginKeeps, Jobs
<1>4. ASSUME NEW w \in Workers, Step(w)
      PROVE  KeysInv'
  <2>1. CASE Lock(w)
    BY <2>1, LockKeeps
  <2>2. CASE EndDeadlock(w)
    BY <2>2, EndKeeps DEF EndDeadlock
  <2>12. CASE FindKeys(w)
    BY <2>12, FindKeysKeeps
  <2>3. CASE LogIn(w)
    BY <2>3, LogInKeeps
  <2>4. CASE GrantForPasskey(w)
    BY <2>4, GrantKeeps
  <2>5. CASE RequestCode(w)
    BY <2>5, RequestCodeKeeps
  <2>6. CASE Add(w)
    BY <2>6, AddKeeps
  <2>7. CASE Remove(w)
    BY <2>7, RemoveKeeps
  <2>8. CASE SetPasskeyOnly(w)
    BY <2>8, SetPasskeyOnlyKeeps
  <2>9. CASE RequestReset(w)
    BY <2>9, RequestResetKeeps
  <2>10. CASE Settle(w)
    BY <2>10, SettleKeeps
  <2>11. CASE Erase(w)
    BY <2>11, EraseKeeps
  <2> QED
    BY <1>4, <2>1, <2>2, <2>3, <2>4, <2>5, <2>6, <2>7, <2>8, <2>9, <2>10, <2>11, <2>12
       DEF Step
<1>5. CASE Tick
  <2>1. time' \in Times
    BY <1>5, LimitsAssumption DEF Tick, KeysInv, TypeOK, Times
  <2> QED
    BY <1>5, <2>1, ClockKeeps DEF Tick
<1>6. CASE UNCHANGED vars
  <2>1. time' \in Times /\ UNCHANGED <<key, only, signedIn, codes, reset, gone, req>>
    BY <1>6 DEF vars, KeysInv, TypeOK
  <2> QED
    BY <2>1, ClockKeeps
<1> QED
  BY <1>1, <1>2, <1>3, <1>4, <1>5, <1>6 DEF Next

THEOREM KeysHold == Spec => []KeysInv
<1>1. Init => KeysInv
  BY Initially
<1>2. KeysInv /\ [Next]_vars => KeysInv'
  BY StepKeeps
<1> QED
  BY <1>1, <1>2, PTL DEF Spec

-----------------------------------------------------------------------------
(* What the invariant shows.                                                  *)

\* What is stored is well formed, before an erasure and for ever after one.
THEOREM KeysStayInOrder == Spec => []KeysAreInOrder
<1>1. KeysInv => KeysAreInOrder
  BY DEF KeysInv, KeysAreInOrder
<1> QED
  BY <1>1, KeysHold, PTL

\* Everybody but the erasure takes the number first, then the reset's row, then
\* keys, then the account.
Rank(table) == CASE table = "phone" -> 0 [] table = "reset" -> 1
                 [] table = "key" -> 2 [] table = "account" -> 3

LEMMA Ranks ==
    /\ Rank(Phone.table) = 0 /\ Rank(ResetRow.table) = 1
    /\ \A ks : Rank(KeyRows(ks).table) = 2
    /\ \A mode : Rank(Account(mode).table) = 3
BY DEF Rank, Phone, ResetRow, KeyRows, Account, Row

\* The job that makes the reset comes back to the keys, after the account.
LEMMA InRank ==
    ASSUME NEW q \in Request, q.op # "erase",
           NEW i \in 1..Len(LockOrder(q)), NEW j \in 1..Len(LockOrder(q)), i < j,
           q.op = "settle" => j \in 1..3
    PROVE  /\ Rank(LockOrder(q)[i].table) < Rank(LockOrder(q)[j].table)
           /\ Rank(LockOrder(q)[i].table) \in 0..3 /\ Rank(LockOrder(q)[j].table) \in 0..3
<1>1. PICK o : o = LockOrder(q)
  OBVIOUS
<1>2. PICK rank : rank = [k \in 1..4 |-> Rank(o[k].table)]
  OBVIOUS
<1>3. PICK n : n = IF q.op = "settle" THEN 3 ELSE Len(o)
  OBVIOUS
<1>4. \/ n = 1
      \/ n = 2 /\ rank[1] \in 0..3 /\ rank[2] \in 0..3 /\ rank[1] < rank[2]
      \/ /\ n = 3 /\ rank[1] \in 0..3 /\ rank[2] \in 0..3 /\ rank[3] \in 0..3
         /\ rank[1] < rank[2] /\ rank[2] < rank[3]
  <2>1. CASE Answers(q.op)
    <3>1. o = <<KeyRows({q.key}), Account("key_share")>>
      BY <1>1, <2>1, Orders
    <3>2. Len(o) = 2 /\ o[1] = KeyRows({q.key}) /\ o[2] = Account("key_share")
      BY <3>1
    <3> QED
      BY <1>2, <1>3, <2>1, <3>2, Ranks DEF Answers
  <2>2. CASE q.op \in {"ask_code", "add"}
    <3>1. o = <<Phone, Account("key_share")>> \/ o = <<Phone, Account("no_key_update")>>
      BY <1>1, <2>2, Orders
    <3>2. PICK mode : o = <<Phone, Account(mode)>>
      BY <3>1
    <3>3. Len(o) = 2 /\ o[1] = Phone /\ o[2] = Account(mode)
      BY <3>2
    <3> QED
      BY <1>2, <1>3, <2>2, <3>3, Ranks
  <2>3. CASE q.op = "remove"
    <3>1. o = <<Phone, KeyRows({q.key}), Account("no_key_update")>>
      BY <1>1, <2>3, Orders
    <3>2. /\ Len(o) = 3 /\ o[1] = Phone /\ o[2] = KeyRows({q.key})
          /\ o[3] = Account("no_key_update")
      BY <3>1
    <3> QED
      BY <1>2, <1>3, <2>3, <3>2, Ranks
  <2>4. CASE q.op = "only"
    <3>1. o = <<Phone>> \/ o = <<Phone, Account("no_key_update")>>
      BY <1>1, <2>4, Orders
    <3>2. \/ Len(o) = 1
          \/ Len(o) = 2 /\ o[1] = Phone /\ o[2] = Account("no_key_update")
      BY <3>1
    <3> QED
      BY <1>2, <1>3, <2>4, <3>2, Ranks
  <2>5. CASE q.op = "reset"
    <3>1. o = <<Phone, ResetRow, Account("key_share")>>
      BY <1>1, <2>5, Orders
    <3>2. Len(o) = 3 /\ o[1] = Phone /\ o[2] = ResetRow /\ o[3] = Account("key_share")
      BY <3>1
    <3> QED
      BY <1>2, <1>3, <2>5, <3>2, Ranks
  <2>6. CASE q.op = "settle"
    <3>1. o[1] = ResetRow /\ o[2] = KeyRows(q.rows) /\ o[3] = Account("no_key_update")
      BY <1>1, <2>6, Lengths
    <3> QED
      BY <1>2, <1>3, <2>6, <3>1, Ranks
  <2> QED
    BY <2>1, <2>2, <2>3, <2>4, <2>5, <2>6, Ops DEF Answers
<1>5. i \in 1..n /\ j \in 1..n
  <2>1. CASE q.op = "settle"
    <3>1. PICK len \in 3..4 : len = Len(LockOrder(q))
      BY <2>1, SettleOrder
    <3>2. i \in 1..len /\ j \in 1..3
      BY <2>1, <3>1
    <3> QED
      BY <1>3, <2>1, <3>2
  <2>2. CASE q.op # "settle"
    BY <1>1, <1>3, <2>2
  <2> QED
    BY <2>1, <2>2
<1>6. \/ n = 2 /\ i = 1 /\ j = 2
      \/ n = 3 /\ <<i, j>> \in {<<1, 2>>, <<1, 3>>, <<2, 3>>}
  <2>1. n \in {1, 2, 3}
    BY <1>4
  <2> QED
    BY <1>5, <2>1
<1>7. rank[i] < rank[j] /\ rank[i] \in 0..3 /\ rank[j] \in 0..3 /\ i \in 1..4 /\ j \in 1..4
  <2>1. CASE n = 2
    BY <1>4, <1>6, <2>1
  <2>2. CASE n = 3
    <3>1. /\ rank[1] \in 0..3 /\ rank[2] \in 0..3 /\ rank[3] \in 0..3
          /\ rank[1] < rank[2] /\ rank[2] < rank[3]
      BY <1>4, <2>2
    <3> QED
      BY <1>6, <2>2, <3>1
  <2> QED
    BY <1>6, <2>1, <2>2
<1> QED
  BY <1>1, <1>2, <1>7

\* A row that points at the account waits for nobody but the erasure, and who
\* holds a key's row is a sign-in, a removal, a job that settles, or the erasure.
LEMMA WhatIsHeld ==
    ASSUME NEW q \in Request, q.op # "erase", q.step <= Len(LockOrder(q)) + 1,
           NEW held \in HeldOf(q)
    PROVE  /\ ~Conflict(Account("key_share"), held)
           /\ held.table = "key" =>
                \/ q.op = "settle"
                \/ Answers(q.op) /\ q.step > 1
                \/ q.op = "remove" /\ q.step > 2
<1>1. PICK o : o = LockOrder(q)
  OBVIOUS
<1>2. PICK n \in 1..4 : n = Len(o)
  BY <1>1, Lengths
<1>3. PICK i \in 1..(q.step - 1) : held = o[i]
  BY <1>1 DEF HeldOf
<1>4. i \in 1..n /\ i < q.step /\ q.step > 1
  BY <1>1, <1>2, <1>3 DEF Request
<1>5. Phone.table = "phone" /\ ResetRow.table = "reset"
  BY DEF Phone, ResetRow, Row
<1>6. /\ \A mode : Account(mode).table = "account" /\ Account(mode).mode = mode
      /\ \A ks : KeyRows(ks).table = "key"
  BY DEF Account, KeyRows, Row
<1>7. {{"key_share"}, {"key_share", "no_key_update"}} = Compatible
  BY DEF Compatible
<1>8. /\ ~Conflict(Account("key_share"), Account("key_share"))
      /\ ~Conflict(Account("key_share"), Account("no_key_update"))
  <2>1. {"key_share", "key_share"} \in Compatible /\ {"key_share", "no_key_update"} \in Compatible
    BY <1>7
  <2> QED
    BY <1>6, <2>1 DEF Conflict
<1>9. \A row : row.table # "account" => ~Conflict(Account("key_share"), row)
  BY <1>6 DEF Conflict
<1>10. CASE Answers(q.op)
  <2>1. o = <<KeyRows({q.key}), Account("key_share")>>
    BY <1>1, <1>10, Orders
  <2>2. held = KeyRows({q.key}) \/ held = Account("key_share")
    BY <1>2, <1>3, <1>4, <2>1
  <2> QED
    BY <1>4, <1>6, <1>8, <1>9, <1>10, <2>2
<1>11. CASE q.op \in {"ask_code", "add", "only"}
  <2>1. \/ o = <<Phone>>
        \/ o = <<Phone, Account("key_share")>>
        \/ o = <<Phone, Account("no_key_update")>>
    BY <1>1, <1>11, Orders
  <2>2. held \in {Phone, Account("key_share"), Account("no_key_update")}
    BY <1>2, <1>3, <1>4, <2>1
  <2> QED
    BY <1>5, <1>6, <1>8, <1>9, <2>2
<1>12. CASE q.op = "remove"
  <2>1. o = <<Phone, KeyRows({q.key}), Account("no_key_update")>>
    BY <1>1, <1>12, Orders
  <2>2. \/ held = Phone
        \/ held = KeyRows({q.key}) /\ i = 2
        \/ held = Account("no_key_update")
    BY <1>2, <1>3, <1>4, <2>1
  <2>3. i = 2 => q.step > 2
    BY <1>4
  <2> QED
    BY <1>5, <1>6, <1>8, <1>9, <1>12, <2>2, <2>3
<1>13. CASE q.op = "reset"
  <2>1. o = <<Phone, ResetRow, Account("key_share")>>
    BY <1>1, <1>13, Orders
  <2>2. held \in {Phone, ResetRow, Account("key_share")}
    BY <1>2, <1>3, <1>4, <2>1
  <2> QED
    BY <1>5, <1>6, <1>8, <1>9, <2>2
<1>14. CASE q.op = "settle"
  <2>1. \/ o = <<ResetRow, KeyRows(q.rows), Account("no_key_update")>>
        \/ o = <<ResetRow, KeyRows(q.rows), Account("no_key_update"), KeyRows(Keys)>>
    BY <1>1, <1>14, Orders
  <2>2. held \in {ResetRow, KeyRows(q.rows), Account("no_key_update"), KeyRows(Keys)}
    BY <1>2, <1>3, <1>4, <2>1
  <2> QED
    BY <1>5, <1>6, <1>8, <1>9, <1>14, <2>2
<1> QED
  BY <1>10, <1>11, <1>12, <1>13, <1>14, Ops DEF Answers

\* Nobody else is ever in a circle.  A job that waits for a key with the account
\* in its hands waits for a late key's removal, as whoever signs in with one goes
\* on.  If none does, whoever waits for another of them wants a lock of a higher
\* rank than its own, so the one that wants the highest waits for nobody.
LEMMA NoCircle == KeysInv => OnlyErasureOrALateKeyDeadlocks
<1> SUFFICES ASSUME KeysInv, NEW S \in SUBSET {w \in Workers : Running(w)}, Stuck(S),
                    Eraser \notin S,
                    ~(Settler \in S /\ \E w \in S :
                        req[w].op = "remove" /\ req[w].key \notin req[Settler].rows)
             PROVE  FALSE
  BY DEF OnlyErasureOrALateKeyDeadlocks
<1> DEFINE R(v) == Rank(NextLock(v).table)
<1>1. ASSUME NEW w \in S
      PROVE  \E q \in Request, n \in 1..4 :
                /\ q = req[w] /\ HeldBy(w) = HeldOf(q) /\ n = Len(LockOrder(q))
                /\ q.op # "erase" /\ (q.op = "settle" <=> w = Settler)
                /\ q.step \in 1..n /\ NextLock(w) = LockOrder(q)[q.step]
  <2>1. Running(w) /\ w \in Workers /\ ~HoldsAll(w)
    BY DEF Stuck, WaitsFor
  <2>2. PICK q \in Request : q = req[w] /\ HeldBy(w) = HeldOf(q)
    BY <2>1, InFlight DEF KeysInv
  <2>3. q.op # "erase" /\ (q.op = "settle" <=> w = Settler)
    BY <2>1, <2>2 DEF KeysInv, AllFit, FitsWorker
  <2>4. q.step \in 1..5 /\ ~(q.step > Len(LockOrder(q)))
    BY <2>1, <2>2 DEF HoldsAll, Request
  <2>5. PICK n \in 1..4 : n = Len(LockOrder(q))
    BY Lengths
  <2>6. q.step \in 1..n /\ NextLock(w) = LockOrder(q)[q.step]
    BY <2>2, <2>4, <2>5 DEF NextLock
  <2> QED
    BY <2>2, <2>3, <2>5, <2>6
<1>2. ASSUME NEW w \in S, NEW held \in HeldBy(w)
      PROVE  /\ ~Conflict(Account("key_share"), held)
             /\ held.table = "key" =>
                  \/ req[w].op = "settle"
                  \/ Answers(req[w].op) /\ req[w].step > 1
                  \/ req[w].op = "remove" /\ req[w].step > 2
  <2>1. PICK q \in Request, n \in 1..4 :
           /\ q = req[w] /\ HeldBy(w) = HeldOf(q) /\ n = Len(LockOrder(q))
           /\ q.op # "erase" /\ q.step \in 1..n
    BY <1>1
  <2>2. q.step <= Len(LockOrder(q)) + 1 /\ held \in HeldOf(q)
    BY <1>2, <2>1
  <2> QED
    BY <2>1, <2>2, WhatIsHeld
<1>3. ASSUME NEW v \in S, req[v].op = "settle", req[v].step = 4
      PROVE  FALSE
  <2>1. PICK p \in Request, n \in 1..4 :
           /\ p = req[v] /\ n = Len(LockOrder(p)) /\ v = Settler /\ p.step \in 1..n
           /\ NextLock(v) = LockOrder(p)[p.step] /\ p.op = "settle" /\ p.step = 4
    BY <1>1, <1>3
  <2>2. NextLock(v).table = "key"
    <3>1. NextLock(v) = KeyRows(Keys)
      BY <2>1, TheKeysAgain
    <3> QED
      BY <3>1 DEF KeyRows, Row
  <2>3. PICK w \in S : v # w /\ \E held \in HeldBy(w) : Conflict(NextLock(v), held)
    BY DEF Stuck, WaitsFor
  <2>4. PICK held \in HeldBy(w) : held.table = "key"
    BY <2>2, <2>3 DEF Conflict
  <2>5. PICK q \in Request, m \in 1..4 :
           /\ q = req[w] /\ m = Len(LockOrder(q)) /\ q.op # "settle" /\ q.step \in 1..m
           /\ NextLock(w) = LockOrder(q)[q.step]
    BY <1>1, <2>1, <2>3
  <2>6. (Answers(q.op) /\ q.step > 1) \/ (q.op = "remove" /\ q.step > 2)
    BY <1>2, <2>4, <2>5
  <2>7. CASE q.op = "remove" /\ q.step > 2
    <3>1. Running(v) /\ Running(w) /\ v \in Workers /\ w \in Workers
      OBVIOUS
    <3>2. p.step > 2
      BY <2>1
    <3>3. q.key \notin p.rows
      BY <2>1, <2>3, <2>5, <2>7, <3>1, <3>2, Alone
    <3> QED
      BY <2>1, <2>5, <2>7, <3>3
  <2>8. CASE Answers(q.op) /\ q.step > 1
    <3>1. m = 2 /\ LockOrder(q) = <<KeyRows({q.key}), Account("key_share")>>
      BY <2>5, <2>8, Lengths, Orders
    <3>2. q.step = 2
      BY <2>5, <2>8, <3>1
    <3>3. NextLock(w) = Account("key_share")
      BY <2>5, <3>1, <3>2
    <3>4. PICK u \in S : \E row \in HeldBy(u) : Conflict(NextLock(w), row)
      BY DEF Stuck, WaitsFor
    <3> QED
      BY <1>2, <3>3, <3>4
  <2> QED
    BY <2>6, <2>7, <2>8
<1>4. ASSUME NEW v \in S
      PROVE  \E w \in S : R(v) < R(w) /\ R(v) \in 0..3 /\ R(w) \in 0..3
  <2>1. PICK w \in S : WaitsFor(v, w)
    BY DEF Stuck
  <2>2. PICK q \in Request, n \in 1..4 :
           /\ q = req[w] /\ HeldBy(w) = HeldOf(q) /\ n = Len(LockOrder(q))
           /\ q.op # "erase" /\ q.step \in 1..n /\ NextLock(w) = LockOrder(q)[q.step]
    BY <1>1
  <2>3. PICK held \in HeldOf(q) : NextLock(v).table = held.table
    BY <2>1, <2>2 DEF WaitsFor, Conflict
  <2>4. PICK i \in 1..(q.step - 1) : held = LockOrder(q)[i]
    BY DEF HeldOf
  <2>5. i \in 1..n /\ i < q.step
    BY <2>2, <2>4
  <2>6. q.op = "settle" => q.step \in 1..3
    <3>1. q.op = "settle" => q.step # 4
      BY <1>3, <2>2
    <3> QED
      BY <2>2, <3>1
  <2> HIDE DEF R
  <2>7. /\ Rank(held.table) < Rank(NextLock(w).table)
        /\ Rank(held.table) \in 0..3 /\ Rank(NextLock(w).table) \in 0..3
    BY <2>2, <2>4, <2>5, <2>6, InRank
  <2> QED
    BY <2>3, <2>7 DEF R
<1> HIDE DEF R
<1>5. \A v \in S : R(v) # 3
  BY <1>4
<1>6. \A v \in S : R(v) # 2
  BY <1>4, <1>5
<1>7. \A v \in S : R(v) # 1
  BY <1>4, <1>5, <1>6
<1>8. \A v \in S : R(v) # 0
  BY <1>4, <1>5, <1>6, <1>7
<1>9. S = {}
  BY <1>4, <1>5, <1>6, <1>7, <1>8
<1> QED
  BY <1>9 DEF Stuck

\* However many sign-ins, changes and jobs there are, they wait for each other in
\* a circle only with the erasure among them, or with the removal of a key that
\* was added after the job that settles resets had locked the keys it found.
THEOREM OthersNeverDeadlock == Spec => []OnlyErasureOrALateKeyDeadlocks
BY NoCircle, KeysHold, PTL

\* A step that is not a commit writes none of what is protected.
LEMMA Untouched ==
    ASSUME UNCHANGED <<key, only>>
    PROVE  ChangeIsAllowed /\ Removed = {} /\ Added = {}
BY DEF ChangeIsAllowed, Removed, Added, Held

\* What a code allows is allowed when it is spent.
LEMMA SpentIsAllowed ==
    ASSUME KeysInv, NEW q \in Request, q.code \in 1..Len(codes), CodeStands(q),
           Spend(q.code)
    PROVE  Allowed(q.for)
<1>1. codes'[q.code].spent
  BY Spending DEF KeysInv
<1>2. q.code \in DOMAIN codes
  BY DEF KeysInv, TypeOK
<1> QED
  BY <1>1, <1>2 DEF CodeStands, Allowed

LEMMA CommitIsAllowed ==
    ASSUME KeysInv, NEW w \in Workers, Step(w), ~Ends(Settler), ~Ends(Eraser)
    PROVE  ChangeIsAllowed
<1>1. CASE Lock(w) \/ FindKeys(w) \/ EndDeadlock(w) \/ RequestCode(w) \/ RequestReset(w)
  BY <1>1, Untouched DEF Lock, FindKeys, EndDeadlock, RequestCode, RequestReset
<1>2. ASSUME LogIn(w) \/ GrantForPasskey(w)
      PROVE  ChangeIsAllowed
  <2>1. HoldsAll(w) /\ Answers(req[w].op) /\ Use(req[w].key, req[w].now) /\ only' = only
    BY <1>2 DEF LogIn, GrantForPasskey, Commits, Answers
  <2>2. Held' = Held
    BY <2>1, Answering
  <2>3. Added = {} /\ Removed = {}
    BY <2>2 DEF Added, Removed, Held
  <2> QED
    BY <2>1, <2>3 DEF ChangeIsAllowed
<1>3. ASSUME Add(w)
      PROVE  ChangeIsAllowed
  <2>1. HoldsAll(w) /\ req[w].op = "add" /\ Asks(req[w].op) /\ only' = only
    BY <1>3 DEF Add, Commits, Asks
  <2>2. PICK q \in Request : /\ q = req[w] /\ q.code \in 1..Len(codes) /\ CodeStands(q)
                             /\ q.key \in Keys /\ q.for = <<"add">>
    BY <2>1, Allowing DEF FitsWorker
  <2>3. CASE UNCHANGED <<key, codes>>
    BY <2>1, <2>3, Untouched
  <2>4. CASE /\ key[q.key].state = "new" /\ Spend(q.code)
             /\ key' = [key EXCEPT ![q.key].state = "held"]
    <3>1. Allowed(<<"add">>)
      BY <2>2, <2>4, SpentIsAllowed
    <3>2. Removed = {}
      BY <2>2, <2>4 DEF Removed, Held, KeysInv, TypeOK, Key
    <3> QED
      BY <2>1, <3>1, <3>2 DEF ChangeIsAllowed
  <2> QED
    BY <1>3, <2>2, <2>3, <2>4 DEF Add
<1>4. ASSUME Remove(w)
      PROVE  ChangeIsAllowed
  <2>1. /\ HoldsAll(w) /\ req[w].op = "remove" /\ Asks(req[w].op)
        /\ key' = [key EXCEPT ![req[w].key].state = "removed"] /\ Spend(req[w].code)
        /\ only' = (only /\ ~(req[w].saw /\ Held \subseteq {req[w].key}))
    BY <1>4 DEF Remove, Commits, Asks
  <2>2. PICK q \in Request : /\ q = req[w] /\ q.code \in 1..Len(codes) /\ CodeStands(q)
                             /\ q.key \in Keys /\ q.for = <<"remove", q.key>>
    BY <2>1, Allowing DEF FitsWorker
  <2>3. Allowed(<<"remove", q.key>>)
    BY <2>1, <2>2, SpentIsAllowed
  <2>4. \A k \in Keys : key'[k].state = IF k = q.key THEN "removed" ELSE key[k].state
    BY <2>1, <2>2 DEF KeysInv, TypeOK, Key
  <2>5. Added = {} /\ Removed \subseteq {q.key} /\ Held' = Held \ {q.key}
    BY <2>4 DEF Added, Removed, Held
  <2>6. only' # only => ~only' /\ Held' = {}
    BY <2>1, <2>2, <2>5 DEF KeysInv, TypeOK
  <2> QED
    BY <2>2, <2>3, <2>5, <2>6 DEF ChangeIsAllowed
<1>5. ASSUME SetPasskeyOnly(w)
      PROVE  ChangeIsAllowed
  <2>1. /\ HoldsAll(w) /\ req[w].op = "only" /\ Asks(req[w].op)
        /\ key' = key /\ Spend(req[w].code)
        /\ only' = IF req[w].saw # (req[w].for[2] = "on") THEN req[w].for[2] = "on" ELSE only
    BY <1>5 DEF SetPasskeyOnly, Commits, Asks
  <2>2. PICK q \in Request : /\ q = req[w] /\ q.code \in 1..Len(codes) /\ CodeStands(q)
                             /\ q.for \in {<<"only", "on">>, <<"only", "off">>}
    BY <2>1, Allowing DEF FitsWorker
  <2>3. Allowed(q.for)
    BY <2>1, <2>2, SpentIsAllowed
  <2>4. Added = {} /\ Removed = {}
    BY <2>1 DEF Added, Removed, Held
  <2>5. only' # only => q.for = <<"only", IF only' THEN "on" ELSE "off">>
    <3>1. CASE q.for = <<"only", "on">>
      <4>1. q.for[2] = "on"
        BY <3>1
      <4>2. only' # only => only'
        BY <2>1, <2>2, <4>1
      <4> QED
        BY <3>1, <4>2
    <3>2. CASE q.for = <<"only", "off">>
      <4>1. q.for[2] = "off"
        BY <3>2
      <4>2. only' # only => ~only'
        BY <2>1, <2>2, <4>1
      <4> QED
        BY <3>2, <4>2
    <3> QED
      BY <2>2, <3>1, <3>2
  <2> QED
    BY <2>3, <2>4, <2>5 DEF ChangeIsAllowed
<1>6. ASSUME Settle(w) \/ Erase(w)
      PROVE  FALSE
  <2>1. HoldsAll(w) /\ req[w].op \in {"settle", "erase"} /\ req' = [req EXCEPT ![w] = Idle]
    BY <1>6 DEF Settle, Erase, Commits
  <2>2. w \in {Settler, Eraser}
    BY <2>1, Finished DEF FitsWorker
  <2>3. req'[w] = Idle
    BY <2>1 DEF KeysInv, TypeOK
  <2> QED
    BY <2>1, <2>2, <2>3 DEF Ends
<1> QED
  BY <1>1, <1>2, <1>3, <1>4, <1>5, <1>6 DEF Step

\* Each change of the keys, or of passkey-only sign-in, spends a code made for
\* exactly that change, whatever requests race; only a reset and the erasure
\* change them without.
THEOREM ChangesTakeTheirCode == Spec => ChangesAreAllowed
<1>1. ASSUME KeysInv, Next, ~Ends(Settler), ~Ends(Eraser)
      PROVE  ChangeIsAllowed
  <2>1. CASE \E w \in Workers : Step(w)
    BY <1>1, <2>1, CommitIsAllowed
  <2>2. CASE (\E r \in Requests : Begin(r)) \/ BeginSettle \/ BeginErase \/ Tick
    <3>1. UNCHANGED <<key, only>>
      BY <2>2 DEF Begin, BeginSettle, BeginErase, Began, Tick
    <3> QED
      BY <3>1, Untouched
  <2> QED
    BY <1>1, <2>1, <2>2 DEF Next
<1>2. KeysInv /\ [Next]_vars => [~Ends(Settler) /\ ~Ends(Eraser) => ChangeIsAllowed]_vars
  BY <1>1
<1> QED
  BY <1>2, KeysHold, PTL DEF Spec, ChangesAreAllowed

\* Of the keys the job that settles resets found and locked, it removes none that
\* signed in, or approved a change, since the reset was asked for, not even one
\* that was signing in as it ran.
THEOREM UsedKeysStay == Spec => UsedKeysSurviveAReset
<1>1. ASSUME KeysInv, Next, Ends(Settler), NEW k \in Removed \cap req[Settler].rows
      PROVE  key[k].used <= reset.since
  <2>1. HoldsAll(Settler) /\ req'[Settler] = Idle /\ Running(Settler)
    BY <1>1 DEF Ends, HoldsAll
  <2>2. k \in Held /\ key' # key
    BY <1>1 DEF Removed, Held
  <2>3. PICK w \in Workers : Step(w)
    BY <1>1, <2>2 DEF Next, Begin, BeginSettle, BeginErase, Began, Tick
  <2>4. w = Settler
    <3>1. SUFFICES ASSUME w # Settler
                   PROVE  FALSE
      OBVIOUS
    <3>2. key' = key \/ req' = [req EXCEPT ![w] = Idle]
      BY <2>3 DEF Step, Lock, FindKeys, EndDeadlock, LogIn, GrantForPasskey, RequestCode, Add,
         Remove, SetPasskeyOnly, RequestReset, Settle, Erase, Commits
    <3>3. req'[Settler] = req[Settler]
      <4>1. req' = [req EXCEPT ![w] = Idle] /\ Settler \in Workers
        BY <2>2, <3>2, Jobs
      <4>2. req \in [Workers -> Request \union {Idle}]
        BY <1>1 DEF KeysInv, TypeOK
      <4> QED
        BY <3>1, <4>1, <4>2
    <3> QED
      BY <2>1, <3>3 DEF Running
  <2>5. PICK q \in Request : /\ q = req[Settler] /\ q.op = "settle" /\ Found(Settler)
                             /\ q.verdict = "make" => q.step = 5
    BY <1>1, <2>1, Finished, Jobs DEF FitsWorker
  <2>6. Settle(Settler)
    BY <2>2, <2>3, <2>4, <2>5 DEF Step, Lock, FindKeys, EndDeadlock, LogIn, GrantForPasskey,
       RequestCode, Add, Remove, SetPasskeyOnly, RequestReset, Erase, Commits
  <2>7. q.verdict = "make"
    BY <2>2, <2>5, <2>6 DEF Settle
  <2>8. NoneUsedSince(q.rows)
    <3>1. q.step > 3
      BY <2>5, <2>7
    <3> QED
      BY <2>5, <2>7, <3>1 DEF Found
  <2> QED
    BY <1>1, <2>2, <2>5, <2>8 DEF NoneUsedSince
<1>2. KeysInv /\ [Next]_vars =>
        [Ends(Settler) =>
           \A k \in Removed \cap req[Settler].rows : key[k].used <= reset.since]_vars
  BY <1>1
<1> QED
  BY <1>2, KeysHold, PTL DEF Spec, UsedKeysSurviveAReset

-----------------------------------------------------------------------------
(* Where a lockout comes from.                                                *)

\* The last key goes, removed by a request that read the account before
\* passkey-only sign-in was on; or that is turned on by a request whose keys
\* went after it looked for one.
LooksTooEarly(w) ==
    /\ Ends(w)
    /\ \/ req[w].op = "remove" /\ only /\ ~req[w].saw /\ Held = {req[w].key}
       \/ req[w].op = "only" /\ req[w].for = <<"only", "on">> /\ ~req[w].saw /\ Held = {}

LockoutsComeFromEarlyLooks ==
    [][PasskeyOnlyHasAPasskey /\ ~PasskeyOnlyHasAPasskey' =>
         \E w \in Workers : LooksTooEarly(w)]_vars

LEMMA LockedOutBy ==
    ASSUME KeysInv, NEW w \in Workers, Step(w),
           PasskeyOnlyHasAPasskey, only', Held' = {}
    PROVE  LooksTooEarly(w)
<1>1. UNCHANGED key => Held' = Held
  BY DEF Held
<1>2. ~(UNCHANGED <<key, only>>)
  BY <1>1 DEF PasskeyOnlyHasAPasskey
<1>3. /\ ~Lock(w) /\ ~FindKeys(w) /\ ~EndDeadlock(w)
      /\ ~RequestCode(w) /\ ~RequestReset(w)
  BY <1>2 DEF Lock, FindKeys, EndDeadlock, RequestCode, RequestReset
<1>4. ~LogIn(w) /\ ~GrantForPasskey(w)
  <2>1. ASSUME LogIn(w) \/ GrantForPasskey(w)
        PROVE  FALSE
    <3>1. HoldsAll(w) /\ Answers(req[w].op) /\ Use(req[w].key, req[w].now) /\ only' = only
      BY <2>1 DEF LogIn, GrantForPasskey, Commits, Answers
    <3>2. Held' = Held
      BY <3>1, Answering
    <3> QED
      BY <3>1, <3>2 DEF PasskeyOnlyHasAPasskey
  <2> QED
    BY <2>1
<1>5. ~Add(w)
  <2>1. ASSUME Add(w)
        PROVE  FALSE
    <3>1. HoldsAll(w) /\ req[w].op = "add" /\ only' = only
      BY <2>1 DEF Add, Commits
    <3>2. PICK k \in Keys : k = req[w].key
      BY <3>1, Finished DEF FitsWorker
    <3>3. key' = [key EXCEPT ![k].state = "held"]
      BY <1>2, <2>1, <3>1, <3>2 DEF Add
    <3>4. key'[k].state = "held"
      BY <3>3 DEF KeysInv, TypeOK, Key
    <3> QED
      BY <3>4 DEF Held
  <2> QED
    BY <2>1
<1>6. ASSUME Remove(w)
      PROVE  LooksTooEarly(w)
  <2>1. /\ HoldsAll(w) /\ req[w].op = "remove" /\ req' = [req EXCEPT ![w] = Idle]
        /\ key' = [key EXCEPT ![req[w].key].state = "removed"]
        /\ only' = (only /\ ~(req[w].saw /\ Held \subseteq {req[w].key}))
    BY <1>6 DEF Remove, Commits
  <2>2. PICK k \in Keys : k = req[w].key
    BY <2>1, Finished DEF FitsWorker
  <2>3. \A j \in Keys : key'[j].state = IF j = k THEN "removed" ELSE key[j].state
    BY <2>1, <2>2 DEF KeysInv, TypeOK, Key
  <2>4. Held \subseteq {k}
    BY <2>3 DEF Held
  <2>5. only /\ ~req[w].saw
    BY <2>1, <2>2, <2>4
  <2>6. Held = {k}
    BY <2>4, <2>5 DEF PasskeyOnlyHasAPasskey
  <2>7. Ends(w)
    BY <2>1 DEF Ends, KeysInv, TypeOK
  <2> QED
    BY <2>1, <2>2, <2>5, <2>6, <2>7 DEF LooksTooEarly
<1>7. ASSUME SetPasskeyOnly(w)
      PROVE  LooksTooEarly(w)
  <2>1. /\ HoldsAll(w) /\ req[w].op = "only" /\ req' = [req EXCEPT ![w] = Idle]
        /\ key' = key
        /\ only' = IF req[w].saw # (req[w].for[2] = "on") THEN req[w].for[2] = "on" ELSE only
    BY <1>7 DEF SetPasskeyOnly, Commits
  <2>2. PICK q \in Request : /\ q = req[w]
                             /\ q.for \in {<<"only", "on">>, <<"only", "off">>}
    BY <2>1, Finished DEF FitsWorker
  <2>3. Held = {} /\ ~only
    BY <1>1, <2>1 DEF PasskeyOnlyHasAPasskey
  <2>4. only \in BOOLEAN /\ q.saw \in BOOLEAN
    BY <2>2 DEF KeysInv, TypeOK, Request
  <2>5. q.for[2] = "on" /\ ~q.saw
    BY <2>1, <2>2, <2>3, <2>4
  <2>6. q.for = <<"only", "on">>
    BY <2>2, <2>5
  <2>7. Ends(w)
    BY <2>1 DEF Ends, KeysInv, TypeOK
  <2> QED
    BY <2>1, <2>2, <2>3, <2>5, <2>6, <2>7 DEF LooksTooEarly
<1>8. ~Settle(w) /\ ~Erase(w)
  BY <1>2 DEF Settle, Erase
<1> QED
  BY <1>3, <1>4, <1>5, <1>6, <1>7, <1>8 DEF Step

\* An account is left passkey-only without a passkey in these two ways and no
\* other (remove, set_passkey_only): no reset, sign-in or erasure does it, and
\* nothing that looks at the account once it holds the phone's lock.
THEOREM LockoutsAreEarlyLooks == Spec => LockoutsComeFromEarlyLooks
<1>1. ASSUME KeysInv, Next, PasskeyOnlyHasAPasskey, only', Held' = {}
      PROVE  \E w \in Workers : LooksTooEarly(w)
  <2>1. CASE \E w \in Workers : Step(w)
    BY <1>1, <2>1, LockedOutBy
  <2>2. CASE (\E r \in Requests : Begin(r)) \/ BeginSettle \/ BeginErase \/ Tick
    <3>1. UNCHANGED <<key, only>>
      BY <2>2 DEF Begin, BeginSettle, BeginErase, Began, Tick
    <3>2. Held' = Held
      BY <3>1 DEF Held
    <3> QED
      BY <1>1, <3>1, <3>2 DEF PasskeyOnlyHasAPasskey
  <2> QED
    BY <1>1, <2>1, <2>2 DEF Next
<1>2. KeysInv /\ [Next]_vars =>
        [PasskeyOnlyHasAPasskey /\ ~PasskeyOnlyHasAPasskey' =>
           \E w \in Workers : LooksTooEarly(w)]_vars
  BY <1>1 DEF PasskeyOnlyHasAPasskey
<1> QED
  BY <1>2, KeysHold, PTL DEF Spec, LockoutsComeFromEarlyLooks

=============================================================================
