---------------------------- MODULE SignInProofs ----------------------------
(* What is proved of numbers, accounts and sessions, for every number of      *)
(* them, of requests and of codes: what was ended stays ended, each login is  *)
(* one line of tokens, a session has proved the number its account has, a     *)
(* number somebody waits to move to stays free, a code counts once, and a     *)
(* move is of both sides and unopposed.                                       *)
EXTENDS SignIn, FiniteSetTheorems, SequenceTheorems, WellFoundedInduction, TLAPS

-----------------------------------------------------------------------------
(* The invariant: what every request in flight is and holds, and that what    *)
(* its locks protect is still as it read it with the last of them.            *)

PhoneLock(p) == Lock("phone", p)
AccountLock(a) == Lock("account", a)

\* Each request is one that can be asked.
OnCode == {"code", "login"}
OnOldNumber == {"step_up", "everywhere", "delete", "erase", "claim", "make"}
OnNewNumber == {"claim", "make"}
OnSession == {"refresh", "logout"}

FitsOp(q) ==
    /\ q.op \in OnCode => q.to \in Phones
    /\ q.op = "login" => q.role \in Sides
    /\ q.op \notin OnCode => q.of \in Accounts
    /\ q.op \in OnOldNumber => q.knew.phone \in Phones
    /\ q.op \in OnNewNumber => q.to \in Phones
    /\ q.op \in OnSession => q.family \in Families /\ family[q.family].of = q.of
    /\ q.op = "refresh" => q.code \in DOMAIN family[q.family].rows

AllFit == \A r \in Requests : Running(r) => FitsOp(req[r])

Exclusive ==
    \A r, s \in Requests : r # s => HeldBy(r) \intersect HeldBy(s) = {}

\* A number's lock: the accounts on it and their logins, and who waits for it.
NumberStands(d, p) ==
    /\ OnNumber(d, p) = OnPhone(p)
    /\ \A a \in Accounts : change[a].to = p => d.change[a].to = p
    /\ \A f \in Families : family[f].of \in OnPhone(p) => d.family[f].of = family[f].of

\* An account's lock: the tokens of its logins.
LoginsStand(d, a) ==
    \A f \in Families : d.family[f].of = a => family[f] = d.family[f]

\* A number is waited for once.
WaitedOnce(ch) ==
    \A a, b \in Accounts : ch[a].to = ch[b].to /\ ch[a].to # NoPhone => a = b

\* The number a due change moves to is the one the job read.
IsDue(ch, q) == ch[q.of] # NoChange /\ q.now >= ch[q.of].due
KnowsTo(ch, q) == q.op = "make" /\ IsDue(ch, q) => ch[q.of].to = q.to

SawStands(r) ==
    LET q == req[r]  d == req[r].saw IN
    /\ d \in Database
    /\ \A p \in Phones : PhoneLock(p) \in HeldBy(r) => NumberStands(d, p)
    /\ \A a \in Accounts : AccountLock(a) \in HeldBy(r) => LoginsStand(d, a)
    /\ q.op \in OnSession => d.family[q.family].of = q.of
    /\ WaitedOnce(d.change) /\ KnowsTo(d.change, q)

AllSawStand == \A r \in Requests : HoldsAll(r) => SawStands(r)

\* A request is no older than the clock allows, and a change takes its time.
InTime ==
    \A r \in Requests : Running(r) =>
        /\ req[r].now <= time /\ time <= req[r].now + Patience
        /\ KnowsTo(change, req[r])

\* An account keeps its side; a login has an account, an ended one too.
Whole ==
    /\ \A a \in Accounts : acct[a].phone # NoPhone => acct[a].role # "none"
    /\ \A f \in Families : family[f] # NoLogin => acct[family[f].of].role # "none"
    /\ \A f \in ended : family[f] # NoLogin

SignInInv ==
    /\ TypeOK /\ AllFit /\ Exclusive /\ AllSawStand /\ InTime
    /\ Whole /\ WaitedOnce(change)
    /\ EndedStaysEnded /\ TokensRotateOnce
    /\ SessionsProveTheNumber /\ WaitedNumberIsFree

-----------------------------------------------------------------------------
(* Locks in order.                                                            *)

AnyLock == [table : {"phone", "account", "change"}, of : Nat]
LocksIn(s) == {s[i] : i \in 1..Len(s)}

Below(ns, n) == {m \in ns : m < n}

LEMMA Place ==
    ASSUME NEW ns \in SUBSET Nat, IsFiniteSet(ns), NEW n \in ns
    PROVE  /\ Cardinality(Below(ns, n)) + 1 \in 1..Cardinality(ns)
           /\ \A k \in ns : Cardinality(Below(ns, k)) = Cardinality(Below(ns, n)) => k = n
<1>1. \A k \in ns : /\ IsFiniteSet(Below(ns, k)) /\ Cardinality(Below(ns, k)) \in Nat
                    /\ Below(ns, k) \subseteq ns /\ k \notin Below(ns, k)
  BY FS_Subset, FS_CardinalityType DEF Below
<1>2. Cardinality(ns) \in Nat
  BY FS_CardinalityType
<1>3. Cardinality(Below(ns, n)) < Cardinality(ns)
  BY <1>1, <1>2, FS_Subset
<1>4. ASSUME NEW j \in ns, NEW k \in ns, j < k
      PROVE  Cardinality(Below(ns, j)) < Cardinality(Below(ns, k))
  <2>0. j \in Nat /\ k \in Nat /\ \A m \in ns : m \in Nat
    OBVIOUS
  <2>1. \A m \in ns : m < j => m < k
    BY <1>4, <2>0
  <2>2. Below(ns, j) \subseteq Below(ns, k)
    BY <2>1 DEF Below
  <2>3. j \in Below(ns, k) /\ j \notin Below(ns, j)
    BY <1>4, <2>0 DEF Below
  <2> QED
    BY <1>1, <2>2, <2>3, FS_Subset
<1>5. ASSUME NEW k \in ns, Cardinality(Below(ns, k)) = Cardinality(Below(ns, n))
      PROVE  k = n
  <2>1. ~(k < n) /\ ~(n < k)
    BY <1>1, <1>4, <1>5
  <2> QED
    BY <2>1
<1> QED
  BY <1>1, <1>2, <1>3, <1>5

\* However many rows are locked, in their order, each of them is and no other.
LEMMA InOrderIs ==
    ASSUME NEW ns \in SUBSET Nat, IsFiniteSet(ns),
           NEW table \in {"phone", "account", "change"}
    PROVE  /\ InOrder(table, ns) \in Seq(AnyLock)
           /\ Len(InOrder(table, ns)) = Cardinality(ns)
           /\ LocksIn(InOrder(table, ns)) = {Lock(table, n) : n \in ns}
<1> DEFINE o == InOrder(table, ns)
           At(i) == CHOOSE n \in ns : Cardinality({m \in ns : m < n}) = i - 1
           rank == [n \in ns |-> Cardinality(Below(ns, n)) + 1]
           places == 1..Cardinality(ns)
<1>1. Cardinality(ns) \in Nat /\ IsFiniteSet(places) /\ Cardinality(places) = Cardinality(ns)
  BY FS_CardinalityType, FS_Interval
<1>2. \A n \in ns : /\ rank[n] \in places
                    /\ \A k \in ns : rank[k] = rank[n] => k = n
  <2>1. ASSUME NEW n \in ns
        PROVE  /\ rank[n] \in places
               /\ \A k \in ns : rank[k] = rank[n] => k = n
    <3>1. /\ Cardinality(Below(ns, n)) + 1 \in places
          /\ \A k \in ns : Cardinality(Below(ns, k)) = Cardinality(Below(ns, n)) => k = n
      BY Place
    <3>2. \A k \in ns : Cardinality(Below(ns, k)) \in Nat
      BY FS_Subset, FS_CardinalityType DEF Below
    <3> QED
      BY <3>1, <3>2
  <2> QED
    BY <2>1
<1> HIDE DEF places
<1>3. rank \in Injection(ns, places)
  BY <1>2 DEF Injection, IsInjective
<1>4. rank \in Surjection(ns, places)
  BY <1>1, <1>3, FS_Injection
<1>5. \A n \in ns : Below(ns, n) = {m \in ns : m < n} /\ Cardinality(Below(ns, n)) \in Nat
  BY FS_Subset, FS_CardinalityType DEF Below
<1>6. ASSUME NEW i \in places
      PROVE  At(i) \in ns
  <2>1. PICK n \in ns : rank[n] = i
    BY <1>4 DEF Surjection
  <2>2. Cardinality({m \in ns : m < n}) = i - 1
    BY <1>5, <2>1 DEF places
  <2> QED
    BY <2>2
<1>7. ASSUME NEW n \in ns
      PROVE  At(rank[n]) = n
  <2>1. rank[n] - 1 = Cardinality({m \in ns : m < n})
    BY <1>5
  <2>2. ASSUME NEW k \in ns, Cardinality({m \in ns : m < k}) = rank[n] - 1
        PROVE  k = n
    <3>1. rank[k] = Cardinality(Below(ns, k)) + 1
      OBVIOUS
    <3>2. Below(ns, k) = {m \in ns : m < k}
      BY <1>5
    <3>3. rank[n] \in Nat /\ Cardinality(Below(ns, n)) \in Nat
      BY <1>5
    <3>4. Cardinality(Below(ns, k)) = rank[n] - 1
      BY <2>2, <3>2
    <3>5. rank[k] = rank[n]
      BY <3>1, <3>3, <3>4
    <3> QED
      BY <1>2, <3>5
  <2> QED
    BY <2>1, <2>2
<1>8. o = [i \in places |-> Lock(table, At(i))]
  BY DEF InOrder, places
<1> HIDE DEF At, rank
<1>9. \A i \in places : Lock(table, At(i)) \in AnyLock
  BY <1>6 DEF Lock, AnyLock
<1>10. o \in [places -> AnyLock]
  BY <1>8, <1>9
<1>11. o \in Seq(AnyLock) /\ Len(o) = Cardinality(ns)
  BY <1>1, <1>10 DEF places
<1>12. LocksIn(o) = {o[i] : i \in places}
  BY <1>11 DEF LocksIn, places
<1>13. ASSUME NEW i \in places
       PROVE  o[i] \in {Lock(table, n) : n \in ns}
  BY <1>6, <1>8
<1>14. ASSUME NEW n \in ns
       PROVE  Lock(table, n) \in {o[i] : i \in places}
  <2>1. rank[n] \in places
    BY <1>2
  <2>2. o[rank[n]] = Lock(table, n)
    BY <1>7, <1>8, <2>1
  <2> QED
    BY <2>1, <2>2
<1> QED
  BY <1>11, <1>12, <1>13, <1>14

LEMMA Joined ==
    ASSUME NEW s \in Seq(AnyLock), NEW t \in Seq(AnyLock)
    PROVE  /\ s \o t \in Seq(AnyLock)
           /\ Len(s \o t) = Len(s) + Len(t)
           /\ \A i \in 1..Len(s) : (s \o t)[i] = s[i]
           /\ LocksIn(s \o t) = LocksIn(s) \union LocksIn(t)
<1>1. /\ s \o t \in Seq(AnyLock)
      /\ Len(s \o t) = Len(s) + Len(t) /\ Len(s) \in Nat /\ Len(t) \in Nat
      /\ \A i \in 1..Len(s) : (s \o t)[i] = s[i]
      /\ \A i \in 1..Len(t) : (s \o t)[Len(s) + i] = t[i]
  OBVIOUS
<1>2. ASSUME NEW i \in 1..Len(s \o t)
      PROVE  (s \o t)[i] \in LocksIn(s) \union LocksIn(t)
  <2>1. CASE i <= Len(s)
    BY <1>1, <2>1 DEF LocksIn
  <2>2. CASE ~(i <= Len(s))
    <3>1. i - Len(s) \in 1..Len(t) /\ Len(s) + (i - Len(s)) = i
      BY <1>1, <2>2
    <3>2. (s \o t)[i] = t[i - Len(s)]
      BY <1>1, <3>1
    <3> QED
      BY <3>1, <3>2 DEF LocksIn
  <2> QED
    BY <2>1, <2>2
<1>3. ASSUME NEW i \in 1..Len(s)
      PROVE  s[i] \in LocksIn(s \o t)
  BY <1>1 DEF LocksIn
<1>4. ASSUME NEW i \in 1..Len(t)
      PROVE  t[i] \in LocksIn(s \o t)
  <2>1. Len(s) + i \in 1..Len(s \o t) /\ (s \o t)[Len(s) + i] = t[i]
    BY <1>1
  <2> QED
    BY <2>1 DEF LocksIn
<1>5. LocksIn(s \o t) = LocksIn(s) \union LocksIn(t)
  BY <1>2, <1>3, <1>4 DEF LocksIn
<1> QED
  BY <1>1, <1>5

-----------------------------------------------------------------------------
(* What each kind of request locks.                                           *)

\* The numbers and the accounts a request needs for itself.
NumbersOf(q) ==
    IF q.op \in OnCode THEN {q.to}
    ELSE IF q.op \in OnNewNumber THEN {q.knew.phone, q.to}
    ELSE IF q.op \in OnOldNumber THEN {q.knew.phone} ELSE {}
AccountsOf(q) ==
    IF q.op = "make" THEN OnPhone(q.knew.phone)
    ELSE IF q.op \in {"everywhere", "delete", "erase", "refresh", "logout", "suspend",
                      "restore", "keep"} THEN {q.of} ELSE {}
Needs(q) == {PhoneLock(p) : p \in NumbersOf(q)} \union {AccountLock(a) : a \in AccountsOf(q)}

\* The locks a request holds, by how far it has come.
HeldOf(q) == {LockOrder(q)[i] : i \in 1..(q.step - 1)}

LEMMA OpSets ==
    /\ Ops = {"code", "login"} \union {"step_up"} \union {"refresh"}
             \union {"everywhere", "delete", "erase"}
             \union {"logout", "suspend", "restore", "keep"}
             \union {"claim"} \union {"cancel"} \union {"make"}
BY DEF Ops

\* The change of a number locks its two numbers first.
MakeLocks(q, as) == BothNumbers(q) \o ChangeLock(q.of) \o InOrder("account", as)

LEMMA OrderOf ==
    ASSUME NEW q
    PROVE  /\ q.op \in {"code", "login"} => LockOrder(q) = PhoneLocks({q.to})
           /\ q.op = "step_up" => LockOrder(q) = PhoneLocks({q.knew.phone})
           /\ q.op = "refresh" => LockOrder(q) = SessionsLock(q.of)
           /\ q.op \in {"everywhere", "delete", "erase"} =>
                LockOrder(q) = PhoneLocks({q.knew.phone}) \o SessionsLock(q.of)
           /\ q.op \in {"logout", "suspend", "restore", "keep"} =>
                LockOrder(q) = SessionsLock(q.of)
           /\ q.op = "claim" => LockOrder(q) = BothNumbers(q) \o ChangeLock(q.of)
           /\ q.op = "cancel" => LockOrder(q) = ChangeLock(q.of)
           /\ q.op = "make" => LockOrder(q) = MakeLocks(q, OnPhone(q.knew.phone))
BY DEF LockOrder, StepUpLocks, RefreshLocks, MakeLocks

LEMMA SomePhones ==
    ASSUME NEW ps \in SUBSET Phones, IsFiniteSet(ps), ps # {}
    PROVE  /\ PhoneLocks(ps) \in Seq(AnyLock) /\ Len(PhoneLocks(ps)) \in Nat \ {0}
           /\ LocksIn(PhoneLocks(ps)) = {PhoneLock(p) : p \in ps}
<1>1. ps \in SUBSET Nat
  BY PhonesAssumption
<1>2. Cardinality(ps) \in Nat \ {0}
  BY FS_CardinalityType, FS_EmptySet
<1> QED
  BY <1>1, <1>2, InOrderIs DEF PhoneLocks, PhoneLock

LEMMA OnePhone ==
    ASSUME NEW p \in Phones
    PROVE  /\ PhoneLocks({p}) \in Seq(AnyLock) /\ Len(PhoneLocks({p})) \in Nat \ {0}
           /\ LocksIn(PhoneLocks({p})) = {PhoneLock(p)}
<1>1. IsFiniteSet({p})
  BY FS_Singleton
<1>2. /\ PhoneLocks({p}) \in Seq(AnyLock) /\ Len(PhoneLocks({p})) \in Nat \ {0}
      /\ LocksIn(PhoneLocks({p})) = {PhoneLock(n) : n \in {p}}
  BY <1>1, SomePhones
<1> QED
  BY <1>2

LEMMA TwoPhones ==
    ASSUME NEW q, q.knew.phone \in Phones, q.to \in Phones
    PROVE  /\ BothNumbers(q) \in Seq(AnyLock) /\ Len(BothNumbers(q)) \in Nat \ {0}
           /\ LocksIn(BothNumbers(q)) = {PhoneLock(q.knew.phone), PhoneLock(q.to)}
<1> DEFINE ps == {q.knew.phone} \union {q.to}
<1>1. IsFiniteSet(ps)
  BY ZenonT(40), FS_Singleton, FS_AddElement
<1>2. BothNumbers(q) = PhoneLocks(ps)
  BY DEF BothNumbers
<1>3. /\ PhoneLocks(ps) \in Seq(AnyLock) /\ Len(PhoneLocks(ps)) \in Nat \ {0}
      /\ LocksIn(PhoneLocks(ps)) = {PhoneLock(p) : p \in ps}
  BY <1>1, SomePhones
<1> QED
  BY <1>2, <1>3

LEMMA OneLock ==
    ASSUME NEW a \in Accounts, NEW table \in {"account", "change"}
    PROVE  /\ <<Lock(table, a)>> \in Seq(AnyLock) /\ Len(<<Lock(table, a)>>) = 1
           /\ LocksIn(<<Lock(table, a)>>) = {Lock(table, a)}
<1>1. Lock(table, a) \in AnyLock
  BY LimitsAssumption DEF Lock, AnyLock, Accounts
<1> QED
  BY <1>1 DEF LocksIn

LEMMA AccountLocks ==
    ASSUME NEW as \in SUBSET Accounts
    PROVE  /\ InOrder("account", as) \in Seq(AnyLock)
           /\ LocksIn(InOrder("account", as)) = {AccountLock(a) : a \in as}
<1>1. IsFiniteSet(Accounts) /\ Accounts \in SUBSET Nat
  <2>1. NAccounts \in Nat /\ 1 \in Int /\ NAccounts \in Int
    BY LimitsAssumption
  <2>2. IsFiniteSet(1..NAccounts)
    BY <2>1, FS_Interval
  <2> QED
    BY <2>1, <2>2 DEF Accounts
<1>2. IsFiniteSet(as) /\ as \in SUBSET Nat
  BY <1>1, FS_Subset
<1> QED
  BY <1>2, InOrderIs DEF AccountLock

LEMMA MakeOrder ==
    ASSUME NEW q, q.knew.phone \in Phones, q.to \in Phones, q.of \in Accounts,
           NEW as \in SUBSET Accounts
    PROVE  /\ MakeLocks(q, as) \in Seq(AnyLock)
           /\ Len(MakeLocks(q, as)) >= Len(BothNumbers(q)) /\ Len(MakeLocks(q, as)) \in Nat
           /\ \A i \in 1..Len(BothNumbers(q)) : MakeLocks(q, as)[i] = BothNumbers(q)[i]
           /\ LocksIn(BothNumbers(q)) = {PhoneLock(q.knew.phone), PhoneLock(q.to)}
           /\ Len(BothNumbers(q)) \in Nat \ {0}
           /\ {PhoneLock(q.knew.phone), PhoneLock(q.to)} \union {AccountLock(a) : a \in as}
                \subseteq LocksIn(MakeLocks(q, as))
<1> DEFINE both == BothNumbers(q)
           own == ChangeLock(q.of)
           theirs == InOrder("account", as)
<1>2. /\ both \in Seq(AnyLock) /\ Len(both) \in Nat \ {0}
      /\ LocksIn(both) = {PhoneLock(q.knew.phone), PhoneLock(q.to)}
  BY TwoPhones
<1>3. own \in Seq(AnyLock)
  BY OneLock DEF ChangeLock
<1>4. theirs \in Seq(AnyLock) /\ LocksIn(theirs) = {AccountLock(a) : a \in as}
  BY AccountLocks
<1>5. MakeLocks(q, as) = (both \o own) \o theirs
  BY DEF MakeLocks
<1> HIDE DEF both, own, theirs
<1>6. /\ both \o own \in Seq(AnyLock)
      /\ Len(both \o own) = Len(both) + Len(own)
      /\ \A i \in 1..Len(both) : (both \o own)[i] = both[i]
      /\ LocksIn(both \o own) = LocksIn(both) \union LocksIn(own)
  BY <1>2, <1>3, Joined
<1>7. /\ (both \o own) \o theirs \in Seq(AnyLock)
      /\ Len((both \o own) \o theirs) = Len(both \o own) + Len(theirs)
      /\ \A i \in 1..Len(both \o own) : ((both \o own) \o theirs)[i] = (both \o own)[i]
      /\ LocksIn((both \o own) \o theirs) = LocksIn(both \o own) \union LocksIn(theirs)
  BY <1>4, <1>6, Joined
<1>8. Len(own) \in Nat /\ Len(theirs) \in Nat
  BY <1>3, <1>4
<1>9. \A i \in 1..Len(both) : i \in 1..Len(both \o own)
  BY <1>2, <1>6, <1>8
<1>10. /\ MakeLocks(q, as) \in Seq(AnyLock)
       /\ Len(MakeLocks(q, as)) >= Len(both) /\ Len(MakeLocks(q, as)) \in Nat
  BY <1>2, <1>5, <1>6, <1>7, <1>8
<1>11. \A i \in 1..Len(both) : MakeLocks(q, as)[i] = both[i]
  BY <1>5, <1>6, <1>7, <1>9
<1>12. LocksIn(both) \union LocksIn(theirs) \subseteq LocksIn(MakeLocks(q, as))
  BY <1>5, <1>6, <1>7
<1> QED
  BY <1>2, <1>4, <1>10, <1>11, <1>12 DEF both

LEMMA Orders ==
    ASSUME NEW q \in Request, FitsOp(q)
    PROVE  /\ LockOrder(q) \in Seq(AnyLock) /\ Len(LockOrder(q)) \in Nat \ {0}
           /\ Needs(q) \subseteq LocksIn(LockOrder(q))
<1>1. q.op \in Ops
  BY DEF Request
<1>2. CASE q.op \in {"code", "login"}
  <2>1. q.to \in Phones /\ NumbersOf(q) = {q.to} /\ AccountsOf(q) = {}
    BY <1>2 DEF FitsOp, NumbersOf, AccountsOf, OnCode
  <2>2. Needs(q) = {PhoneLock(q.to)}
    BY <2>1 DEF Needs
  <2> QED
    BY <1>2, <2>1, <2>2, OrderOf, OnePhone
<1>3. CASE q.op = "step_up"
  <2>1. /\ q.knew.phone \in Phones /\ NumbersOf(q) = {q.knew.phone} /\ AccountsOf(q) = {}
    BY <1>3 DEF FitsOp, NumbersOf, AccountsOf, OnCode, OnOldNumber, OnNewNumber
  <2>2. Needs(q) = {PhoneLock(q.knew.phone)}
    BY <2>1 DEF Needs
  <2> QED
    BY <1>3, <2>1, <2>2, OrderOf, OnePhone
<1>4. CASE q.op \in {"refresh", "logout", "suspend", "restore", "keep"}
  <2>1. q.of \in Accounts /\ NumbersOf(q) = {} /\ AccountsOf(q) = {q.of}
    BY <1>4 DEF FitsOp, NumbersOf, AccountsOf, OnCode, OnOldNumber, OnNewNumber
  <2>2. Needs(q) = {AccountLock(q.of)}
    BY <2>1 DEF Needs
  <2>3. LockOrder(q) = <<Lock("account", q.of)>>
    BY <1>4, OrderOf DEF SessionsLock
  <2>4. /\ <<Lock("account", q.of)>> \in Seq(AnyLock) /\ Len(<<Lock("account", q.of)>>) = 1
        /\ LocksIn(<<Lock("account", q.of)>>) = {Lock("account", q.of)}
    BY <2>1, OneLock
  <2>5. Needs(q) = {Lock("account", q.of)}
    BY <2>2 DEF AccountLock
  <2> QED
    BY <2>3, <2>4, <2>5
<1>5. CASE q.op \in {"everywhere", "delete", "erase"}
  <2> DEFINE s == PhoneLocks({q.knew.phone})
             t == <<Lock("account", q.of)>>
  <2>1. /\ q.of \in Accounts /\ q.knew.phone \in Phones
        /\ NumbersOf(q) = {q.knew.phone} /\ AccountsOf(q) = {q.of}
    BY <1>5 DEF FitsOp, NumbersOf, AccountsOf, OnCode, OnOldNumber, OnNewNumber
  <2>2. Needs(q) = {PhoneLock(q.knew.phone)} \union {AccountLock(q.of)}
    BY <2>1 DEF Needs
  <2>3. LockOrder(q) = s \o t
    BY <1>5, OrderOf DEF SessionsLock
  <2>4. s \in Seq(AnyLock) /\ Len(s) \in Nat \ {0} /\ LocksIn(s) = {PhoneLock(q.knew.phone)}
    BY <2>1, OnePhone
  <2>5. t \in Seq(AnyLock) /\ Len(t) = 1 /\ LocksIn(t) = {AccountLock(q.of)}
    BY <2>1, OneLock DEF AccountLock
  <2> HIDE DEF s, t
  <2>6. /\ s \o t \in Seq(AnyLock) /\ Len(s \o t) = Len(s) + Len(t)
        /\ LocksIn(s \o t) = LocksIn(s) \union LocksIn(t)
    BY <2>4, <2>5, Joined
  <2> QED
    BY <2>2, <2>3, <2>4, <2>5, <2>6
<1>6. CASE q.op = "claim"
  <2> DEFINE s == BothNumbers(q)
             t == <<Lock("change", q.of)>>
  <2>1. /\ q.of \in Accounts /\ q.knew.phone \in Phones /\ q.to \in Phones
        /\ NumbersOf(q) = {q.knew.phone, q.to} /\ AccountsOf(q) = {}
    BY <1>6 DEF FitsOp, NumbersOf, AccountsOf, OnCode, OnOldNumber, OnNewNumber
  <2>2. Needs(q) = {PhoneLock(q.knew.phone), PhoneLock(q.to)}
    BY <2>1 DEF Needs
  <2>3. LockOrder(q) = s \o t
    BY <1>6, OrderOf DEF ChangeLock
  <2>4. s \in Seq(AnyLock) /\ Len(s) \in Nat \ {0} /\ LocksIn(s) = Needs(q)
    BY <2>1, <2>2, TwoPhones
  <2>5. t \in Seq(AnyLock) /\ Len(t) = 1
    BY <2>1, OneLock
  <2> HIDE DEF s, t
  <2>6. /\ s \o t \in Seq(AnyLock) /\ Len(s \o t) = Len(s) + Len(t)
        /\ LocksIn(s \o t) = LocksIn(s) \union LocksIn(t)
    BY <2>4, <2>5, Joined
  <2> QED
    BY <2>2, <2>3, <2>4, <2>5, <2>6
<1>7. CASE q.op = "cancel"
  <2>1. q.of \in Accounts /\ NumbersOf(q) = {} /\ AccountsOf(q) = {}
    BY <1>7 DEF FitsOp, NumbersOf, AccountsOf, OnCode, OnOldNumber, OnNewNumber
  <2>2. Needs(q) = {}
    BY <2>1 DEF Needs
  <2>3. LockOrder(q) = <<Lock("change", q.of)>>
    BY <1>7, OrderOf DEF ChangeLock
  <2>4. <<Lock("change", q.of)>> \in Seq(AnyLock) /\ Len(<<Lock("change", q.of)>>) = 1
    BY <2>1, OneLock
  <2> QED
    BY <2>2, <2>3, <2>4
<1>8. CASE q.op = "make"
  <2>1. q.knew.phone \in Phones /\ q.to \in Phones /\ q.of \in Accounts
    BY <1>8 DEF FitsOp, OnOldNumber, OnNewNumber, OnCode
  <2>2. PICK as \in SUBSET Accounts : as = OnPhone(q.knew.phone)
    BY DEF OnPhone
  <2>3. LockOrder(q) = MakeLocks(q, as)
    BY <1>8, <2>2, OrderOf
  <2>4. Needs(q) = {PhoneLock(p) : p \in {q.knew.phone, q.to}} \union {AccountLock(a) : a \in as}
    BY <1>8, <2>2 DEF Needs, NumbersOf, AccountsOf, OnCode, OnNewNumber
  <2>5. Needs(q) = {PhoneLock(q.knew.phone), PhoneLock(q.to)} \union {AccountLock(a) : a \in as}
    BY <2>4
  <2>6. /\ MakeLocks(q, as) \in Seq(AnyLock)
        /\ Len(MakeLocks(q, as)) >= Len(BothNumbers(q)) /\ Len(MakeLocks(q, as)) \in Nat
        /\ Len(BothNumbers(q)) \in Nat \ {0}
        /\ Needs(q) \subseteq LocksIn(MakeLocks(q, as))
    BY <2>1, <2>5, MakeOrder
  <2>7. \A m \in Nat, n \in Nat \ {0} : m >= n => m \in Nat \ {0}
    OBVIOUS
  <2>8. Len(MakeLocks(q, as)) \in Nat \ {0}
    BY <2>6, <2>7
  <2> QED
    BY <2>3, <2>6, <2>8
<1> QED
  BY <1>1, <1>2, <1>3, <1>4, <1>5, <1>6, <1>7, <1>8, OpSets

-----------------------------------------------------------------------------
(* Requests in flight.                                                        *)

LEMMA NotIdle == \A q \in Request : q # Idle
<1> SUFFICES ASSUME NEW q \in Request, q = Idle
             PROVE  FALSE
  OBVIOUS
<1>1. q.op \in Ops
  BY DEF Request
<1>2. q.op = "idle"
  BY DEF Idle
<1> QED
  BY <1>1, <1>2 DEF Ops

LEMMA InFlight ==
    ASSUME TypeOK, NEW r \in Requests, Running(r)
    PROVE  /\ req[r] \in Request /\ req[r].step \in Nat \ {0}
           /\ HeldBy(r) = HeldOf(req[r])
           /\ req[r].step <= Len(LockOrder(req[r])) + 1
<1>1. req[r] \in Request
  BY DEF TypeOK, Running
<1>2. req[r].step \in Nat \ {0}
  BY <1>1 DEF Request
<1> QED
  BY <1>1, <1>2 DEF TypeOK, Running, HeldBy, HeldOf

\* A request that commits holds every lock it needs.
LEMMA Finished ==
    ASSUME TypeOK, AllFit, NEW r \in Requests, HoldsAll(r)
    PROVE  /\ Running(r) /\ req[r] \in Request /\ FitsOp(req[r])
           /\ HeldBy(r) = HeldOf(req[r])
           /\ Needs(req[r]) \subseteq HeldBy(r)
<1>1. Running(r) /\ req[r].step > Len(LockOrder(req[r]))
  BY DEF HoldsAll
<1>2. /\ req[r] \in Request /\ req[r].step \in Nat \ {0}
      /\ HeldBy(r) = HeldOf(req[r])
      /\ req[r].step <= Len(LockOrder(req[r])) + 1
  BY <1>1, InFlight
<1>3. FitsOp(req[r])
  BY <1>1 DEF AllFit
<1>4. PICK q \in Request : q = req[r]
  BY <1>2
<1>5. PICK o : o = LockOrder(q)
  OBVIOUS
<1>6. Len(o) \in Nat \ {0} /\ Needs(q) \subseteq LocksIn(o)
  BY <1>3, <1>4, <1>5, Orders
<1>7. q.step - 1 = Len(o)
  BY <1>1, <1>2, <1>4, <1>5, <1>6
<1>8. HeldOf(q) = LocksIn(o)
  BY <1>5, <1>7 DEF HeldOf, LocksIn
<1> QED
  BY <1>1, <1>2, <1>3, <1>4, <1>6, <1>8

\* A request holds nothing and lacks something when it begins.
LEMMA Beginning ==
    ASSUME NEW q \in Request, FitsOp(q), q.step = 1
    PROVE  HeldOf(q) = {} /\ q.step <= Len(LockOrder(q))
<1>1. Len(LockOrder(q)) \in Nat \ {0}
  BY Orders
<1> QED
  BY <1>1 DEF HeldOf

\* What a commit changes of who is on which number changes nothing of what the
\* others hold: a change of number has its locks by then, or needs its numbers.
LEMMA OrderStays ==
    ASSUME TypeOK, NEW q \in Request, FitsOp(q), q.step <= Len(LockOrder(q)) + 1,
           PhoneLock(q.knew.phone) \in HeldOf(q) =>
              OnPhone(q.knew.phone)' = OnPhone(q.knew.phone)
    PROVE  /\ HeldOf(q)' = HeldOf(q)
           /\ q.step <= Len(LockOrder(q)') + 1
           /\ (q.step > Len(LockOrder(q))') <=> (q.step > Len(LockOrder(q)))
<1>0. q.step \in Nat \ {0}
  BY DEF Request
<1>1. CASE q.op # "make"
  <2>1. LockOrder(q)' = LockOrder(q)
    BY <1>1 DEF LockOrder, StepUpLocks, RefreshLocks, PhoneLocks, InOrder, Lock,
                SessionsLock, ChangeLock, BothNumbers
  <2> QED
    BY <2>1 DEF HeldOf
<1>2. CASE q.op = "make"
  <2> DEFINE both == BothNumbers(q)
  <2>1. PICK as \in SUBSET Accounts : as = OnPhone(q.knew.phone)
    BY DEF OnPhone
  <2>2. PICK bs \in SUBSET Accounts : bs = OnPhone(q.knew.phone)'
    BY DEF OnPhone
  <2>3. LockOrder(q) = MakeLocks(q, as)
    BY <1>2, <2>1, OrderOf
  <2>4. LockOrder(q)' = MakeLocks(q, bs)
    BY <1>2, <2>2 DEF LockOrder, MakeLocks
  <2>5. CASE as = bs
    BY <2>3, <2>4, <2>5 DEF HeldOf
  <2>6. CASE as # bs
    <3>1. q.knew.phone \in Phones /\ q.to \in Phones /\ q.of \in Accounts
      BY <1>2 DEF FitsOp, OnOldNumber, OnNewNumber, OnCode
    <3>2. PhoneLock(q.knew.phone) \notin HeldOf(q)
      BY <2>1, <2>2, <2>6
    <3>3. \A cs \in SUBSET Accounts :
            /\ Len(MakeLocks(q, cs)) >= Len(both) /\ Len(MakeLocks(q, cs)) \in Nat
            /\ \A i \in 1..Len(both) : MakeLocks(q, cs)[i] = both[i]
      BY <3>1, MakeOrder
    <3>4. Len(both) \in Nat \ {0} /\ PhoneLock(q.knew.phone) \in LocksIn(both)
      BY <3>1, TwoPhones
    <3> HIDE DEF both
    <3>5. PICK old : old = LockOrder(q)
      OBVIOUS
    <3>6. PICK new : new = LockOrder(q)'
      OBVIOUS
    <3>7. /\ Len(old) >= Len(both) /\ Len(old) \in Nat
          /\ \A i \in 1..Len(both) : old[i] = both[i]
      BY <2>3, <3>3, <3>5
    <3>8. /\ Len(new) >= Len(both) /\ Len(new) \in Nat
          /\ \A i \in 1..Len(both) : new[i] = both[i]
      BY <2>4, <3>3, <3>6
    <3>9. PICK j \in 1..Len(both) : both[j] = PhoneLock(q.knew.phone)
      BY <3>4 DEF LocksIn
    <3>10. ~(j \in 1..(q.step - 1))
      BY <3>2, <3>5, <3>7, <3>9 DEF HeldOf
    <3>11. q.step <= Len(both)
      BY <1>0, <3>4, <3>10
    <3>12. \A i \in 1..(q.step - 1) : i \in 1..Len(both)
      BY <1>0, <3>4, <3>11
    <3>13. HeldOf(q) = {both[i] : i \in 1..(q.step - 1)}
      BY <3>5, <3>7, <3>12 DEF HeldOf
    <3>14. HeldOf(q)' = {both[i] : i \in 1..(q.step - 1)}
      BY <3>6, <3>8, <3>12 DEF HeldOf
    <3>15. Len(old) >= q.step /\ Len(new) >= q.step
      BY <1>0, <3>4, <3>7, <3>8, <3>11
    <3> QED
      BY <1>0, <3>5, <3>6, <3>7, <3>8, <3>13, <3>14, <3>15
  <2> QED
    BY <2>5, <2>6
<1> QED
  BY <1>1, <1>2

-----------------------------------------------------------------------------
(* What a commit may do, and that it breaks nothing for the others.           *)

\* It moves, adds and removes accounts only on the numbers it has locked, and
\* who moves or leaves loses every session.
PeopleStep(r) ==
    /\ \A p \in Phones : PhoneLock(p) \notin HeldBy(r) => OnPhone(p)' = OnPhone(p)
    /\ \A a \in Accounts : acct[a].role # "none" => acct'[a].role # "none"
    /\ \A a \in Accounts : acct'[a].phone # NoPhone => acct'[a].role # "none"
    /\ \A f \in Families :
         family[f] # NoLogin /\ acct'[family[f].of].phone # acct[family[f].of].phone =>
            f \in ended'

\* It writes the logins of the accounts it has locked, and a new one proves a
\* number it has locked.
LoginsStep(r) ==
    /\ \A f \in Families : family[f] # NoLogin =>
         /\ family'[f] # NoLogin
         /\ family'[f].of = family[f].of /\ family'[f].on = family[f].on
         /\ DOMAIN family[f].rows \subseteq DOMAIN family'[f].rows
         /\ family'[f] # family[f] => AccountLock(family[f].of) \in HeldBy(r)
         /\ Live(DB, f)' => Live(DB, f)
    /\ \A f \in Families : family[f] = NoLogin /\ family'[f] # NoLogin =>
         /\ family'[f].on \in Phones /\ PhoneLock(family'[f].on) \in HeldBy(r)
         /\ family'[f].of \in Accounts /\ acct'[family'[f].of].phone = family'[f].on
    /\ \A f \in ended' : family'[f] # NoLogin

\* It asks only for a number it has locked, in time to come.
ChangesStep(r) ==
    /\ \A p \in Phones : PhoneLock(p) \notin HeldBy(r) =>
         \A a \in Accounts : change'[a].to = p => change[a].to = p
    /\ WaitedOnce(change')
    /\ \A a \in Accounts : change'[a] # NoChange /\ change'[a] # change[a] =>
         change'[a].due > time

Effect(r) ==
    /\ DB' \in Database /\ ended' \subseteq Families
    /\ PeopleStep(r) /\ LoginsStep(r) /\ ChangesStep(r)
    /\ EndedStaysEnded' /\ TokensRotateOnce' /\ WaitedNumberIsFree'

\* What another does leaves a request's locks as they are.
LEMMA LocksStay ==
    ASSUME TypeOK, AllFit, NEW s \in Requests, req'[s] = req[s],
           \A p \in Phones : PhoneLock(p) \in HeldBy(s) => OnPhone(p)' = OnPhone(p)
    PROVE  /\ Running(s)' <=> Running(s)
           /\ HeldBy(s)' = HeldBy(s)
           /\ HoldsAll(s)' <=> HoldsAll(s)
           /\ Running(s) => req[s].step <= Len(LockOrder(req[s]))' + 1
<1>1. Running(s)' <=> Running(s)
  BY DEF Running
<1>2. CASE ~Running(s)
  BY <1>1, <1>2 DEF HeldBy, HoldsAll
<1>3. CASE Running(s)
  <2>1. /\ req[s] \in Request /\ FitsOp(req[s]) /\ HeldBy(s) = HeldOf(req[s])
        /\ req[s].step <= Len(LockOrder(req[s])) + 1
    BY <1>3, InFlight DEF AllFit
  <2>2. PICK q \in Request : q = req[s]
    BY <2>1
  <2>3. /\ FitsOp(q) /\ HeldBy(s) = HeldOf(q) /\ q.step <= Len(LockOrder(q)) + 1
    BY <2>1, <2>2
  <2>4. q.knew.phone \in Phones \union {NoPhone}
    BY <2>2 DEF Request, Account
  <2>5. OnPhone(NoPhone)' = OnPhone(NoPhone)
    BY DEF OnPhone
  <2>6. PhoneLock(q.knew.phone) \in HeldOf(q) => OnPhone(q.knew.phone)' = OnPhone(q.knew.phone)
    BY <2>3, <2>4, <2>5
  <2>7. /\ HeldOf(q)' = HeldOf(q)
        /\ q.step <= Len(LockOrder(q)') + 1
        /\ (q.step > Len(LockOrder(q))') <=> (q.step > Len(LockOrder(q)))
    BY <2>3, <2>6, OrderStays
  <2>8. req'[s] = q
    BY <2>2
  <2>9. HeldBy(s)' = HeldOf(q)'
    BY <1>1, <1>3, <2>8 DEF HeldBy, HeldOf
  <2>10. HoldsAll(s)' <=> q.step > Len(LockOrder(q))'
    BY <1>1, <1>3, <2>8 DEF HoldsAll
  <2>11. HoldsAll(s) <=> q.step > Len(LockOrder(q))
    BY <1>3, <2>2 DEF HoldsAll
  <2>12. Len(LockOrder(req[s]))' = Len(LockOrder(q))'
    BY <2>8
  <2> QED
    BY <1>1, <2>2, <2>3, <2>7, <2>9, <2>10, <2>11, <2>12
<1> QED
  BY <1>2, <1>3

LEMMA Replaced ==
    ASSUME TypeOK, NEW r \in Requests, NEW q \in Request \union {Idle},
           req' = [req EXCEPT ![r] = q]
    PROVE  /\ req' \in [Requests -> Request \union {Idle}]
           /\ req'[r] = q
           /\ \A s \in Requests : s # r => req'[s] = req[s]
BY DEF TypeOK

\* What the others read under their locks still stands after a commit.
LEMMA SawStays ==
    ASSUME SignInInv, NEW r \in Requests, NEW s \in Requests, s # r, HoldsAll(s),
           req'[s] = req[s], HeldBy(s)' = HeldBy(s),
           PeopleStep(r), LoginsStep(r), ChangesStep(r)
    PROVE  SawStands(s)'
<1>1. SawStands(s) /\ Exclusive /\ TypeOK
  BY DEF SignInInv, AllSawStand
<1>2. PICK q : q = req[s]
  OBVIOUS
<1>3. PICK d : d = q.saw
  OBVIOUS
<1>4. /\ d \in Database
      /\ \A p \in Phones : PhoneLock(p) \in HeldBy(s) => NumberStands(d, p)
      /\ \A a \in Accounts : AccountLock(a) \in HeldBy(s) => LoginsStand(d, a)
      /\ q.op \in OnSession => d.family[q.family].of = q.of
      /\ WaitedOnce(d.change) /\ KnowsTo(d.change, q)
  BY <1>1, <1>2, <1>3 DEF SawStands
<1>5. HeldBy(s) \intersect HeldBy(r) = {}
  BY <1>1 DEF Exclusive
<1>6. ASSUME NEW p \in Phones, PhoneLock(p) \in HeldBy(s)
      PROVE  NumberStands(d, p)'
  <2>1. NumberStands(d, p) /\ PhoneLock(p) \notin HeldBy(r)
    BY <1>4, <1>5, <1>6
  <2>2. OnPhone(p)' = OnPhone(p)
    BY <2>1 DEF PeopleStep
  <2>3. \A a \in Accounts : change'[a].to = p => d.change[a].to = p
    BY <2>1 DEF ChangesStep, NumberStands
  <2>4. ASSUME NEW f \in Families, family'[f].of \in OnPhone(p)
        PROVE  d.family[f].of = family'[f].of
    <3>1. family'[f] # NoLogin
      BY <2>4, LimitsAssumption DEF NoLogin, OnPhone, Nobody, Accounts
    <3>2. CASE family[f] = NoLogin
      <4>1. /\ PhoneLock(family'[f].on) \in HeldBy(r) /\ family'[f].on \in Phones
            /\ acct'[family'[f].of].phone = family'[f].on
        BY <3>1, <3>2 DEF LoginsStep
      <4>2. family'[f].of \in OnPhone(p)'
        BY <2>2, <2>4
      <4>3. acct'[family'[f].of].phone = p
        BY <4>2 DEF OnPhone
      <4> QED
        BY <2>1, <4>1, <4>3
    <3>3. CASE family[f] # NoLogin
      <4>1. family'[f].of = family[f].of
        BY <3>3 DEF LoginsStep
      <4> QED
        BY <2>1, <2>4, <4>1 DEF NumberStands
    <3> QED
      BY <3>2, <3>3
  <2> QED
    BY <2>1, <2>2, <2>3, <2>4 DEF NumberStands, OnNumber
<1>7. ASSUME NEW a \in Accounts, AccountLock(a) \in HeldBy(s)
      PROVE  LoginsStand(d, a)'
  <2>1. LoginsStand(d, a) /\ AccountLock(a) \notin HeldBy(r)
    BY <1>4, <1>5, <1>7
  <2>2. ASSUME NEW f \in Families, d.family[f].of = a
        PROVE  family'[f] = d.family[f]
    <3>1. family[f] = d.family[f]
      BY <2>1, <2>2 DEF LoginsStand
    <3>2. family[f] # NoLogin
      BY <2>2, <3>1, LimitsAssumption DEF NoLogin, Nobody, Accounts
    <3> QED
      BY <2>1, <2>2, <3>1, <3>2 DEF LoginsStep
  <2> QED
    BY <2>2 DEF LoginsStand
<1>8. req'[s] = q
  BY <1>2
<1> QED
  BY <1>3, <1>4, <1>6, <1>7, <1>8 DEF SawStands, WaitedOnce, KnowsTo, IsDue

LEMMA CommitKeeps ==
    ASSUME SignInInv, NEW r \in Requests,
           time' = time, req' = [req EXCEPT ![r] = Idle], Effect(r)
    PROVE  SignInInv'
<1>1. TypeOK /\ AllFit /\ Exclusive /\ AllSawStand /\ InTime /\ Whole
  BY DEF SignInInv
<1>2. PeopleStep(r) /\ LoginsStep(r) /\ ChangesStep(r)
  BY DEF Effect
<1>3. /\ req' \in [Requests -> Request \union {Idle}] /\ req'[r] = Idle
      /\ \A s \in Requests : s # r => req'[s] = req[s]
  BY <1>1, Replaced
<1>4. ~Running(r)' /\ ~HoldsAll(r)' /\ HeldBy(r)' = {}
  BY <1>3 DEF Running, HoldsAll, HeldBy
<1>5. ASSUME NEW s \in Requests, s # r
      PROVE  /\ Running(s)' <=> Running(s)
             /\ HeldBy(s)' = HeldBy(s)
             /\ HoldsAll(s)' <=> HoldsAll(s)
             /\ Running(s) => req[s].step <= Len(LockOrder(req[s]))' + 1
  <2>1. req'[s] = req[s]
    BY <1>3, <1>5
  <2>2. HeldBy(s) \intersect HeldBy(r) = {}
    BY <1>1, <1>5 DEF Exclusive
  <2>3. \A p \in Phones : PhoneLock(p) \in HeldBy(s) => OnPhone(p)' = OnPhone(p)
    BY <1>2, <2>2 DEF PeopleStep
  <2> QED
    BY <1>1, <2>1, <2>3, LocksStay
<1>6. TypeOK'
  <2>1. \A s \in Requests : Running(s)' => req'[s].step <= Len(LockOrder(req[s]))' + 1
    BY <1>3, <1>4, <1>5
  <2>2. time' \in Times
    BY <1>1 DEF TypeOK
  <2> QED
    BY <1>3, <2>1, <2>2 DEF TypeOK, Effect
<1>7. AllFit'
  <2> SUFFICES ASSUME NEW s \in Requests, Running(s)'
               PROVE  FitsOp(req[s])'
    BY DEF AllFit
  <2>1. s # r /\ Running(s)
    BY <1>4, <1>5
  <2>2. FitsOp(req[s]) /\ req[s] \in Request
    BY <1>1, <2>1, InFlight DEF AllFit
  <2>3. PICK q \in Request : q = req[s]
    BY <2>2
  <2>4. req'[s] = q /\ FitsOp(q)
    BY <1>3, <2>1, <2>2, <2>3
  <2>5. q.op \in OnSession => family'[q.family].of = family[q.family].of
    <3>1. q.op \in OnSession =>
            /\ q.family \in Families /\ family[q.family].of = q.of /\ q.of \in Accounts
      BY <2>4 DEF FitsOp, OnSession, OnCode
    <3>2. q.op \in OnSession => family[q.family] # NoLogin
      BY <3>1, LimitsAssumption DEF NoLogin, Nobody, Accounts
    <3> QED
      BY <1>2, <3>1, <3>2 DEF LoginsStep
  <2>6. q.op = "refresh" => q.code \in DOMAIN family'[q.family].rows
    <3>1. q.op = "refresh" =>
            /\ q.family \in Families /\ family[q.family].of = q.of /\ q.of \in Accounts
            /\ q.code \in DOMAIN family[q.family].rows
      BY <2>4 DEF FitsOp, OnSession, OnCode
    <3>2. q.op = "refresh" => family[q.family] # NoLogin
      BY <3>1, LimitsAssumption DEF NoLogin, Nobody, Accounts
    <3> QED
      BY <1>2, <3>1, <3>2 DEF LoginsStep
  <2>7. FitsOp(q)'
    BY <2>4, <2>5, <2>6 DEF FitsOp
  <2> QED
    BY <2>4, <2>7
<1>8. Exclusive'
  BY <1>1, <1>4, <1>5 DEF Exclusive
<1>9. AllSawStand'
  <2> SUFFICES ASSUME NEW s \in Requests, HoldsAll(s)'
               PROVE  SawStands(s)'
    BY DEF AllSawStand
  <2>1. s # r
    BY <1>4
  <2> QED
    BY <1>2, <1>3, <1>5, <2>1, SawStays
<1>10. InTime'
  <2> SUFFICES ASSUME NEW s \in Requests, Running(s)'
               PROVE  (/\ req[s].now <= time /\ time <= req[s].now + Patience
                       /\ KnowsTo(change, req[s]))'
    BY DEF InTime
  <2>1. s # r /\ Running(s)
    BY <1>4, <1>5
  <2>2. req[s] \in Request
    BY <1>1, <2>1, InFlight
  <2>3. PICK q \in Request : q = req[s]
    BY <2>2
  <2>4. q.now <= time /\ time <= q.now + Patience /\ KnowsTo(change, q) /\ FitsOp(q)
    BY <1>1, <2>1, <2>3 DEF InTime, AllFit
  <2>5. q.now \in Int /\ time \in Int
    BY <1>1 DEF Request, Times, TypeOK
  <2>6. KnowsTo(change', q)
    <3>1. SUFFICES ASSUME q.op = "make", change'[q.of] # NoChange, q.now >= change'[q.of].due
                   PROVE  change'[q.of].to = q.to
      BY DEF KnowsTo, IsDue
    <3>2. q.of \in Accounts
      BY <2>4, <3>1 DEF FitsOp, OnCode
    <3>3. change' \in [Accounts -> Change \union {NoChange}]
      BY <1>6 DEF TypeOK, DB, Database
    <3>4. change'[q.of].due \in Int
      BY <3>1, <3>2, <3>3 DEF Change
    <3>5. change'[q.of] = change[q.of]
      BY <1>2, <2>4, <2>5, <3>1, <3>2, <3>4 DEF ChangesStep
    <3> QED
      BY <2>4, <3>1, <3>5 DEF KnowsTo, IsDue
  <2>7. req'[s] = q
    BY <1>3, <2>1, <2>3
  <2> QED
    BY <2>4, <2>6, <2>7 DEF KnowsTo, IsDue
<1>11. Whole'
  <2>1. \A a \in Accounts : acct'[a].phone # NoPhone => acct'[a].role # "none"
    BY <1>2 DEF PeopleStep
  <2>2. ASSUME NEW f \in Families, family'[f] # NoLogin
        PROVE  acct'[family'[f].of].role # "none"
    <3>1. CASE family[f] # NoLogin
      <4>1. family'[f].of = family[f].of /\ acct[family[f].of].role # "none"
        BY <1>1, <1>2, <3>1 DEF LoginsStep, Whole
      <4>2. family[f].of \in Accounts
        BY <1>1, <3>1 DEF TypeOK, DB, Database, Login
      <4> QED
        BY <1>2, <4>1, <4>2 DEF PeopleStep
    <3>2. CASE family[f] = NoLogin
      <4>1. /\ family'[f].on \in Phones
            /\ family'[f].of \in Accounts /\ acct'[family'[f].of].phone = family'[f].on
        BY <1>2, <2>2, <3>2 DEF LoginsStep
      <4>2. acct'[family'[f].of].phone # NoPhone
        BY <4>1, PhonesAssumption DEF NoPhone
      <4> QED
        BY <2>1, <4>1, <4>2
    <3> QED
      BY <3>1, <3>2
  <2>3. \A f \in ended' : family'[f] # NoLogin
    BY <1>2 DEF LoginsStep
  <2> QED
    BY <2>1, <2>2, <2>3 DEF Whole
<1>12. SessionsProveTheNumber'
  <2> SUFFICES ASSUME NEW f \in Families, Live(DB, f)'
               PROVE  acct'[family'[f].of].phone = family'[f].on
    BY DEF SessionsProveTheNumber
  <2>1. EndedStaysEnded' /\ f \notin ended'
    BY DEF Effect, EndedStaysEnded
  <2>2. family'[f] # NoLogin
    BY DEF Live, RowsOf, DB, NoLogin
  <2>3. CASE family[f] = NoLogin
    BY <1>2, <2>2, <2>3 DEF LoginsStep
  <2>4. CASE family[f] # NoLogin
    <3>1. Live(DB, f) /\ family'[f].of = family[f].of /\ family'[f].on = family[f].on
      BY <1>2, <2>4 DEF LoginsStep
    <3>2. acct[family[f].of].phone = family[f].on
      BY <3>1 DEF SignInInv, SessionsProveTheNumber
    <3>3. acct'[family[f].of].phone = acct[family[f].of].phone
      BY <1>2, <2>1, <2>4 DEF PeopleStep
    <3> QED
      BY <3>1, <3>2, <3>3
  <2> QED
    BY <2>3, <2>4
<1>13. WaitedOnce(change)'
  BY <1>2 DEF ChangesStep, WaitedOnce
<1> QED
  BY <1>6, <1>7, <1>8, <1>9, <1>10, <1>11, <1>12, <1>13 DEF SignInInv, Effect

-----------------------------------------------------------------------------
(* Beginning, taking a lock, and time going by.                               *)

\* When nothing is written, nothing a request has read or holds changes.
LEMMA Unwritten ==
    ASSUME SignInInv, NEW s \in Requests, req'[s] = req[s], UNCHANGED <<db, ended>>
    PROVE  /\ Running(s)' <=> Running(s)
           /\ HeldBy(s)' = HeldBy(s)
           /\ HoldsAll(s)' <=> HoldsAll(s)
           /\ Running(s) => req[s].step <= Len(LockOrder(req[s]))' + 1
           /\ HoldsAll(s) => SawStands(s)'
<1>1. TypeOK /\ AllFit
  BY DEF SignInInv
<1>2. /\ acct' = acct /\ family' = family /\ sent' = sent /\ stepUp' = stepUp
      /\ change' = change /\ ended' = ended
  BY DEF db
<1>3. \A p : OnPhone(p)' = OnPhone(p)
  BY <1>2 DEF OnPhone
<1>4. /\ Running(s)' <=> Running(s)
      /\ HeldBy(s)' = HeldBy(s)
      /\ HoldsAll(s)' <=> HoldsAll(s)
      /\ Running(s) => req[s].step <= Len(LockOrder(req[s]))' + 1
  BY <1>1, <1>3, LocksStay
<1>5. ASSUME HoldsAll(s)
      PROVE  SawStands(s)'
  <2>1. SawStands(s)
    BY <1>5 DEF SignInInv, AllSawStand
  <2>2. \A d, p : NumberStands(d, p) => NumberStands(d, p)'
    BY <1>2 DEF NumberStands, OnNumber, OnPhone
  <2>3. \A d, a : LoginsStand(d, a) => LoginsStand(d, a)'
    BY <1>2 DEF LoginsStand
  <2> QED
    BY <1>4, <2>1, <2>2, <2>3 DEF SawStands, WaitedOnce, KnowsTo, IsDue
<1> QED
  BY <1>4, <1>5

LEMMA StoreStays ==
    ASSUME SignInInv, UNCHANGED <<db, ended>>
    PROVE  /\ Whole' /\ WaitedOnce(change)' /\ EndedStaysEnded' /\ TokensRotateOnce'
           /\ SessionsProveTheNumber' /\ WaitedNumberIsFree'
           /\ DB' \in Database /\ ended' \subseteq Families
<1>1. /\ acct' = acct /\ family' = family /\ sent' = sent /\ stepUp' = stepUp
      /\ change' = change /\ ended' = ended
  BY DEF db
<1>2. DB' = DB
  BY <1>1 DEF DB
<1>3. Whole' /\ WaitedOnce(change)'
  BY <1>1 DEF SignInInv, Whole, WaitedOnce
<1>4. EndedStaysEnded' /\ SessionsProveTheNumber'
  BY <1>1, <1>2 DEF SignInInv, EndedStaysEnded, SessionsProveTheNumber, Live, RowsOf
<1>5. TokensRotateOnce' /\ WaitedNumberIsFree'
  BY <1>1, <1>2 DEF SignInInv, TokensRotateOnce, WaitedNumberIsFree, Waiting, OnNumber
<1>6. DB' \in Database /\ ended' \subseteq Families
  BY <1>1, <1>2 DEF SignInInv, TypeOK
<1> QED
  BY <1>3, <1>4, <1>5, <1>6

\* What a request is when it begins.
Asked(q) ==
    /\ q \in Request /\ FitsOp(q)
    /\ q.step = 1 /\ q.now = time /\ KnowsTo(change, q)

LEMMA BeganKeeps ==
    ASSUME SignInInv, NEW r \in Requests, NEW q, Asked(q), Began(r, q)
    PROVE  SignInInv'
<1>1. TypeOK /\ AllFit /\ Exclusive /\ AllSawStand /\ InTime
  BY DEF SignInInv
<1>2. /\ req' = [req EXCEPT ![r] = q] /\ time' = time /\ UNCHANGED <<db, ended>>
      /\ q \in Request /\ FitsOp(q) /\ q.step = 1 /\ q.now = time /\ KnowsTo(change, q)
  BY DEF Began, Asked
<1>3. /\ req' \in [Requests -> Request \union {Idle}] /\ req'[r] = q
      /\ \A s \in Requests : s # r => req'[s] = req[s]
  BY <1>1, <1>2, Replaced
<1>4. /\ acct' = acct /\ family' = family /\ change' = change
  BY <1>2 DEF db
<1>5. FitsOp(q)' /\ OnPhone(q.knew.phone)' = OnPhone(q.knew.phone)
  BY <1>2, <1>4 DEF FitsOp, OnPhone
<1>6. /\ HeldOf(q)' = {} /\ q.step <= Len(LockOrder(q)') + 1
      /\ ~(q.step > Len(LockOrder(q))')
  <2>1. HeldOf(q) = {} /\ q.step <= Len(LockOrder(q)) /\ Len(LockOrder(q)) \in Nat \ {0}
    BY <1>2, Beginning, Orders
  <2>2. q.step <= Len(LockOrder(q)) + 1 /\ ~(q.step > Len(LockOrder(q)))
    BY <1>2, <2>1
  <2> QED
    BY <1>1, <1>2, <1>5, <2>1, <2>2, OrderStays
<1>7. HeldBy(r)' = {} /\ ~HoldsAll(r)'
  BY <1>3, <1>6 DEF HeldBy, HeldOf, HoldsAll
<1>8. \A s \in Requests : s # r =>
        /\ Running(s)' <=> Running(s)
        /\ HeldBy(s)' = HeldBy(s)
        /\ HoldsAll(s)' <=> HoldsAll(s)
        /\ Running(s) => req[s].step <= Len(LockOrder(req[s]))' + 1
        /\ HoldsAll(s) => SawStands(s)'
  BY <1>2, <1>3, Unwritten
<1>9. TypeOK'
  <2>1. \A s \in Requests : Running(s)' => req'[s].step <= Len(LockOrder(req[s]))' + 1
    BY <1>3, <1>6, <1>8
  <2>2. DB' \in Database /\ ended' \subseteq Families
    BY <1>2, StoreStays
  <2>3. time' \in Times
    BY <1>1, <1>2 DEF TypeOK
  <2> QED
    BY <1>3, <2>1, <2>2, <2>3 DEF TypeOK
<1>10. AllFit'
  BY <1>1, <1>3, <1>4, <1>5, <1>8 DEF AllFit, FitsOp
<1>11. Exclusive'
  BY <1>1, <1>7, <1>8 DEF Exclusive
<1>12. AllSawStand'
  BY <1>7, <1>8 DEF AllSawStand
<1>13. InTime'
  <2>1. time \in Int /\ Patience \in Nat
    BY <1>1, LimitsAssumption DEF TypeOK, Times
  <2> QED
    BY <1>1, <1>2, <1>3, <1>4, <1>8, <2>1 DEF InTime, KnowsTo, IsDue
<1> QED
  BY <1>2, <1>9, <1>10, <1>11, <1>12, <1>13, StoreStays DEF SignInInv

LEMMA TickKeeps ==
    ASSUME SignInInv, Tick
    PROVE  SignInInv'
<1>1. TypeOK /\ AllFit /\ Exclusive /\ AllSawStand /\ InTime
  BY DEF SignInInv
<1>2. /\ time < MaxTime /\ time' = time + 1 /\ UNCHANGED <<db, ended>> /\ req' = req
      /\ \A r \in Requests : Running(r) => time < req[r].now + Patience
  BY DEF Tick
<1>3. \A s \in Requests :
        /\ Running(s)' <=> Running(s)
        /\ HeldBy(s)' = HeldBy(s)
        /\ HoldsAll(s)' <=> HoldsAll(s)
        /\ Running(s) => req[s].step <= Len(LockOrder(req[s]))' + 1
        /\ HoldsAll(s) => SawStands(s)'
  BY <1>2, Unwritten
<1>4. TypeOK'
  <2>1. \A s \in Requests : Running(s)' => req'[s].step <= Len(LockOrder(req[s]))' + 1
    BY <1>2, <1>3
  <2>2. DB' \in Database /\ ended' \subseteq Families
    BY <1>2, StoreStays
  <2>3. time' \in Times
    BY SMTT(30), <1>1, <1>2, LimitsAssumption DEF TypeOK, Times
  <2> QED
    BY <1>1, <1>2, <2>1, <2>2, <2>3 DEF TypeOK
<1>5. family' = family /\ change' = change
  BY <1>2 DEF db
<1>6. AllFit'
  BY <1>1, <1>2, <1>3, <1>5 DEF AllFit, FitsOp
<1>7. Exclusive' /\ AllSawStand'
  BY <1>1, <1>3 DEF Exclusive, AllSawStand
<1>8. InTime'
  <2> SUFFICES ASSUME NEW s \in Requests, Running(s)
               PROVE  /\ req[s].now <= time + 1 /\ time + 1 <= req[s].now + Patience
                      /\ KnowsTo(change, req[s])
    BY <1>2, <1>3, <1>5 DEF InTime, KnowsTo, IsDue
  <2>1. time \in Int /\ Patience \in Nat
    BY <1>1, LimitsAssumption DEF TypeOK, Times
  <2>2. req[s].now \in Int
    BY <1>1, InFlight DEF Request, Times
  <2> QED
    BY <1>1, <1>2, <2>1, <2>2 DEF InTime
<1> QED
  BY <1>2, <1>4, <1>6, <1>7, <1>8, StoreStays DEF SignInInv

\* The request with one lock more.
Advance(q, seen) == [q EXCEPT !.step = @ + 1, !.saw = seen]

LEMMA Advanced ==
    ASSUME NEW q \in Request, NEW seen \in Database \union {Unread}, NEW n,
           n = Advance(q, seen)
    PROVE  /\ n \in Request /\ n.step = q.step + 1
           /\ n.op = q.op /\ n.of = q.of /\ n.to = q.to /\ n.knew = q.knew
           /\ n.family = q.family /\ n.role = q.role /\ n.now = q.now /\ n.code = q.code
           /\ n.saw = seen
<1>1. q.step + 1 \in Nat \ {0}
  BY DEF Request
<1>2. n \in Request
  BY <1>1 DEF Request, Advance
<1>3. /\ n.step = q.step + 1
      /\ n.op = q.op /\ n.of = q.of /\ n.to = q.to /\ n.knew = q.knew
      /\ n.family = q.family /\ n.role = q.role /\ n.now = q.now /\ n.code = q.code
      /\ n.saw = seen
  BY DEF Request, Advance
<1> QED
  BY <1>2, <1>3

\* What a request reads with its last lock stands.
LEMMA JustRead ==
    ASSUME SignInInv, NEW r \in Requests, Running(r), UNCHANGED <<db, ended>>,
           HoldsAll(r)', NEW n \in Request, req'[r] = n, n.saw = DB,
           FitsOp(n), KnowsTo(change, n)
    PROVE  SawStands(r)'
<1>1. /\ acct' = acct /\ family' = family /\ change' = change
  BY DEF db
<1>2. PICK d : d = DB
  OBVIOUS
<1>3. /\ d.acct = acct /\ d.family = family /\ d.change = change /\ d \in Database
  BY <1>2 DEF DB, SignInInv, TypeOK
<1>4. \A p : NumberStands(d, p)'
  BY <1>1, <1>3 DEF NumberStands, OnNumber, OnPhone
<1>5. \A a : LoginsStand(d, a)'
  BY <1>1, <1>3 DEF LoginsStand
<1>6. n.op \in OnSession => d.family[n.family].of = n.of
  BY <1>3 DEF FitsOp
<1>7. WaitedOnce(d.change) /\ KnowsTo(d.change, n)
  BY <1>3 DEF SignInInv
<1>8. req'[r].saw = d
  BY <1>2
<1> QED
  BY <1>3, <1>4, <1>5, <1>6, <1>7, <1>8 DEF SawStands, WaitedOnce, KnowsTo, IsDue

LEMMA TakeKeeps ==
    ASSUME SignInInv, NEW r \in Requests, Take(r)
    PROVE  SignInInv'
<1>1. TypeOK /\ AllFit /\ Exclusive /\ AllSawStand /\ InTime
  BY DEF SignInInv
<1>2. /\ Running(r) /\ ~HoldsAll(r) /\ time' = time /\ UNCHANGED <<db, ended>>
      /\ \A s \in Requests \ {r} : LockOrder(req[r])[req[r].step] \notin HeldBy(s)
  BY DEF Take
<1>3. /\ req[r] \in Request /\ HeldBy(r) = HeldOf(req[r]) /\ FitsOp(req[r])
      /\ KnowsTo(change, req[r])
  BY <1>1, <1>2, InFlight DEF AllFit, InTime
<1>4. PICK q \in Request : q = req[r]
  BY <1>3
<1>5. DB \in Database /\ q.saw \in Database \union {Unread} /\ q.step \in Nat \ {0}
  BY <1>1, <1>4 DEF TypeOK, Request
<1> DEFINE last == q.step = Len(LockOrder(q))
<1>6. PICK seen \in Database \union {Unread} : seen = IF last THEN DB ELSE q.saw
  BY <1>5
<1>7. PICK n : n = Advance(q, seen)
  OBVIOUS
<1>8. /\ n \in Request /\ n.step = q.step + 1
      /\ n.op = q.op /\ n.of = q.of /\ n.to = q.to /\ n.knew = q.knew
      /\ n.family = q.family /\ n.role = q.role /\ n.now = q.now /\ n.code = q.code
      /\ n.saw = seen
  BY <1>6, <1>7, Advanced
<1>9. req' = [req EXCEPT ![r] = n]
  BY <1>4, <1>6, <1>7 DEF Take, Advance
<1> HIDE DEF last
<1>10. /\ req' \in [Requests -> Request \union {Idle}] /\ req'[r] = n
       /\ \A s \in Requests : s # r => req'[s] = req[s]
  BY <1>1, <1>8, <1>9, Replaced
<1>11. /\ acct' = acct /\ family' = family /\ change' = change
  BY <1>2 DEF db
<1>12. FitsOp(q) /\ KnowsTo(change, q) /\ FitsOp(n) /\ KnowsTo(change, n) /\ FitsOp(n)'
  BY <1>3, <1>4, <1>8, <1>11 DEF FitsOp, KnowsTo, IsDue
<1>13. PICK o : o = LockOrder(q)
  OBVIOUS
<1>14. LockOrder(n)' = o
  BY <1>8, <1>11, <1>13 DEF LockOrder, StepUpLocks, RefreshLocks, PhoneLocks, BothNumbers,
                            SessionsLock, ChangeLock, OnPhone
<1>15. Len(o) \in Nat \ {0}
  BY <1>12, <1>13, Orders
<1>16. q.step <= Len(o)
  BY <1>2, <1>4, <1>5, <1>13, <1>15 DEF HoldsAll
<1>17. HoldsAll(r)' <=> last
  <2>1. HoldsAll(r)' <=> n.step > Len(o)
    BY <1>8, <1>10, <1>14, NotIdle DEF HoldsAll, Running
  <2>2. n.step > Len(o) <=> q.step = Len(o)
    BY <1>5, <1>8, <1>15, <1>16
  <2> QED
    BY <1>13, <2>1, <2>2 DEF last
<1>18. HeldBy(r)' = HeldBy(r) \union {o[q.step]}
  <2>1. HeldBy(r)' = {o[i] : i \in 1..(n.step - 1)}
    BY <1>8, <1>10, <1>14, NotIdle DEF HeldBy, Running
  <2>2. HeldBy(r) = {o[i] : i \in 1..(q.step - 1)}
    BY <1>3, <1>4, <1>13 DEF HeldOf
  <2>3. 1..(n.step - 1) = 1..(q.step - 1) \union {q.step}
    BY <1>5, <1>8
  <2> QED
    BY <2>1, <2>2, <2>3
<1>19. \A s \in Requests : s # r =>
        /\ Running(s)' <=> Running(s)
        /\ HeldBy(s)' = HeldBy(s)
        /\ HoldsAll(s)' <=> HoldsAll(s)
        /\ Running(s) => req[s].step <= Len(LockOrder(req[s]))' + 1
        /\ HoldsAll(s) => SawStands(s)'
  BY <1>2, <1>10, Unwritten
<1>20. TypeOK'
  <2>1. n.step <= Len(LockOrder(n)') + 1
    BY <1>5, <1>8, <1>14, <1>15, <1>16
  <2>2. \A s \in Requests : Running(s)' => req'[s].step <= Len(LockOrder(req[s]))' + 1
    BY <1>10, <1>19, <2>1
  <2>3. DB' \in Database /\ ended' \subseteq Families
    BY <1>2, StoreStays
  <2>4. time' \in Times
    BY <1>1, <1>2 DEF TypeOK
  <2> QED
    BY <1>10, <2>2, <2>3, <2>4 DEF TypeOK
<1>21. AllFit'
  BY <1>1, <1>10, <1>11, <1>12, <1>19 DEF AllFit, FitsOp
<1>22. Exclusive'
  <2>1. \A s \in Requests : s # r => o[q.step] \notin HeldBy(s)
    BY <1>2, <1>4, <1>13
  <2> QED
    BY <1>1, <1>18, <1>19, <2>1 DEF Exclusive
<1>23. AllSawStand'
  <2> SUFFICES ASSUME NEW s \in Requests, HoldsAll(s)'
               PROVE  SawStands(s)'
    BY DEF AllSawStand
  <2>1. CASE s # r
    BY <1>19, <2>1
  <2>2. CASE s = r
    BY <1>2, <1>6, <1>8, <1>10, <1>12, <1>17, <2>2, JustRead
  <2> QED
    BY <2>1, <2>2
<1>24. InTime'
  BY <1>1, <1>2, <1>4, <1>8, <1>10, <1>11, <1>12, <1>19 DEF InTime, KnowsTo, IsDue
<1> QED
  BY <1>2, <1>20, <1>21, <1>22, <1>23, <1>24, StoreStays DEF SignInInv

-----------------------------------------------------------------------------
(* What can be asked.                                                         *)

LEMMA BlankFresh ==
    ASSUME TypeOK, NEW op \in Ops
    PROVE  /\ Fresh(op) \in Request /\ Fresh(op).op = op /\ Fresh(op).step = 1
           /\ Fresh(op).now = time
<1>1. time \in Times
  BY DEF TypeOK
<1>2. NoAccount \in Account
  BY DEF NoAccount, Account
<1>3. <<"everywhere">> \in Actions /\ 0 \in Nat /\ 1 \in Nat \ {0}
  BY DEF Actions
<1>4. Fresh(op) \in Request
  BY <1>1, <1>2, <1>3 DEF Fresh, Request, Nobody, NoPhone
<1> QED
  BY <1>4 DEF Fresh

LEMMA BlankAsking ==
    ASSUME TypeOK, NEW op \in Ops, NEW a \in Accounts
    PROVE  /\ Asking(op, a) \in Request /\ Asking(op, a).op = op /\ Asking(op, a).of = a
           /\ Asking(op, a).step = 1 /\ Asking(op, a).now = time
           /\ Asking(op, a).knew = acct[a]
<1>1. acct[a] \in Account
  BY DEF TypeOK, DB, Database
<1>2. PICK s \in Request : s = Fresh(op) /\ s.op = op /\ s.step = 1 /\ s.now = time
  BY BlankFresh
<1>3. Asking(op, a) = [s EXCEPT !.of = a, !.knew = acct[a]]
  BY <1>2 DEF Asking
<1>4. Asking(op, a) \in Request
  BY <1>1, <1>3 DEF Request
<1> QED
  BY <1>2, <1>3, <1>4 DEF Request

\* The codes that can be shown are numbers, and so is an action an action.
LEMMA Nouns ==
    /\ \A codes : codes \in Seq(Code) \union Seq(StepUpCode) =>
         \A code \in Shown(codes) : code \in Nat
    /\ <<"delete">> \in Actions /\ <<"everywhere">> \in Actions
    /\ \A p \in Phones : <<"move", p>> \in Actions
<1>1. \A codes : codes \in Seq(Code) \union Seq(StepUpCode) =>
         \A code \in Shown(codes) : code \in Nat
  BY DEF Shown
<1> QED
  BY <1>1 DEF Actions

LEMMA NumberIsAsked ==
    ASSUME SignInInv, NEW r \in Requests, BeginOnNumber(r)
    PROVE  \E q : Asked(q) /\ Began(r, q)
<1>1. TypeOK
  BY DEF SignInInv
<1>2. PICK p \in Phones :
         \/ Began(r, [Fresh("code") EXCEPT !.to = p])
         \/ \E role \in Sides, code \in Shown(sent[p]) :
              Began(r, [Fresh("login") EXCEPT !.to = p, !.role = role, !.code = code])
  BY DEF BeginOnNumber
<1>3. {"code", "login"} \subseteq Ops
  BY DEF Ops
<1>4. CASE Began(r, [Fresh("code") EXCEPT !.to = p])
  <2>1. PICK s \in Request : s = Fresh("code") /\ s.op = "code" /\ s.step = 1 /\ s.now = time
    BY <1>1, <1>3, BlankFresh
  <2>2. PICK q : q = [s EXCEPT !.to = p]
    OBVIOUS
  <2>3. q \in Request /\ q.op = "code" /\ q.to = p /\ q.step = 1 /\ q.now = time
    BY <2>1, <2>2 DEF Request
  <2>4. FitsOp(q) /\ KnowsTo(change, q)
    BY <2>3 DEF FitsOp, KnowsTo, OnCode, OnOldNumber, OnNewNumber, OnSession
  <2>5. Asked(q) /\ Began(r, q)
    BY <1>4, <2>1, <2>2, <2>3, <2>4 DEF Asked
  <2> QED
    BY <2>5
<1>5. ASSUME NEW role \in Sides, NEW code \in Shown(sent[p]),
             Began(r, [Fresh("login") EXCEPT !.to = p, !.role = role, !.code = code])
      PROVE  \E q : Asked(q) /\ Began(r, q)
  <2>1. PICK s \in Request : s = Fresh("login") /\ s.op = "login" /\ s.step = 1 /\ s.now = time
    BY <1>1, <1>3, BlankFresh
  <2>2. PICK q : q = [s EXCEPT !.to = p, !.role = role, !.code = code]
    OBVIOUS
  <2>3. sent[p] \in Seq(Code)
    BY <1>1 DEF TypeOK, DB, Database
  <2>4. code \in Nat
    BY <2>3, Nouns
  <2>5. q \in Request /\ q.op = "login" /\ q.to = p /\ q.role = role /\ q.step = 1 /\ q.now = time
    BY <2>1, <2>2, <2>4 DEF Request
  <2>6. FitsOp(q) /\ KnowsTo(change, q)
    BY <2>5 DEF FitsOp, KnowsTo, OnCode, OnOldNumber, OnNewNumber, OnSession
  <2>7. Asked(q) /\ Began(r, q)
    BY <1>5, <2>1, <2>2, <2>5, <2>6 DEF Asked
  <2> QED
    BY <2>7
<1> QED
  BY <1>2, <1>4, <1>5

LEMMA SessionIsAsked ==
    ASSUME SignInInv, NEW r \in Requests, BeginSession(r)
    PROVE  \E q : Asked(q) /\ Began(r, q)
<1>1. TypeOK
  BY DEF SignInInv
<1>2. PICK f \in Families : \E i \in DOMAIN family[f].rows :
         \/ Began(r, [Fresh("refresh") EXCEPT !.of = family[f].of, !.family = f, !.code = i])
         \/ Began(r, [Fresh("logout") EXCEPT !.of = family[f].of, !.family = f])
  BY DEF BeginSession
<1>3. PICK i \in DOMAIN family[f].rows :
         \/ Began(r, [Fresh("refresh") EXCEPT !.of = family[f].of, !.family = f, !.code = i])
         \/ Began(r, [Fresh("logout") EXCEPT !.of = family[f].of, !.family = f])
  BY <1>2
<1>4. family[f] \in Login
  <2>1. family[f] \in Login \union {NoLogin}
    BY <1>1 DEF TypeOK, DB, Database
  <2>2. family[f] # NoLogin
    BY <1>3 DEF NoLogin
  <2> QED
    BY <2>1, <2>2
<1>5. family[f].of \in Accounts /\ i \in Nat
  BY <1>4 DEF Login
<1>6. {"refresh", "logout"} \subseteq Ops
  BY DEF Ops
<1>7. CASE Began(r, [Fresh("refresh") EXCEPT !.of = family[f].of, !.family = f, !.code = i])
  <2>1. PICK s \in Request : s = Fresh("refresh") /\ s.op = "refresh" /\ s.step = 1 /\ s.now = time
    BY <1>1, <1>6, BlankFresh
  <2>2. PICK q : q = [s EXCEPT !.of = family[f].of, !.family = f, !.code = i]
    OBVIOUS
  <2>3. /\ q \in Request /\ q.op = "refresh" /\ q.of = family[f].of /\ q.family = f
        /\ q.step = 1 /\ q.now = time /\ q.code = i
    BY <1>5, <2>1, <2>2 DEF Request
  <2>4. FitsOp(q) /\ KnowsTo(change, q)
    BY <1>5, <2>3 DEF FitsOp, KnowsTo, OnCode, OnOldNumber, OnNewNumber, OnSession
  <2>5. Asked(q) /\ Began(r, q)
    BY <1>7, <2>1, <2>2, <2>3, <2>4 DEF Asked
  <2> QED
    BY <2>5
<1>8. CASE Began(r, [Fresh("logout") EXCEPT !.of = family[f].of, !.family = f])
  <2>1. PICK s \in Request : s = Fresh("logout") /\ s.op = "logout" /\ s.step = 1 /\ s.now = time
    BY <1>1, <1>6, BlankFresh
  <2>2. PICK q : q = [s EXCEPT !.of = family[f].of, !.family = f]
    OBVIOUS
  <2>3. /\ q \in Request /\ q.op = "logout" /\ q.of = family[f].of /\ q.family = f
        /\ q.step = 1 /\ q.now = time
    BY <1>5, <2>1, <2>2 DEF Request
  <2>4. FitsOp(q) /\ KnowsTo(change, q)
    BY <1>5, <2>3 DEF FitsOp, KnowsTo, OnCode, OnOldNumber, OnNewNumber, OnSession
  <2>5. Asked(q) /\ Began(r, q)
    BY <1>8, <2>1, <2>2, <2>3, <2>4 DEF Asked
  <2> QED
    BY <2>5
<1> QED
  BY <1>3, <1>7, <1>8

\* A session, or a job, asks for an account that has a number.
LEMMA AccountAsks ==
    ASSUME TypeOK, NEW a \in Accounts, acct[a].phone # NoPhone, NEW q \in Request,
           q.op \in {"step_up", "everywhere", "delete", "erase", "claim", "cancel", "keep",
                     "make", "suspend", "restore"},
           q.of = a, q.step = 1, q.now = time,
           q.op \notin {"suspend", "restore"} => q.knew = acct[a],
           q.op = "claim" => q.to \in Phones,
           q.op = "make" => change[a] # NoChange /\ q.to = change[a].to
    PROVE  Asked(q)
<1>1. acct[a].phone \in Phones
  BY DEF TypeOK, DB, Database, Account
<1>2. q.op = "make" => q.to \in Phones
  BY DEF TypeOK, DB, Database, Change
<1>3. FitsOp(q)
  BY <1>1, <1>2 DEF FitsOp, OnCode, OnOldNumber, OnNewNumber, OnSession
<1>4. KnowsTo(change, q)
  BY DEF KnowsTo
<1> QED
  BY <1>3, <1>4 DEF Asked

LEMMA SignedInIsAsked ==
    ASSUME SignInInv, NEW r \in Requests, BeginSignedIn(r)
    PROVE  \E q : Asked(q) /\ Began(r, q)
<1>1. TypeOK
  BY DEF SignInInv
<1>2. PICK a \in Accounts :
         /\ SignedIn(a)
         /\ \/ \E for \in Actions : Began(r, [Asking("step_up", a) EXCEPT !.for = for])
            \/ \E code \in Shown(stepUp[a]) :
                 \/ Began(r, [Asking("everywhere", a) EXCEPT !.code = code])
                 \/ Began(r, [Asking("delete", a) EXCEPT !.for = <<"delete">>, !.code = code])
            \/ \E p \in Phones : \E new \in Shown(sent[p]) :
                 \/ Began(r, [Asking("claim", a) EXCEPT !.to = p, !.newCode = new, !.lost = TRUE])
                 \/ \E code \in Shown(stepUp[a]) :
                      Began(r, [Asking("claim", a) EXCEPT !.to = p, !.newCode = new,
                                  !.for = <<"move", p>>, !.code = code])
            \/ Began(r, Asking("cancel", a))
            \/ Began(r, Asking("keep", a))
  BY DEF BeginSignedIn
<1>3. acct[a].phone # NoPhone
  BY <1>2 DEF SignedIn
<1>4. stepUp[a] \in Seq(StepUpCode) /\ \A p \in Phones : sent[p] \in Seq(Code)
  BY <1>1 DEF TypeOK, DB, Database
<1>5. {"step_up", "everywhere", "delete", "claim", "cancel", "keep"} \subseteq Ops
  BY DEF Ops
<1>6. ASSUME NEW for \in Actions, Began(r, [Asking("step_up", a) EXCEPT !.for = for])
      PROVE  \E q : Asked(q) /\ Began(r, q)
  <2>1. PICK s \in Request : /\ s = Asking("step_up", a) /\ s.op = "step_up" /\ s.of = a
                             /\ s.step = 1 /\ s.now = time /\ s.knew = acct[a]
    BY <1>1, <1>5, BlankAsking
  <2>2. PICK q : q = [s EXCEPT !.for = for]
    OBVIOUS
  <2>3. /\ q \in Request /\ q.op = "step_up" /\ q.of = a
        /\ q.step = 1 /\ q.now = time /\ q.knew = acct[a]
    BY <2>1, <2>2 DEF Request
  <2>4. Asked(q) /\ Began(r, q)
    BY <1>1, <1>3, <1>6, <2>1, <2>2, <2>3, AccountAsks
  <2> QED
    BY <2>4
<1>7. ASSUME NEW code \in Shown(stepUp[a]),
             Began(r, [Asking("everywhere", a) EXCEPT !.code = code])
      PROVE  \E q : Asked(q) /\ Began(r, q)
  <2>1. PICK s \in Request : /\ s = Asking("everywhere", a) /\ s.op = "everywhere" /\ s.of = a
                             /\ s.step = 1 /\ s.now = time /\ s.knew = acct[a]
    BY <1>1, <1>5, BlankAsking
  <2>2. PICK q : q = [s EXCEPT !.code = code]
    OBVIOUS
  <2>3. code \in Nat
    BY <1>4, Nouns
  <2>4. /\ q \in Request /\ q.op = "everywhere" /\ q.of = a
        /\ q.step = 1 /\ q.now = time /\ q.knew = acct[a]
    BY <2>1, <2>2, <2>3 DEF Request
  <2>5. Asked(q) /\ Began(r, q)
    BY <1>1, <1>3, <1>7, <2>1, <2>2, <2>4, AccountAsks
  <2> QED
    BY <2>5
<1>8. ASSUME NEW code \in Shown(stepUp[a]),
             Began(r, [Asking("delete", a) EXCEPT !.for = <<"delete">>, !.code = code])
      PROVE  \E q : Asked(q) /\ Began(r, q)
  <2>1. PICK s \in Request : /\ s = Asking("delete", a) /\ s.op = "delete" /\ s.of = a
                             /\ s.step = 1 /\ s.now = time /\ s.knew = acct[a]
    BY <1>1, <1>5, BlankAsking
  <2>2. PICK q : q = [s EXCEPT !.for = <<"delete">>, !.code = code]
    OBVIOUS
  <2>3. code \in Nat /\ <<"delete">> \in Actions
    BY <1>4, Nouns
  <2>4. /\ q \in Request /\ q.op = "delete" /\ q.of = a
        /\ q.step = 1 /\ q.now = time /\ q.knew = acct[a]
    BY <2>1, <2>2, <2>3 DEF Request
  <2>5. Asked(q) /\ Began(r, q)
    BY <1>1, <1>3, <1>8, <2>1, <2>2, <2>4, AccountAsks
  <2> QED
    BY <2>5
<1>9. ASSUME NEW p \in Phones, NEW new \in Shown(sent[p]),
             Began(r, [Asking("claim", a) EXCEPT !.to = p, !.newCode = new, !.lost = TRUE])
      PROVE  \E q : Asked(q) /\ Began(r, q)
  <2>1. PICK s \in Request : /\ s = Asking("claim", a) /\ s.op = "claim" /\ s.of = a
                             /\ s.step = 1 /\ s.now = time /\ s.knew = acct[a]
    BY <1>1, <1>5, BlankAsking
  <2>2. PICK q : q = [s EXCEPT !.to = p, !.newCode = new, !.lost = TRUE]
    OBVIOUS
  <2>3. new \in Nat
    BY <1>4, Nouns
  <2>4. /\ q \in Request /\ q.op = "claim" /\ q.of = a /\ q.to \in Phones
        /\ q.step = 1 /\ q.now = time /\ q.knew = acct[a]
    BY <2>1, <2>2, <2>3 DEF Request
  <2>5. Asked(q) /\ Began(r, q)
    BY <1>1, <1>3, <1>9, <2>1, <2>2, <2>4, AccountAsks
  <2> QED
    BY <2>5
<1>10. ASSUME NEW p \in Phones, NEW new \in Shown(sent[p]), NEW code \in Shown(stepUp[a]),
              Began(r, [Asking("claim", a) EXCEPT !.to = p, !.newCode = new,
                          !.for = <<"move", p>>, !.code = code])
      PROVE  \E q : Asked(q) /\ Began(r, q)
  <2>1. PICK s \in Request : /\ s = Asking("claim", a) /\ s.op = "claim" /\ s.of = a
                             /\ s.step = 1 /\ s.now = time /\ s.knew = acct[a]
    BY <1>1, <1>5, BlankAsking
  <2>2. PICK q : q = [s EXCEPT !.to = p, !.newCode = new, !.for = <<"move", p>>, !.code = code]
    OBVIOUS
  <2>3. new \in Nat /\ code \in Nat /\ <<"move", p>> \in Actions
    BY <1>4, Nouns
  <2>4. /\ q \in Request /\ q.op = "claim" /\ q.of = a /\ q.to \in Phones
        /\ q.step = 1 /\ q.now = time /\ q.knew = acct[a]
    BY <2>1, <2>2, <2>3 DEF Request
  <2>5. Asked(q) /\ Began(r, q)
    BY <1>1, <1>3, <1>10, <2>1, <2>2, <2>4, AccountAsks
  <2> QED
    BY <2>5
<1>11. ASSUME NEW op \in {"cancel", "keep"}, Began(r, Asking(op, a))
      PROVE  \E q : Asked(q) /\ Began(r, q)
  <2>1. PICK q \in Request : /\ q = Asking(op, a) /\ q.op = op /\ q.of = a
                             /\ q.step = 1 /\ q.now = time /\ q.knew = acct[a]
    BY <1>1, <1>5, BlankAsking
  <2>2. Asked(q) /\ Began(r, q)
    BY <1>1, <1>3, <1>11, <2>1, AccountAsks
  <2> QED
    BY <2>2
<1> QED
  BY <1>2, <1>6, <1>7, <1>8, <1>9, <1>10, <1>11

LEMMA OthersAsk ==
    ASSUME SignInInv, NEW r \in Requests, BeginWithout(r)
    PROVE  \E q : Asked(q) /\ Began(r, q)
<1>1. TypeOK
  BY DEF SignInInv
<1>2. PICK a \in Accounts :
         /\ acct[a].phone # NoPhone
         /\ \/ Began(r, [Fresh("suspend") EXCEPT !.of = a])
            \/ Began(r, [Fresh("restore") EXCEPT !.of = a])
            \/ change[a] # NoChange /\ Began(r, [Asking("make", a) EXCEPT !.to = change[a].to])
            \/ Began(r, Asking("erase", a))
  BY DEF BeginWithout, Waiting, DB
<1>3. {"suspend", "restore", "make", "erase"} \subseteq Ops
  BY DEF Ops
<1>4. ASSUME NEW op \in {"suspend", "restore"}, Began(r, [Fresh(op) EXCEPT !.of = a])
      PROVE  \E q : Asked(q) /\ Began(r, q)
  <2>1. PICK s \in Request : s = Fresh(op) /\ s.op = op /\ s.step = 1 /\ s.now = time
    BY <1>1, <1>3, BlankFresh
  <2>2. PICK q : q = [s EXCEPT !.of = a]
    OBVIOUS
  <2>3. q \in Request /\ q.op = op /\ q.of = a /\ q.step = 1 /\ q.now = time
    BY <2>1, <2>2 DEF Request
  <2>4. Asked(q) /\ Began(r, q)
    BY <1>1, <1>2, <1>4, <2>1, <2>2, <2>3, AccountAsks
  <2> QED
    BY <2>4
<1>5. ASSUME change[a] # NoChange, Began(r, [Asking("make", a) EXCEPT !.to = change[a].to])
      PROVE  \E q : Asked(q) /\ Began(r, q)
  <2>1. PICK s \in Request : /\ s = Asking("make", a) /\ s.op = "make" /\ s.of = a
                             /\ s.step = 1 /\ s.now = time /\ s.knew = acct[a]
    BY <1>1, <1>3, BlankAsking
  <2>2. PICK q : q = [s EXCEPT !.to = change[a].to]
    OBVIOUS
  <2>3. change[a].to \in Phones
    BY <1>1, <1>5 DEF TypeOK, DB, Database, Change
  <2>4. /\ q \in Request /\ q.op = "make" /\ q.of = a /\ q.to = change[a].to
        /\ q.step = 1 /\ q.now = time /\ q.knew = acct[a]
    BY <2>1, <2>2, <2>3 DEF Request
  <2>5. Asked(q) /\ Began(r, q)
    BY <1>1, <1>2, <1>5, <2>1, <2>2, <2>4, AccountAsks
  <2> QED
    BY <2>5
<1>6. ASSUME Began(r, Asking("erase", a))
      PROVE  \E q : Asked(q) /\ Began(r, q)
  <2>1. PICK q \in Request : /\ q = Asking("erase", a) /\ q.op = "erase" /\ q.of = a
                             /\ q.step = 1 /\ q.now = time /\ q.knew = acct[a]
    BY <1>1, <1>3, BlankAsking
  <2>2. Asked(q) /\ Began(r, q)
    BY <1>1, <1>2, <1>6, <2>1, AccountAsks
  <2> QED
    BY <2>2
<1> QED
  BY <1>2, <1>4, <1>5, <1>6

LEMMA BeginKeeps ==
    ASSUME SignInInv, NEW r \in Requests, Begin(r)
    PROVE  SignInInv'
<1>1. PICK q : Asked(q) /\ Began(r, q)
  BY NumberIsAsked, SessionIsAsked, SignedInIsAsked, OthersAsk DEF Begin
<1> QED
  BY <1>1, BeganKeeps

-----------------------------------------------------------------------------
(* Codes and tokens keep their form.                                          *)

LEMMA CodeSpent ==
    ASSUME NEW s \in Seq(Code), NEW l
    PROVE  [s EXCEPT ![l].spent = TRUE] \in Seq(Code)
<1>1. Len(s) \in Nat /\ s \in [1..Len(s) -> Code]
  OBVIOUS
<1>2. [s EXCEPT ![l].spent = TRUE] \in [1..Len(s) -> Code]
  BY <1>1 DEF Code
<1> QED
  BY <1>1, <1>2

LEMMA CodeTried ==
    ASSUME NEW s \in Seq(Code), NEW l, NEW w \in 0..MaxAttempts
    PROVE  [s EXCEPT ![l].wrong = w] \in Seq(Code)
<1>1. Len(s) \in Nat /\ s \in [1..Len(s) -> Code]
  OBVIOUS
<1>2. [s EXCEPT ![l].wrong = w] \in [1..Len(s) -> Code]
  BY <1>1 DEF Code
<1> QED
  BY <1>1, <1>2

LEMMA StepUpSpent ==
    ASSUME NEW s \in Seq(StepUpCode), NEW l
    PROVE  [s EXCEPT ![l].spent = TRUE] \in Seq(StepUpCode)
<1>1. Len(s) \in Nat /\ s \in [1..Len(s) -> StepUpCode]
  OBVIOUS
<1>2. [s EXCEPT ![l].spent = TRUE] \in [1..Len(s) -> StepUpCode]
  BY <1>1 DEF StepUpCode
<1> QED
  BY <1>1, <1>2

LEMMA StepUpTried ==
    ASSUME NEW s \in Seq(StepUpCode), NEW l, NEW w \in 0..MaxAttempts
    PROVE  [s EXCEPT ![l].wrong = w] \in Seq(StepUpCode)
<1>1. Len(s) \in Nat /\ s \in [1..Len(s) -> StepUpCode]
  OBVIOUS
<1>2. [s EXCEPT ![l].wrong = w] \in [1..Len(s) -> StepUpCode]
  BY <1>1 DEF StepUpCode
<1> QED
  BY <1>1, <1>2

LEMMA GreatestOf ==
    ASSUME NEW n \in Nat, NEW T \in SUBSET (1..n), T # {}
    PROVE  \E x \in T : \A y \in T : y <= x
<1> DEFINE Less == OpToRel(<, Nat)
           U == {n - x : x \in T}
<1>1. \A x, y \in Nat : <<y, x>> \in Less <=> y < x
  BY DEF OpToRel
<1>2. IsWellFoundedOn(Less, Nat)
  BY NatLessThanWellFounded
<1>3. U \in SUBSET Nat /\ U # {}
  <2>1. \A x \in T : n - x \in Nat
    OBVIOUS
  <2> QED
    BY <2>1
<1> HIDE DEF Less
<1>4. PICK u \in U : \A v \in U : ~(<<v, u>> \in Less)
  BY <1>2, <1>3, WFMin
<1>5. \A v \in U : ~(v < u)
  BY <1>1, <1>3, <1>4
<1>6. PICK x \in T : u = n - x
  BY <1>4
<1>7. \A y \in T : n - y \in U
  OBVIOUS
<1>8. \A y \in T : ~(n - y < n - x)
  BY <1>5, <1>6, <1>7
<1>9. \A y \in T : y <= x
  BY <1>8
<1> QED
  BY <1>9

\* The code that is tried is there, and has tries left.
LEMMA TriedCode ==
    ASSUME NEW d \in Database, NEW p \in Phones, NEW code, NEW now,
           Checked(d, p, code, now) # "refused"
    PROVE  /\ Len(d.sent[p]) \in 1..Len(d.sent[p])
           /\ d.sent[p][Len(d.sent[p])].wrong + 1 \in 0..MaxAttempts
           /\ ~d.sent[p][Len(d.sent[p])].spent
<1>1. Usable(d.sent[p], now)
  BY DEF Checked
<1>2. d.sent[p] \in Seq(Code)
  BY DEF Database
<1>3. PICK s \in Seq(Code) : s = d.sent[p]
  BY <1>2
<1>4. s # <<>> /\ ~s[Len(s)].spent /\ s[Len(s)].wrong < MaxAttempts
  BY <1>1, <1>3 DEF Usable, Last
<1>5. Len(s) \in 1..Len(s)
  BY <1>4
<1>6. s[Len(s)].wrong \in 0..MaxAttempts /\ MaxAttempts \in Nat
  <2>1. s[Len(s)] \in Code
    BY <1>5
  <2>2. MaxAttempts \in Nat
    BY LimitsAssumption
  <2> QED
    BY <2>1, <2>2 DEF Code
<1>7. s[Len(s)].wrong + 1 \in 0..MaxAttempts
  BY <1>4, <1>6
<1> QED
  BY <1>3, <1>4, <1>5, <1>7

LEMMA TriedStepUp ==
    ASSUME NEW q \in Request, q.saw \in Database, q.of \in Accounts, NEW code,
           StepUp(q, code) # "refused"
    PROVE  LET l == LatestFor(q.saw, q.of, q.for)
           IN  /\ l \in DOMAIN q.saw.stepUp[q.of]
               /\ q.saw.stepUp[q.of][l].wrong + 1 \in 0..MaxAttempts
<1> DEFINE l == LatestFor(q.saw, q.of, q.for)
           fits == CodesFor(q.saw, q.of, q.for)
<1>1. PICK s \in Seq(StepUpCode) : s = q.saw.stepUp[q.of]
  BY DEF Database
<1>2. fits # {} /\ Usable(SubSeq(s, 1, l), q.now)
  BY <1>1 DEF StepUp
<1>3. fits \in SUBSET (1..Len(s)) /\ Len(s) \in Nat
  <2>1. DOMAIN s = 1..Len(s) /\ Len(s) \in Nat
    OBVIOUS
  <2>2. fits \subseteq DOMAIN s
    BY <1>1 DEF CodesFor
  <2> QED
    BY <2>1, <2>2
<1>4. \E x \in fits : \A y \in fits : y <= x
  BY <1>2, <1>3, GreatestOf
<1>5. l \in fits
  BY <1>4 DEF LatestFor
<1>6. l \in 1..Len(s)
  BY <1>3, <1>5
<1> HIDE DEF l, fits
<1>7. Len(SubSeq(s, 1, l)) = l /\ SubSeq(s, 1, l)[l] = s[l]
  BY <1>3, <1>6
<1>8. s[l].wrong < MaxAttempts
  BY <1>2, <1>7 DEF Usable, Last
<1>9. s[l].wrong \in 0..MaxAttempts /\ MaxAttempts \in Nat
  <2>1. s[l] \in StepUpCode
    BY <1>6
  <2>2. MaxAttempts \in Nat
    BY LimitsAssumption
  <2> QED
    BY <2>1, <2>2 DEF StepUpCode
<1>10. s[l].wrong + 1 \in 0..MaxAttempts
  BY <1>8, <1>9
<1> QED
  BY <1>1, <1>6, <1>10 DEF l

-----------------------------------------------------------------------------
(* Commits that leave the numbers and the logins as they are.                 *)

SamePeople ==
    \A a \in Accounts : acct'[a].phone = acct[a].phone /\ acct'[a].role = acct[a].role
FewerChanges == \A a \in Accounts : change'[a] \in {change[a], NoChange}

LEMMA PeopleStay ==
    ASSUME SignInInv, SamePeople, NEW r \in Requests
    PROVE  PeopleStep(r) /\ \A p : OnPhone(p)' = OnPhone(p)
<1>1. \A p : OnPhone(p)' = OnPhone(p)
  BY DEF OnPhone, SamePeople
<1>2. \A a \in Accounts : acct'[a].phone # NoPhone => acct'[a].role # "none"
  BY DEF SamePeople, SignInInv, Whole
<1>3. \A f \in Families : family[f] # NoLogin => family[f].of \in Accounts
  BY DEF SignInInv, TypeOK, DB, Database, Login
<1> QED
  BY <1>1, <1>2, <1>3 DEF PeopleStep, SamePeople

LEMMA LoginsStay ==
    ASSUME SignInInv, family' = family, ended' = ended, NEW r \in Requests
    PROVE  LoginsStep(r) /\ EndedStaysEnded' /\ TokensRotateOnce'
<1>1. \A f \in Families : Live(DB, f)' <=> Live(DB, f)
  BY DEF Live, RowsOf, DB
<1>2. LoginsStep(r)
  BY <1>1 DEF LoginsStep, SignInInv, Whole
<1>3. EndedStaysEnded' /\ TokensRotateOnce'
  BY <1>1 DEF EndedStaysEnded, TokensRotateOnce, SignInInv, TypeOK
<1> QED
  BY <1>2, <1>3

LEMMA ChangesStay ==
    ASSUME SignInInv, FewerChanges, NEW r \in Requests
    PROVE  ChangesStep(r) /\ (SamePeople => WaitedNumberIsFree')
<1>1. \A p \in Phones : p # NoPhone
  BY PhonesAssumption DEF NoPhone
<1>2. \A a \in Accounts : change'[a].to # NoPhone => change'[a] = change[a]
  BY DEF FewerChanges, NoChange
<1>3. ASSUME NEW a \in Accounts, NEW b \in Accounts,
             change'[a].to = change'[b].to, change'[a].to # NoPhone
      PROVE  a = b
  BY <1>2, <1>3 DEF SignInInv, WaitedOnce
<1>4. ChangesStep(r)
  BY <1>1, <1>2, <1>3 DEF ChangesStep, WaitedOnce, FewerChanges
<1>5. ASSUME SamePeople, NEW a \in Accounts, change'[a] # NoChange
      PROVE  (OnNumber(DB, change[a].to) = {})'
  <2>1. change'[a] = change[a]
    BY <1>5 DEF FewerChanges
  <2>2. OnNumber(DB, change[a].to) = {}
    BY <1>5, <2>1 DEF SignInInv, WaitedNumberIsFree, Waiting, DB
  <2>3. OnNumber(DB, change[a].to)' = OnNumber(DB, change[a].to)
    BY <1>5, <2>1 DEF OnNumber, DB, SamePeople
  <2> QED
    BY <2>2, <2>3
<1>6. SamePeople => WaitedNumberIsFree'
  BY <1>5 DEF WaitedNumberIsFree, Waiting, DB
<1> QED
  BY <1>4, <1>6

LEMMA QuietCommit ==
    ASSUME SignInInv, NEW r \in Requests, DB' \in Database,
           family' = family, ended' = ended, SamePeople, FewerChanges
    PROVE  Effect(r)
<1>1. ended' \subseteq Families
  BY DEF SignInInv, TypeOK
<1> QED
  BY <1>1, PeopleStay, LoginsStay, ChangesStay DEF Effect

\* What every commit has in common.
LEMMA Committing ==
    ASSUME SignInInv, NEW r \in Requests, NEW op, Commits(r, op)
    PROVE  /\ time' = time /\ req' = [req EXCEPT ![r] = Idle]
           /\ HoldsAll(r) /\ req[r].op = op /\ req[r] \in Request /\ FitsOp(req[r])
           /\ req[r].saw \in Database /\ SawStands(r)
           /\ Needs(req[r]) \subseteq HeldBy(r)
           /\ HeldBy(r) = HeldOf(req[r])
           /\ req[r].now <= time /\ time <= req[r].now + Patience
<1>1. HoldsAll(r) /\ TypeOK /\ AllFit /\ AllSawStand /\ InTime
  BY DEF Commits, SignInInv
<1>2. Running(r)
  BY <1>1 DEF HoldsAll
<1>3. SawStands(r)
  BY <1>1 DEF AllSawStand
<1>4. req[r].saw \in Database
  BY <1>3 DEF SawStands
<1> QED
  BY <1>1, <1>2, <1>3, <1>4, Finished DEF Commits, InTime

LEMMA Stored ==
    ASSUME SignInInv
    PROVE  /\ acct \in [Accounts -> Account] /\ family \in [Families -> Login \union {NoLogin}]
           /\ sent \in [Phones -> Seq(Code)] /\ stepUp \in [Accounts -> Seq(StepUpCode)]
           /\ change \in [Accounts -> Change \union {NoChange}]
           /\ time \in Times /\ ended \subseteq Families
BY DEF SignInInv, TypeOK, DB, Database

LEMMA Storing ==
    ASSUME acct' \in [Accounts -> Account], family' \in [Families -> Login \union {NoLogin}],
           sent' \in [Phones -> Seq(Code)], stepUp' \in [Accounts -> Seq(StepUpCode)],
           change' \in [Accounts -> Change \union {NoChange}]
    PROVE  DB' \in Database
BY DEF DB, Database

LEMMA NothingWritten ==
    ASSUME SignInInv, NEW r \in Requests, Refused
    PROVE  Effect(r)
<1>1. /\ acct' = acct /\ family' = family /\ sent' = sent /\ stepUp' = stepUp
      /\ change' = change /\ ended' = ended
  BY DEF Refused, db
<1>2. DB' \in Database
  BY <1>1 DEF DB, SignInInv, TypeOK
<1> QED
  BY <1>1, <1>2, QuietCommit DEF SamePeople, FewerChanges

\* Codes that are asked for, tried and used up.
LEMMA CodesWritten ==
    ASSUME SignInInv, NEW r \in Requests, UNCHANGED <<acct, family, change, ended>>,
           sent' \in [Phones -> Seq(Code)], stepUp' \in [Accounts -> Seq(StepUpCode)]
    PROVE  Effect(r)
<1>1. DB' \in Database
  BY Stored, Storing
<1> QED
  BY <1>1, QuietCommit DEF SamePeople, FewerChanges

LEMMA LoginTries ==
    ASSUME SignInInv, NEW r \in Requests, NEW q \in Request, q.saw \in Database,
           q.to \in Phones, NEW code, LoginCode(q, code) # "refused"
    PROVE  /\ WrongTry(q) => Effect(r)
           /\ SpendLoginCode(q) => sent' \in [Phones -> Seq(Code)]
<1> DEFINE latest == Len(q.saw.sent[q.to])
           w == q.saw.sent[q.to][latest].wrong + 1
<1>1. w \in 0..MaxAttempts
  BY TriedCode DEF LoginCode
<1>2. sent \in [Phones -> Seq(Code)]
  BY Stored
<1> HIDE DEF w, latest
<1>3. [sent[q.to] EXCEPT ![latest].wrong = w] \in Seq(Code)
  BY <1>1, <1>2, CodeTried
<1>4. [sent[q.to] EXCEPT ![latest].spent = TRUE] \in Seq(Code)
  BY <1>2, CodeSpent
<1>5. ASSUME WrongTry(q)
      PROVE  Effect(r)
  <2>1. sent' = [sent EXCEPT ![q.to] = [sent[q.to] EXCEPT ![latest].wrong = w]]
    BY <1>5 DEF WrongTry, latest, w
  <2>2. sent' \in [Phones -> Seq(Code)]
    BY <1>2, <1>3, <2>1
  <2> QED
    BY <1>5, <2>2, Stored, CodesWritten DEF WrongTry
<1>6. ASSUME SpendLoginCode(q)
      PROVE  sent' \in [Phones -> Seq(Code)]
  <2>1. sent' = [sent EXCEPT ![q.to] = [sent[q.to] EXCEPT ![latest].spent = TRUE]]
    BY <1>6 DEF SpendLoginCode, latest
  <2> QED
    BY <1>2, <1>4, <2>1
<1> QED
  BY <1>5, <1>6

LEMMA StepUpTries ==
    ASSUME SignInInv, NEW r \in Requests, NEW q \in Request, q.saw \in Database,
           q.of \in Accounts, NEW code, StepUp(q, code) # "refused"
    PROVE  /\ WrongStepUp(q) => Effect(r)
           /\ SpendStepUp(q) => stepUp' \in [Accounts -> Seq(StepUpCode)]
<1> DEFINE latest == LatestFor(q.saw, q.of, q.for)
           w == q.saw.stepUp[q.of][latest].wrong + 1
<1>1. w \in 0..MaxAttempts
  BY TriedStepUp
<1>2. stepUp \in [Accounts -> Seq(StepUpCode)]
  BY Stored
<1> HIDE DEF w, latest
<1>3. [stepUp[q.of] EXCEPT ![latest].wrong = w] \in Seq(StepUpCode)
  BY <1>1, <1>2, StepUpTried
<1>4. [stepUp[q.of] EXCEPT ![latest].spent = TRUE] \in Seq(StepUpCode)
  BY <1>2, StepUpSpent
<1>5. ASSUME WrongStepUp(q)
      PROVE  Effect(r)
  <2>1. stepUp' = [stepUp EXCEPT ![q.of] = [stepUp[q.of] EXCEPT ![latest].wrong = w]]
    BY <1>5 DEF WrongStepUp, latest, w
  <2>2. stepUp' \in [Accounts -> Seq(StepUpCode)]
    BY <1>2, <1>3, <2>1
  <2> QED
    BY <1>5, <2>2, Stored, CodesWritten DEF WrongStepUp
<1>6. ASSUME SpendStepUp(q)
      PROVE  stepUp' \in [Accounts -> Seq(StepUpCode)]
  <2>1. stepUp' = [stepUp EXCEPT ![q.of] = [stepUp[q.of] EXCEPT ![latest].spent = TRUE]]
    BY <1>6 DEF SpendStepUp, latest
  <2> QED
    BY <1>2, <1>4, <2>1
<1> QED
  BY <1>5, <1>6

LEMMA CodeSent ==
    ASSUME SignInInv, NEW r \in Requests, RequestOtp(r)
    PROVE  Effect(r)
<1>1. PICK q : q = req[r]
  OBVIOUS
<1>2. /\ q \in Request /\ FitsOp(q) /\ q.op = "code"
  BY <1>1, Committing DEF RequestOtp
<1>3. q.to \in Phones /\ q.now \in Times
  BY <1>2 DEF FitsOp, OnCode, Request
<1>4. CASE MaySend(q.saw, q.to, q.now)
  <2>1. /\ sent' = [sent EXCEPT ![q.to] = Append(@, NewCode(q.now))]
        /\ UNCHANGED <<acct, family, stepUp, change, ended>>
    BY <1>1, <1>4 DEF RequestOtp
  <2>2. NewCode(q.now) \in Code
    BY <1>3, LimitsAssumption DEF NewCode, Code
  <2>3. sent' \in [Phones -> Seq(Code)]
    BY <1>3, <2>1, <2>2, Stored
  <2> QED
    BY <2>1, <2>3, Stored, CodesWritten
<1>5. CASE ~MaySend(q.saw, q.to, q.now)
  <2>1. Refused
    BY <1>1, <1>5 DEF RequestOtp
  <2> QED
    BY <2>1, NothingWritten
<1> QED
  BY <1>4, <1>5

LEMMA StepUpSent ==
    ASSUME SignInInv, NEW r \in Requests, RequestStepUp(r)
    PROVE  Effect(r)
<1>1. PICK q : q = req[r]
  OBVIOUS
<1>2. /\ q \in Request /\ FitsOp(q) /\ q.op = "step_up"
  BY <1>1, Committing DEF RequestStepUp
<1>3. q.of \in Accounts /\ q.now \in Times /\ q.for \in Actions /\ q.knew.phone \in Phones
  BY <1>2 DEF FitsOp, OnCode, OnOldNumber, Request
<1>4. CASE MaySend(q.saw, q.knew.phone, q.now)
  <2> DEFINE new == [for |-> q.for, to |-> q.knew.phone, at |-> q.now, wrong |-> 0, spent |-> FALSE]
  <2>1. /\ stepUp' = [stepUp EXCEPT ![q.of] = Append(@, new)]
        /\ UNCHANGED <<acct, family, sent, change, ended>>
    BY <1>1, <1>4 DEF RequestStepUp
  <2>2. new \in StepUpCode
    BY <1>3, LimitsAssumption DEF StepUpCode
  <2> HIDE DEF new
  <2>3. stepUp' \in [Accounts -> Seq(StepUpCode)]
    BY <1>3, <2>1, <2>2, Stored
  <2> QED
    BY <2>1, <2>3, Stored, CodesWritten
<1>5. CASE ~MaySend(q.saw, q.knew.phone, q.now)
  <2>1. Refused
    BY <1>1, <1>5 DEF RequestStepUp
  <2> QED
    BY <2>1, NothingWritten
<1> QED
  BY <1>4, <1>5

\* An account may be suspended, restored, asked to leave or to stay, with its
\* number and its logins as they are.
LEMMA AccountWritten ==
    ASSUME SignInInv, NEW r \in Requests, SamePeople,
           acct' \in [Accounts -> Account],
           stepUp' \in [Accounts -> Seq(StepUpCode)],
           UNCHANGED <<family, sent, change, ended>>
    PROVE  Effect(r)
<1>1. DB' \in Database
  BY Stored, Storing
<1> QED
  BY <1>1, QuietCommit DEF FewerChanges

LEMMA Restored ==
    ASSUME SignInInv, NEW r \in Requests, Restore(r)
    PROVE  Effect(r)
<1>1. PICK q : q = req[r]
  OBVIOUS
<1>2. q \in Request /\ FitsOp(q) /\ q.op = "restore"
  BY <1>1, Committing DEF Restore
<1>3. q.of \in Accounts
  BY <1>2 DEF FitsOp, OnCode
<1>4. /\ acct' = [acct EXCEPT ![q.of].suspended = FALSE]
      /\ UNCHANGED <<family, sent, stepUp, change, ended>>
  BY <1>1 DEF Restore
<1>5. acct' \in [Accounts -> Account] /\ SamePeople
  BY ZenonT(40), <1>3, <1>4, Stored DEF Account, SamePeople
<1> QED
  BY <1>4, <1>5, Stored, AccountWritten

LEMMA Leaves ==
    ASSUME SignInInv, NEW r \in Requests, RequestDeletion(r)
    PROVE  Effect(r)
<1>1. PICK q : q = req[r]
  OBVIOUS
<1>2. q \in Request /\ FitsOp(q) /\ q.op = "delete" /\ q.saw \in Database
  BY <1>1, Committing DEF RequestDeletion
<1>3. q.of \in Accounts /\ q.now \in Times
  BY <1>2 DEF FitsOp, OnCode, Request
<1>4. CASE StepUp(q, q.code) = "wrong" /\ WrongStepUp(q)
  BY <1>2, <1>3, <1>4, StepUpTries
<1>5. CASE Refused
  BY <1>5, NothingWritten
<1>6. CASE /\ StepUp(q, q.code) = "right"
           /\ SpendStepUp(q)
           /\ acct' = [acct EXCEPT ![q.of].leaves = q.now + DeletionWait]
           /\ UNCHANGED <<family, sent, change, ended>>
  <2>1. stepUp' \in [Accounts -> Seq(StepUpCode)]
    BY <1>2, <1>3, <1>6, StepUpTries
  <2>2. q.now + DeletionWait \in Nat
    BY <1>3, LimitsAssumption DEF Times
  <2>3. acct' \in [Accounts -> Account] /\ SamePeople
    BY ZenonT(40), <1>3, <1>6, <2>2, Stored DEF Account, SamePeople
  <2> QED
    BY <1>6, <2>1, <2>3, Stored, AccountWritten
<1> QED
  BY <1>1, <1>4, <1>5, <1>6 DEF RequestDeletion

LEMMA Keeps ==
    ASSUME SignInInv, NEW r \in Requests, CancelDeletion(r)
    PROVE  Effect(r)
<1>1. PICK q : q = req[r]
  OBVIOUS
<1>2. q \in Request /\ FitsOp(q) /\ q.op = "keep"
  BY <1>1, Committing DEF CancelDeletion
<1>3. q.of \in Accounts
  BY <1>2 DEF FitsOp, OnCode
<1>4. /\ acct' \in {acct, [acct EXCEPT ![q.of].leaves = 0]}
      /\ UNCHANGED <<family, sent, stepUp, change, ended>>
  BY <1>1 DEF CancelDeletion
<1>5. CASE acct' = [acct EXCEPT ![q.of].leaves = 0]
  <2>1. acct' \in [Accounts -> Account] /\ SamePeople
    BY ZenonT(40), <1>3, <1>5, Stored DEF Account, SamePeople
  <2> QED
    BY <1>4, <2>1, Stored, AccountWritten
<1>6. CASE acct' = acct
  <2>1. acct' \in [Accounts -> Account] /\ SamePeople
    BY <1>6, Stored DEF SamePeople
  <2> QED
    BY <1>4, <2>1, Stored, AccountWritten
<1> QED
  BY <1>4, <1>5, <1>6

LEMMA Cancelled ==
    ASSUME SignInInv, NEW r \in Requests, CancelChange(r)
    PROVE  Effect(r)
<1>1. PICK q : q = req[r]
  OBVIOUS
<1>2. q \in Request /\ FitsOp(q) /\ q.op = "cancel"
  BY <1>1, Committing DEF CancelChange
<1>3. q.of \in Accounts
  BY <1>2 DEF FitsOp, OnCode
<1>4. /\ change' \in {change, [change EXCEPT ![q.of] = NoChange]}
      /\ UNCHANGED <<acct, family, sent, stepUp, ended>>
  BY <1>1 DEF CancelChange
<1>5. change' \in [Accounts -> Change \union {NoChange}] /\ FewerChanges
  BY <1>3, <1>4, Stored DEF FewerChanges
<1>6. DB' \in Database
  BY <1>4, <1>5, Stored, Storing
<1> QED
  BY <1>4, <1>5, <1>6, QuietCommit DEF SamePeople

-----------------------------------------------------------------------------
(* Commits that end, rotate or add a login.                                   *)

Works(l) == \E i \in DOMAIN l.rows : ~l.rows[i].revoked
OneLine(l) == Len(l.rows) <= 1 + Cardinality({i \in DOMAIN l.rows : l.rows[i].used})

\* What may become of a login.
OldLogin(r, f) ==
    /\ family'[f] \in Login
    /\ family'[f].of = family[f].of /\ family'[f].on = family[f].on
    /\ DOMAIN family[f].rows \subseteq DOMAIN family'[f].rows
    /\ family'[f] # family[f] => AccountLock(family[f].of) \in HeldBy(r)
    /\ OneLine(family'[f])
    /\ Works(family'[f]) => Works(family[f]) /\ f \notin ended'
NewLogin(r, f) ==
    /\ family'[f] \in Login /\ OneLine(family'[f]) /\ f \notin ended'
    /\ PhoneLock(family'[f].on) \in HeldBy(r)
    /\ acct'[family'[f].of].phone = family'[f].on
BecomeOf(r) ==
    \A f \in Families :
       /\ family[f] # NoLogin => OldLogin(r, f)
       /\ family[f] = NoLogin => /\ f \notin ended'
                                 /\ family'[f] = NoLogin \/ NewLogin(r, f)

LEMMA LoginsWritten ==
    ASSUME SignInInv, NEW r \in Requests, BecomeOf(r), ended' \subseteq Families,
           NEW F, family' = [f \in Families |-> F[f]]
    PROVE  /\ family' \in [Families -> Login \union {NoLogin}]
           /\ LoginsStep(r) /\ EndedStaysEnded' /\ TokensRotateOnce'
<1>1. NoLogin \notin Login
  BY LimitsAssumption DEF NoLogin, Login, Nobody, Accounts
<1>2. \A f \in Families : family[f] # NoLogin => OldLogin(r, f) /\ family'[f] # NoLogin
  BY <1>1 DEF BecomeOf, OldLogin
<1>3. \A f \in Families : family[f] = NoLogin /\ family'[f] # NoLogin => NewLogin(r, f)
  BY DEF BecomeOf
<1>4. \A f \in Families : (Live(DB, f)' <=> Works(family'[f])) /\ (Live(DB, f) <=> Works(family[f]))
  BY DEF Live, RowsOf, DB, Works
<1>5. family' \in [Families -> Login \union {NoLogin}]
  <2>1. \A f \in Families : family'[f] \in Login \union {NoLogin}
    BY <1>2, <1>3 DEF OldLogin, NewLogin
  <2> QED
    BY <2>1
<1>6. \A f \in ended' : family'[f] # NoLogin
  BY <1>2 DEF BecomeOf
<1>7. LoginsStep(r)
  <2>1. ASSUME NEW f \in Families, family[f] # NoLogin
        PROVE  /\ family'[f] # NoLogin
               /\ family'[f].of = family[f].of /\ family'[f].on = family[f].on
               /\ DOMAIN family[f].rows \subseteq DOMAIN family'[f].rows
               /\ family'[f] # family[f] => AccountLock(family[f].of) \in HeldBy(r)
               /\ Live(DB, f)' => Live(DB, f)
    BY <1>2, <1>4, <2>1 DEF OldLogin
  <2>2. ASSUME NEW f \in Families, family[f] = NoLogin, family'[f] # NoLogin
        PROVE  /\ family'[f].on \in Phones /\ PhoneLock(family'[f].on) \in HeldBy(r)
               /\ family'[f].of \in Accounts /\ acct'[family'[f].of].phone = family'[f].on
    BY <1>3, <2>2 DEF NewLogin, Login
  <2> QED
    BY <1>6, <2>1, <2>2 DEF LoginsStep
<1>8. EndedStaysEnded'
  <2> SUFFICES ASSUME NEW f \in ended', Works(family'[f])
               PROVE  FALSE
    BY <1>4 DEF EndedStaysEnded
  <2>1. f \in Families /\ family[f] # NoLogin
    BY DEF BecomeOf
  <2> QED
    BY <1>2, <2>1 DEF OldLogin
<1>9. TokensRotateOnce'
  <2>1. \A f \in Families : family'[f] # NoLogin => OneLine(family'[f])
    BY <1>2, <1>3 DEF OldLogin, NewLogin
  <2> QED
    BY <2>1 DEF TokensRotateOnce, OneLine
<1> QED
  BY <1>5, <1>7, <1>8, <1>9

\* The login with all its tokens revoked.
AllRevoked(l) ==
    [l EXCEPT !.rows = [i \in DOMAIN l.rows |-> [l.rows[i] EXCEPT !.revoked = TRUE]]]

LEMMA RevokedIs ==
    ASSUME NEW l \in Login
    PROVE  /\ AllRevoked(l) \in Login
           /\ AllRevoked(l).of = l.of /\ AllRevoked(l).on = l.on
           /\ DOMAIN AllRevoked(l).rows = DOMAIN l.rows
           /\ \A i \in DOMAIN l.rows : /\ AllRevoked(l).rows[i] \in Row
                                       /\ AllRevoked(l).rows[i].revoked
                                       /\ AllRevoked(l).rows[i].used = l.rows[i].used
           /\ Len(AllRevoked(l).rows) = Len(l.rows)
           /\ ~Works(AllRevoked(l))
           /\ OneLine(l) => OneLine(AllRevoked(l))
<1> DEFINE rows == [i \in DOMAIN l.rows |-> [l.rows[i] EXCEPT !.revoked = TRUE]]
<1>1. PICK s \in Seq(Row) : s = l.rows
  BY DEF Login
<1>2. DOMAIN s = 1..Len(s) /\ Len(s) \in Nat /\ \A i \in 1..Len(s) : s[i] \in Row
  OBVIOUS
<1>3. \A i \in 1..Len(s) : /\ [s[i] EXCEPT !.revoked = TRUE] \in Row
                           /\ [s[i] EXCEPT !.revoked = TRUE].revoked = TRUE
                           /\ [s[i] EXCEPT !.revoked = TRUE].used = s[i].used
  BY <1>2 DEF Row
<1>4. rows = [i \in 1..Len(s) |-> [s[i] EXCEPT !.revoked = TRUE]]
  BY <1>1, <1>2
<1> HIDE DEF rows
<1>5. /\ rows \in [1..Len(s) -> Row]
      /\ \A i \in 1..Len(s) : rows[i].revoked /\ rows[i].used = s[i].used
  BY <1>3, <1>4
<1>6. rows \in Seq(Row) /\ Len(rows) = Len(s) /\ DOMAIN rows = 1..Len(s)
  BY <1>2, <1>5
<1>7. /\ AllRevoked(l) \in Login
      /\ AllRevoked(l).of = l.of /\ AllRevoked(l).on = l.on /\ AllRevoked(l).rows = rows
  BY <1>6 DEF AllRevoked, Login, rows
<1>8. \A i \in DOMAIN l.rows : /\ AllRevoked(l).rows[i] \in Row
                               /\ AllRevoked(l).rows[i].revoked
                               /\ AllRevoked(l).rows[i].used = l.rows[i].used
  BY <1>1, <1>2, <1>5, <1>7
<1>9. ~Works(AllRevoked(l))
  BY <1>5, <1>6, <1>7 DEF Works
<1>10. {i \in DOMAIN rows : rows[i].used} = {i \in DOMAIN l.rows : l.rows[i].used}
  BY <1>1, <1>2, <1>5, <1>6
<1>11. OneLine(l) => OneLine(AllRevoked(l))
  BY <1>1, <1>6, <1>7, <1>10 DEF OneLine
<1> QED
  BY <1>1, <1>2, <1>6, <1>7, <1>8, <1>9, <1>11

LEMMA LoginIs ==
    ASSUME SignInInv, NEW f \in Families, family[f] # NoLogin
    PROVE  /\ family[f] \in Login /\ OneLine(family[f])
           /\ f \in ended => ~Works(family[f])
<1>1. family[f] \in Login
  BY Stored
<1>2. OneLine(family[f])
  BY DEF SignInInv, TokensRotateOnce, OneLine
<1>3. f \in ended => ~Works(family[f])
  BY DEF SignInInv, EndedStaysEnded, Live, RowsOf, DB, Works
<1> QED
  BY <1>1, <1>2, <1>3

\* The logins that are ended are those the request saw, under their accounts'
\* locks: each of their tokens is revoked, whatever else was under way.
LEMMA Ending ==
    ASSUME SignInInv, NEW r \in Requests, SawStands(r), NEW d, d = req[r].saw,
           NEW fs \in SUBSET Families,
           \A f \in fs : d.family[f].of \in Accounts /\ AccountLock(d.family[f].of) \in HeldBy(r),
           EndLogins(d, fs)
    PROVE  /\ family' \in [Families -> Login \union {NoLogin}]
           /\ ended' \subseteq Families /\ ended' = ended \union fs
           /\ LoginsStep(r) /\ EndedStaysEnded' /\ TokensRotateOnce'
           /\ BecomeOf(r)
           /\ \A f \in fs : family[f] # NoLogin /\ family'[f] = AllRevoked(family[f])
           /\ \A f \in Families \ fs : family'[f] = family[f]
<1>1. ended' = ended \union fs /\ ended' \subseteq Families
  BY Stored DEF EndLogins
<1>2. ASSUME NEW f \in fs
      PROVE  /\ family[f] = d.family[f] /\ family[f] # NoLogin
             /\ AccountLock(family[f].of) \in HeldBy(r)
             /\ family'[f] = AllRevoked(family[f])
  <2>1. family[f] = d.family[f]
    BY DEF SawStands, LoginsStand
  <2>2. family[f] # NoLogin
    BY <2>1, LimitsAssumption DEF NoLogin, Nobody, Accounts
  <2>3. family'[f] = [family[f] EXCEPT !.rows =
               [i \in DOMAIN family[f].rows |->
                  IF i \in DOMAIN RowsOf(d, f)
                  THEN [family[f].rows[i] EXCEPT !.revoked = TRUE]
                  ELSE family[f].rows[i]]]
    BY DEF EndLogins, Revoked
  <2>4. RowsOf(d, f) = family[f].rows
    BY <2>1 DEF RowsOf
  <2>5. family'[f] = AllRevoked(family[f])
    BY <2>3, <2>4 DEF AllRevoked
  <2> QED
    BY <2>1, <2>2, <2>5
<1>3. \A f \in Families \ fs : family'[f] = family[f]
  BY DEF EndLogins, Revoked
<1>4. ASSUME NEW f \in Families, family[f] # NoLogin
      PROVE  OldLogin(r, f)
  <2>1. /\ family[f] \in Login /\ OneLine(family[f])
        /\ f \in ended => ~Works(family[f])
    BY <1>4, LoginIs
  <2>2. CASE f \in fs
    BY <1>2, <2>1, <2>2, RevokedIs DEF OldLogin
  <2>3. CASE f \notin fs
    BY <1>1, <1>3, <2>1, <2>3 DEF OldLogin
  <2> QED
    BY <2>2, <2>3
<1>5. ASSUME NEW f \in Families, family[f] = NoLogin
      PROVE  f \notin ended' /\ family'[f] = NoLogin
  BY <1>1, <1>2, <1>3, <1>5 DEF SignInInv, Whole
<1>6. BecomeOf(r)
  BY <1>4, <1>5 DEF BecomeOf
<1>7. PICK F : family' = [f \in Families |-> F[f]]
  <2>1. family' = [f \in Families |-> Revoked(d, fs)[f]]
    BY DEF EndLogins, Revoked
  <2> QED
    BY <2>1
<1> QED
  BY <1>1, <1>2, <1>3, <1>6, <1>7, LoginsWritten

\* The numbers stay as they are, and some logins end.
LEMMA SessionsEnded ==
    ASSUME SignInInv, NEW r \in Requests, SamePeople,
           acct' \in [Accounts -> Account],
           stepUp' \in [Accounts -> Seq(StepUpCode)],
           family' \in [Families -> Login \union {NoLogin}], ended' \subseteq Families,
           LoginsStep(r), EndedStaysEnded', TokensRotateOnce',
           UNCHANGED <<sent, change>>
    PROVE  Effect(r)
<1>1. DB' \in Database
  BY Stored, Storing
<1>2. FewerChanges
  BY DEF FewerChanges
<1> QED
  BY <1>1, <1>2, PeopleStay, ChangesStay DEF Effect

LEMMA NeedsOwn ==
    ASSUME NEW q, q.op \in {"everywhere", "delete", "erase", "refresh", "logout", "suspend",
                            "restore", "keep"}
    PROVE  AccountLock(q.of) \in Needs(q)
BY DEF Needs, AccountsOf

LEMMA LoggedOutEverywhere ==
    ASSUME SignInInv, NEW r \in Requests, LogOutEverywhere(r)
    PROVE  Effect(r)
<1>1. PICK q : q = req[r]
  OBVIOUS
<1>2. /\ q \in Request /\ FitsOp(q) /\ q.op = "everywhere" /\ q.saw \in Database
      /\ SawStands(r) /\ Needs(q) \subseteq HeldBy(r)
  BY <1>1, Committing DEF LogOutEverywhere
<1>3. q.of \in Accounts /\ AccountLock(q.of) \in HeldBy(r)
  BY <1>2, NeedsOwn DEF FitsOp, OnCode
<1>4. CASE StepUp(q, q.code) = "wrong" /\ WrongStepUp(q)
  BY <1>2, <1>3, <1>4, StepUpTries
<1>5. CASE Refused
  BY <1>5, NothingWritten
<1>6. CASE /\ StepUp(q, q.code) = "right"
           /\ SpendStepUp(q)
           /\ EndLogins(q.saw, LoginsOf(q.saw, {q.of}))
           /\ UNCHANGED <<acct, sent, change>>
  <2>1. stepUp' \in [Accounts -> Seq(StepUpCode)]
    BY <1>2, <1>3, <1>6, StepUpTries
  <2>2. LoginsOf(q.saw, {q.of}) \in SUBSET Families
    BY DEF LoginsOf
  <2>3. \A f \in LoginsOf(q.saw, {q.of}) :
          q.saw.family[f].of \in Accounts /\ AccountLock(q.saw.family[f].of) \in HeldBy(r)
    BY <1>3 DEF LoginsOf
  <2>4. /\ family' \in [Families -> Login \union {NoLogin}] /\ ended' \subseteq Families
        /\ LoginsStep(r) /\ EndedStaysEnded' /\ TokensRotateOnce'
    BY <1>1, <1>2, <1>6, <2>2, <2>3, Ending
  <2>5. SamePeople
    BY <1>6 DEF SamePeople
  <2> QED
    BY <1>6, <2>1, <2>4, <2>5, Stored, SessionsEnded
<1> QED
  BY <1>1, <1>4, <1>5, <1>6 DEF LogOutEverywhere

LEMMA LoggedOut ==
    ASSUME SignInInv, NEW r \in Requests, Logout(r)
    PROVE  Effect(r)
<1>1. PICK q : q = req[r]
  OBVIOUS
<1>2. /\ q \in Request /\ FitsOp(q) /\ q.op = "logout" /\ q.saw \in Database
      /\ SawStands(r) /\ Needs(q) \subseteq HeldBy(r)
  BY <1>1, Committing DEF Logout
<1>3. /\ q.of \in Accounts /\ AccountLock(q.of) \in HeldBy(r) /\ q.family \in Families
      /\ q.saw.family[q.family].of = q.of
  BY <1>1, <1>2, NeedsOwn DEF FitsOp, OnCode, OnSession, SawStands
<1>4. EndLogins(q.saw, {q.family}) /\ UNCHANGED <<acct, sent, stepUp, change>>
  BY <1>1 DEF Logout
<1>5. /\ family' \in [Families -> Login \union {NoLogin}] /\ ended' \subseteq Families
      /\ LoginsStep(r) /\ EndedStaysEnded' /\ TokensRotateOnce'
  BY SMTT(30), <1>1, <1>2, <1>3, <1>4, Ending
<1>6. SamePeople
  BY <1>4 DEF SamePeople
<1> QED
  BY <1>4, <1>5, <1>6, Stored, SessionsEnded

LEMMA Suspended ==
    ASSUME SignInInv, NEW r \in Requests, Suspend(r)
    PROVE  Effect(r)
<1>1. PICK q : q = req[r]
  OBVIOUS
<1>2. /\ q \in Request /\ FitsOp(q) /\ q.op = "suspend" /\ q.saw \in Database
      /\ SawStands(r) /\ Needs(q) \subseteq HeldBy(r)
  BY <1>1, Committing DEF Suspend
<1>3. q.of \in Accounts /\ AccountLock(q.of) \in HeldBy(r)
  BY <1>2, NeedsOwn DEF FitsOp, OnCode
<1>4. CASE Refused
  BY <1>4, NothingWritten
<1>5. CASE /\ acct' = [acct EXCEPT ![q.of].suspended = TRUE]
           /\ EndLogins(q.saw, LoginsOf(q.saw, {q.of}))
           /\ UNCHANGED <<sent, stepUp, change>>
  <2>1. acct' \in [Accounts -> Account] /\ SamePeople
    BY ZenonT(40), <1>3, <1>5, Stored DEF Account, SamePeople
  <2>2. LoginsOf(q.saw, {q.of}) \in SUBSET Families
    BY DEF LoginsOf
  <2>3. \A f \in LoginsOf(q.saw, {q.of}) :
          q.saw.family[f].of \in Accounts /\ AccountLock(q.saw.family[f].of) \in HeldBy(r)
    BY <1>3 DEF LoginsOf
  <2>4. /\ family' \in [Families -> Login \union {NoLogin}] /\ ended' \subseteq Families
        /\ LoginsStep(r) /\ EndedStaysEnded' /\ TokensRotateOnce'
    BY ZenonT(40), <1>1, <1>2, <1>5, <2>2, <2>3, Ending
  <2> QED
    BY <1>5, <2>1, <2>4, Stored, SessionsEnded
<1> QED
  BY <1>1, <1>4, <1>5 DEF Suspend

\* A token that is used up, and the next one: the login is still one line.
LEMMA RotatedIs ==
    ASSUME NEW l \in Login, NEW i \in DOMAIN l.rows, ~l.rows[i].used, ~l.rows[i].revoked,
           OneLine(l)
    PROVE  /\ Rotated(l, i) \in Login
           /\ Rotated(l, i).of = l.of /\ Rotated(l, i).on = l.on
           /\ DOMAIN l.rows \subseteq DOMAIN Rotated(l, i).rows
           /\ OneLine(Rotated(l, i)) /\ Works(l)
<1> DEFINE next == [used |-> FALSE, revoked |-> FALSE]
           marked == [l.rows EXCEPT ![i].used = TRUE]
           rows == Append(marked, next)
           used == {j \in DOMAIN l.rows : l.rows[j].used}
<1>1. PICK s \in Seq(Row) : s = l.rows
  BY DEF Login
<1>2. /\ DOMAIN s = 1..Len(s) /\ Len(s) \in Nat /\ \A j \in 1..Len(s) : s[j] \in Row
      /\ i \in 1..Len(s)
  BY <1>1
<1>3. [s[i] EXCEPT !.used = TRUE] \in Row /\ [s[i] EXCEPT !.used = TRUE].used
  BY <1>2 DEF Row
<1>4. marked = [s EXCEPT ![i] = [s[i] EXCEPT !.used = TRUE]]
  BY <1>1
<1>5. /\ marked \in [1..Len(s) -> Row] /\ marked[i].used
      /\ \A j \in 1..Len(s) : j # i => marked[j] = s[j]
  BY <1>2, <1>3, <1>4
<1> HIDE DEF marked
<1>6. marked \in Seq(Row) /\ Len(marked) = Len(s)
  BY <1>2, <1>5
<1>7. next \in Row /\ ~next.used
  BY DEF Row
<1> HIDE DEF next
<1>8. /\ rows \in Seq(Row) /\ Len(rows) = Len(s) + 1 /\ rows[Len(s) + 1] = next
      /\ \A j \in 1..Len(s) : rows[j] = marked[j]
  BY <1>6, <1>7
<1>9. DOMAIN rows = 1..(Len(s) + 1)
  BY <1>2, <1>8
<1> HIDE DEF rows
<1>10. Rotated(l, i) = [l EXCEPT !.rows = rows]
  BY DEF Rotated, rows, marked, next
<1>11. /\ Rotated(l, i) \in Login
       /\ Rotated(l, i).of = l.of /\ Rotated(l, i).on = l.on /\ Rotated(l, i).rows = rows
  BY <1>8, <1>10 DEF Login
<1>12. DOMAIN l.rows \subseteq DOMAIN rows
  BY <1>1, <1>2, <1>9
<1>13. {j \in DOMAIN rows : rows[j].used} = used \union {i}
  <2>1. ASSUME NEW j \in 1..(Len(s) + 1)
        PROVE  rows[j].used <=> (j \in 1..Len(s) /\ s[j].used) \/ j = i
    <3>1. CASE j = Len(s) + 1
      BY <1>2, <1>7, <1>8, <3>1
    <3>2. CASE j # Len(s) + 1
      <4>1. j \in 1..Len(s)
        BY <1>2, <3>2
      <4> QED
        BY <1>5, <1>8, <4>1
    <3> QED
      BY <3>1, <3>2
  <2>2. \A j : j \in 1..Len(s) => j \in 1..(Len(s) + 1)
    BY <1>2
  <2>3. used = {j \in 1..Len(s) : s[j].used}
    BY <1>1, <1>2
  <2>4. \A j \in 1..(Len(s) + 1) : rows[j].used <=> j \in used \union {i}
    BY <2>1, <2>3
  <2>5. used \union {i} \subseteq 1..(Len(s) + 1)
    BY <1>2, <2>2, <2>3
  <2> QED
    BY <1>9, <2>4, <2>5
<1>14. IsFiniteSet(used) /\ i \notin used
  <2>1. IsFiniteSet(1..Len(s))
    BY <1>2, FS_Interval
  <2>2. used \subseteq 1..Len(s)
    BY <1>1, <1>2
  <2> QED
    BY <2>1, <2>2, FS_Subset
<1>15. Cardinality(used \union {i}) = Cardinality(used) + 1 /\ Cardinality(used) \in Nat
  BY <1>14, FS_AddElement, FS_CardinalityType
<1>16. Len(s) <= 1 + Cardinality(used)
  BY <1>1 DEF OneLine
<1> HIDE DEF used
<1>17. Len(rows) <= 1 + Cardinality(used \union {i})
  BY <1>2, <1>8, <1>15, <1>16
<1>18. OneLine(Rotated(l, i))
  BY <1>11, <1>13, <1>17 DEF OneLine
<1>19. Works(l)
  BY DEF Works
<1> QED
  BY <1>11, <1>12, <1>18, <1>19

\* A login that is ended with the token it was shown marked used.
MarkedUsed(l, i) == [l EXCEPT !.rows[i].used = TRUE]

LEMMA MarkedIs ==
    ASSUME NEW l \in Login, NEW i \in DOMAIN l.rows, OneLine(l), ~Works(l)
    PROVE  /\ MarkedUsed(l, i) \in Login
           /\ MarkedUsed(l, i).of = l.of /\ MarkedUsed(l, i).on = l.on
           /\ DOMAIN MarkedUsed(l, i).rows = DOMAIN l.rows
           /\ OneLine(MarkedUsed(l, i)) /\ ~Works(MarkedUsed(l, i))
<1> DEFINE marked == [l.rows EXCEPT ![i].used = TRUE]
           used == {j \in DOMAIN l.rows : l.rows[j].used}
<1>1. PICK s \in Seq(Row) : s = l.rows
  BY DEF Login
<1>2. /\ DOMAIN s = 1..Len(s) /\ Len(s) \in Nat /\ \A j \in 1..Len(s) : s[j] \in Row
      /\ i \in 1..Len(s)
  BY <1>1
<1>3. /\ [s[i] EXCEPT !.used = TRUE] \in Row /\ [s[i] EXCEPT !.used = TRUE].used
      /\ [s[i] EXCEPT !.used = TRUE].revoked = s[i].revoked
  BY <1>2 DEF Row
<1>4. marked = [s EXCEPT ![i] = [s[i] EXCEPT !.used = TRUE]]
  BY <1>1
<1>5. /\ marked \in [1..Len(s) -> Row] /\ marked[i].used /\ marked[i].revoked = s[i].revoked
      /\ \A j \in 1..Len(s) : j # i => marked[j] = s[j]
  BY <1>2, <1>3, <1>4
<1> HIDE DEF marked
<1>6. marked \in Seq(Row) /\ Len(marked) = Len(s) /\ DOMAIN marked = 1..Len(s)
  BY <1>2, <1>5
<1>7. MarkedUsed(l, i) = [l EXCEPT !.rows = marked]
  BY DEF MarkedUsed, marked, Login
<1>8. /\ MarkedUsed(l, i) \in Login
      /\ MarkedUsed(l, i).of = l.of /\ MarkedUsed(l, i).on = l.on
      /\ MarkedUsed(l, i).rows = marked
  BY <1>6, <1>7 DEF Login
<1>9. DOMAIN marked = DOMAIN l.rows
  BY <1>1, <1>2, <1>6
<1>10. used \subseteq {j \in DOMAIN marked : marked[j].used}
  BY <1>1, <1>2, <1>5, <1>6
<1>11. IsFiniteSet({j \in DOMAIN marked : marked[j].used})
  <2>1. IsFiniteSet(1..Len(s))
    BY <1>2, FS_Interval
  <2>2. {j \in DOMAIN marked : marked[j].used} \subseteq 1..Len(s)
    BY <1>6
  <2> QED
    BY <2>1, <2>2, FS_Subset
<1>12. /\ Cardinality(used) <= Cardinality({j \in DOMAIN marked : marked[j].used})
       /\ Cardinality({j \in DOMAIN marked : marked[j].used}) \in Nat
       /\ Cardinality(used) \in Nat
  BY <1>10, <1>11, FS_Subset, FS_CardinalityType
<1>13. Len(s) <= 1 + Cardinality(used)
  BY <1>1 DEF OneLine
<1> HIDE DEF used
<1>14. Len(marked) <= 1 + Cardinality({j \in DOMAIN marked : marked[j].used})
  BY <1>2, <1>6, <1>12, <1>13
<1>15. OneLine(MarkedUsed(l, i))
  BY <1>8, <1>14 DEF OneLine
<1>16. \A j \in 1..Len(s) : s[j].revoked
  BY <1>1, <1>2 DEF Works
<1>17. \A j \in 1..Len(s) : marked[j].revoked
  BY <1>2, <1>5, <1>16
<1>18. ~Works(MarkedUsed(l, i))
  BY <1>6, <1>8, <1>17 DEF Works
<1> QED
  BY <1>8, <1>9, <1>15, <1>18

\* One login is written, of the account whose lock is held.
LEMMA OneRewritten ==
    ASSUME SignInInv, NEW r \in Requests, NEW g \in Families, family[g] # NoLogin,
           AccountLock(family[g].of) \in HeldBy(r),
           NEW l \in Login, l.of = family[g].of, l.on = family[g].on,
           DOMAIN family[g].rows \subseteq DOMAIN l.rows, OneLine(l),
           Works(l) => Works(family[g]) /\ g \notin ended',
           ended' \in {ended, ended \union {g}},
           family' = [family EXCEPT ![g] = l]
    PROVE  /\ family' \in [Families -> Login \union {NoLogin}] /\ ended' \subseteq Families
           /\ LoginsStep(r) /\ EndedStaysEnded' /\ TokensRotateOnce'
<1>1. /\ family \in [Families -> Login \union {NoLogin}] /\ ended \subseteq Families
      /\ \A f \in ended : family[f] # NoLogin
  BY Stored DEF SignInInv, Whole
<1>2. family'[g] = l /\ \A f \in Families : f # g => family'[f] = family[f]
  BY <1>1
<1>3. ASSUME NEW f \in Families, family[f] # NoLogin
      PROVE  OldLogin(r, f)
  <2>1. /\ family[f] \in Login /\ OneLine(family[f])
        /\ f \in ended => ~Works(family[f])
    BY <1>3, LoginIs
  <2>2. CASE f = g
    BY <1>2, <2>2 DEF OldLogin
  <2>3. CASE f # g
    BY <1>2, <2>1, <2>3 DEF OldLogin
  <2> QED
    BY <2>2, <2>3
<1>4. ASSUME NEW f \in Families, family[f] = NoLogin
      PROVE  f \notin ended' /\ family'[f] = NoLogin
  BY <1>1, <1>2, <1>4
<1>5. BecomeOf(r)
  BY <1>3, <1>4 DEF BecomeOf
<1>6. ended' \subseteq Families
  BY <1>1
<1>7. PICK F : family' = [f \in Families |-> F[f]]
  <2>1. family' = [f \in Families |-> IF f = g THEN l ELSE family[f]]
    BY <1>1
  <2>2. family' = [f \in Families |-> [h \in Families |-> IF h = g THEN l ELSE family[h]][f]]
    BY <2>1
  <2> QED
    BY <2>2
<1> QED
  BY <1>5, <1>6, <1>7, LoginsWritten

LEMMA Refreshed ==
    ASSUME SignInInv, NEW r \in Requests, RefreshSession(r)
    PROVE  Effect(r)
<1>1. PICK q : q = req[r]
  OBVIOUS
<1>2. /\ q \in Request /\ FitsOp(q) /\ q.op = "refresh" /\ q.saw \in Database
      /\ SawStands(r) /\ Needs(q) \subseteq HeldBy(r)
  BY <1>1, Committing DEF RefreshSession
<1> DEFINE g == q.family
           l == family[g]
           row == l.rows[q.code]
<1>3. /\ q.of \in Accounts /\ AccountLock(q.of) \in HeldBy(r) /\ g \in Families
      /\ q.saw.family[g].of = q.of /\ l.of = q.of /\ q.code \in DOMAIN l.rows
  BY <1>1, <1>2, NeedsOwn DEF FitsOp, OnCode, OnSession, SawStands
<1>4. l = q.saw.family[g] /\ RowsOf(q.saw, g) = l.rows
  BY <1>1, <1>2, <1>3 DEF SawStands, LoginsStand, RowsOf
<1>5. l # NoLogin
  BY <1>3, LimitsAssumption DEF NoLogin, Nobody, Accounts
<1>6. l \in Login /\ OneLine(l) /\ (g \in ended => ~Works(l))
  BY <1>3, <1>5, LoginIs
<1>7. UNCHANGED <<acct, sent, stepUp, change>>
  BY <1>1 DEF RefreshSession
<1>8. SamePeople /\ acct' \in [Accounts -> Account] /\ stepUp' \in [Accounts -> Seq(StepUpCode)]
  BY <1>7, Stored DEF SamePeople
<1>9. \/ EndLogins(q.saw, {g})
      \/ UNCHANGED <<family, ended>>
      \/ /\ family' = [Revoked(q.saw, {g}) EXCEPT ![g].rows[q.code].used = TRUE]
         /\ ended' = ended \union {g}
      \/ /\ ~row.used /\ ~row.revoked
         /\ family' = [family EXCEPT ![g] = Rotated(@, q.code)]
         /\ UNCHANGED ended
  BY <1>1, <1>4 DEF RefreshSession
<1>10. CASE EndLogins(q.saw, {g})
  <2>1. /\ family' \in [Families -> Login \union {NoLogin}] /\ ended' \subseteq Families
        /\ LoginsStep(r) /\ EndedStaysEnded' /\ TokensRotateOnce'
    BY <1>1, <1>2, <1>3, <1>10, Ending
  <2> QED
    BY <1>7, <1>8, <2>1, SessionsEnded
<1>11. CASE UNCHANGED <<family, ended>>
  <2>1. LoginsStep(r) /\ EndedStaysEnded' /\ TokensRotateOnce'
    BY <1>11, LoginsStay
  <2> QED
    BY <1>7, <1>8, <1>11, <2>1, Stored, SessionsEnded
<1>12. CASE /\ family' = [Revoked(q.saw, {g}) EXCEPT ![g].rows[q.code].used = TRUE]
            /\ ended' = ended \union {g}
  <2> DEFINE end == AllRevoked(l)
             new == MarkedUsed(end, q.code)
  <2>1. /\ end \in Login /\ end.of = l.of /\ end.on = l.on
        /\ DOMAIN end.rows = DOMAIN l.rows /\ ~Works(end) /\ OneLine(end)
    BY <1>6, RevokedIs
  <2>2. Revoked(q.saw, {g}) = [family EXCEPT ![g] = end]
    <3>1. Revoked(q.saw, {g})[g] = end
      BY <1>3, <1>4 DEF Revoked, AllRevoked
    <3>2. \A f \in Families : f # g => Revoked(q.saw, {g})[f] = family[f]
      BY DEF Revoked
    <3>3. Revoked(q.saw, {g}) = [f \in Families |-> Revoked(q.saw, {g})[f]]
      BY DEF Revoked
    <3>4. [family EXCEPT ![g] = end] = [f \in Families |-> IF f = g THEN end ELSE family[f]]
      BY Stored
    <3> HIDE DEF end
    <3> QED
      BY <3>1, <3>2, <3>3, <3>4
  <2> HIDE DEF end
  <2>3. q.code \in DOMAIN end.rows
    BY <1>3, <2>1
  <2>4. /\ new \in Login /\ new.of = end.of /\ new.on = end.on
        /\ DOMAIN new.rows = DOMAIN end.rows /\ OneLine(new) /\ ~Works(new)
    BY <2>1, <2>3, MarkedIs
  <2>5. family' = [family EXCEPT ![g] = new]
    <3>1. family' = [[family EXCEPT ![g] = end] EXCEPT ![g].rows[q.code].used = TRUE]
      BY <1>12, <2>2
    <3>2. [[family EXCEPT ![g] = end] EXCEPT ![g].rows[q.code].used = TRUE]
            = [family EXCEPT ![g] = [end EXCEPT !.rows[q.code].used = TRUE]]
      BY <1>3, Stored
    <3> QED
      BY <3>1, <3>2 DEF MarkedUsed
  <2> HIDE DEF new
  <2>6. ended' \in {ended, ended \union {g}}
    BY <1>12
  <2>7. /\ new.of = family[g].of /\ new.on = family[g].on
        /\ DOMAIN family[g].rows \subseteq DOMAIN new.rows
        /\ Works(new) => Works(family[g]) /\ g \notin ended'
    BY <2>1, <2>4
  <2>8. /\ family' \in [Families -> Login \union {NoLogin}] /\ ended' \subseteq Families
        /\ LoginsStep(r) /\ EndedStaysEnded' /\ TokensRotateOnce'
    BY <1>3, <1>5, <2>4, <2>5, <2>6, <2>7, OneRewritten
  <2> QED
    BY <1>7, <1>8, <2>8, SessionsEnded
<1>13. CASE /\ ~row.used /\ ~row.revoked
            /\ family' = [family EXCEPT ![g] = Rotated(@, q.code)]
            /\ UNCHANGED ended
  <2> DEFINE new == Rotated(l, q.code)
  <2>1. /\ new \in Login /\ new.of = l.of /\ new.on = l.on
        /\ DOMAIN l.rows \subseteq DOMAIN new.rows /\ OneLine(new) /\ Works(l)
    BY <1>3, <1>6, <1>13, RotatedIs
  <2>2. family' = [family EXCEPT ![g] = new]
    BY <1>13
  <2>3. Works(new) => Works(family[g]) /\ g \notin ended'
    BY <1>6, <1>13, <2>1
  <2>4. ended' \in {ended, ended \union {g}}
    BY <1>13
  <2> HIDE DEF new
  <2>5. /\ family' \in [Families -> Login \union {NoLogin}] /\ ended' \subseteq Families
        /\ LoginsStep(r) /\ EndedStaysEnded' /\ TokensRotateOnce'
    BY <1>3, <1>5, <2>1, <2>2, <2>3, <2>4, OneRewritten
  <2> QED
    BY <1>7, <1>8, <2>5, SessionsEnded
<1> QED
  BY <1>9, <1>10, <1>11, <1>12, <1>13

\* A login begins, and proves a number whose lock is held.
LEMMA OneBegun ==
    ASSUME SignInInv, NEW r \in Requests, NEW g \in Families, family[g] = NoLogin,
           NEW l \in Login, OneLine(l), ended' = ended,
           PhoneLock(l.on) \in HeldBy(r), acct'[l.of].phone = l.on,
           family' = [family EXCEPT ![g] = l]
    PROVE  /\ family' \in [Families -> Login \union {NoLogin}]
           /\ LoginsStep(r) /\ EndedStaysEnded' /\ TokensRotateOnce'
<1>1. /\ family \in [Families -> Login \union {NoLogin}] /\ ended \subseteq Families
      /\ \A f \in ended : family[f] # NoLogin
  BY Stored DEF SignInInv, Whole
<1>2. family'[g] = l /\ \A f \in Families : f # g => family'[f] = family[f]
  BY <1>1
<1>3. ASSUME NEW f \in Families, family[f] # NoLogin
      PROVE  OldLogin(r, f)
  <2>1. /\ family[f] \in Login /\ OneLine(family[f])
        /\ f \in ended => ~Works(family[f])
    BY <1>3, LoginIs
  <2>2. family'[f] = family[f]
    BY <1>2, <1>3
  <2> QED
    BY <2>1, <2>2 DEF OldLogin
<1>4. ASSUME NEW f \in Families, family[f] = NoLogin
      PROVE  f \notin ended' /\ (family'[f] = NoLogin \/ NewLogin(r, f))
  BY <1>1, <1>2, <1>4 DEF NewLogin
<1>5. BecomeOf(r)
  BY <1>3, <1>4 DEF BecomeOf
<1>6. ended' \subseteq Families
  BY <1>1
<1>7. PICK F : family' = [f \in Families |-> F[f]]
  <2>1. family' = [f \in Families |-> [h \in Families |-> IF h = g THEN l ELSE family[h]][f]]
    BY <1>1
  <2> QED
    BY <2>1
<1> QED
  BY <1>5, <1>6, <1>7, LoginsWritten

LEMMA FirstToken ==
    ASSUME NEW a \in Accounts, NEW p \in Phones, NEW now \in Times
    PROVE  LET l == [of |-> a, on |-> p, since |-> now,
                     rows |-> <<[used |-> FALSE, revoked |-> FALSE]>>]
           IN  l \in Login /\ OneLine(l)
<1> DEFINE row == [used |-> FALSE, revoked |-> FALSE]
           l == [of |-> a, on |-> p, since |-> now, rows |-> <<row>>]
<1>1. row \in Row /\ ~row.used
  BY DEF Row
<1> HIDE DEF row
<1>2. <<row>> \in Seq(Row) /\ Len(<<row>>) = 1 /\ DOMAIN <<row>> = 1..1 /\ <<row>>[1] = row
  BY <1>1
<1>3. {i \in DOMAIN <<row>> : <<row>>[i].used} = {}
  BY <1>1, <1>2
<1>4. Cardinality({i \in DOMAIN <<row>> : <<row>>[i].used}) = 0
  BY <1>3, FS_EmptySet
<1>5. l \in Login
  BY <1>2 DEF Login
<1>6. OneLine(l)
  BY <1>2, <1>4 DEF OneLine
<1> QED
  BY <1>5, <1>6 DEF row

\* A login on a known number, or with a new account on a number nobody waits for.
LEMMA LoggedInIs ==
    ASSUME SignInInv, NEW r \in Requests, NEW q, q = req[r], q \in Request, FitsOp(q),
           q.op = "login", q.saw \in Database, NumberStands(q.saw, q.to),
           PhoneLock(q.to) \in HeldBy(r),
           ~LoginRefused(q), LogsIn(q), sent' \in [Phones -> Seq(Code)]
    PROVE  Effect(r)
<1>1. q.to \in Phones /\ q.to # NoPhone /\ q.role \in Sides /\ q.now \in Times
  BY PhonesAssumption DEF FitsOp, OnCode, Request, NoPhone
<1> DEFINE known == SideOn(q.saw, q.to, q.role)
           row == [used |-> FALSE, revoked |-> FALSE]
<1>2. PICK a \in Accounts, g \in Families :
       /\ IF known # {} THEN a \in known ELSE acct[a] = NoAccount
       /\ family[g] = NoLogin
       /\ acct' = IF known # {} THEN acct
                  ELSE [acct EXCEPT ![a] = [NoAccount EXCEPT !.phone = q.to, !.role = q.role]]
       /\ family' = [family EXCEPT ![g] =
                       [of |-> a, on |-> q.to, since |-> q.now, rows |-> <<row>>]]
       /\ UNCHANGED <<stepUp, change, ended>>
  BY DEF LogsIn
<1>3. known \subseteq OnPhone(q.to)
  BY DEF SideOn, NumberStands
<1>4. SamePeople \/ /\ known = {} /\ acct[a] = NoAccount
                    /\ acct' = [acct EXCEPT ![a] = [NoAccount EXCEPT !.phone = q.to,
                                                                     !.role = q.role]]
  BY <1>2 DEF SamePeople
<1>5. acct' \in [Accounts -> Account]
  <2>1. [NoAccount EXCEPT !.phone = q.to, !.role = q.role] \in Account
    BY <1>1 DEF NoAccount, Account
  <2> QED
    BY <1>2, <2>1, Stored
<1>6. acct'[a].phone = q.to
  <2>1. CASE known # {}
    BY <1>2, <1>3, <2>1 DEF OnPhone
  <2>2. CASE known = {}
    BY <1>2, <2>2, Stored DEF NoAccount
  <2> QED
    BY <2>1, <2>2
<1> HIDE DEF known
<1>7. PICK l : l = [of |-> a, on |-> q.to, since |-> q.now, rows |-> <<row>>]
  OBVIOUS
<1>8. l \in Login /\ OneLine(l) /\ l.of = a /\ l.on = q.to
  BY <1>1, <1>7, FirstToken
<1>9. family' = [family EXCEPT ![g] = l] /\ ended' = ended
  BY <1>2, <1>7
<1>10. /\ family' \in [Families -> Login \union {NoLogin}]
       /\ LoginsStep(r) /\ EndedStaysEnded' /\ TokensRotateOnce'
  BY <1>2, <1>6, <1>8, <1>9, OneBegun
<1>11. DB' \in Database /\ ended' \subseteq Families
  BY <1>2, <1>5, <1>10, Stored, Storing
<1>12. FewerChanges
  BY <1>2 DEF FewerChanges
<1>13. CASE SamePeople
  BY <1>10, <1>11, <1>12, <1>13, PeopleStay, ChangesStay DEF Effect
<1>14. CASE /\ known = {} /\ acct[a] = NoAccount
            /\ acct' = [acct EXCEPT ![a] = [NoAccount EXCEPT !.phone = q.to, !.role = q.role]]
  <2>1. /\ acct'[a].phone = q.to /\ acct'[a].role = q.role /\ q.role # "none"
        /\ acct[a].phone = NoPhone /\ acct[a].role = "none"
        /\ \A b \in Accounts : b # a => acct'[b] = acct[b]
    BY <1>1, <1>14, Stored DEF NoAccount, Sides
  <2>2. ASSUME NEW p, p # q.to, p # NoPhone
        PROVE  OnPhone(p)' = OnPhone(p)
    BY <2>1, <2>2 DEF OnPhone
  <2>3. \A p \in Phones : p # NoPhone
    BY PhonesAssumption DEF NoPhone
  <2>4. \A b \in Accounts : acct'[b].phone # NoPhone => acct'[b].role # "none"
    BY <2>1 DEF SignInInv, Whole
  <2>5. \A f \in Families : family[f] # NoLogin => family[f].of \in Accounts \ {a}
    BY <2>1, Stored DEF SignInInv, Whole, Login
  <2>6. PeopleStep(r)
    BY <2>1, <2>2, <2>3, <2>4, <2>5 DEF PeopleStep
  <2>7. \A b \in Accounts : change[b].to # q.to
    BY <1>14 DEF known, LoginRefused, NumberStands
  <2>8. ASSUME NEW b \in Accounts, change[b] # NoChange
        PROVE  OnPhone(change[b].to)' = {}
    <3>1. change[b].to \in Phones
      BY <2>8, Stored DEF Change
    <3>2. OnPhone(change[b].to) = {}
      BY <2>8 DEF SignInInv, WaitedNumberIsFree, Waiting, DB, OnNumber, OnPhone
    <3>3. change' = change
      BY <1>2
    <3> QED
      BY <2>2, <2>3, <2>7, <3>1, <3>2, <3>3
  <2>9. WaitedNumberIsFree'
    BY <1>2, <2>8 DEF WaitedNumberIsFree, Waiting, DB, OnNumber, OnPhone
  <2> QED
    BY <1>10, <1>11, <1>12, <2>6, <2>9, ChangesStay DEF Effect
<1> QED
  BY <1>4, <1>13, <1>14

LEMMA LoggedIn ==
    ASSUME SignInInv, NEW r \in Requests, VerifyOtp(r)
    PROVE  Effect(r)
<1>1. PICK q : q = req[r]
  OBVIOUS
<1>2. /\ q \in Request /\ FitsOp(q) /\ q.op = "login" /\ q.saw \in Database
      /\ SawStands(r) /\ Needs(q) \subseteq HeldBy(r)
  BY <1>1, Committing DEF VerifyOtp
<1>3. q.to \in Phones /\ PhoneLock(q.to) \in HeldBy(r)
  BY <1>2 DEF FitsOp, OnCode, Needs, NumbersOf
<1>4. NumberStands(q.saw, q.to)
  BY <1>1, <1>2, <1>3 DEF SawStands
<1>5. CASE LoginCode(q, q.code) = "wrong" /\ WrongTry(q)
  BY <1>2, <1>3, <1>5, LoginTries
<1>6. CASE Refused
  BY <1>6, NothingWritten
<1>7. CASE LoginCode(q, q.code) = "right" /\ ~LoginRefused(q) /\ LogsIn(q)
  <2>1. SpendLoginCode(q)
    BY <1>7 DEF LogsIn
  <2>2. sent' \in [Phones -> Seq(Code)]
    BY <1>2, <1>3, <1>7, <2>1, LoginTries
  <2> QED
    BY <1>1, <1>2, <1>3, <1>4, <1>7, <2>2, LoggedInIs
<1> QED
  BY <1>1, <1>5, <1>6, <1>7 DEF VerifyOtp

-----------------------------------------------------------------------------
(* The change of a number.                                                    *)

\* A change is asked for, of a number that is nobody's and nobody waits for.
LEMMA ClaimsIs ==
    ASSUME SignInInv, NEW r \in Requests, NEW q, q = req[r], q \in Request, FitsOp(q),
           q.op = "claim", q.saw \in Database, NumberStands(q.saw, q.to),
           PhoneLock(q.to) \in HeldBy(r),
           q.now <= time, time <= q.now + Patience,
           Claims(q), SpendLoginCode(q) => sent' \in [Phones -> Seq(Code)],
           SpendStepUp(q) \/ UNCHANGED stepUp => stepUp' \in [Accounts -> Seq(StepUpCode)]
    PROVE  Effect(r)
<1>1. /\ q.to \in Phones /\ q.to # NoPhone /\ q.of \in Accounts /\ q.now \in Times
      /\ q.lost \in BOOLEAN
  BY PhonesAssumption DEF FitsOp, OnCode, OnNewNumber, Request, NoPhone
<1>2. CASE Refused
  BY <1>2, NothingWritten
<1>3. CASE ~Refused
  <2> DEFINE wait == IF q.lost THEN LostWait ELSE ChangeWait
             new == [to |-> q.to, since |-> q.now, lost |-> q.lost, due |-> q.now + wait]
  <2>1. /\ OnNumber(q.saw, q.to) = {}
        /\ \A a \in Accounts \ {q.of} : change[a].to # q.to
        /\ SpendLoginCode(q) /\ (SpendStepUp(q) \/ UNCHANGED stepUp)
        /\ change' = [change EXCEPT ![q.of] = new]
        /\ UNCHANGED <<acct, family, ended>>
    BY <1>3 DEF Claims
  <2>2. /\ q.now \in Nat /\ time \in Nat /\ wait \in Nat /\ Patience \in Nat
        /\ Patience < wait
    <3>1. ChangeWait \in Nat /\ LostWait \in Nat /\ Patience \in Nat
      BY LimitsAssumption
    <3> QED
      BY <1>1, <3>1, Stored, PatienceAssumption DEF Times
  <2> HIDE DEF wait
  <2>3. q.now + wait \in Nat /\ q.now + wait > time
    BY <2>2
  <2>4. new \in Change /\ new.to = q.to /\ new.due > time
    BY <1>1, <2>3 DEF Change
  <2> HIDE DEF new
  <2>5. /\ change' \in [Accounts -> Change \union {NoChange}]
        /\ change'[q.of] = new
        /\ \A a \in Accounts : a # q.of => change'[a] = change[a]
    BY <1>1, <2>1, <2>4, Stored
  <2>6. DB' \in Database /\ ended' \subseteq Families
    BY <2>1, <2>5, Stored, Storing
  <2>7. SamePeople
    BY <2>1 DEF SamePeople
  <2>8. \A p \in Phones : PhoneLock(p) \notin HeldBy(r) =>
           \A a \in Accounts : change'[a].to = p => change[a].to = p
    BY <2>4, <2>5
  <2>9. WaitedOnce(change')
    <3>1. ASSUME NEW a \in Accounts, NEW b \in Accounts,
                 change'[a].to = change'[b].to, change'[a].to # NoPhone
          PROVE  a = b
      <4>1. WaitedOnce(change)
        BY DEF SignInInv
      <4> QED
        BY <2>1, <2>4, <2>5, <3>1, <4>1 DEF WaitedOnce
    <3> QED
      BY <3>1 DEF WaitedOnce
  <2>10. \A a \in Accounts : change'[a] # NoChange /\ change'[a] # change[a] =>
            change'[a].due > time
    BY <2>4, <2>5
  <2>11. WaitedNumberIsFree'
    <3>1. OnPhone(q.to) = {}
      BY <2>1 DEF NumberStands
    <3>2. ASSUME NEW a \in Accounts, change'[a] # NoChange
          PROVE  OnPhone(change'[a].to) = {}
      <4>1. CASE a = q.of
        BY <2>4, <2>5, <3>1, <4>1
      <4>2. CASE a # q.of
        <5>1. change'[a] = change[a]
          BY <2>5, <4>2
        <5> QED
          BY <3>2, <5>1 DEF SignInInv, WaitedNumberIsFree, Waiting, DB, OnNumber, OnPhone
      <4> QED
        BY <4>1, <4>2
    <3> QED
      BY <2>1, <3>2 DEF WaitedNumberIsFree, Waiting, DB, OnNumber, OnPhone
  <2> QED
    BY <2>1, <2>6, <2>7, <2>8, <2>9, <2>10, <2>11, PeopleStay, LoginsStay
       DEF Effect, ChangesStep
<1> QED
  BY <1>2, <1>3

LEMMA Claimed ==
    ASSUME SignInInv, NEW r \in Requests, RequestChange(r)
    PROVE  Effect(r)
<1>1. PICK q : q = req[r]
  OBVIOUS
<1>2. /\ q \in Request /\ FitsOp(q) /\ q.op = "claim" /\ q.saw \in Database
      /\ SawStands(r) /\ Needs(q) \subseteq HeldBy(r)
      /\ q.now <= time /\ time <= q.now + Patience
  BY <1>1, Committing DEF RequestChange
<1>3. q.to \in Phones /\ q.of \in Accounts /\ PhoneLock(q.to) \in HeldBy(r)
  BY <1>2 DEF FitsOp, OnCode, OnNewNumber, Needs, NumbersOf
<1>4. NumberStands(q.saw, q.to)
  BY <1>1, <1>2, <1>3 DEF SawStands
<1>5. CASE Refused
  BY <1>5, NothingWritten
<1>6. CASE LoginCode(q, q.newCode) = "wrong" /\ WrongTry(q)
  BY <1>2, <1>3, <1>6, LoginTries
<1>7. CASE StepUp(q, q.code) = "wrong" /\ WrongStepUp(q)
  BY <1>2, <1>3, <1>7, StepUpTries
<1>8. CASE /\ LoginCode(q, q.newCode) = "right" /\ Claims(q)
           /\ q.lost \/ StepUp(q, q.code) = "right"
  <2>1. SpendLoginCode(q) => sent' \in [Phones -> Seq(Code)]
    BY <1>2, <1>3, <1>8, LoginTries
  <2>2. UNCHANGED stepUp => stepUp' \in [Accounts -> Seq(StepUpCode)]
    BY Stored
  <2>3. CASE ~q.lost
    <3>1. SpendStepUp(q) => stepUp' \in [Accounts -> Seq(StepUpCode)]
      BY <1>2, <1>3, <1>8, <2>3, StepUpTries
    <3> QED
      BY <1>1, <1>2, <1>3, <1>4, <1>8, <2>1, <2>2, <3>1, ClaimsIs
  <2>4. CASE q.lost
    <3>1. CASE Refused
      BY <3>1, NothingWritten
    <3>2. CASE ~Refused
      <4>1. UNCHANGED stepUp
        BY <1>8, <2>4, <3>2 DEF Claims
      <4> QED
        BY <1>1, <1>2, <1>3, <1>4, <1>8, <2>1, <2>2, <4>1, ClaimsIs
    <3> QED
      BY <3>1, <3>2
  <2> QED
    BY <2>3, <2>4
<1> QED
  BY <1>1, <1>5, <1>6, <1>7, <1>8 DEF RequestChange

\* The numbers a change touches, their accounts and the logins of those are
\* locked, so that the move is of all of them as they are.
LEMMA MovesIs ==
    ASSUME SignInInv, NEW r \in Requests, NEW q, q = req[r], q \in Request, FitsOp(q),
           q.op = "make", q.saw \in Database, SawStands(r), Needs(q) \subseteq HeldBy(r),
           IsDue(q.saw.change, q), OnNumber(q.saw, q.to) = {}, Moves(q),
           change' = [change EXCEPT ![q.of] = NoChange], UNCHANGED <<sent, stepUp>>
    PROVE  Effect(r)
<1> DEFINE d == q.saw
           old == q.knew.phone
           moving == OnPhone(old)
<1>1. /\ q.to \in Phones /\ q.to # NoPhone /\ old \in Phones /\ q.of \in Accounts
  BY PhonesAssumption DEF FitsOp, OnCode, OnNewNumber, OnOldNumber, NoPhone
<1>2. /\ PhoneLock(old) \in HeldBy(r) /\ PhoneLock(q.to) \in HeldBy(r)
      /\ \A a \in moving : AccountLock(a) \in HeldBy(r)
  BY DEF Needs, NumbersOf, AccountsOf, OnCode, OnNewNumber
<1>3. NumberStands(d, old) /\ NumberStands(d, q.to)
  BY <1>1, <1>2 DEF SawStands
<1>4. /\ OnNumber(d, old) = moving /\ OnPhone(q.to) = {} /\ moving \subseteq Accounts
      /\ \A a \in Accounts : change[a].to = q.to => d.change[a].to = q.to
      /\ \A f \in Families : family[f].of \in moving => d.family[f].of = family[f].of
      /\ \A a \in Accounts : a \in moving <=> acct[a].phone = old
  BY <1>1, <1>3, PhonesAssumption DEF NumberStands, OnPhone, NoPhone
<1>5. /\ acct' = [a \in Accounts |->
                    IF a \in moving THEN [acct[a] EXCEPT !.phone = q.to] ELSE acct[a]]
      /\ EndLogins(d, LoginsOf(d, moving))
  BY <1>4 DEF Moves
<1> HIDE DEF moving, d
<1>6. /\ acct' \in [Accounts -> Account]
      /\ \A a \in Accounts : /\ a \in moving => acct'[a].phone = q.to
                             /\ a \notin moving => acct'[a].phone = acct[a].phone
                             /\ acct'[a].role = acct[a].role
  <2>1. ASSUME NEW a \in Accounts
        PROVE  /\ acct'[a] \in Account
               /\ a \in moving => acct'[a].phone = q.to
               /\ a \notin moving => acct'[a].phone = acct[a].phone
               /\ acct'[a].role = acct[a].role
    <3>1. acct[a] \in Account
      BY Stored
    <3>2. /\ a \in moving => acct'[a] = [acct[a] EXCEPT !.phone = q.to]
          /\ a \notin moving => acct'[a] = acct[a]
      BY <1>5
    <3> QED
      BY <1>1, <3>1, <3>2 DEF Account
  <2>2. acct' = [a \in Accounts |-> acct'[a]]
    BY <1>5
  <2> QED
    BY <2>1, <2>2
<1>7. /\ family' \in [Families -> Login \union {NoLogin}]
      /\ ended' \subseteq Families /\ ended' = ended \union LoginsOf(d, moving)
      /\ LoginsStep(r) /\ EndedStaysEnded' /\ TokensRotateOnce'
  <2>1. LoginsOf(d, moving) \in SUBSET Families
    BY DEF LoginsOf
  <2>2. \A f \in LoginsOf(d, moving) :
           d.family[f].of \in Accounts /\ AccountLock(d.family[f].of) \in HeldBy(r)
    BY <1>2, <1>4 DEF LoginsOf
  <2> QED
    BY <1>5, <2>1, <2>2, Ending DEF d
<1>8. change' \in [Accounts -> Change \union {NoChange}] /\ FewerChanges
  BY <1>1, Stored DEF FewerChanges
<1>9. DB' \in Database
  BY <1>6, <1>7, <1>8, Stored, Storing
<1>10. PeopleStep(r)
  <2>1. ASSUME NEW p \in Phones, PhoneLock(p) \notin HeldBy(r)
        PROVE  OnPhone(p)' = OnPhone(p)
    <3>1. p # old /\ p # q.to
      BY <1>2, <2>1
    <3>2. \A a \in Accounts : acct'[a].phone = p <=> acct[a].phone = p
      BY <1>4, <1>6, <3>1
    <3> QED
      BY <3>2 DEF OnPhone
  <2>2. \A a \in Accounts : acct[a].role # "none" => acct'[a].role # "none"
    BY <1>6
  <2>3. \A a \in Accounts : acct'[a].phone # NoPhone => acct'[a].role # "none"
    <3>1. \A a \in Accounts : acct'[a].phone # NoPhone => acct[a].phone # NoPhone
      BY <1>1, <1>4, <1>6, PhonesAssumption DEF NoPhone
    <3> QED
      BY <1>6, <3>1 DEF SignInInv, Whole
  <2>4. ASSUME NEW f \in Families, family[f] # NoLogin,
               acct'[family[f].of].phone # acct[family[f].of].phone
        PROVE  f \in ended'
    <3>1. family[f].of \in Accounts
      BY <2>4, Stored DEF Login
    <3>2. family[f].of \in moving
      BY <1>6, <2>4, <3>1
    <3>3. d.family[f].of \in moving
      BY <1>4, <3>2
    <3> QED
      BY <1>7, <3>3 DEF LoginsOf
  <2> QED
    BY <2>1, <2>2, <2>3, <2>4 DEF PeopleStep
<1>11. WaitedNumberIsFree'
  <2>1. ASSUME NEW b \in Accounts, change'[b] # NoChange
        PROVE  (OnPhone(change[b].to) = {})'
    <3>1. b # q.of /\ change'[b] = change[b]
      BY <1>1, <2>1, Stored
    <3>2. OnPhone(change[b].to) = {}
      BY <2>1, <3>1 DEF SignInInv, WaitedNumberIsFree, Waiting, DB, OnNumber, OnPhone
    <3>3. change[b].to # q.to
      <4>1. WaitedOnce(d.change) /\ KnowsTo(d.change, q)
        BY DEF SawStands, d
      <4>2. d.change[q.of].to = q.to
        BY <4>1 DEF KnowsTo, d
      <4> QED
        BY <1>1, <1>4, <3>1, <4>1, <4>2 DEF WaitedOnce
    <3>4. \A a \in Accounts : acct'[a].phone = change[b].to => acct[a].phone = change[b].to
      BY <1>6, <3>3
    <3> QED
      BY <3>1, <3>2, <3>4 DEF OnPhone
  <2> QED
    BY <2>1 DEF WaitedNumberIsFree, Waiting, DB, OnNumber, OnPhone
<1> QED
  BY <1>7, <1>8, <1>9, <1>10, <1>11, ChangesStay DEF Effect

LEMMA Made ==
    ASSUME SignInInv, NEW r \in Requests, MakeChange(r)
    PROVE  Effect(r)
<1>1. PICK q : q = req[r]
  OBVIOUS
<1>2. /\ q \in Request /\ FitsOp(q) /\ q.op = "make" /\ q.saw \in Database
      /\ SawStands(r) /\ Needs(q) \subseteq HeldBy(r)
  BY <1>1, Committing DEF MakeChange
<1>3. q.of \in Accounts /\ q.now \in Nat
  BY <1>2 DEF FitsOp, OnCode, Request, Times
<1>4. CASE Refused
  BY <1>4, NothingWritten
<1>5. CASE ~Refused
  <2>1. /\ Waiting(q.saw, q.of) /\ (Void(q.saw, q.of) \/ ~(q.now < q.saw.change[q.of].due))
        /\ change' = [change EXCEPT ![q.of] = NoChange]
        /\ IF Void(q.saw, q.of) \/ OnNumber(q.saw, q.to) # {}
           THEN UNCHANGED <<acct, family, ended>> ELSE Moves(q)
        /\ UNCHANGED <<sent, stepUp>>
    BY <1>1, <1>5 DEF MakeChange
  <2>2. CASE UNCHANGED <<acct, family, ended>>
    <3>1. change' \in [Accounts -> Change \union {NoChange}] /\ FewerChanges
      BY <1>3, <2>1, Stored DEF FewerChanges
    <3>2. DB' \in Database
      BY <2>1, <2>2, <3>1, Stored, Storing
    <3> QED
      BY <2>2, <3>1, <3>2, QuietCommit DEF SamePeople
  <2>3. CASE ~UNCHANGED <<acct, family, ended>>
    <3>1. ~Void(q.saw, q.of) /\ OnNumber(q.saw, q.to) = {} /\ Moves(q)
      BY <2>1, <2>3
    <3>2. q.saw.change[q.of] # NoChange
      BY <2>1 DEF Waiting
    <3>3. q.saw.change[q.of].due \in Nat
      BY <1>2, <1>3, <3>2 DEF Database, Change
    <3>4. IsDue(q.saw.change, q)
      BY <1>3, <2>1, <3>1, <3>2, <3>3 DEF IsDue
    <3> QED
      BY <1>1, <1>2, <2>1, <3>1, <3>4, MovesIs
  <2> QED
    BY <2>2, <2>3
<1> QED
  BY <1>4, <1>5

-----------------------------------------------------------------------------
(* An account that is erased.                                                 *)

\* The codes of a number or an account that is erased.
SpentLongAgo(s) == [i \in DOMAIN s |-> [s[i] EXCEPT !.at = LongAgo, !.spent = TRUE]]
AllSpent(s) == [i \in DOMAIN s |-> [s[i] EXCEPT !.spent = TRUE]]

LEMMA ErasedCodes ==
    ASSUME NEW s \in Seq(Code)
    PROVE  SpentLongAgo(s) \in Seq(Code)
<1>1. Len(s) \in Nat /\ DOMAIN s = 1..Len(s) /\ \A i \in 1..Len(s) : s[i] \in Code
  OBVIOUS
<1>2. \A i \in 1..Len(s) : [s[i] EXCEPT !.at = LongAgo, !.spent = TRUE] \in Code
  BY <1>1 DEF Code
<1>3. SpentLongAgo(s) = [i \in 1..Len(s) |-> [s[i] EXCEPT !.at = LongAgo, !.spent = TRUE]]
  BY <1>1 DEF SpentLongAgo
<1>4. SpentLongAgo(s) \in [1..Len(s) -> Code]
  BY <1>2, <1>3
<1> QED
  BY <1>1, <1>4

LEMMA ErasedStepUps ==
    ASSUME NEW s \in Seq(StepUpCode)
    PROVE  AllSpent(s) \in Seq(StepUpCode)
<1>1. Len(s) \in Nat /\ DOMAIN s = 1..Len(s) /\ \A i \in 1..Len(s) : s[i] \in StepUpCode
  OBVIOUS
<1>2. \A i \in 1..Len(s) : [s[i] EXCEPT !.spent = TRUE] \in StepUpCode
  BY <1>1 DEF StepUpCode
<1>3. AllSpent(s) = [i \in 1..Len(s) |-> [s[i] EXCEPT !.spent = TRUE]]
  BY <1>1 DEF AllSpent
<1>4. AllSpent(s) \in [1..Len(s) -> StepUpCode]
  BY <1>2, <1>3
<1> QED
  BY <1>1, <1>4

\* The account gives up the number it was read to have, under that number's
\* lock and its own: its logins are all known, and all end.
LEMMA ErasedIs ==
    ASSUME SignInInv, NEW r \in Requests, NEW q, q = req[r], q \in Request, FitsOp(q),
           q.op = "erase", q.saw \in Database, SawStands(r), Needs(q) \subseteq HeldBy(r),
           q.saw.acct[q.of].phone = q.knew.phone,
           acct' = [acct EXCEPT ![q.of].phone = NoPhone],
           EndLogins(q.saw, LoginsOf(q.saw, {q.of})),
           sent' \in [Phones -> Seq(Code)], stepUp' \in [Accounts -> Seq(StepUpCode)],
           change' = [change EXCEPT ![q.of] = NoChange]
    PROVE  Effect(r)
<1> DEFINE d == q.saw
           old == q.knew.phone
           fs == LoginsOf(d, {q.of})
<1>1. q.of \in Accounts /\ old \in Phones /\ old # NoPhone
  BY PhonesAssumption DEF FitsOp, OnCode, OnOldNumber, NoPhone
<1>2. PhoneLock(old) \in HeldBy(r) /\ AccountLock(q.of) \in HeldBy(r)
  BY DEF Needs, NumbersOf, AccountsOf, OnCode, OnNewNumber, OnOldNumber
<1>3. NumberStands(d, old)
  BY <1>1, <1>2 DEF SawStands
<1>4. /\ q.of \in OnPhone(old) /\ acct[q.of].phone = old
      /\ \A f \in Families : family[f].of = q.of => d.family[f].of = q.of
  BY <1>1, <1>3 DEF NumberStands, OnNumber, OnPhone
<1>5. acct' \in [Accounts -> Account]
  <2>1. acct[q.of] \in Account
    BY <1>1, Stored
  <2>2. [acct[q.of] EXCEPT !.phone = NoPhone] \in Account
    BY <2>1 DEF Account
  <2> QED
    BY <2>2, Stored
<1>6. /\ acct'[q.of].phone = NoPhone
      /\ \A a \in Accounts : /\ a # q.of => acct'[a].phone = acct[a].phone
                             /\ acct'[a].role = acct[a].role
  <2>1. acct[q.of] \in Account
    BY <1>1, Stored
  <2>2. acct'[q.of] = [acct[q.of] EXCEPT !.phone = NoPhone]
    BY <1>1, Stored
  <2>3. \A a \in Accounts : a # q.of => acct'[a] = acct[a]
    BY Stored
  <2>4. acct'[q.of].phone = NoPhone /\ acct'[q.of].role = acct[q.of].role
    BY <2>1, <2>2 DEF Account
  <2> QED
    BY <2>3, <2>4
<1> HIDE DEF d
<1>7. /\ family' \in [Families -> Login \union {NoLogin}]
      /\ ended' \subseteq Families /\ ended' = ended \union fs
      /\ LoginsStep(r) /\ EndedStaysEnded' /\ TokensRotateOnce'
  <2>1. fs \in SUBSET Families
    BY DEF LoginsOf
  <2>2. \A f \in fs : d.family[f].of \in Accounts /\ AccountLock(d.family[f].of) \in HeldBy(r)
    BY <1>1, <1>2 DEF LoginsOf
  <2>3. EndLogins(d, fs)
    BY DEF d
  <2> HIDE DEF fs
  <2> QED
    BY <2>1, <2>2, <2>3, Ending DEF d
<1>8. change' \in [Accounts -> Change \union {NoChange}] /\ FewerChanges
  BY <1>1, Stored DEF FewerChanges
<1>9. DB' \in Database
  BY <1>5, <1>7, <1>8, Storing
<1>10. PeopleStep(r)
  <2>1. ASSUME NEW p \in Phones, PhoneLock(p) \notin HeldBy(r)
        PROVE  OnPhone(p)' = OnPhone(p)
    <3>1. p # old /\ p # NoPhone
      BY <1>2, <2>1, PhonesAssumption DEF NoPhone
    <3>2. \A a \in Accounts : acct'[a].phone = p <=> acct[a].phone = p
      BY <1>4, <1>6, <3>1
    <3> QED
      BY <3>2 DEF OnPhone
  <2>2. \A a \in Accounts : acct[a].role # "none" => acct'[a].role # "none"
    BY <1>6
  <2>3. \A a \in Accounts : acct'[a].phone # NoPhone => acct'[a].role # "none"
    BY <1>6 DEF SignInInv, Whole
  <2>4. ASSUME NEW f \in Families, family[f] # NoLogin,
               acct'[family[f].of].phone # acct[family[f].of].phone
        PROVE  f \in ended'
    <3>1. family[f].of \in Accounts
      BY <2>4, Stored DEF Login
    <3>2. family[f].of = q.of
      BY <1>6, <2>4, <3>1
    <3> QED
      BY <1>4, <1>7, <3>2 DEF LoginsOf
  <2> QED
    BY <2>1, <2>2, <2>3, <2>4 DEF PeopleStep
<1>11. WaitedNumberIsFree'
  <2>1. ASSUME NEW b \in Accounts, change'[b] # NoChange
        PROVE  (OnPhone(change[b].to) = {})'
    <3>1. change'[b] = change[b]
      BY <2>1 DEF FewerChanges, SignInInv, TypeOK, DB, Database
    <3>2. OnPhone(change[b].to) = {}
      BY <2>1, <3>1 DEF SignInInv, WaitedNumberIsFree, Waiting, DB, OnNumber, OnPhone
    <3>3. \A p : \A a \in Accounts :
             acct'[a].phone = p /\ p # NoPhone => acct[a].phone = p
      BY <1>6
    <3> QED
      BY <3>1, <3>2, <3>3 DEF OnPhone
  <2> QED
    BY <2>1 DEF WaitedNumberIsFree, Waiting, DB, OnNumber, OnPhone
<1> QED
  BY <1>7, <1>8, <1>9, <1>10, <1>11, ChangesStay DEF Effect

LEMMA Erased ==
    ASSUME SignInInv, NEW r \in Requests, Erase(r)
    PROVE  Effect(r)
<1>1. PICK q : q = req[r]
  OBVIOUS
<1>2. /\ q \in Request /\ FitsOp(q) /\ q.op = "erase" /\ q.saw \in Database
      /\ SawStands(r) /\ Needs(q) \subseteq HeldBy(r)
  BY <1>1, Committing DEF Erase
<1>3. q.of \in Accounts /\ q.knew.phone \in Phones
  BY <1>2 DEF FitsOp, OnCode, OnOldNumber
<1>4. CASE Refused
  BY <1>4, NothingWritten
<1>5. CASE ~Refused
  <2> DEFINE p == q.knew.phone
  <2>1. /\ q.saw.acct[q.of].phone = p
        /\ acct' = [acct EXCEPT ![q.of].phone = NoPhone]
        /\ EndLogins(q.saw, LoginsOf(q.saw, {q.of}))
        /\ sent' = IF OnNumber(q.saw, p) # {q.of} THEN sent
                   ELSE [sent EXCEPT ![p] = [i \in DOMAIN @ |->
                           [@[i] EXCEPT !.at = LongAgo, !.spent = TRUE]]]
        /\ stepUp' = [stepUp EXCEPT ![q.of] = [i \in DOMAIN @ |->
                           [@[i] EXCEPT !.spent = TRUE]]]
        /\ change' = [change EXCEPT ![q.of] = NoChange]
    BY <1>1, <1>5 DEF Erase
  <2>2. sent' = sent \/ sent' = [sent EXCEPT ![p] = SpentLongAgo(sent[p])]
    BY <2>1 DEF SpentLongAgo
  <2>3. SpentLongAgo(sent[p]) \in Seq(Code)
    BY <1>3, Stored, ErasedCodes
  <2>4. sent' \in [Phones -> Seq(Code)]
    BY <2>2, <2>3, Stored
  <2>5. stepUp' = [stepUp EXCEPT ![q.of] = AllSpent(stepUp[q.of])]
    BY <2>1 DEF AllSpent
  <2>6. AllSpent(stepUp[q.of]) \in Seq(StepUpCode)
    BY <1>3, Stored, ErasedStepUps
  <2>7. stepUp' \in [Accounts -> Seq(StepUpCode)]
    BY <2>5, <2>6, Stored
  <2> QED
    BY <1>1, <1>2, <2>1, <2>4, <2>7, ErasedIs
<1> QED
  BY <1>4, <1>5

-----------------------------------------------------------------------------
(* The whole.                                                                 *)

LEMMA InitHolds ==
    ASSUME Init
    PROVE  SignInInv
<1>1. \A r \in Requests : req[r] = Idle /\ ~Running(r) /\ ~HoldsAll(r) /\ HeldBy(r) = {}
  BY DEF Init, Running, HoldsAll, HeldBy
<1>2. /\ \A f \in Families : family[f] = NoLogin
      /\ \A a \in Accounts : acct[a] = NoAccount /\ change[a] = NoChange
      /\ ended = {}
  BY DEF Init
<1>3. 1 \in Times
  <2>1. MaxTime \in Nat /\ MaxTime # 0
    BY LimitsAssumption
  <2> QED
    BY <2>1 DEF Times
<1>4. DB \in Database
  <2>1. NoAccount \in Account
    BY DEF NoAccount, Account
  <2> QED
    BY <2>1 DEF Init, DB, Database
<1>5. TypeOK
  BY <1>1, <1>3, <1>4 DEF Init, TypeOK
<1>6. AllFit /\ Exclusive /\ AllSawStand /\ InTime
  BY <1>1 DEF AllFit, Exclusive, AllSawStand, InTime
<1>7. Whole /\ WaitedOnce(change)
  BY <1>2 DEF Whole, WaitedOnce, NoAccount, NoChange
<1>8. \A f \in Families : ~Live(DB, f)
  BY <1>2 DEF Live, RowsOf, DB, NoLogin
<1>9. EndedStaysEnded /\ TokensRotateOnce /\ SessionsProveTheNumber /\ WaitedNumberIsFree
  BY <1>2, <1>8 DEF EndedStaysEnded, TokensRotateOnce, SessionsProveTheNumber,
                    WaitedNumberIsFree, Waiting, DB
<1> QED
  BY <1>5, <1>6, <1>7, <1>9 DEF SignInInv

\* Every commit, whatever it does, keeps what was promised.
Commit(r) ==
    \/ RequestOtp(r) \/ VerifyOtp(r) \/ RequestStepUp(r) \/ LogOutEverywhere(r)
    \/ RefreshSession(r) \/ Logout(r) \/ Suspend(r) \/ Restore(r)
    \/ RequestChange(r) \/ CancelChange(r) \/ MakeChange(r)
    \/ RequestDeletion(r) \/ CancelDeletion(r) \/ Erase(r)

LEMMA CommitHasEffect ==
    ASSUME SignInInv, NEW r \in Requests, Commit(r)
    PROVE  /\ Effect(r)
           /\ time' = time /\ req' = [req EXCEPT ![r] = Idle]
<1>1. Effect(r)
  BY CodeSent, LoggedIn, StepUpSent, LoggedOutEverywhere, Refreshed, LoggedOut, Suspended,
     Restored, Claimed, Cancelled, Made, Leaves, Keeps, Erased DEF Commit
<1>2. \E op : Commits(r, op)
  BY DEF Commit, RequestOtp, VerifyOtp, RequestStepUp, LogOutEverywhere, RefreshSession,
         Logout, Suspend, Restore, RequestChange, CancelChange, MakeChange,
         RequestDeletion, CancelDeletion, Erase
<1> QED
  BY <1>1, <1>2 DEF Commits

LEMMA NextKeeps ==
    ASSUME SignInInv, Next
    PROVE  SignInInv'
<1>1. CASE Tick
  BY <1>1, TickKeeps
<1>2. ASSUME NEW r \in Requests, Begin(r)
      PROVE  SignInInv'
  BY <1>2, BeginKeeps
<1>3. ASSUME NEW r \in Requests, Served(r)
      PROVE  SignInInv'
  <2>1. CASE Take(r)
    BY <2>1, TakeKeeps
  <2>2. CASE Commit(r)
    BY <2>2, CommitHasEffect, CommitKeeps
  <2> QED
    BY <1>3, <2>1, <2>2 DEF Served, Commit
<1> QED
  BY <1>1, <1>2, <1>3 DEF Next

LEMMA StutterKeeps ==
    ASSUME SignInInv, UNCHANGED vars
    PROVE  SignInInv'
<1>1. UNCHANGED <<db, ended>> /\ req' = req /\ time' = time
  BY DEF vars, db
<1>2. \A s \in Requests : /\ Running(s)' <=> Running(s)
                          /\ HeldBy(s)' = HeldBy(s)
                          /\ HoldsAll(s)' <=> HoldsAll(s)
                          /\ Running(s) => req[s].step <= Len(LockOrder(req[s]))' + 1
                          /\ HoldsAll(s) => SawStands(s)'
  BY <1>1, Unwritten
<1>3. /\ Whole' /\ WaitedOnce(change)' /\ EndedStaysEnded' /\ TokensRotateOnce'
      /\ SessionsProveTheNumber' /\ WaitedNumberIsFree'
      /\ DB' \in Database /\ ended' \subseteq Families
  BY <1>1, StoreStays
<1>4. TypeOK'
  BY <1>1, <1>2, <1>3 DEF TypeOK, SignInInv
<1>5. AllFit' /\ InTime'
  BY <1>1, <1>2 DEF AllFit, FitsOp, InTime, KnowsTo, IsDue, SignInInv, db
<1>6. Exclusive' /\ AllSawStand'
  BY <1>2 DEF Exclusive, AllSawStand, SignInInv
<1> QED
  BY <1>3, <1>4, <1>5, <1>6 DEF SignInInv

\* Whatever is under way, the locks a request holds keep what it read with the
\* last of them true until it writes (lock_phone, lock_phones, lock_sessions_of).
THEOREM Inductive == Spec => []SignInInv
<1>1. Init => SignInInv
  BY InitHolds
<1>2. SignInInv /\ [Next]_vars => SignInInv'
  BY NextKeeps, StutterKeeps
<1> QED
  BY <1>1, <1>2, PTL DEF Spec

\* What is stored is well formed, and a copied token never lives beside its
\* original: each token but a login's first was made for one that was used, once
\* (refresh_session, under the account's lock).
THEOREM LoginsStayOneLine == Spec => []LoginsAreOneLine
<1>1. SignInInv => LoginsAreOneLine
  BY DEF SignInInv, LoginsAreOneLine
<1> QED
  BY <1>1, Inductive, PTL

\* A login that a logout, a suspension, a move or an erasure has ended has no
\* working token, whatever refresh was in flight (lock_sessions_of).
THEOREM WhatEndsStaysEnded == Spec => []EndedStaysEnded
<1>1. SignInInv => EndedStaysEnded
  BY DEF SignInInv
<1> QED
  BY <1>1, Inductive, PTL

\* A working session has proved the number its account has now, through every
\* move and erasure of its own side or of the other (make_change, erase).
THEOREM EverySessionProvesItsNumber == Spec => []SessionsProveTheNumber
<1>1. SignInInv => SessionsProveTheNumber
  BY DEF SignInInv
<1> QED
  BY <1>1, Inductive, PTL

\* Nobody logs in with, or moves to, a number another waits to move to, until
\* that one has it or gives it up (verify_otp, is_waiting_to_move, _claim).
THEOREM WaitedNumberStaysFree == Spec => []WaitedNumberIsFree
<1>1. SignInInv => WaitedNumberIsFree
  BY DEF SignInInv
<1> QED
  BY <1>1, Inductive, PTL

-----------------------------------------------------------------------------
(* A number's two sides.                                                      *)

\* Who a commit may put on a number or take off it: an account that had none,
\* one that is left with none, or all of a number's together.
LEMMA PeopleMove ==
    ASSUME SignInInv, NEW r \in Requests, Commit(r)
    PROVE  \/ SamePeople
           \/ \E a \in Accounts :
                 /\ acct[a].phone = NoPhone \/ acct'[a].phone = NoPhone
                 /\ \A b \in Accounts \ {a} : acct'[b].phone = acct[b].phone
           \/ \E old, new : \A a \in Accounts :
                 acct'[a].phone = IF acct[a].phone = old THEN new ELSE acct[a].phone
<1>0. acct \in [Accounts -> Account]
  BY Stored
<1>1. PICK q : q = req[r]
  OBVIOUS
<1>2. CASE UNCHANGED acct
  BY <1>2 DEF SamePeople
<1>3. ASSUME NEW b \in BOOLEAN, acct' = [acct EXCEPT ![q.of].suspended = b]
      PROVE  SamePeople
  BY <1>0, <1>3 DEF SamePeople, Account
<1>4. ASSUME NEW n \in Nat, acct' = [acct EXCEPT ![q.of].leaves = n]
      PROVE  SamePeople
  BY <1>0, <1>4 DEF SamePeople, Account
<1>5. CASE LogsIn(q)
  <2>1. PICK a \in Accounts :
           acct' = acct \/ \E new : acct[a] = NoAccount /\ acct' = [acct EXCEPT ![a] = new]
    BY <1>5 DEF LogsIn
  <2>2. CASE acct' = acct
    BY <1>2, <2>2
  <2>3. CASE \E new : acct[a] = NoAccount /\ acct' = [acct EXCEPT ![a] = new]
    <3>1. acct[a].phone = NoPhone
      BY <2>3 DEF NoAccount
    <3>2. \A b \in Accounts \ {a} : acct'[b].phone = acct[b].phone
      BY <1>0, <2>3
    <3> QED
      BY <3>1, <3>2
  <2> QED
    BY <2>1, <2>2, <2>3
<1>6. CASE MakeChange(r) /\ ~UNCHANGED acct
  <2>1. /\ q \in Request /\ FitsOp(q) /\ q.op = "make"
        /\ SawStands(r) /\ Needs(q) \subseteq HeldBy(r)
    BY <1>1, <1>6, Committing DEF MakeChange
  <2>2. /\ q.knew.phone \in Phones /\ q.knew.phone # NoPhone
        /\ PhoneLock(q.knew.phone) \in HeldBy(r)
    BY <2>1, PhonesAssumption DEF FitsOp, OnOldNumber, OnCode, OnNewNumber, Needs, NumbersOf,
                                  NoPhone
  <2>3. OnNumber(q.saw, q.knew.phone) = OnPhone(q.knew.phone)
    BY <1>1, <2>1, <2>2 DEF SawStands, NumberStands
  <2>4. acct' = [a \in Accounts |->
                   IF a \in OnPhone(q.knew.phone)
                   THEN [acct[a] EXCEPT !.phone = q.to] ELSE acct[a]]
    BY <1>1, <1>6, <2>3 DEF MakeChange, Refused, db, Moves
  <2>5. \A a \in Accounts : a \in OnPhone(q.knew.phone) <=> acct[a].phone = q.knew.phone
    BY <2>2 DEF OnPhone
  <2>6. \A a \in Accounts : acct'[a].phone = IF acct[a].phone = q.knew.phone
                                             THEN q.to ELSE acct[a].phone
    <3>1. ASSUME NEW a \in Accounts
          PROVE  acct'[a].phone = IF acct[a].phone = q.knew.phone
                                  THEN q.to ELSE acct[a].phone
      <4>1. acct[a] \in Account
        BY <1>0
      <4>2. acct'[a] = IF acct[a].phone = q.knew.phone
                       THEN [acct[a] EXCEPT !.phone = q.to] ELSE acct[a]
        BY <2>4, <2>5
      <4> QED
        BY <4>1, <4>2 DEF Account
    <3> QED
      BY <3>1
  <2> QED
    BY ZenonT(40), <2>6
<1>7. CASE Erase(r) /\ ~UNCHANGED acct
  <2>1. q \in Request /\ FitsOp(q) /\ q.op = "erase"
    BY <1>1, <1>7, Committing DEF Erase
  <2>2. q.of \in Accounts
    BY <2>1 DEF FitsOp, OnCode
  <2>3. acct' = [acct EXCEPT ![q.of].phone = NoPhone]
    BY <1>1, <1>7 DEF Erase, Refused, db
  <2>4. acct[q.of] \in Account /\ acct'[q.of] = [acct[q.of] EXCEPT !.phone = NoPhone]
    BY <1>0, <2>2, <2>3
  <2>5. acct'[q.of].phone = NoPhone
    BY <2>4 DEF Account
  <2>6. \A b \in Accounts \ {q.of} : acct'[b].phone = acct[b].phone
    BY <1>0, <2>3
  <2> QED
    BY <2>2, <2>5, <2>6
<1>8. CASE VerifyOtp(r)
  BY <1>1, <1>2, <1>5, <1>8 DEF VerifyOtp, WrongTry, Refused, db
<1>9. CASE Suspend(r) \/ Restore(r)
  BY <1>1, <1>2, <1>3, <1>9 DEF Suspend, Restore, Refused, db
<1>10. CASE RequestDeletion(r)
  <2>1. q \in Request
    BY <1>1, <1>10, Committing DEF RequestDeletion
  <2>2. q.now + DeletionWait \in Nat
    BY <2>1, LimitsAssumption DEF Request, Times
  <2> QED
    BY <1>1, <1>2, <1>4, <1>10, <2>2 DEF RequestDeletion, WrongStepUp, Refused, db
<1>11. CASE CancelDeletion(r)
  BY <1>1, <1>2, <1>4, <1>11 DEF CancelDeletion
<1>12. CASE RequestOtp(r) \/ RequestStepUp(r) \/ LogOutEverywhere(r) \/ RefreshSession(r)
            \/ Logout(r) \/ RequestChange(r) \/ CancelChange(r)
  <2>1. UNCHANGED acct
    BY <1>12 DEF RequestOtp, RequestStepUp, LogOutEverywhere, RefreshSession, Logout,
                 RequestChange, CancelChange, WrongTry, WrongStepUp, Claims, Refused, db
  <2> QED
    BY <1>2, <2>1
<1> QED
  BY <1>2, <1>6, <1>7, <1>8, <1>9, <1>10, <1>11, <1>12 DEF Commit

\* The two sides of a number move together or not at all, so that its next
\* holder never reaches one left behind (make_change, D-126).
THEOREM SidesMoveTogether == Spec => [][SidesStayTogether]_vars
<1>1. ASSUME SignInInv, Next
      PROVE  SidesStayTogether
  <2>1. CASE UNCHANGED acct
    BY <2>1 DEF SidesStayTogether
  <2>2. ASSUME NEW r \in Requests, Commit(r)
        PROVE  SidesStayTogether
    BY <1>1, <2>2, PeopleMove DEF SidesStayTogether, SamePeople
  <2>3. ASSUME NEW r \in Requests, Begin(r) \/ Take(r)
        PROVE  UNCHANGED acct
    BY <2>3 DEF Begin, BeginOnNumber, BeginSession, BeginSignedIn, BeginWithout, Began, Take, db
  <2>4. Tick => UNCHANGED acct
    BY DEF Tick, db
  <2> QED
    BY <1>1, <2>1, <2>2, <2>3, <2>4 DEF Next, Served, Commit
<1>2. SignInInv /\ [Next]_vars => [SidesStayTogether]_vars
  BY <1>1
<1> QED
  BY <1>2, Inductive, PTL DEF Spec

-----------------------------------------------------------------------------
(* What else the locks keep: a number's its codes, a change's the change; and *)
(* when a login began is written once.                                        *)

\* A number's lock: the codes sent to it, and when the step-up codes sent to it
\* were asked for; one sent to another number may be added meanwhile.
CodesStand(d, p) ==
    /\ d.sent[p] = sent[p]
    /\ \A a \in Accounts : \A i \in DOMAIN stepUp[a] : stepUp[a][i].to = p =>
         i \in DOMAIN d.stepUp[a] /\ d.stepUp[a][i].at = stepUp[a][i].at

CodesUnderLock(r) ==
    \A p \in Phones : PhoneLock(p) \in HeldBy(r) => CodesStand(req[r].saw, p)

ChangeLockOf(a) == Lock("change", a)
LoginsLast(d) ==
    \A f \in Families : d.family[f] # NoLogin =>
       family[f] # NoLogin /\ family[f].since = d.family[f].since
ChangeUnderLock(r) ==
    \A a \in Accounts : ChangeLockOf(a) \in HeldBy(r) =>
                          change[a] \in {req[r].saw.change[a], NoChange}

ElseStands(r) == CodesUnderLock(r) /\ LoginsLast(req[r].saw) /\ ChangeUnderLock(r)
AllElseStands == \A r \in Requests : HoldsAll(r) => ElseStands(r)

\* Codes that are tried or used up are still the codes they were.
SameMoments(new, old) ==
    DOMAIN new = DOMAIN old /\ \A i \in DOMAIN old : new[i].to = old[i].to /\ new[i].at = old[i].at
MomentsStay == \A a \in Accounts : SameMoments(stepUp'[a], stepUp[a])
SentAsMany == \A p \in Phones : DOMAIN sent'[p] = DOMAIN sent[p]
SentOnlyOn(p) == \A n \in Phones \ {p} : sent'[n] = sent[n]

LEMMA OneMarked ==
    ASSUME NEW s \in Seq(StepUpCode), NEW l, NEW v
    PROVE  /\ SameMoments([s EXCEPT ![l].spent = v], s)
           /\ SameMoments([s EXCEPT ![l].wrong = v], s)
           /\ SameMoments(AllSpent(s), s)
<1>1. DOMAIN s = 1..Len(s) /\ \A i \in 1..Len(s) : s[i] \in StepUpCode
  OBVIOUS
<1>2. \A c \in StepUpCode : /\ [c EXCEPT !.spent = v].to = c.to
                            /\ [c EXCEPT !.spent = v].at = c.at
                            /\ [c EXCEPT !.wrong = v].to = c.to
                            /\ [c EXCEPT !.wrong = v].at = c.at
                            /\ [c EXCEPT !.spent = TRUE].to = c.to
                            /\ [c EXCEPT !.spent = TRUE].at = c.at
  BY DEF StepUpCode
<1>3. SameMoments([s EXCEPT ![l].spent = v], s)
  BY <1>1, <1>2 DEF SameMoments
<1>4. SameMoments([s EXCEPT ![l].wrong = v], s)
  BY <1>1, <1>2 DEF SameMoments
<1>5. SameMoments(AllSpent(s), s)
  BY <1>1, <1>2 DEF SameMoments, AllSpent
<1> QED
  BY <1>3, <1>4, <1>5

LEMMA StepUpsMarked ==
    ASSUME SignInInv, NEW q
    PROVE  /\ UNCHANGED stepUp => MomentsStay
           /\ SpendStepUp(q) => MomentsStay
           /\ WrongStepUp(q) => MomentsStay /\ UNCHANGED sent
           /\ stepUp' = [stepUp EXCEPT ![q.of] = AllSpent(stepUp[q.of])] => MomentsStay
<1> DEFINE l == LatestFor(q.saw, q.of, q.for)
           w == q.saw.stepUp[q.of][l].wrong + 1
<1>1. stepUp \in [Accounts -> Seq(StepUpCode)]
  BY Stored
<1>2. UNCHANGED stepUp => MomentsStay
  BY DEF MomentsStay, SameMoments
<1>3. ASSUME SpendStepUp(q)
      PROVE  MomentsStay
  <2>1. stepUp' = [stepUp EXCEPT ![q.of] = [stepUp[q.of] EXCEPT ![l].spent = TRUE]]
    BY <1>3 DEF SpendStepUp
  <2>2. \A a \in Accounts : SameMoments([stepUp[a] EXCEPT ![l].spent = TRUE], stepUp[a])
    BY <1>1, OneMarked
  <2>3. \A a \in Accounts : SameMoments(stepUp[a], stepUp[a])
    BY DEF SameMoments
  <2> HIDE DEF l
  <2> QED
    BY <1>1, <2>1, <2>2, <2>3 DEF MomentsStay
<1>4. ASSUME WrongStepUp(q)
      PROVE  MomentsStay /\ UNCHANGED sent
  <2>1. stepUp' = [stepUp EXCEPT ![q.of] = [stepUp[q.of] EXCEPT ![l].wrong = w]]
    BY <1>4 DEF WrongStepUp
  <2> HIDE DEF w
  <2>2. \A a \in Accounts : SameMoments([stepUp[a] EXCEPT ![l].wrong = w], stepUp[a])
    BY <1>1, OneMarked
  <2>3. \A a \in Accounts : SameMoments(stepUp[a], stepUp[a])
    BY DEF SameMoments
  <2> HIDE DEF l
  <2>4. MomentsStay
    BY <1>1, <2>1, <2>2, <2>3 DEF MomentsStay
  <2> QED
    BY <1>4, <2>4 DEF WrongStepUp
<1>5. ASSUME stepUp' = [stepUp EXCEPT ![q.of] = AllSpent(stepUp[q.of])]
      PROVE  MomentsStay
  <2>1. \A a \in Accounts : SameMoments(AllSpent(stepUp[a]), stepUp[a])
    BY <1>1, OneMarked
  <2>2. \A a \in Accounts : SameMoments(stepUp[a], stepUp[a])
    BY DEF SameMoments
  <2> QED
    BY <1>1, <1>5, <2>1, <2>2 DEF MomentsStay
<1> QED
  BY <1>2, <1>3, <1>4, <1>5

LEMMA CodesMarked ==
    ASSUME SignInInv, NEW q
    PROVE  /\ WrongTry(q) => SentAsMany /\ SentOnlyOn(q.to) /\ UNCHANGED stepUp
           /\ SpendLoginCode(q) => SentAsMany /\ SentOnlyOn(q.to)
<1> DEFINE l == Len(q.saw.sent[q.to])
           w == q.saw.sent[q.to][l].wrong + 1
<1>1. sent \in [Phones -> Seq(Code)]
  BY Stored
<1>2. ASSUME WrongTry(q)
      PROVE  SentAsMany /\ SentOnlyOn(q.to) /\ UNCHANGED stepUp
  <2>1. sent' = [sent EXCEPT ![q.to] = [sent[q.to] EXCEPT ![l].wrong = w]]
    BY <1>2 DEF WrongTry
  <2> HIDE DEF l, w
  <2>2. SentAsMany /\ SentOnlyOn(q.to)
    BY <1>1, <2>1 DEF SentAsMany, SentOnlyOn
  <2> QED
    BY <1>2, <2>2 DEF WrongTry
<1>3. ASSUME SpendLoginCode(q)
      PROVE  SentAsMany /\ SentOnlyOn(q.to)
  <2>1. sent' = [sent EXCEPT ![q.to] = [sent[q.to] EXCEPT ![l].spent = TRUE]]
    BY <1>3 DEF SpendLoginCode
  <2> HIDE DEF l
  <2> QED
    BY <1>1, <2>1 DEF SentAsMany, SentOnlyOn
<1> QED
  BY <1>2, <1>3

\* Of codes a commit adds one or none, and touches only those of numbers it has locked.
LEMMA CodesCommit ==
    ASSUME SignInInv, NEW r \in Requests, Commit(r)
    PROVE  /\ \A p \in Phones : PhoneLock(p) \notin HeldBy(r) => sent'[p] = sent[p]
           /\ RequestOtp(r) \/ RequestStepUp(r) \/ (SentAsMany /\ MomentsStay)
<1>1. PICK q : q = req[r]
  OBVIOUS
<1>2. \E op : Commits(r, op)
  BY DEF Commit, RequestOtp, VerifyOtp, RequestStepUp, LogOutEverywhere, RefreshSession,
         Logout, Suspend, Restore, RequestChange, CancelChange, MakeChange,
         RequestDeletion, CancelDeletion, Erase
<1>3. /\ FitsOp(q) /\ Needs(q) \subseteq HeldBy(r)
      /\ \A op : Commits(r, op) => q.op = op
  BY <1>1, <1>2, Committing DEF Commits
<1>4. ASSUME q.op \in {"code", "login", "claim"}
      PROVE  PhoneLock(q.to) \in HeldBy(r)
  BY <1>3, <1>4 DEF Needs, NumbersOf, OnCode, OnNewNumber
<1>5. q.op = "erase" => PhoneLock(q.knew.phone) \in HeldBy(r)
  BY <1>3 DEF Needs, NumbersOf, OnCode, OnNewNumber, OnOldNumber
<1>6. UNCHANGED sent => SentAsMany
  BY DEF SentAsMany
<1>7. CASE UNCHANGED sent /\ MomentsStay
  BY <1>6, <1>7
<1>8. CASE q.op \in {"code", "login", "claim"} /\ SentOnlyOn(q.to)
           /\ (RequestOtp(r) \/ (SentAsMany /\ MomentsStay))
  BY <1>4, <1>8 DEF SentOnlyOn
<1>9. CASE UNCHANGED <<sent, stepUp>>
  BY <1>7, <1>9, StepUpsMarked
<1>10. Refused => UNCHANGED <<sent, stepUp>>
  BY DEF Refused, db
<1>11. CASE RequestOtp(r)
  <2>1. q.op = "code"
    BY <1>3, <1>11 DEF RequestOtp
  <2>2. sent' = [sent EXCEPT ![q.to] = Append(@, NewCode(q.now))] \/ Refused
    BY <1>1, <1>11 DEF RequestOtp
  <2>3. SentOnlyOn(q.to)
    BY <2>2, <1>10, Stored DEF SentOnlyOn
  <2> QED
    BY <1>8, <1>11, <2>1, <2>3
<1>12. CASE RequestStepUp(r)
  <2>1. UNCHANGED sent
    BY <1>1, <1>10, <1>12 DEF RequestStepUp
  <2> QED
    BY <1>12, <2>1
<1>13. CASE VerifyOtp(r)
  <2>1. q.op = "login"
    BY <1>3, <1>13 DEF VerifyOtp
  <2>2. WrongTry(q) \/ Refused \/ (SpendLoginCode(q) /\ UNCHANGED stepUp)
    BY <1>1, <1>13 DEF VerifyOtp, LogsIn
  <2> QED
    BY <1>8, <1>9, <1>10, <2>1, <2>2, CodesMarked, StepUpsMarked
<1>14. CASE RequestChange(r)
  <2>1. q.op = "claim"
    BY <1>3, <1>14 DEF RequestChange
  <2>2. \/ WrongTry(q) \/ WrongStepUp(q) \/ Refused
        \/ SpendLoginCode(q) /\ (UNCHANGED stepUp \/ SpendStepUp(q))
    BY <1>1, <1>14 DEF RequestChange, Claims
  <2> QED
    BY <1>7, <1>8, <1>9, <1>10, <2>1, <2>2, CodesMarked, StepUpsMarked
<1>15. CASE LogOutEverywhere(r) \/ RequestDeletion(r)
  <2>1. WrongStepUp(q) \/ Refused \/ (SpendStepUp(q) /\ UNCHANGED sent)
    BY <1>1, <1>15 DEF LogOutEverywhere, RequestDeletion
  <2> QED
    BY <1>7, <1>9, <1>10, <2>1, StepUpsMarked
<1>16. CASE RefreshSession(r) \/ Logout(r) \/ Suspend(r) \/ Restore(r) \/ CancelChange(r)
            \/ MakeChange(r) \/ CancelDeletion(r)
  <2>1. UNCHANGED <<sent, stepUp>>
    BY <1>10, <1>16 DEF RefreshSession, Logout, Suspend, Restore, CancelChange, MakeChange,
                       CancelDeletion
  <2> QED
    BY <1>9, <2>1
<1>17. CASE Erase(r) /\ ~Refused
  <2> DEFINE p == q.knew.phone
  <2>1. q.op = "erase"
    BY <1>3, <1>17 DEF Erase
  <2>2. /\ sent' = IF OnNumber(q.saw, p) # {q.of} THEN sent
                   ELSE [sent EXCEPT ![p] = [i \in DOMAIN @ |->
                           [@[i] EXCEPT !.at = LongAgo, !.spent = TRUE]]]
        /\ stepUp' = [stepUp EXCEPT ![q.of] = [i \in DOMAIN @ |->
                           [@[i] EXCEPT !.spent = TRUE]]]
    BY <1>1, <1>17 DEF Erase
  <2>3. sent' = sent \/ sent' = [sent EXCEPT ![p] = SpentLongAgo(sent[p])]
    BY <2>2 DEF SpentLongAgo
  <2>4. SentAsMany /\ SentOnlyOn(p)
    BY <2>3, Stored DEF SentAsMany, SentOnlyOn, SpentLongAgo
  <2>5. stepUp' = [stepUp EXCEPT ![q.of] = AllSpent(stepUp[q.of])]
    BY <2>2 DEF AllSpent
  <2> QED
    BY <1>5, <2>1, <2>4, <2>5, StepUpsMarked DEF SentOnlyOn
<1> QED
  BY <1>9, <1>10, <1>11, <1>12, <1>13, <1>14, <1>15, <1>16, <1>17 DEF Commit

-----------------------------------------------------------------------------
(* Who makes a login, and who asks for a change.                              *)

NobodyLogsIn == \A f \in Families : family[f] = NoLogin => family'[f].on = NoPhone

\* A login with other tokens at most.
Was(new, old) == new = [of |-> old.of, on |-> old.on, since |-> old.since, rows |-> new.rows]
LoginsWere == \A f \in Families : Was(family'[f], family[f])

EndedUsed(d, fs, g, i) == [Revoked(d, fs) EXCEPT ![g].rows[i].used = TRUE]

\* Ends, rotates or leaves logins, but makes none.
LEMMA NoneMade ==
    ASSUME SignInInv
    PROVE  /\ UNCHANGED family => LoginsWere
           /\ \A d, fs : EndLogins(d, fs) => LoginsWere
           /\ \A d, fs, g, i : family' = EndedUsed(d, fs, g, i) => LoginsWere
           /\ \A g, i : family' = [family EXCEPT ![g] = Rotated(@, i)] => LoginsWere
           /\ LoginsWere => NobodyLogsIn
<1>1. \A f \in Families : family[f] \in Login \union {NoLogin}
  BY Stored
<1>2. ASSUME NEW l \in Login \union {NoLogin}
      PROVE  Was(l, l)
  BY DEF Was, Login, NoLogin
<1>3. ASSUME NEW n, NEW l, Was(n, l), NEW R
      PROVE  Was([n EXCEPT !.rows = R], l)
  <2>1. [n EXCEPT !.rows = R] = [of |-> l.of, on |-> l.on, since |-> l.since, rows |-> R]
    BY <1>3 DEF Was
  <2> QED
    BY <2>1 DEF Was
<1>4. UNCHANGED family => LoginsWere
  BY <1>1, <1>2 DEF LoginsWere
<1>5. LoginsWere => NobodyLogsIn
  <2>1. \A n : Was(n, NoLogin) => n.on = NoPhone
    BY DEF Was, NoLogin
  <2> QED
    BY <2>1 DEF LoginsWere, NobodyLogsIn
<1>6. ASSUME NEW d, NEW fs, NEW f \in Families
      PROVE  Was(Revoked(d, fs)[f], family[f])
  <2>1. PICK l : l = family[f]
    OBVIOUS
  <2>2. \E R : Revoked(d, fs)[f] = [l EXCEPT !.rows = R] \/ Revoked(d, fs)[f] = l
    BY <2>1 DEF Revoked
  <2>3. Was(l, l)
    BY <1>1, <1>2, <2>1
  <2> QED
    BY <1>3, <2>1, <2>2, <2>3
<1>7. ASSUME NEW d, NEW fs, EndLogins(d, fs)
      PROVE  LoginsWere
  <2>1. family' = Revoked(d, fs)
    BY <1>7 DEF EndLogins
  <2> QED
    BY <1>6, <2>1 DEF LoginsWere
<1>8. ASSUME NEW d, NEW fs, NEW g, NEW i, family' = EndedUsed(d, fs, g, i)
      PROVE  LoginsWere
  <2>1. PICK R : R = Revoked(d, fs)
    OBVIOUS
  <2>2. PICK T : T = [R[g].rows EXCEPT ![i].used = TRUE]
    OBVIOUS
  <2>3. family' = [R EXCEPT ![g] = [R[g] EXCEPT !.rows = T]]
    BY <1>8, <2>1, <2>2 DEF EndedUsed
  <2>4. DOMAIN R = Families
    BY <2>1 DEF Revoked
  <2>5. ASSUME NEW f \in Families
        PROVE  Was(family'[f], family[f])
    <3>1. Was(R[f], family[f])
      BY <1>6, <2>1
    <3>2. Was([R[f] EXCEPT !.rows = T], family[f])
      BY <1>3, <3>1
    <3>3. family'[f] = IF f = g THEN [R[f] EXCEPT !.rows = T] ELSE R[f]
      BY <2>3, <2>4
    <3> QED
      BY <3>1, <3>2, <3>3
  <2> QED
    BY <2>5 DEF LoginsWere
<1>9. ASSUME NEW g, NEW i, family' = [family EXCEPT ![g] = Rotated(@, i)]
      PROVE  LoginsWere
  <2>1. PICK R : Rotated(family[g], i) = [family[g] EXCEPT !.rows = R]
    BY DEF Rotated
  <2>2. family' = [family EXCEPT ![g] = Rotated(family[g], i)]
    BY <1>9
  <2>3. ASSUME NEW f \in Families
        PROVE  Was(family'[f], family[f])
    <3>1. family'[f] = IF f = g THEN Rotated(family[g], i) ELSE family[f]
      BY <2>2, Stored
    <3>2. Was(family[f], family[f])
      BY <1>1, <1>2
    <3>3. Was([family[f] EXCEPT !.rows = R], family[f])
      BY <1>3, <3>2
    <3> QED
      BY <2>1, <3>1, <3>2, <3>3
  <2> QED
    BY <2>3 DEF LoginsWere
<1> QED
  BY <1>4, <1>5, <1>7, <1>8, <1>9

\* Only a login with a code makes a login.
LEMMA WhoLogsIn ==
    ASSUME SignInInv, NEW r \in Requests, Commit(r)
    PROVE  LoginsWere \/ VerifyOtp(r)
<1>1. UNCHANGED family => LoginsWere
  BY NoneMade
<1>2. CASE RefreshSession(r)
  <2>1. PICK q : q = req[r]
    OBVIOUS
  <2>2. \/ UNCHANGED family
        \/ EndLogins(q.saw, {q.family})
        \/ family' = EndedUsed(q.saw, {q.family}, q.family, q.code)
        \/ family' = [family EXCEPT ![q.family] = Rotated(@, q.code)]
    BY <1>2, <2>1 DEF RefreshSession, EndedUsed
  <2>3. EndLogins(q.saw, {q.family}) => LoginsWere
    BY NoneMade
  <2>4. family' = EndedUsed(q.saw, {q.family}, q.family, q.code) => LoginsWere
    BY NoneMade
  <2>5. family' = [family EXCEPT ![q.family] = Rotated(@, q.code)] => LoginsWere
    BY NoneMade
  <2> QED
    BY <1>1, <2>2, <2>3, <2>4, <2>5
<1>3. CASE LogOutEverywhere(r) \/ Logout(r) \/ Suspend(r) \/ MakeChange(r) \/ Erase(r)
  <2>1. UNCHANGED family \/ \E d, fs : EndLogins(d, fs)
    BY <1>3 DEF LogOutEverywhere, Logout, Suspend, MakeChange, Erase, Moves, WrongStepUp,
                Refused, db
  <2> QED
    BY <1>1, <2>1, NoneMade
<1>4. CASE RequestOtp(r) \/ RequestStepUp(r) \/ Restore(r) \/ RequestChange(r)
           \/ CancelChange(r) \/ RequestDeletion(r) \/ CancelDeletion(r)
  <2>1. UNCHANGED family
    BY <1>4 DEF RequestOtp, RequestStepUp, Restore, RequestChange, CancelChange,
                RequestDeletion, CancelDeletion, WrongTry, WrongStepUp, Claims, Refused, db
  <2> QED
    BY <1>1, <2>1
<1> QED
  BY <1>2, <1>3, <1>4 DEF Commit

\* Only a change that is asked for sets one.
LEMMA WhoClaims ==
    ASSUME SignInInv, NEW r \in Requests, Commit(r)
    PROVE  FewerChanges \/ RequestChange(r)
<1>1. UNCHANGED change => FewerChanges
  BY DEF FewerChanges
<1>2. \A a : change' = [change EXCEPT ![a] = NoChange] => FewerChanges
  BY Stored DEF FewerChanges
<1>3. CASE CancelChange(r) \/ MakeChange(r) \/ Erase(r)
  <2>1. UNCHANGED change \/ \E a : change' = [change EXCEPT ![a] = NoChange]
    BY <1>3 DEF CancelChange, MakeChange, Erase, Refused, db
  <2> QED
    BY <1>1, <1>2, <2>1
<1>4. CASE RequestOtp(r) \/ VerifyOtp(r) \/ RequestStepUp(r) \/ LogOutEverywhere(r)
           \/ RefreshSession(r) \/ Logout(r) \/ Suspend(r) \/ Restore(r)
           \/ RequestDeletion(r) \/ CancelDeletion(r)
  <2>1. UNCHANGED change
    BY <1>4 DEF RequestOtp, VerifyOtp, LogsIn, RequestStepUp, LogOutEverywhere,
                RefreshSession, Logout, Suspend, Restore, RequestDeletion, CancelDeletion,
                WrongTry, WrongStepUp, Refused, db
  <2> QED
    BY <1>1, <2>1
<1> QED
  BY <1>3, <1>4 DEF Commit

\* When a login began stays written.
LEMMA LoginsKept ==
    ASSUME SignInInv, NEW r \in Requests, Commit(r), NEW f \in Families, family[f] # NoLogin
    PROVE  family'[f] # NoLogin /\ family'[f].since = family[f].since
<1>1. family'[f] # NoLogin
  BY CommitHasEffect DEF Effect, LoginsStep
<1>2. CASE LoginsWere
  <2>1. \A n, l : Was(n, l) => n.since = l.since
    BY DEF Was
  <2> QED
    BY <1>1, <1>2, <2>1 DEF LoginsWere
<1>3. CASE VerifyOtp(r)
  <2>1. PICK q : q = req[r]
    OBVIOUS
  <2>2. CASE family'[f] = family[f]
    BY <1>1, <2>2
  <2>3. CASE LogsIn(q)
    <3>1. PICK g, l : family' = [family EXCEPT ![g] = l] /\ family[g] = NoLogin
      BY <2>3 DEF LogsIn
    <3>2. family'[f] = family[f]
      BY <3>1, Stored
    <3> QED
      BY <2>2, <3>2
  <2> QED
    BY <1>3, <2>1, <2>2, <2>3 DEF VerifyOtp, WrongTry, Refused, db
<1> QED
  BY <1>2, <1>3, WhoLogsIn

LEMMA ChangeIsHeld ==
    ASSUME SignInInv, NEW r \in Requests, HoldsAll(r), req[r].op \in {"claim", "make"}
    PROVE  ChangeLockOf(req[r].of) \in HeldBy(r)
<1>1. TypeOK /\ AllFit
  BY DEF SignInInv
<1>2. /\ req[r] \in Request /\ FitsOp(req[r]) /\ HeldBy(r) = HeldOf(req[r])
      /\ Running(r) /\ req[r].step > Len(LockOrder(req[r]))
  BY <1>1, Finished DEF HoldsAll
<1>3. req[r].step \in Nat \ {0} /\ req[r].step <= Len(LockOrder(req[r])) + 1
  BY <1>1, <1>2, InFlight
<1>4. PICK q \in Request : q = req[r]
  BY <1>2
<1>5. PICK o : o = LockOrder(q)
  OBVIOUS
<1>6. Len(o) \in Nat \ {0}
  BY <1>2, <1>4, <1>5, Orders
<1>7. q.step - 1 = Len(o)
  BY <1>2, <1>3, <1>4, <1>5, <1>6
<1>8. HeldBy(r) = LocksIn(o)
  BY <1>2, <1>4, <1>5, <1>7 DEF HeldOf, LocksIn
<1> DEFINE both == BothNumbers(q)
           own == ChangeLock(q.of)
           theirs == InOrder("account", OnPhone(q.knew.phone))
<1>9. q.knew.phone \in Phones /\ q.to \in Phones /\ q.of \in Accounts
  BY <1>2, <1>4 DEF FitsOp, OnOldNumber, OnNewNumber, OnCode
<1>10. both \in Seq(AnyLock) /\ own \in Seq(AnyLock) /\ ChangeLockOf(q.of) \in LocksIn(own)
  BY <1>9, TwoPhones, OneLock DEF ChangeLock, ChangeLockOf, LocksIn
<1>11. theirs \in Seq(AnyLock)
  BY AccountLocks DEF OnPhone
<1>12. o = both \o own \/ o = (both \o own) \o theirs
  BY <1>4, <1>5, OrderOf DEF MakeLocks
<1> HIDE DEF both, own, theirs
<1>13. /\ both \o own \in Seq(AnyLock)
       /\ LocksIn(both \o own) = LocksIn(both) \union LocksIn(own)
  BY <1>10, Joined
<1>14. LocksIn((both \o own) \o theirs) = LocksIn(both \o own) \union LocksIn(theirs)
  BY <1>11, <1>13, Joined
<1> QED
  BY <1>4, <1>8, <1>10, <1>12, <1>13, <1>14

\* What a request reads with its last lock is what there is.
LEMMA LastLock ==
    ASSUME SignInInv, NEW r \in Requests, Take(r), HoldsAll(r)'
    PROVE  req'[r].saw = DB
<1>1. TypeOK /\ AllFit
  BY DEF SignInInv
<1>2. Running(r) /\ ~HoldsAll(r) /\ UNCHANGED <<db, ended>>
  BY DEF Take
<1>3. req[r] \in Request /\ FitsOp(req[r])
  BY <1>1, <1>2, InFlight DEF AllFit
<1>4. PICK q \in Request : q = req[r]
  BY <1>3
<1>5. q.saw \in Database \union {Unread} /\ DB \in Database /\ q.step \in Nat \ {0}
  BY <1>1, <1>4 DEF Request, TypeOK
<1> DEFINE last == q.step = Len(LockOrder(q))
<1>6. PICK seen \in Database \union {Unread} : seen = IF last THEN DB ELSE q.saw
  BY <1>5
<1>7. PICK n : n = Advance(q, seen)
  OBVIOUS
<1>8. /\ n \in Request /\ n.step = q.step + 1
      /\ n.op = q.op /\ n.of = q.of /\ n.to = q.to /\ n.knew = q.knew
      /\ n.family = q.family /\ n.saw = seen
  BY <1>6, <1>7, Advanced
<1>9. req' = [req EXCEPT ![r] = n]
  BY <1>4, <1>6, <1>7 DEF Take, Advance
<1> HIDE DEF last
<1>10. req'[r] = n
  BY <1>1, <1>8, <1>9, Replaced
<1>11. acct' = acct
  BY <1>2 DEF db
<1>12. PICK o : o = LockOrder(q)
  OBVIOUS
<1>13. LockOrder(n)' = o
  BY <1>8, <1>11, <1>12 DEF LockOrder, StepUpLocks, RefreshLocks, PhoneLocks, BothNumbers,
                            SessionsLock, ChangeLock, OnPhone
<1>14. Len(o) \in Nat \ {0}
  BY <1>3, <1>4, <1>12, Orders
<1>15. q.step <= Len(o)
  BY <1>2, <1>4, <1>5, <1>12, <1>14 DEF HoldsAll
<1>16. n.step > Len(o)
  BY <1>10, <1>13 DEF HoldsAll
<1>17. last
  BY <1>5, <1>8, <1>12, <1>14, <1>15, <1>16 DEF last
<1> QED
  BY <1>6, <1>8, <1>10, <1>17

\* A number's lock still holds who has it, whoever else commits.
LEMMA LocksLast ==
    ASSUME SignInInv, NEW r \in Requests, NEW s \in Requests, s # r, Commit(r)
    PROVE  /\ req'[s] = req[s] /\ HeldBy(s)' = HeldBy(s) /\ (HoldsAll(s)' <=> HoldsAll(s))
           /\ \A p \in Phones : PhoneLock(p) \in HeldBy(s) => PhoneLock(p) \notin HeldBy(r)
<1>1. TypeOK /\ AllFit /\ Exclusive
  BY DEF SignInInv
<1>2. PeopleStep(r) /\ req' = [req EXCEPT ![r] = Idle]
  BY CommitHasEffect DEF Effect
<1>3. req'[s] = req[s]
  BY <1>1, <1>2, Replaced
<1>4. HeldBy(s) \intersect HeldBy(r) = {}
  BY <1>1 DEF Exclusive
<1>5. \A p \in Phones : PhoneLock(p) \in HeldBy(s) => OnPhone(p)' = OnPhone(p)
  BY <1>2, <1>4 DEF PeopleStep
<1> QED
  BY <1>1, <1>3, <1>4, <1>5, LocksStay

\* A step-up code is sent to the number whose lock is held.
LEMMA SentToLocked ==
    ASSUME SignInInv, NEW r \in Requests, RequestStepUp(r), ~Refused
    PROVE  \E a \in Accounts, c \in StepUpCode :
             /\ stepUp' = [stepUp EXCEPT ![a] = Append(stepUp[a], c)]
             /\ sent' = sent
             /\ c.to = req[r].knew.phone /\ c.to \in Phones /\ PhoneLock(c.to) \in HeldBy(r)
             /\ c.at = req[r].now /\ MaySend(req[r].saw, c.to, c.at)
<1>1. PICK q : q = req[r]
  OBVIOUS
<1>2. /\ q \in Request /\ FitsOp(q) /\ q.op = "step_up" /\ Needs(q) \subseteq HeldBy(r)
  BY <1>1, Committing DEF RequestStepUp
<1>3. q.of \in Accounts /\ q.now \in Times /\ q.for \in Actions /\ q.knew.phone \in Phones
  BY <1>2 DEF FitsOp, OnCode, OnOldNumber, Request
<1> DEFINE new == [for |-> q.for, to |-> q.knew.phone, at |-> q.now, wrong |-> 0, spent |-> FALSE]
<1>4. /\ stepUp' = [stepUp EXCEPT ![q.of] = Append(@, new)] /\ sent' = sent
      /\ MaySend(q.saw, q.knew.phone, q.now)
  BY <1>1 DEF RequestStepUp
<1>5. new \in StepUpCode /\ new.to = q.knew.phone /\ new.at = q.now
  BY <1>3, LimitsAssumption DEF StepUpCode
<1>6. PhoneLock(q.knew.phone) \in HeldBy(r)
  BY <1>2 DEF Needs, NumbersOf, OnCode, OnNewNumber, OnOldNumber
<1> HIDE DEF new
<1>7. stepUp' = [stepUp EXCEPT ![q.of] = Append(stepUp[q.of], new)]
  BY <1>4
<1> QED
  BY <1>1, <1>3, <1>4, <1>5, <1>6, <1>7

LEMMA CodesKept ==
    ASSUME SignInInv, AllElseStands, NEW r \in Requests, Commit(r),
           NEW s \in Requests, HoldsAll(s)'
    PROVE  s # r /\ CodesUnderLock(s)'
<1>1. s # r
  <2>1. TypeOK /\ req' = [req EXCEPT ![r] = Idle]
    BY CommitHasEffect DEF SignInInv
  <2>2. req'[r] = Idle
    BY <2>1, Replaced
  <2> QED
    BY <2>2 DEF HoldsAll, Running
<1> SUFFICES ASSUME NEW p \in Phones, (PhoneLock(p) \in HeldBy(s))'
             PROVE  CodesStand(req[s].saw, p)'
  BY <1>1 DEF CodesUnderLock
<1>2. /\ req'[s] = req[s] /\ HoldsAll(s) /\ PhoneLock(p) \in HeldBy(s)
      /\ PhoneLock(p) \notin HeldBy(r)
  BY <1>1, LocksLast
<1>3. PICK d : d = req[s].saw
  OBVIOUS
<1>4. CodesStand(d, p) /\ d = req'[s].saw
  BY <1>2, <1>3 DEF AllElseStands, ElseStands, CodesUnderLock
<1>5. sent'[p] = sent[p]
  BY <1>2, CodesCommit
<1> DEFINE Theirs == \A a \in Accounts : \A i \in DOMAIN stepUp'[a] : stepUp'[a][i].to = p =>
                       i \in DOMAIN d.stepUp[a] /\ d.stepUp[a][i].at = stepUp'[a][i].at
<1>6. CASE MomentsStay
  <2>1. Theirs
    BY <1>4, <1>6 DEF CodesStand, MomentsStay, SameMoments
  <2> QED
    BY <1>4, <1>5, <2>1 DEF CodesStand
<1>7. CASE RequestOtp(r) \/ (RequestStepUp(r) /\ Refused)
  <2>1. UNCHANGED stepUp
    BY <1>7 DEF RequestOtp, Refused, db
  <2> QED
    BY <1>6, <2>1, StepUpsMarked
<1>8. CASE RequestStepUp(r) /\ ~Refused
  <2>1. PICK a \in Accounts, c \in StepUpCode :
             /\ stepUp' = [stepUp EXCEPT ![a] = Append(stepUp[a], c)]
             /\ PhoneLock(c.to) \in HeldBy(r)
    BY <1>8, SentToLocked
  <2>2. c.to # p
    BY <1>2, <2>1
  <2>3. stepUp \in [Accounts -> Seq(StepUpCode)]
    BY Stored
  <2>4. ASSUME NEW b \in Accounts, NEW i \in DOMAIN stepUp'[b], stepUp'[b][i].to = p
        PROVE  i \in DOMAIN stepUp[b] /\ stepUp'[b][i] = stepUp[b][i]
    <3>1. CASE b # a
      BY <2>1, <2>3, <2>4, <3>1
    <3>2. CASE b = a
      <4>1. PICK old \in Seq(StepUpCode) : old = stepUp[a]
        BY <2>3
      <4>2. stepUp'[b] = Append(old, c)
        BY <2>1, <2>3, <3>2, <4>1
      <4>3. i \in 1..(Len(old) + 1) /\ Append(old, c)[i].to = p
        BY <2>4, <4>2
      <4>4. i # Len(old) + 1
        BY <2>2, <4>3
      <4>5. i \in 1..Len(old) /\ Append(old, c)[i] = old[i]
        BY <4>3, <4>4
      <4> QED
        BY <3>2, <4>1, <4>2, <4>5
    <3> QED
      BY <3>1, <3>2
  <2>5. Theirs
    BY <1>4, <2>4 DEF CodesStand
  <2> QED
    BY <1>4, <1>5, <2>5 DEF CodesStand
<1> QED
  BY <1>6, <1>7, <1>8, CodesCommit

LEMMA ElseKept ==
    ASSUME SignInInv, AllElseStands, NEW r \in Requests, Commit(r)
    PROVE  AllElseStands'
<1> SUFFICES ASSUME NEW s \in Requests, HoldsAll(s)'
             PROVE  ElseStands(s)'
  BY DEF AllElseStands
<1>1. s # r /\ CodesUnderLock(s)'
  BY CodesKept
<1>2. /\ req'[s] = req[s] /\ HoldsAll(s) /\ HeldBy(s)' = HeldBy(s)
      /\ HeldBy(s) \intersect HeldBy(r) = {}
  BY <1>1, LocksLast DEF SignInInv, Exclusive
<1>3. PICK d : d = req[s].saw
  OBVIOUS
<1>4. /\ LoginsLast(d) /\ d = req'[s].saw
      /\ \A a \in Accounts : ChangeLockOf(a) \in HeldBy(s) => change[a] \in {d.change[a], NoChange}
  BY <1>2, <1>3 DEF AllElseStands, ElseStands, ChangeUnderLock
<1>5. LoginsLast(d)'
  BY <1>4, LoginsKept DEF LoginsLast
<1>6. ASSUME NEW a \in Accounts, ChangeLockOf(a) \in HeldBy(s)
      PROVE  change'[a] \in {d.change[a], NoChange}
  <2>1. change[a] \in {d.change[a], NoChange}
    BY <1>4, <1>6
  <2>2. CASE FewerChanges
    BY <2>1, <2>2 DEF FewerChanges
  <2>3. CASE RequestChange(r)
    <3>1. PICK q : q = req[r]
      OBVIOUS
    <3>2. q.op = "claim" /\ HoldsAll(r)
      BY <2>3, <3>1 DEF RequestChange, Commits
    <3>3. ChangeLockOf(q.of) \in HeldBy(r)
      BY <3>1, <3>2, ChangeIsHeld
    <3>4. a # q.of
      BY <1>2, <1>6, <3>3
    <3>5. \/ UNCHANGED change
          \/ \E new : change' = [change EXCEPT ![q.of] = new]
      BY <2>3, <3>1 DEF RequestChange, Claims, WrongTry, WrongStepUp, Refused, db
    <3>6. change'[a] = change[a]
      BY <3>4, <3>5, Stored
    <3> QED
      BY <2>1, <3>6
  <2> QED
    BY <2>2, <2>3, WhoClaims
<1> QED
  BY <1>1, <1>2, <1>4, <1>5, <1>6 DEF ElseStands, ChangeUnderLock, LoginsLast

LEMMA ElseUntouched ==
    ASSUME SignInInv, AllElseStands, UNCHANGED <<db, ended>>,
           NEW s \in Requests, req'[s] = req[s], HoldsAll(s)'
    PROVE  ElseStands(s)'
<1>1. HoldsAll(s) /\ HeldBy(s)' = HeldBy(s)
  BY Unwritten
<1>2. sent' = sent /\ stepUp' = stepUp /\ family' = family /\ change' = change
  BY DEF db
<1>3. ElseStands(s)
  BY <1>1 DEF AllElseStands
<1>4. CodesUnderLock(s)'
  BY <1>1, <1>2, <1>3 DEF ElseStands, CodesUnderLock, CodesStand
<1>5. LoginsLast(req[s].saw)' /\ ChangeUnderLock(s)'
  BY <1>1, <1>2, <1>3 DEF ElseStands, LoginsLast, ChangeUnderLock
<1> QED
  BY <1>4, <1>5 DEF ElseStands

LEMMA BeganLacks ==
    ASSUME SignInInv, NEW r \in Requests, NEW q, Asked(q), Began(r, q)
    PROVE  UNCHANGED <<db, ended>> /\ ~HoldsAll(r)'
<1>1. TypeOK
  BY DEF SignInInv
<1>2. /\ req' = [req EXCEPT ![r] = q] /\ UNCHANGED <<db, ended>>
      /\ q \in Request /\ FitsOp(q) /\ q.step = 1
  BY DEF Began, Asked
<1>3. req'[r] = q
  BY <1>1, <1>2, Replaced
<1>4. q.step <= Len(LockOrder(q)) /\ Len(LockOrder(q)) \in Nat \ {0}
  BY <1>2, Beginning, Orders
<1>5. q.step <= Len(LockOrder(q)) + 1 /\ ~(q.step > Len(LockOrder(q)))
  BY <1>2, <1>4
<1>6. OnPhone(q.knew.phone)' = OnPhone(q.knew.phone)
  BY <1>2 DEF OnPhone, db
<1>7. ~(q.step > Len(LockOrder(q))')
  BY <1>1, <1>2, <1>5, <1>6, OrderStays
<1> QED
  BY <1>2, <1>3, <1>7 DEF HoldsAll

LEMMA ElseNext ==
    ASSUME SignInInv, AllElseStands, [Next]_vars
    PROVE  AllElseStands'
<1>1. TypeOK
  BY DEF SignInInv
<1>2. CASE Tick \/ UNCHANGED vars
  <2>1. UNCHANGED <<db, ended>> /\ req' = req
    BY <1>2 DEF Tick, vars, db
  <2> QED
    BY <2>1, ElseUntouched DEF AllElseStands
<1>3. ASSUME NEW r \in Requests, Begin(r)
      PROVE  AllElseStands'
  <2>1. PICK q : Asked(q) /\ Began(r, q)
    BY <1>3, NumberIsAsked, SessionIsAsked, SignedInIsAsked, OthersAsk DEF Begin
  <2>2. UNCHANGED <<db, ended>> /\ ~HoldsAll(r)'
    BY <2>1, BeganLacks
  <2>3. \A s \in Requests : s # r => req'[s] = req[s]
    BY <1>1, <2>1 DEF Began, TypeOK
  <2> QED
    BY <2>2, <2>3, ElseUntouched DEF AllElseStands
<1>4. ASSUME NEW r \in Requests, Take(r)
      PROVE  AllElseStands'
  <2> SUFFICES ASSUME NEW s \in Requests, HoldsAll(s)'
               PROVE  ElseStands(s)'
    BY DEF AllElseStands
  <2>1. UNCHANGED <<db, ended>>
    BY <1>4 DEF Take
  <2>2. CASE s # r
    <3>1. req'[s] = req[s]
      BY <1>1, <1>4, <2>2 DEF Take, TypeOK
    <3> QED
      BY <2>1, <3>1, ElseUntouched
  <2>3. CASE s = r
    <3>1. /\ req'[s].saw = DB /\ sent' = sent /\ stepUp' = stepUp
          /\ family' = family /\ change' = change
      BY <1>4, <2>1, <2>3, LastLock DEF db
    <3>2. \A p \in Phones : CodesStand(DB, p)
      BY DEF CodesStand, DB
    <3>3. CodesUnderLock(s)'
      BY <3>1, <3>2 DEF CodesUnderLock, CodesStand
    <3>4. LoginsLast(req[s].saw)' /\ ChangeUnderLock(s)'
      BY <3>1 DEF LoginsLast, ChangeUnderLock, DB
    <3> QED
      BY <3>3, <3>4 DEF ElseStands
  <2> QED
    BY <2>2, <2>3
<1>5. ASSUME NEW r \in Requests, Commit(r)
      PROVE  AllElseStands'
  BY <1>5, ElseKept
<1> QED
  BY <1>2, <1>3, <1>4, <1>5 DEF Next, Served, Commit

\* From a request's last lock until it writes, the codes of the numbers it has
\* locked and the change it has locked are those it read (lock_phones, _claim).
THEOREM ElseStaysUnderLock == Spec => []AllElseStands
<1>1. Init => AllElseStands
  BY DEF Init, AllElseStands, HoldsAll, Running
<1>2. SignInInv /\ AllElseStands /\ [Next]_vars => AllElseStands'
  BY ElseNext
<1> QED
  BY <1>1, <1>2, Inductive, PTL DEF Spec

-----------------------------------------------------------------------------
(* Codes are counted.                                                         *)

LEMMA SomeNumbered ==
    ASSUME NEW a, NEW s \in Seq(Code) \union Seq(StepUpCode), NEW T \in SUBSET (DOMAIN s)
    PROVE  IsFiniteSet({<<a, i>> : i \in T})
<1>1. Len(s) \in Nat /\ DOMAIN s = 1..Len(s)
  OBVIOUS
<1>2. IsFiniteSet(1..Len(s)) /\ IsFiniteSet({a})
  <2>1. 1 \in Int /\ Len(s) \in Int
    BY <1>1
  <2>2. IsFiniteSet(1..Len(s))
    BY <2>1, FS_Interval
  <2>3. IsFiniteSet({a})
    BY FS_Singleton
  <2> QED
    BY <2>2, <2>3
<1>3. IsFiniteSet({a} \X (1..Len(s)))
  BY <1>2, FS_Product
<1>4. {<<a, i>> : i \in T} \in SUBSET ({a} \X (1..Len(s)))
  BY <1>1
<1> QED
  BY <1>3, <1>4, FS_Subset

LEMMA CountedIsFinite ==
    ASSUME NEW d \in Database, NEW p \in Phones, NEW since
    PROVE  IsFiniteSet(CountedCodes(d, p, since))
<1> DEFINE logins == {i \in DOMAIN d.sent[p] : d.sent[p][i].at > since}
           steps(a) == {<<a, i>> : i \in {i \in DOMAIN d.stepUp[a] : d.stepUp[a][i].at > since}}
           on == OnNumber(d, p)
           all == {steps(a) : a \in on}
           f == [a \in on |-> steps(a)]
<1>1. IsFiniteSet({<<Nobody, i>> : i \in logins})
  <2>1. d.sent[p] \in Seq(Code) /\ logins \in SUBSET (DOMAIN d.sent[p])
    BY DEF Database
  <2> HIDE DEF logins
  <2> QED
    BY <2>1, SomeNumbered
<1>2. \A a \in on : IsFiniteSet(steps(a))
  <2>1. SUFFICES ASSUME NEW a \in Accounts
                 PROVE  IsFiniteSet(steps(a))
    BY DEF OnNumber
  <2>2. PICK T : T = {i \in DOMAIN d.stepUp[a] : d.stepUp[a][i].at > since}
    OBVIOUS
  <2>3. d.stepUp[a] \in Seq(StepUpCode) /\ T \in SUBSET (DOMAIN d.stepUp[a])
    BY <2>2 DEF Database
  <2>4. steps(a) = {<<a, i>> : i \in T}
    BY <2>2
  <2> QED
    BY <2>3, <2>4, SomeNumbered
<1>3. IsFiniteSet(on)
  <2>1. IsFiniteSet(Accounts)
    BY LimitsAssumption, FS_Interval DEF Accounts
  <2> QED
    BY <2>1, FS_Subset DEF OnNumber
<1> HIDE DEF steps, on
<1>4. f \in Surjection(on, all)
  BY DEF Surjection
<1>5. IsFiniteSet(all) /\ \A T \in all : IsFiniteSet(T)
  BY <1>2, <1>3, <1>4, FS_Surjection
<1> HIDE DEF all, logins
<1>6. IsFiniteSet(UNION all)
  BY <1>5, FS_UNION
<1>7. IsFiniteSet({<<Nobody, i>> : i \in logins} \union UNION all)
  BY <1>1, <1>6, FS_Union
<1> QED
  BY <1>7 DEF CountedCodes, all, steps, on, logins

\* What was sent to a number, its holder has counted.
LEMMA AllAreCounted ==
    ASSUME SignInInv, NEW d \in Database, NEW p \in Phones, NEW since,
           NumberStands(d, p), CodesStand(d, p)
    PROVE  /\ IsFiniteSet(CountedCodes(d, p, since))
           /\ CodesToNumber(p, since) \in SUBSET CountedCodes(d, p, since)
<1>1. OnNumber(DB, p) = OnNumber(d, p) /\ d.sent[p] = sent[p]
  BY DEF NumberStands, CodesStand, OnNumber, OnPhone, DB
<1>2. ASSUME NEW a \in OnNumber(d, p), NEW i \in DOMAIN stepUp[a],
             stepUp[a][i].to = p, stepUp[a][i].at > since
      PROVE  i \in DOMAIN d.stepUp[a] /\ d.stepUp[a][i].at > since
  BY <1>2 DEF CodesStand, OnNumber
<1>3. ASSUME NEW c \in CodesToNumber(p, since)
      PROVE  c \in CountedCodes(d, p, since)
  <2>1. CASE c \in {<<Nobody, i>> : i \in {i \in DOMAIN sent[p] : sent[p][i].at > since}}
    BY <1>1, <2>1 DEF CountedCodes
  <2>2. CASE \E a \in OnNumber(d, p) : \E i \in DOMAIN stepUp[a] :
               stepUp[a][i].to = p /\ stepUp[a][i].at > since /\ c = <<a, i>>
    <3>0. PICK a \in OnNumber(d, p) : \E i \in DOMAIN stepUp[a] :
               stepUp[a][i].to = p /\ stepUp[a][i].at > since /\ c = <<a, i>>
      BY <2>2
    <3>1. PICK i \in DOMAIN stepUp[a] :
               stepUp[a][i].to = p /\ stepUp[a][i].at > since /\ c = <<a, i>>
      BY <3>0
    <3>2. i \in DOMAIN d.stepUp[a] /\ d.stepUp[a][i].at > since
      BY <1>2, <3>1
    <3>3. c \in {<<a, j>> : j \in {j \in DOMAIN d.stepUp[a] : d.stepUp[a][j].at > since}}
      BY <3>1, <3>2
    <3> QED
      BY <3>3 DEF CountedCodes
  <2> QED
    BY <1>1, <1>3, <2>1, <2>2 DEF CodesToNumber
<1> QED
  BY <1>3, CountedIsFinite

\* A number may be sent another code: not many are counted on it.
LEMMA RoomForOne ==
    ASSUME SignInInv, AllElseStands, NEW r \in Requests, HoldsAll(r), NEW p \in Phones,
           PhoneLock(p) \in HeldBy(r), NEW now, MaySend(req[r].saw, p, now),
           NEW limit \in SendLimits
    PROVE  Cardinality(CodesToNumber(p, now - limit[1])) < limit[2]
<1>1. PICK d : d = req[r].saw
  OBVIOUS
<1>2. d \in Database /\ NumberStands(d, p) /\ CodesStand(d, p)
  BY <1>1 DEF SignInInv, AllSawStand, SawStands, AllElseStands, ElseStands, CodesUnderLock
<1>3. PICK since : since = now - limit[1]
  OBVIOUS
<1>4. PICK C : C = CountedCodes(d, p, since)
  OBVIOUS
<1>5. Cardinality(C) < limit[2] /\ limit[2] \in Nat
  BY <1>1, <1>3, <1>4, LimitsAssumption DEF MaySend
<1>6. PICK T \in SUBSET C : T = CodesToNumber(p, since)
  BY <1>2, <1>4, AllAreCounted
<1>7. IsFiniteSet(C)
  BY <1>2, <1>4, AllAreCounted
<1>8. Cardinality(T) <= Cardinality(C) /\ Cardinality(T) \in Nat /\ Cardinality(C) \in Nat
  BY <1>6, <1>7, FS_Subset, FS_CardinalityType
<1>9. Cardinality(T) < limit[2]
  BY <1>5, <1>8
<1> QED
  BY <1>3, <1>6, <1>9

LEMMA SameLen ==
    ASSUME NEW S, NEW T, NEW s \in Seq(S), NEW t \in Seq(T), DOMAIN s = DOMAIN t
    PROVE  Len(s) = Len(t)
<1>1. 1..Len(s) = 1..Len(t) /\ Len(s) \in Nat /\ Len(t) \in Nat
  OBVIOUS
<1> QED
  BY <1>1

LEMMA NobodyRationed ==
    ASSUME SignInInv, DB' \in Database, SentAsMany, MomentsStay
    PROVE  CodesAreRationed
<1>1. /\ sent \in [Phones -> Seq(Code)] /\ stepUp \in [Accounts -> Seq(StepUpCode)]
      /\ sent' \in [Phones -> Seq(Code)] /\ stepUp' \in [Accounts -> Seq(StepUpCode)]
  BY Stored DEF DB, Database
<1>2. ASSUME NEW p \in Phones
      PROVE  ~(Len(sent'[p]) > Len(sent[p]))
  <2>1. Len(sent'[p]) = Len(sent[p]) /\ Len(sent[p]) \in Nat
    BY <1>1, SameLen DEF SentAsMany
  <2> QED
    BY <2>1
<1>3. ASSUME NEW a \in Accounts
      PROVE  ~(Len(stepUp'[a]) > Len(stepUp[a]))
  <2>1. Len(stepUp'[a]) = Len(stepUp[a]) /\ Len(stepUp[a]) \in Nat
    BY <1>1, SameLen DEF MomentsStay, SameMoments
  <2> QED
    BY <2>1
<1> QED
  BY <1>2, <1>3 DEF CodesAreRationed, OnNumber

LEMMA LoginsRationed ==
    ASSUME SignInInv, AllElseStands, NEW r \in Requests, RequestOtp(r), ~Refused
    PROVE  CodesAreRationed
<1>1. PICK q : q = req[r]
  OBVIOUS
<1>2. /\ q \in Request /\ FitsOp(q) /\ q.op = "code" /\ HoldsAll(r)
      /\ Needs(q) \subseteq HeldBy(r)
  BY <1>1, Committing DEF RequestOtp
<1>3. q.to \in Phones /\ PhoneLock(q.to) \in HeldBy(r)
  BY <1>2 DEF FitsOp, OnCode, Needs, NumbersOf
<1>4. /\ MaySend(q.saw, q.to, q.now) /\ stepUp' = stepUp
      /\ sent' = [sent EXCEPT ![q.to] = Append(@, NewCode(q.now))]
  BY <1>1 DEF RequestOtp
<1>5. \A limit \in SendLimits : Cardinality(CodesToNumber(q.to, q.now - limit[1])) < limit[2]
  BY <1>1, <1>2, <1>3, <1>4, RoomForOne
<1>6. ASSUME NEW a \in Accounts
      PROVE  ~(Len(stepUp'[a]) > Len(stepUp[a]))
  <2>1. Len(stepUp[a]) \in Nat
    BY Stored
  <2> QED
    BY <1>4, <2>1
<1>7. ASSUME NEW p \in Phones, p # q.to
      PROVE  ~(Len(sent'[p]) > Len(sent[p]))
  <2>1. Len(sent[p]) \in Nat /\ sent'[p] = sent[p]
    BY <1>4, <1>7, Stored
  <2> QED
    BY <2>1
<1>8. Last(sent'[q.to]).at = q.now
  <2>1. PICK s \in Seq(Code) : s = sent[q.to]
    BY <1>3, Stored
  <2>2. sent'[q.to] = Append(s, NewCode(q.now))
    BY <1>3, <1>4, <2>1, Stored
  <2>3. Last(Append(s, NewCode(q.now))) = NewCode(q.now)
    BY <2>1 DEF Last
  <2> QED
    BY <2>2, <2>3 DEF NewCode
<1>9. ASSUME NEW p \in Phones, Len(sent'[p]) > Len(sent[p]), NEW limit \in SendLimits
      PROVE  Cardinality(CodesToNumber(p, Last(sent'[p]).at - limit[1])) < limit[2]
  BY <1>5, <1>7, <1>8, <1>9
<1> QED
  BY <1>6, <1>9 DEF CodesAreRationed, OnNumber

LEMMA StepUpsRationed ==
    ASSUME SignInInv, AllElseStands, NEW r \in Requests, RequestStepUp(r), ~Refused
    PROVE  CodesAreRationed
<1>1. PICK b \in Accounts, c \in StepUpCode :
         /\ stepUp' = [stepUp EXCEPT ![b] = Append(stepUp[b], c)] /\ sent' = sent
         /\ c.to \in Phones /\ PhoneLock(c.to) \in HeldBy(r)
         /\ MaySend(req[r].saw, c.to, c.at)
  BY SentToLocked
<1>2. HoldsAll(r)
  BY DEF RequestStepUp, Commits
<1>3. \A limit \in SendLimits : Cardinality(CodesToNumber(c.to, c.at - limit[1])) < limit[2]
  BY <1>1, <1>2, RoomForOne
<1>4. ASSUME NEW p \in Phones
      PROVE  ~(Len(sent'[p]) > Len(sent[p]))
  <2>1. Len(sent[p]) \in Nat
    BY Stored
  <2> QED
    BY <1>1, <2>1
<1>5. ASSUME NEW a \in Accounts, a # b
      PROVE  ~(Len(stepUp'[a]) > Len(stepUp[a]))
  <2>1. Len(stepUp[a]) \in Nat /\ stepUp'[a] = stepUp[a]
    BY <1>1, <1>5, Stored
  <2> QED
    BY <2>1
<1>6. Last(stepUp'[b]) = c
  <2>1. PICK s \in Seq(StepUpCode) : s = stepUp[b]
    BY Stored
  <2>2. stepUp'[b] = Append(s, c)
    BY <1>1, <2>1, Stored
  <2>3. Last(Append(s, c)) = c
    BY <2>1 DEF Last
  <2> QED
    BY <2>2, <2>3
<1>7. ASSUME NEW p \in Phones, NEW limit \in SendLimits, NEW sides,
             sides = {a \in OnNumber(DB, p) : Len(stepUp'[a]) > Len(stepUp[a])
                                              /\ Last(stepUp'[a]).to = p},
             sides # {}
      PROVE  Cardinality(CodesToNumber(p, Last(stepUp'[CHOOSE a \in sides : TRUE]).at - limit[1]))
                < limit[2]
  <2>1. sides = {b} /\ c.to = p
    BY <1>5, <1>6, <1>7 DEF OnNumber
  <2>2. (CHOOSE a \in sides : TRUE) = b
    BY <2>1
  <2> QED
    BY <1>3, <1>6, <2>1, <2>2
<1> QED
  BY <1>4, <1>7 DEF CodesAreRationed

LEMMA RationNext ==
    ASSUME SignInInv, AllElseStands, Next
    PROVE  CodesAreRationed
<1>1. DB' \in Database
  BY NextKeeps DEF SignInInv, TypeOK
<1>2. UNCHANGED <<sent, stepUp>> => SentAsMany /\ MomentsStay
  BY StepUpsMarked DEF SentAsMany
<1>3. CASE UNCHANGED <<sent, stepUp>>
  BY <1>1, <1>2, <1>3, NobodyRationed
<1>4. ASSUME NEW r \in Requests, Commit(r)
      PROVE  CodesAreRationed
  <2>1. CASE SentAsMany /\ MomentsStay
    BY <1>1, <2>1, NobodyRationed
  <2>2. CASE Refused
    BY <1>3, <2>2 DEF Refused, db
  <2> QED
    BY <1>4, <2>1, <2>2, CodesCommit, LoginsRationed, StepUpsRationed
<1>5. ASSUME NEW r \in Requests, Begin(r) \/ Take(r)
      PROVE  UNCHANGED <<sent, stepUp>>
  BY <1>5 DEF Begin, BeginOnNumber, BeginSession, BeginSignedIn, BeginWithout, Began, Take, db
<1>6. Tick => UNCHANGED <<sent, stepUp>>
  BY DEF Tick, db
<1> QED
  BY <1>3, <1>4, <1>5, <1>6 DEF Next, Served, Commit

-----------------------------------------------------------------------------
(* A code is used up by what it serves.                                       *)

LEMMA AtMostOne ==
    ASSUME NEW x, NEW S \in SUBSET {x}
    PROVE  Cardinality(S) \in Nat /\ Cardinality(S) <= 1
<1>1. IsFiniteSet({x}) /\ Cardinality({x}) = 1
  BY FS_Singleton
<1>2. Cardinality(S) <= Cardinality({x}) /\ IsFiniteSet(S)
  BY <1>1, FS_Subset
<1>3. Cardinality(S) \in Nat
  BY <1>2, FS_CardinalityType
<1> QED
  BY <1>1, <1>2, <1>3

LEMMA SomeSpent ==
    ASSUME SignInInv, NEW p \in Phones, NEW S \in SUBSET (DOMAIN sent[p])
    PROVE  Cardinality(S) \in Nat /\ (S # {} => Cardinality(S) >= 1)
<1>1. Len(sent[p]) \in Nat /\ DOMAIN sent[p] = 1..Len(sent[p])
  BY Stored
<1>2. 1 \in Int /\ Len(sent[p]) \in Int
  BY <1>1
<1>3. IsFiniteSet(1..Len(sent[p]))
  BY <1>2, FS_Interval
<1>4. IsFiniteSet(S)
  BY <1>1, <1>3, FS_Subset
<1>5. Cardinality(S) \in Nat /\ (Cardinality(S) = 0 <=> S = {})
  BY <1>4, FS_CardinalityType, FS_EmptySet
<1> QED
  BY <1>5

\* The code that is shown was used by nobody, and is used up now.
LEMMA SpentOne ==
    ASSUME SignInInv, AllElseStands, NEW r \in Requests, HoldsAll(r), NEW q, q = req[r],
           q.to \in Phones, PhoneLock(q.to) \in HeldBy(r), NEW code,
           LoginCode(q, code) # "refused", SpendLoginCode(q)
    PROVE  {i \in DOMAIN sent[q.to] : ~sent[q.to][i].spent /\ sent'[q.to][i].spent} # {}
<1>1. PICK d : d = q.saw
  OBVIOUS
<1>2. d \in Database /\ d.sent[q.to] = sent[q.to]
  BY <1>1 DEF SignInInv, AllSawStand, SawStands, AllElseStands, ElseStands, CodesUnderLock, CodesStand
<1>3. PICK s \in Seq(Code) : s = sent[q.to]
  BY Stored
<1>4. PICK l : l = Len(s)
  OBVIOUS
<1>5. l \in 1..Len(s) /\ ~s[l].spent
  <2>1. Checked(d, q.to, code, q.now) # "refused"
    BY <1>1 DEF LoginCode
  <2> QED
    BY <1>2, <1>3, <1>4, <2>1, TriedCode
<1>6. sent' = [sent EXCEPT ![q.to] = [sent[q.to] EXCEPT ![l].spent = TRUE]]
  BY <1>1, <1>2, <1>3, <1>4 DEF SpendLoginCode
<1>7. sent'[q.to] = [s EXCEPT ![l].spent = TRUE]
  BY <1>3, <1>6, Stored
<1>8. l \in DOMAIN s /\ s[l] \in Code
  BY <1>5
<1>9. [s EXCEPT ![l].spent = TRUE][l].spent
  BY <1>8 DEF Code
<1> QED
  BY <1>3, <1>5, <1>7, <1>8, <1>9

\* Nothing is served.
LEMMA NobodyServed ==
    ASSUME SignInInv, NobodyLogsIn, FewerChanges
    PROVE  CodesServeOnce
<1> SUFFICES ASSUME NEW p \in Phones,
                    NEW logins, logins = {f \in Families : family[f] = NoLogin /\ family'[f].on = p},
                    NEW claims, claims = {a \in Accounts : change'[a] # change[a] /\ change'[a].to = p},
                    NEW spent, spent = {i \in DOMAIN sent[p] : ~sent[p][i].spent /\ sent'[p][i].spent}
             PROVE  Cardinality(logins) + Cardinality(claims) <= Cardinality(spent)
  BY DEF CodesServeOnce
<1>1. p # NoPhone
  BY PhonesAssumption DEF NoPhone
<1>2. logins = {} /\ claims = {}
  BY <1>1 DEF NobodyLogsIn, FewerChanges, NoChange
<1>3. Cardinality(logins) = 0 /\ Cardinality(claims) = 0
  BY <1>2, FS_EmptySet
<1>4. Cardinality(spent) \in Nat
  BY SomeSpent
<1> QED
  BY <1>3, <1>4

\* One login or one change is served, and a code is used up.
LEMMA OneServed ==
    ASSUME SignInInv, NEW n \in Phones,
           {i \in DOMAIN sent[n] : ~sent[n][i].spent /\ sent'[n][i].spent} # {},
           \/ /\ FewerChanges
              /\ \E g \in Families : \A f \in Families :
                    family[f] = NoLogin /\ family'[f].on # NoPhone => f = g /\ family'[f].on = n
           \/ /\ NobodyLogsIn
              /\ \E b \in Accounts : \A a \in Accounts :
                    change'[a] # change[a] => a = b /\ change'[a].to = n
    PROVE  CodesServeOnce
<1> SUFFICES ASSUME NEW p \in Phones,
                    NEW logins, logins = {f \in Families : family[f] = NoLogin /\ family'[f].on = p},
                    NEW claims, claims = {a \in Accounts : change'[a] # change[a] /\ change'[a].to = p},
                    NEW spent, spent = {i \in DOMAIN sent[p] : ~sent[p][i].spent /\ sent'[p][i].spent}
             PROVE  Cardinality(logins) + Cardinality(claims) <= Cardinality(spent)
  BY DEF CodesServeOnce
<1>1. p # NoPhone
  BY PhonesAssumption DEF NoPhone
<1> DEFINE LoginOnly == claims = {} /\ (\E g : logins \subseteq {g}) /\ (p # n => logins = {})
           ClaimOnly == logins = {} /\ (\E b : claims \subseteq {b}) /\ (p # n => claims = {})
<1>2. LoginOnly \/ ClaimOnly
  <2>1. ASSUME FewerChanges, NEW g \in Families,
               \A f \in Families : family[f] = NoLogin /\ family'[f].on # NoPhone =>
                                      f = g /\ family'[f].on = n
        PROVE  LoginOnly
    <3>1. claims = {}
      BY <1>1, <2>1 DEF FewerChanges, NoChange
    <3>2. \A f \in logins : f = g /\ p = n
      BY <1>1, <2>1
    <3> QED
      BY SMTT(30), <3>1, <3>2
  <2>2. ASSUME NobodyLogsIn, NEW b \in Accounts,
               \A a \in Accounts : change'[a] # change[a] => a = b /\ change'[a].to = n
        PROVE  ClaimOnly
    <3>1. logins = {}
      BY <1>1, <2>2 DEF NobodyLogsIn
    <3>2. \A a \in claims : a = b /\ p = n
      BY <2>2
    <3> QED
      BY <3>1, <3>2
  <2> QED
    BY <2>1, <2>2
<1>3. Cardinality({}) = 0
  BY FS_EmptySet
<1>4. Cardinality(spent) \in Nat /\ (p = n => Cardinality(spent) >= 1)
  BY SomeSpent
<1>5. CASE LoginOnly
  <2>1. Cardinality(claims) = 0
    BY <1>3, <1>5
  <2>2. Cardinality(logins) \in Nat /\ Cardinality(logins) <= 1
    BY <1>5, AtMostOne
  <2>3. p # n => Cardinality(logins) = 0
    BY <1>3, <1>5
  <2> HIDE DEF LoginOnly
  <2> QED
    BY <1>4, <2>1, <2>2, <2>3
<1>6. CASE ClaimOnly
  <2>1. Cardinality(logins) = 0
    BY <1>3, <1>6
  <2>2. Cardinality(claims) \in Nat /\ Cardinality(claims) <= 1
    BY <1>6, AtMostOne
  <2>3. p # n => Cardinality(claims) = 0
    BY <1>3, <1>6
  <2> HIDE DEF ClaimOnly
  <2> QED
    BY <1>4, <2>1, <2>2, <2>3
<1> QED
  BY <1>2, <1>5, <1>6

LEMMA LoginServed ==
    ASSUME SignInInv, AllElseStands, NEW r \in Requests, VerifyOtp(r)
    PROVE  CodesServeOnce
<1>1. PICK q : q = req[r]
  OBVIOUS
<1>2. /\ q \in Request /\ FitsOp(q) /\ q.op = "login" /\ HoldsAll(r)
      /\ Needs(q) \subseteq HeldBy(r)
  BY <1>1, Committing DEF VerifyOtp
<1>3. q.to \in Phones /\ PhoneLock(q.to) \in HeldBy(r)
  BY <1>2 DEF FitsOp, OnCode, Needs, NumbersOf
<1>4. FewerChanges
  BY WhoClaims DEF Commit, VerifyOtp, LogsIn, WrongTry, Refused, db, FewerChanges
<1>5. CASE UNCHANGED family
  BY <1>4, <1>5, NoneMade, NobodyServed
<1>6. CASE LoginCode(q, q.code) = "right" /\ LogsIn(q)
  <2> DEFINE row == [used |-> FALSE, revoked |-> FALSE]
  <2>1. PICK a \in Accounts, g \in Families :
          family' = [family EXCEPT ![g] = [of |-> a, on |-> q.to, since |-> q.now,
                                           rows |-> <<row>>]]
    BY <1>6 DEF LogsIn
  <2>2. PICK l : l = [of |-> a, on |-> q.to, since |-> q.now, rows |-> <<row>>]
    OBVIOUS
  <2>3. l.on = q.to /\ family' = [family EXCEPT ![g] = l]
    BY <2>1, <2>2
  <2>4. \A f \in Families : family[f] = NoLogin /\ family'[f].on # NoPhone =>
                              f = g /\ family'[f].on = q.to
    BY <2>3, Stored DEF NoLogin
  <2>5. LoginCode(q, q.code) # "refused" /\ SpendLoginCode(q)
    BY <1>6 DEF LogsIn
  <2>6. {i \in DOMAIN sent[q.to] : ~sent[q.to][i].spent /\ sent'[q.to][i].spent} # {}
    BY <1>1, <1>2, <1>3, <2>5, SpentOne
  <2> QED
    BY <1>3, <1>4, <2>4, <2>6, OneServed
<1> QED
  BY <1>1, <1>5, <1>6 DEF VerifyOtp, WrongTry, Refused, db

LEMMA ClaimServed ==
    ASSUME SignInInv, AllElseStands, NEW r \in Requests, RequestChange(r)
    PROVE  CodesServeOnce
<1>1. PICK q : q = req[r]
  OBVIOUS
<1>2. /\ q \in Request /\ FitsOp(q) /\ q.op = "claim" /\ HoldsAll(r)
      /\ Needs(q) \subseteq HeldBy(r)
  BY <1>1, Committing DEF RequestChange
<1>3. q.to \in Phones /\ q.of \in Accounts /\ PhoneLock(q.to) \in HeldBy(r)
  BY <1>2 DEF FitsOp, OnCode, OnNewNumber, Needs, NumbersOf
<1>4. NobodyLogsIn
  <2>1. UNCHANGED family
    BY DEF RequestChange, Claims, WrongTry, WrongStepUp, Refused, db
  <2> QED
    BY <2>1, NoneMade
<1>5. CASE UNCHANGED change
  BY <1>4, <1>5, NobodyServed DEF FewerChanges
<1>6. CASE LoginCode(q, q.newCode) = "right" /\ Claims(q) /\ ~Refused
  <2>1. PICK new : change' = [change EXCEPT ![q.of] = new] /\ new.to = q.to
    BY <1>6 DEF Claims
  <2>2. \A a \in Accounts : change'[a] # change[a] => a = q.of /\ change'[a].to = q.to
    BY <2>1, Stored
  <2>3. LoginCode(q, q.newCode) # "refused" /\ SpendLoginCode(q)
    BY <1>6 DEF Claims
  <2>4. {i \in DOMAIN sent[q.to] : ~sent[q.to][i].spent /\ sent'[q.to][i].spent} # {}
    BY <1>1, <1>2, <1>3, <2>3, SpentOne
  <2> QED
    BY <1>3, <1>4, <2>2, <2>4, OneServed
<1> QED
  BY <1>1, <1>5, <1>6 DEF RequestChange, WrongTry, WrongStepUp, Refused, db

LEMMA ServeNext ==
    ASSUME SignInInv, AllElseStands, Next
    PROVE  CodesServeOnce
<1>1. CASE UNCHANGED <<family, change>>
  BY <1>1, NoneMade, NobodyServed DEF FewerChanges
<1>2. ASSUME NEW r \in Requests, Commit(r)
      PROVE  CodesServeOnce
  BY <1>2, WhoLogsIn, NoneMade, WhoClaims, NobodyServed, LoginServed, ClaimServed
<1>3. ASSUME NEW r \in Requests, Begin(r) \/ Take(r)
      PROVE  UNCHANGED <<family, change>>
  BY <1>3 DEF Begin, BeginOnNumber, BeginSession, BeginSignedIn, BeginWithout, Began, Take, db
<1>4. Tick => UNCHANGED <<family, change>>
  BY DEF Tick, db
<1> QED
  BY <1>1, <1>2, <1>3, <1>4 DEF Next, Served, Commit

\* A number is sent no more codes than it may be, though its login codes and its
\* accounts' step-up codes are asked for at once; and no code serves two logins
\* or changes, however many requests show it at once (lock_phone, check_phone_code).
THEOREM EveryCodeIsCounted == Spec => EachCodeCounts
<1>1. SignInInv /\ AllElseStands /\ [Next]_vars => [CodesAreRationed /\ CodesServeOnce]_vars
  BY RationNext, ServeNext
<1> QED
  BY <1>1, Inductive, ElseStaysUnderLock, PTL DEF Spec, EachCodeCounts

-----------------------------------------------------------------------------
(* A lost number's change.                                                    *)

\* A number is given up for a change only by the job that makes it, of all it
\* has locked, and only if none of those logged in since.
LEMMA MadeUnopposed ==
    ASSUME SignInInv, AllElseStands, NEW r \in Requests, MakeChange(r),
           NEW a \in Accounts, change[a] # NoChange, change'[a] = NoChange, change[a].lost,
           acct'[a].phone # acct[a].phone
    PROVE  \A f \in Families : family[f].of \in OnPhone(acct[a].phone) =>
              ~(family[f].since >= change[a].since)
<1>1. PICK q : q = req[r]
  OBVIOUS
<1>2. PICK d : d = q.saw
  OBVIOUS
<1>3. /\ q \in Request /\ FitsOp(q) /\ q.op = "make" /\ d \in Database /\ HoldsAll(r)
      /\ SawStands(r) /\ Needs(q) \subseteq HeldBy(r)
  BY <1>1, <1>2, Committing DEF MakeChange
<1>4. /\ q.knew.phone \in Phones /\ q.knew.phone # NoPhone /\ q.of \in Accounts
      /\ PhoneLock(q.knew.phone) \in HeldBy(r) /\ ChangeLockOf(q.of) \in HeldBy(r)
  BY <1>1, <1>3, PhonesAssumption, ChangeIsHeld
     DEF FitsOp, OnOldNumber, OnCode, OnNewNumber, Needs, NumbersOf, NoPhone
<1>5. NumberStands(d, q.knew.phone) /\ LoginsLast(d) /\ change[q.of] \in {d.change[q.of], NoChange}
  BY <1>1, <1>2, <1>3, <1>4 DEF SawStands, AllElseStands, ElseStands, ChangeUnderLock
<1>6. ~UNCHANGED acct
  OBVIOUS
<1>7. /\ ~Void(d, q.of) /\ change' = [change EXCEPT ![q.of] = NoChange]
      /\ acct' = [b \in Accounts |-> IF b \in OnNumber(d, q.knew.phone)
                                     THEN [acct[b] EXCEPT !.phone = q.to] ELSE acct[b]]
  BY <1>1, <1>2, <1>6 DEF MakeChange, Refused, db, Moves
<1>8. a = q.of /\ d.change[a] = change[a]
  BY <1>5, <1>7, Stored
<1>9. a \in OnNumber(d, q.knew.phone)
  BY <1>7
<1>10. /\ OnNumber(d, q.knew.phone) = OnPhone(q.knew.phone)
       /\ d.acct[a].phone = q.knew.phone /\ acct[a].phone = q.knew.phone
  BY <1>5, <1>9 DEF NumberStands, OnNumber, OnPhone
<1>11. ASSUME NEW f \in Families, family[f].of \in OnPhone(acct[a].phone)
       PROVE  ~(family[f].since >= change[a].since)
  <2>1. d.family[f].of = family[f].of /\ d.family[f].of \in OnNumber(d, d.acct[a].phone)
    BY <1>5, <1>10, <1>11 DEF NumberStands
  <2>2. d.family[f] # NoLogin
    BY <2>1, LimitsAssumption DEF NoLogin, Nobody, OnNumber, Accounts
  <2>3. family[f].since = d.family[f].since
    BY <1>5, <2>2 DEF LoginsLast
  <2>4. ~(d.family[f].since >= d.change[a].since)
    BY <1>7, <1>8, <2>1 DEF Void
  <2> QED
    BY <1>8, <2>3, <2>4
<1> QED
  BY <1>11

LEMMA LostMovesUnopposed ==
    ASSUME SignInInv, AllElseStands, Next
    PROVE  LostMoveIsUnopposed
<1> SUFFICES ASSUME NEW a \in Accounts, change[a].lost, change'[a] = NoChange,
                    acct'[a].phone = change[a].to
             PROVE  ~\E f \in Families : /\ family[f].of \in OnNumber(DB, acct[a].phone)
                                         /\ family[f].since >= change[a].since
  BY DEF LostMoveIsUnopposed
<1>1. change[a] # NoChange
  BY DEF NoChange
<1>2. change[a].to \in Phones /\ change[a].to # NoPhone
  BY <1>1, Stored, PhonesAssumption DEF Change, NoPhone
<1>3. acct[a].phone # change[a].to
  BY <1>1, <1>2 DEF SignInInv, WaitedNumberIsFree, Waiting, OnNumber, DB
<1>4. ~UNCHANGED acct /\ ~UNCHANGED change /\ ~Refused
  BY <1>1, <1>3 DEF Refused, db
<1>5. PICK r \in Requests : Commit(r)
  <2>1. ASSUME NEW r \in Requests, Begin(r) \/ Take(r)
        PROVE  UNCHANGED acct
    BY <2>1 DEF Begin, BeginOnNumber, BeginSession, BeginSignedIn, BeginWithout, Began, Take, db
  <2>2. Tick => UNCHANGED acct
    BY DEF Tick, db
  <2> QED
    BY <1>4, <2>1, <2>2 DEF Next, Served, Commit
<1>6. CASE MakeChange(r)
  <2>1. \A f \in Families : family[f].of \in OnPhone(acct[a].phone) =>
              ~(family[f].since >= change[a].since)
    BY <1>1, <1>3, <1>6, MadeUnopposed
  <2> QED
    BY <2>1 DEF OnNumber, OnPhone, DB
<1>7. CASE Erase(r)
  <2>1. PICK b : acct' = [acct EXCEPT ![b].phone = NoPhone]
    BY <1>4, <1>7 DEF Erase
  <2>2. acct'[a] = acct[a] \/ acct'[a] = [acct[a] EXCEPT !.phone = NoPhone]
    BY <2>1, Stored
  <2>3. acct[a] \in Account
    BY Stored
  <2>4. acct'[a].phone \in {acct[a].phone, NoPhone}
    BY <2>2, <2>3 DEF Account
  <2> QED
    BY <1>2, <1>3, <2>4
<1>8. CASE RequestOtp(r) \/ VerifyOtp(r) \/ RequestStepUp(r) \/ LogOutEverywhere(r)
           \/ RefreshSession(r) \/ Logout(r) \/ Suspend(r) \/ Restore(r) \/ RequestChange(r)
           \/ CancelChange(r) \/ RequestDeletion(r) \/ CancelDeletion(r)
  <2>1. UNCHANGED acct \/ UNCHANGED change
    BY <1>8 DEF RequestOtp, VerifyOtp, LogsIn, RequestStepUp, LogOutEverywhere,
                RefreshSession, Logout, Suspend, Restore, RequestChange, Claims, CancelChange,
                RequestDeletion, CancelDeletion, WrongTry, WrongStepUp, Refused, db
  <2> QED
    BY <1>4, <2>1
<1> QED
  BY <1>5, <1>6, <1>7, <1>8 DEF Commit

\* A number moves with both its sides or not at all, and one whose change was
\* asked for without a code from it only if nobody on it has logged in since, in
\* whatever order logins, claims, cancellations and the job come (make_change,
\* is_void).
THEOREM EveryMoveIsFair == Spec => MovesAreFair
<1>1. SignInInv /\ AllElseStands /\ [Next]_vars => [LostMoveIsUnopposed]_vars
  BY LostMovesUnopposed
<1>2. [SidesStayTogether]_vars /\ [LostMoveIsUnopposed]_vars =>
         [SidesStayTogether /\ LostMoveIsUnopposed]_vars
  OBVIOUS
<1> QED
  BY <1>1, <1>2, Inductive, ElseStaysUnderLock, SidesMoveTogether, PTL DEF Spec, MovesAreFair

-----------------------------------------------------------------------------
(* Where a working login of a suspended account comes from.                   *)

WorksSuspended(a, f) == acct[a].suspended /\ family[f].of = a /\ Live(DB, f)

\* A new login, by a request that read the account before its suspension.
LogsInUnaware(r, a, f) ==
    /\ VerifyOtp(r) /\ family[f] = NoLogin
    /\ acct[a].suspended /\ ~req[r].saw.acct[a].suspended

SuspendedByUnawareLogins ==
    \A a \in Accounts, f \in Families :
        ~WorksSuspended(a, f) /\ WorksSuspended(a, f)' =>
            \E r \in Requests : LogsInUnaware(r, a, f)

\* Who suspends an account has read every login of it: a new one waits.
SeesEveryLogin(s) ==
    req[s].op = "suspend" =>
        \A f \in Families : family[f].of = req[s].of => req[s].saw.family[f].of = req[s].of
SuspendersSee == \A s \in Requests : HoldsAll(s) => SeesEveryLogin(s)

LEMMA NoLoginMeanwhile ==
    ASSUME SignInInv, NEW r \in Requests, NEW s \in Requests, s # r, Commit(r),
           HoldsAll(s), req[s].op = "suspend",
           NEW f \in Families, family'[f].of = req[s].of
    PROVE  family[f].of = req[s].of
<1>1. CASE LoginsWere
  <2>1. \A n, l : Was(n, l) => n.of = l.of
    BY DEF Was
  <2> QED
    BY <1>1, <2>1 DEF LoginsWere
<1>2. CASE VerifyOtp(r)
  <2>1. CASE UNCHANGED family
    BY <2>1
  <2>2. CASE LogsIn(req[r])
    <3>0. PICK q : q = req[r]
      OBVIOUS
    <3>1. PICK a \in Accounts, g \in Families :
             /\ MayPointAt(a)
             /\ family' = [family EXCEPT ![g] =
                             [of |-> a, on |-> q.to, since |-> q.now,
                              rows |-> <<[used |-> FALSE, revoked |-> FALSE]>>]]
      BY <2>2, <3>0 DEF LogsIn
    <3>2. AccountLock(req[s].of) \in HeldBy(s)
      BY Finished, NeedsOwn DEF SignInInv
    <3>3. a # req[s].of
      BY <3>1, <3>2 DEF MayPointAt, AccountLock
    <3>4. family'[g].of = a /\ (f # g => family'[f] = family[f])
      BY <3>1, Stored
    <3> QED
      BY <3>1, <3>3, <3>4
  <2> QED
    BY <1>2, <2>1, <2>2 DEF VerifyOtp, WrongTry, Refused, db
<1> QED
  BY <1>1, <1>2, WhoLogsIn

LEMMA SeeingStays ==
    ASSUME SignInInv, SuspendersSee, UNCHANGED <<db, ended>>,
           NEW s \in Requests, req'[s] = req[s], HoldsAll(s)'
    PROVE  SeesEveryLogin(s)'
<1>1. HoldsAll(s) /\ family' = family
  BY Unwritten DEF db
<1> QED
  BY <1>1 DEF SuspendersSee, SeesEveryLogin

LEMMA SeeingNext ==
    ASSUME SignInInv, SuspendersSee, [Next]_vars
    PROVE  SuspendersSee'
<1>1. TypeOK
  BY DEF SignInInv
<1>2. CASE Tick \/ UNCHANGED vars
  <2>1. UNCHANGED <<db, ended>> /\ req' = req
    BY <1>2 DEF Tick, vars, db
  <2> QED
    BY <2>1, SeeingStays DEF SuspendersSee
<1>3. ASSUME NEW r \in Requests, Begin(r)
      PROVE  SuspendersSee'
  <2>1. PICK q : Asked(q) /\ Began(r, q)
    BY <1>3, NumberIsAsked, SessionIsAsked, SignedInIsAsked, OthersAsk DEF Begin
  <2>2. UNCHANGED <<db, ended>> /\ ~HoldsAll(r)'
    BY <2>1, BeganLacks
  <2>3. \A s \in Requests : s # r => req'[s] = req[s]
    BY <1>1, <2>1 DEF Began, TypeOK
  <2> QED
    BY <2>2, <2>3, SeeingStays DEF SuspendersSee
<1>4. ASSUME NEW r \in Requests, Take(r)
      PROVE  SuspendersSee'
  <2> SUFFICES ASSUME NEW s \in Requests, HoldsAll(s)'
               PROVE  SeesEveryLogin(s)'
    BY DEF SuspendersSee
  <2>1. UNCHANGED <<db, ended>>
    BY <1>4 DEF Take
  <2>2. CASE s # r
    <3>1. req'[s] = req[s]
      BY <1>1, <1>4, <2>2 DEF Take, TypeOK
    <3> QED
      BY <2>1, <3>1, SeeingStays
  <2>3. CASE s = r
    <3>1. req'[s].saw = DB /\ family' = family
      BY <1>4, <2>1, <2>3, LastLock DEF db
    <3> QED
      BY <3>1 DEF SeesEveryLogin, DB
  <2> QED
    BY <2>2, <2>3
<1>5. ASSUME NEW r \in Requests, Commit(r)
      PROVE  SuspendersSee'
  <2> SUFFICES ASSUME NEW s \in Requests, HoldsAll(s)'
               PROVE  SeesEveryLogin(s)'
    BY DEF SuspendersSee
  <2>1. s # r
    <3>1. req' = [req EXCEPT ![r] = Idle]
      BY <1>5, CommitHasEffect
    <3>2. req'[r] = Idle
      BY <1>1, <3>1 DEF TypeOK
    <3> QED
      BY <3>2 DEF HoldsAll, Running
  <2>2. req'[s] = req[s] /\ HoldsAll(s)
    BY <1>5, <2>1, LocksLast
  <2>3. SeesEveryLogin(s)
    BY <2>2 DEF SuspendersSee
  <2>4. ASSUME req[s].op = "suspend", NEW f \in Families, family'[f].of = req[s].of
        PROVE  req[s].saw.family[f].of = req[s].of
    <3>1. family[f].of = req[s].of
      BY <1>5, <2>1, <2>2, <2>4, NoLoginMeanwhile
    <3> QED
      BY <2>3, <2>4, <3>1 DEF SeesEveryLogin
  <2> QED
    BY <2>2, <2>4 DEF SeesEveryLogin
<1> QED
  BY <1>2, <1>3, <1>4, <1>5 DEF Next, Served, Commit

\* Only a suspension suspends.
LEMMA WhoSuspends ==
    ASSUME SignInInv, NEW r \in Requests, Commit(r), NEW a \in Accounts,
           ~acct[a].suspended, acct'[a].suspended
    PROVE  Suspend(r) /\ a = req[r].of /\ ~UNCHANGED acct
<1>0. acct \in [Accounts -> Account]
  BY Stored
<1>1. ~UNCHANGED acct
  OBVIOUS
<1>2. PICK q : q = req[r]
  OBVIOUS
<1>3. ASSUME NEW b, NEW n, acct' = [acct EXCEPT ![b].leaves = n]
      PROVE  FALSE
  BY <1>0, <1>3 DEF Account
<1>4. ASSUME NEW b, NEW p, acct' = [acct EXCEPT ![b].phone = p]
      PROVE  FALSE
  BY <1>0, <1>4 DEF Account
<1>5. ASSUME LogsIn(q)
      PROVE  FALSE
  <2>1. PICK b \in Accounts : acct' = [acct EXCEPT ![b] = [NoAccount EXCEPT !.phone = q.to,
                                                                           !.role = q.role]]
    BY <1>1, <1>5 DEF LogsIn
  <2>2. acct'[a] = acct[a] \/ acct'[a] = [NoAccount EXCEPT !.phone = q.to, !.role = q.role]
    BY <1>0, <2>1
  <2> QED
    BY <2>2 DEF NoAccount
<1>6. ASSUME Moves(q)
      PROVE  FALSE
  <2>1. acct'[a] = acct[a] \/ acct'[a] = [acct[a] EXCEPT !.phone = q.to]
    BY <1>6 DEF Moves
  <2>2. acct[a] \in Account
    BY <1>0
  <2> QED
    BY <2>1, <2>2 DEF Account
<1>7. ~VerifyOtp(r) /\ ~MakeChange(r)
  BY <1>1, <1>2, <1>5, <1>6 DEF VerifyOtp, MakeChange, WrongTry, Refused, db
<1>8. ~Erase(r) /\ ~RequestDeletion(r) /\ ~CancelDeletion(r)
  BY <1>1, <1>2, <1>3, <1>4 DEF Erase, RequestDeletion, CancelDeletion, WrongStepUp, Refused, db
<1>9. ~Restore(r)
  <2>1. ASSUME Restore(r)
        PROVE  FALSE
    <3>1. acct' = [acct EXCEPT ![q.of].suspended = FALSE]
      BY <1>2, <2>1 DEF Restore
    <3> QED
      BY <1>0, <3>1 DEF Account
  <2> QED
    BY <2>1
<1>10. ~RequestOtp(r) /\ ~RequestStepUp(r) /\ ~LogOutEverywhere(r) /\ ~RefreshSession(r)
       /\ ~Logout(r) /\ ~RequestChange(r) /\ ~CancelChange(r)
  BY <1>1 DEF RequestOtp, RequestStepUp, LogOutEverywhere, RefreshSession, Logout,
              RequestChange, CancelChange, WrongTry, WrongStepUp, Claims, Refused, db
<1>11. Suspend(r)
  BY <1>7, <1>8, <1>9, <1>10 DEF Commit
<1>12. acct' = [acct EXCEPT ![q.of].suspended = TRUE]
  BY <1>1, <1>2, <1>11 DEF Suspend, Refused, db
<1>13. a = q.of
  BY <1>0, <1>12
<1> QED
  BY <1>1, <1>2, <1>11, <1>13

LEMMA SuspensionEndsAll ==
    ASSUME SignInInv, SuspendersSee, NEW r \in Requests, Suspend(r), ~UNCHANGED acct,
           NEW f \in Families, family'[f].of = req[r].of
    PROVE  ~Works(family'[f])
<1>1. PICK q : q = req[r]
  OBVIOUS
<1>2. /\ q \in Request /\ FitsOp(q) /\ q.op = "suspend"
      /\ HoldsAll(r) /\ SawStands(r) /\ Needs(q) \subseteq HeldBy(r)
  BY <1>1, Committing DEF Suspend
<1>3. q.of \in Accounts /\ AccountLock(q.of) \in HeldBy(r)
  BY <1>2, NeedsOwn DEF FitsOp, OnCode
<1>4. EndLogins(q.saw, LoginsOf(q.saw, {q.of}))
  BY <1>1 DEF Suspend, Refused, db
<1>5. family[f].of = q.of
  <2>1. LoginsWere
    BY <1>4, NoneMade
  <2>2. \A n, l : Was(n, l) => n.of = l.of
    BY DEF Was
  <2> QED
    BY <1>1, <2>1, <2>2 DEF LoginsWere
<1>6. f \in LoginsOf(q.saw, {q.of})
  BY <1>1, <1>2, <1>5 DEF SuspendersSee, SeesEveryLogin, LoginsOf
<1>7. family[f] # NoLogin /\ family'[f] = AllRevoked(family[f])
  <2>1. LoginsOf(q.saw, {q.of}) \in SUBSET Families
    BY DEF LoginsOf
  <2>2. \A g \in LoginsOf(q.saw, {q.of}) :
          q.saw.family[g].of \in Accounts /\ AccountLock(q.saw.family[g].of) \in HeldBy(r)
    BY <1>3 DEF LoginsOf
  <2>3. PICK d : d = q.saw
    OBVIOUS
  <2>4. PICK fs : fs = LoginsOf(q.saw, {q.of})
    OBVIOUS
  <2>5. /\ fs \in SUBSET Families /\ d = req[r].saw /\ EndLogins(d, fs) /\ f \in fs
        /\ \A g \in fs : d.family[g].of \in Accounts /\ AccountLock(d.family[g].of) \in HeldBy(r)
    BY <1>1, <1>4, <1>6, <2>1, <2>2, <2>3, <2>4
  <2> QED
    BY <1>2, <2>5, Ending
<1> QED
  BY <1>7, LoginIs, RevokedIs

LEMMA OneUnaware ==
    ASSUME SignInInv, SuspendersSee, NEW r \in Requests, Commit(r),
           NEW a \in Accounts, NEW f \in Families,
           ~WorksSuspended(a, f), WorksSuspended(a, f)'
    PROVE  LogsInUnaware(r, a, f)
<1>1. acct'[a].suspended /\ family'[f].of = a /\ Works(family'[f])
  BY DEF WorksSuspended, Live, RowsOf, DB, Works
<1>2. acct[a].suspended
  <2>1. ASSUME ~acct[a].suspended
        PROVE  FALSE
    <3>1. Suspend(r) /\ a = req[r].of /\ ~UNCHANGED acct
      BY <1>1, <2>1, WhoSuspends
    <3> QED
      BY <1>1, <3>1, SuspensionEndsAll
  <2> QED
    BY <2>1
<1>3. family[f] = NoLogin
  <2>1. ASSUME family[f] # NoLogin
        PROVE  FALSE
    <3>1. family'[f].of = family[f].of /\ (Live(DB, f)' => Live(DB, f))
      BY <2>1, CommitHasEffect DEF Effect, LoginsStep
    <3> QED
      BY <1>1, <1>2, <3>1 DEF WorksSuspended
  <2> QED
    BY <2>1
<1>4. VerifyOtp(r) /\ family'[f] # family[f]
  <2>1. family[f].of # a
    BY <1>3, LimitsAssumption DEF NoLogin, Nobody, Accounts
  <2>2. \A n, l : Was(n, l) => n.of = l.of
    BY DEF Was
  <2>3. ~LoginsWere
    BY <1>1, <2>1, <2>2 DEF LoginsWere
  <2> QED
    BY <1>1, <2>1, <2>3, WhoLogsIn
<1>5. PICK q : q = req[r]
  OBVIOUS
<1>6. ~LoginRefused(q) /\ LogsIn(q)
  BY <1>4, <1>5 DEF VerifyOtp, WrongTry, Refused, db
<1> DEFINE known == SideOn(q.saw, q.to, q.role)
<1>7. PICK b \in Accounts, g \in Families :
        /\ IF known # {} THEN b \in known ELSE acct[b] = NoAccount
        /\ family' = [family EXCEPT ![g] =
                        [of |-> b, on |-> q.to, since |-> q.now,
                         rows |-> <<[used |-> FALSE, revoked |-> FALSE]>>]]
        /\ acct' = IF known # {} THEN acct
                   ELSE [acct EXCEPT ![b] = [NoAccount EXCEPT !.phone = q.to, !.role = q.role]]
  BY <1>6 DEF LogsIn
<1>8. b = a
  <2>1. f # g => family'[f] = family[f]
    BY <1>7, Stored
  <2>2. family'[g].of = b
    BY <1>7, Stored
  <2> QED
    BY <1>1, <1>4, <2>1, <2>2
<1>9. known # {}
  BY <1>2, <1>7, <1>8 DEF NoAccount
<1>10. ~q.saw.acct[a].suspended
  BY <1>6, <1>7, <1>8, <1>9 DEF LoginRefused
<1> QED
  BY <1>2, <1>3, <1>4, <1>5, <1>10 DEF LogsInUnaware

\* A login works for a suspended account in one way only: it was begun by a
\* request that read the account before its suspension (verify_otp).  No login
\* survives the suspension itself, and no refresh, move or restoration gives
\* one back; RestoreRevivesNothing fails for that one reason.
THEOREM OnlyUnawareLoginsWork == Spec => [][SuspendedByUnawareLogins]_vars
<1>1. Init => SuspendersSee
  BY DEF Init, SuspendersSee, HoldsAll, Running
<1>2. SignInInv /\ SuspendersSee /\ [Next]_vars => SuspendersSee'
  BY SeeingNext
<1>3. ASSUME SignInInv, SuspendersSee, Next
      PROVE  SuspendedByUnawareLogins
  <2>1. ASSUME UNCHANGED <<db, ended>>
        PROVE  SuspendedByUnawareLogins
    <3>1. UNCHANGED <<acct, family>>
      BY <2>1 DEF db
    <3>2. \A a \in Accounts, f \in Families : WorksSuspended(a, f)' <=> WorksSuspended(a, f)
      BY <3>1 DEF WorksSuspended, Live, RowsOf, DB
    <3> QED
      BY <3>2 DEF SuspendedByUnawareLogins
  <2>2. ASSUME NEW r \in Requests, Commit(r)
        PROVE  SuspendedByUnawareLogins
    BY <1>3, <2>2, OneUnaware DEF SuspendedByUnawareLogins
  <2>3. ASSUME NEW r \in Requests, Begin(r) \/ Take(r)
        PROVE  UNCHANGED <<db, ended>>
    BY <2>3 DEF Begin, BeginOnNumber, BeginSession, BeginSignedIn, BeginWithout, Began, Take
  <2>4. Tick => UNCHANGED <<db, ended>>
    BY DEF Tick
  <2> QED
    BY <1>3, <2>1, <2>2, <2>3, <2>4 DEF Next, Served, Commit
<1>4. SignInInv /\ SuspendersSee /\ [Next]_vars => [SuspendedByUnawareLogins]_vars
  BY <1>3
<1> QED
  BY <1>1, <1>2, <1>4, Inductive, PTL DEF Spec

=============================================================================
