-------------------------------- MODULE SignIn --------------------------------
(***************************************************************************)
(* Numbers, accounts and sessions: one-time codes and their limits, login,  *)
(* refresh, logout and suspension (auth/service.py, auth/step_up_service.py,*)
(* admin/admin_service.py), the change of an account's number               *)
(* (me/phone_change_service.py, auth/phone_changes.py), and the deletion of *)
(* an account as far as its number and sessions go                          *)
(* (me/account_deletion_service.py, auth/erasure.py).                       *)
(*                                                                         *)
(* A request reads its clock and its account, takes its locks one by one,   *)
(* reads the database, and writes when it commits: what others commit       *)
(* between its reading and its writing, it does not see.  Admins and their  *)
(* second factor, passkeys (see Passkeys) and the age a login needs before  *)
(* it may ask for a change are left out.                                    *)
(***************************************************************************)
EXTENDS Integers, Sequences, FiniteSets, SequencesExt

CONSTANTS
    Phones,       \* numbers, sorted as integers
    NAccounts,    \* bound: accounts ever made
    NFamilies,    \* bound: logins ever made
    NRows,        \* bound: tokens of one login
    Requests,     \* what runs at once
    CodeLife,     \* OTP_TTL, STEP_UP_TTL
    MaxAttempts,  \* MAX_OTP_ATTEMPTS
    SendLimits,   \* OTP_SEND_LIMITS: pairs of a window and a number of codes
    GuessWindow,  \* VERIFY_ATTEMPT_WINDOW
    MaxGuesses,   \* MAX_VERIFY_ATTEMPTS_PER_WINDOW
    ChangeWait,   \* PHONE_CHANGE_WAIT
    LostWait,     \* PHONE_CHANGE_WAIT_WITHOUT_CURRENT
    DeletionWait, \* DELETION_WAIT
    Patience,     \* bound: how much older than the clock a running request may be
    MaxCodes,     \* bound: codes ever sent to a number, and codes of an account
    MaxTime       \* bound: the clock

ASSUME PhonesAssumption == Phones \subseteq Nat \ {0}
ASSUME LimitsAssumption ==
    /\ {NAccounts, NFamilies, NRows, CodeLife, MaxAttempts, GuessWindow, MaxGuesses,
        ChangeWait, LostWait, DeletionWait, Patience, MaxCodes, MaxTime} \subseteq Nat
    /\ SendLimits \subseteq (Nat \X Nat) /\ MaxTime # 0
\* No request lasts as long as a change of number waits.
ASSUME PatienceAssumption == Patience < ChangeWait /\ Patience < LostWait

Accounts == 1..NAccounts
Families == 1..NFamilies
Sides == {"brand", "creator"}
Nobody == 0
NoPhone == 0

-----------------------------------------------------------------------------
VARIABLES
    time,
    acct,    \* the accounts
    family,  \* the logins, each with the tokens it rotated through
    sent,    \* otp_challenge: the login codes of each number, oldest first
    stepUp,  \* step_up_challenge: the codes of each account, oldest first
    change,  \* account_phone_change
    ended,   \* history: the logins a logout, a suspension or a move has ended
    req

DB == [acct |-> acct, family |-> family, sent |-> sent, stepUp |-> stepUp,
       change |-> change]
db == <<acct, family, sent, stepUp, change>>
vars == <<time, acct, family, sent, stepUp, change, ended, req>>

Times == 1..MaxTime
\* When the codes of a number nobody has any more were sent: in no window.
LongAgo == 0 - MaxTime

NoAccount == [phone |-> NoPhone, role |-> "none", suspended |-> FALSE, leaves |-> 0]
Account == [phone : Phones \union {NoPhone}, role : Sides \union {"none"},
            suspended : BOOLEAN, leaves : Nat]  \* leaves: when, or 0
NoLogin == [of |-> Nobody, on |-> NoPhone, since |-> 0, rows |-> <<>>]
Row == [used : BOOLEAN, revoked : BOOLEAN]
Login == [of : Accounts, on : Phones, since : Times, rows : Seq(Row)]
Code == [at : Times \union {LongAgo}, wrong : 0..MaxAttempts, spent : BOOLEAN]
\* What a step-up code allows.
Actions == {<<"everywhere">>, <<"delete">>} \union ({"move"} \X Phones)
StepUpCode == [for : Actions, to : Phones, at : Times, wrong : 0..MaxAttempts,
               spent : BOOLEAN]
NoChange == [to |-> NoPhone, since |-> 0, due |-> 0, lost |-> FALSE]
Change == [to : Phones, since : Times, due : Nat, lost : BOOLEAN]
Database == [acct : [Accounts -> Account], family : [Families -> Login \union {NoLogin}],
             sent : [Phones -> Seq(Code)], stepUp : [Accounts -> Seq(StepUpCode)],
             change : [Accounts -> Change \union {NoChange}]]

-----------------------------------------------------------------------------
(* Requests and their locks. *)

Idle == [op |-> "idle"]
Unread == [acct |-> <<>>]
Ops == {"code", "login", "step_up", "everywhere", "refresh", "logout", "suspend",
        "restore", "claim", "cancel", "make", "delete", "keep", "erase"}

\* knew: the account as the request read it; saw: the database, as it read that
\* with its last lock; step: the next lock.
Request == [op : Ops, of : Accounts \union {Nobody}, to : Phones \union {NoPhone},
            role : Sides \union {"none"}, code : Nat, newCode : Nat, for : Actions,
            lost : BOOLEAN, family : Families \union {0}, knew : Account, now : Times,
            step : Nat \ {0}, saw : Database \union {Unread}]

Lock(table, of) == [table |-> table, of |-> of]
InOrder(table, ns) ==
    [i \in 1..Cardinality(ns) |->
       Lock(table, CHOOSE n \in ns : Cardinality({m \in ns : m < n}) = i - 1)]
PhoneLocks(ps) == InOrder("phone", ps)
SessionsLock(a) == <<Lock("account", a)>>
ChangeLock(a) == <<Lock("change", a)>>

\* Variant: only the number moved to is locked.
BothNumbersNewOnly(q) == PhoneLocks({q.to})
\* Variant: only the number moved from is locked.
BothNumbersOldOnly(q) == PhoneLocks({q.knew.phone})
\* The numbers a change touches.
BothNumbers(q) == PhoneLocks({q.knew.phone, q.to})
OnPhone(p) == {a \in Accounts : p # NoPhone /\ acct[a].phone = p}
\* Variant: a refresh locks its own login, not the account.
RefreshLocksToken(q) == <<Lock("family", q.family)>>
RefreshLocks(q) == SessionsLock(q.of)
\* Variant: a step-up code is asked for under the account's lock.
StepUpLocksAccount(q) == SessionsLock(q.of)
StepUpLocks(q) == PhoneLocks({q.knew.phone})

LockOrder(q) ==
    CASE q.op \in {"code", "login"} -> PhoneLocks({q.to})
      [] q.op = "step_up" -> StepUpLocks(q)
      [] q.op = "refresh" -> RefreshLocks(q)
      [] q.op \in {"everywhere", "delete", "erase"} ->
           PhoneLocks({q.knew.phone}) \o SessionsLock(q.of)
      [] q.op \in {"logout", "suspend", "restore", "keep"} -> SessionsLock(q.of)
      [] q.op = "claim" -> BothNumbers(q) \o ChangeLock(q.of)
      [] q.op = "cancel" -> ChangeLock(q.of)
      [] q.op = "make" ->
           BothNumbers(q) \o ChangeLock(q.of) \o InOrder("account", OnPhone(q.knew.phone))

Running(r) == req[r] # Idle
HeldBy(r) ==
    IF Running(r) THEN {LockOrder(req[r])[i] : i \in 1..(req[r].step - 1)} ELSE {}
HoldsAll(r) == Running(r) /\ req[r].step > Len(LockOrder(req[r]))

\* A new row that points at an account waits for who holds the account for update.
MayPointAt(a) ==
    \A r \in Requests : req[r].op \in {"suspend", "restore", "make", "erase"} =>
                          Lock("account", a) \notin HeldBy(r)

\* What a request of this kind is when it begins, before what it names.
Fresh(op) ==
    [op |-> op, of |-> Nobody, to |-> NoPhone, role |-> "none", code |-> 0, newCode |-> 0,
     for |-> <<"everywhere">>, lost |-> FALSE, family |-> 0, knew |-> NoAccount,
     now |-> time, step |-> 1, saw |-> Unread]
\* The account asks, as its session read it.
Asking(op, a) == [Fresh(op) EXCEPT !.of = a, !.knew = acct[a]]

Began(r, q) ==
    /\ ~Running(r)
    /\ req' = [req EXCEPT ![r] = q]
    /\ UNCHANGED <<time, db, ended>>

\* With its last lock it reads what is committed by then (read committed): what
\* changed between that lock and its reading could as well have changed before.
Take(r) ==
    /\ Running(r) /\ ~HoldsAll(r)
    /\ \A s \in Requests \ {r} : LockOrder(req[r])[req[r].step] \notin HeldBy(s)
    /\ req' = [req EXCEPT ![r].step = @ + 1,
                         ![r].saw = IF req[r].step = Len(LockOrder(req[r])) THEN DB ELSE @]
    /\ UNCHANGED <<time, db, ended>>

Commits(r, op) ==
    /\ HoldsAll(r) /\ req[r].op = op
    /\ req' = [req EXCEPT ![r] = Idle]
    /\ UNCHANGED time

-----------------------------------------------------------------------------
(* Reading: d is the database as a request saw it. *)

OnNumber(d, p) == {a \in Accounts : p # NoPhone /\ d.acct[a].phone = p}
Waiting(d, a) == d.change[a] # NoChange
Leaving(d, a) == d.acct[a].leaves # 0
SideOn(d, p, role) == {a \in OnNumber(d, p) : d.acct[a].role = role}

\* One budget for each number: its login codes, and its accounts' step-up codes.
CountedCodes(d, p, since) ==
    {<<Nobody, i>> : i \in {i \in DOMAIN d.sent[p] : d.sent[p][i].at > since}}
    \union UNION {{<<a, i>> : i \in {i \in DOMAIN d.stepUp[a] : d.stepUp[a][i].at > since}} :
                  a \in OnNumber(d, p)}
Tries(d, p, c) == IF c[1] = Nobody THEN d.sent[p][c[2]].wrong ELSE d.stepUp[c[1]][c[2]].wrong
MaySend(d, p, now) ==
    \A limit \in SendLimits : Cardinality(CountedCodes(d, p, now - limit[1])) < limit[2]
GuessesOn(d, p, now) ==
    LET counted == CountedCodes(d, p, now - GuessWindow) IN
    FoldLeft(LAMBDA sum, c : sum + Tries(d, p, c), 0, SetToSeq(counted))
MayGuess(d, p, now) == GuessesOn(d, p, now) < MaxGuesses

\* Only the latest code counts: once, in its time, and for a few tries.
Usable(codes, now) ==
    /\ codes # <<>>
    /\ ~Last(codes).spent /\ now < Last(codes).at + CodeLife
    /\ Last(codes).wrong < MaxAttempts
CodesFor(d, a, for) == {i \in DOMAIN d.stepUp[a] : d.stepUp[a][i].for[1] = for[1]}
LatestFor(d, a, for) == CHOOSE i \in CodesFor(d, a, for) :
                            \A j \in CodesFor(d, a, for) : j <= i

RowsOf(d, f) == d.family[f].rows
Live(d, f) == \E i \in DOMAIN RowsOf(d, f) : ~RowsOf(d, f)[i].revoked

\* Variant: only this account's own logins are looked at.
VoidOwnSide(d, a) ==
    d.change[a].lost /\ \E f \in Families : /\ d.family[f].of = a
                                          /\ d.family[f].since >= d.change[a].since
\* The current number logged in since a change that was asked for without it.
Void(d, a) ==
    /\ d.change[a].lost
    /\ \E f \in Families :
          /\ d.family[f].of \in OnNumber(d, d.acct[a].phone)
          /\ d.family[f].since >= d.change[a].since
-----------------------------------------------------------------------------
(* What requests write. *)

NewCode(now) == [at |-> now, wrong |-> 0, spent |-> FALSE]
Refused == UNCHANGED <<db, ended>>

\* The rows of these logins that the request saw are ended.
Revoked(d, fs) ==
    [f \in Families |->
       IF f \notin fs THEN family[f]
       ELSE [family[f] EXCEPT !.rows =
               [i \in DOMAIN family[f].rows |->
                  IF i \in DOMAIN RowsOf(d, f)
                  THEN [family[f].rows[i] EXCEPT !.revoked = TRUE]
                  ELSE family[f].rows[i]]]]
LoginsOf(d, as) == {f \in Families : d.family[f].of \in as}
EndLogins(d, fs) == family' = Revoked(d, fs) /\ ended' = ended \union fs

RequestOtp(r) ==
    LET q == req[r] IN
    /\ Commits(r, "code")
    /\ IF MaySend(q.saw, q.to, q.now)
       THEN /\ sent' = [sent EXCEPT ![q.to] = Append(@, NewCode(q.now))]
            /\ UNCHANGED <<acct, family, stepUp, change, ended>>
       ELSE Refused

RequestStepUp(r) ==
    LET q == req[r] IN
    /\ Commits(r, "step_up")
    /\ IF MaySend(q.saw, q.knew.phone, q.now)
       THEN /\ MayPointAt(q.of)
            /\ stepUp' = [stepUp EXCEPT ![q.of] =
                            Append(@, [for |-> q.for, to |-> q.knew.phone, at |-> q.now,
                                       wrong |-> 0, spent |-> FALSE])]
            /\ UNCHANGED <<acct, family, sent, change, ended>>
       ELSE Refused

\* check_phone_code: what a login code shown for a number comes to.
Checked(d, p, code, now) ==
    IF ~MayGuess(d, p, now) \/ ~Usable(d.sent[p], now) THEN "refused"
    ELSE IF code # Len(d.sent[p]) THEN "wrong" ELSE "right"
LoginCode(q, code) == Checked(q.saw, q.to, code, q.now)
WrongTry(q) ==
    LET latest == Len(q.saw.sent[q.to]) IN
    /\ sent' = [sent EXCEPT ![q.to][latest].wrong = q.saw.sent[q.to][latest].wrong + 1]
    /\ UNCHANGED <<acct, family, stepUp, change, ended>>
SpendLoginCode(q) == sent' = [sent EXCEPT ![q.to][Len(q.saw.sent[q.to])].spent = TRUE]

\* Variant: a number somebody moves to takes new accounts.
LoginRefusedIfSuspended(q) ==
    \E a \in OnNumber(q.saw, q.to) : q.saw.acct[a].suspended
\* A number somebody moves to or from takes no new account, nor does one whose
\* other side is suspended.
LoginRefused(q) ==
    LET d == q.saw  side == SideOn(d, q.to, q.role) IN
    \/ \E a \in side : d.acct[a].suspended
    \/ /\ side = {}
       /\ \/ \E a \in Accounts : d.change[a].to = q.to
          \/ \E a \in OnNumber(d, q.to) : d.acct[a].suspended \/ Waiting(d, a)

LogsIn(q) ==
    LET known == SideOn(q.saw, q.to, q.role) IN
    \E a \in Accounts, f \in Families :
       /\ IF known # {} THEN a \in known
          ELSE acct[a] = NoAccount /\ \A b \in Accounts : acct[b] = NoAccount => a <= b
       /\ family[f] = NoLogin /\ \A g \in Families : family[g] = NoLogin => f <= g
       /\ MayPointAt(a)
       /\ acct' = IF known # {} THEN acct
                  ELSE [acct EXCEPT ![a] = [NoAccount EXCEPT !.phone = q.to, !.role = q.role]]
       /\ family' = [family EXCEPT ![f] =
                       [of |-> a, on |-> q.to, since |-> q.now,
                        rows |-> <<[used |-> FALSE, revoked |-> FALSE]>>]]
       /\ SpendLoginCode(q)
       /\ UNCHANGED <<stepUp, change, ended>>

VerifyOtp(r) ==
    LET q == req[r]  shown == LoginCode(q, q.code) IN
    /\ Commits(r, "login")
    /\ \/ shown = "wrong" /\ WrongTry(q)
       \/ (shown = "refused" \/ (shown = "right" /\ LoginRefused(q))) /\ Refused
       \/ shown = "right" /\ ~LoginRefused(q) /\ LogsIn(q)

\* step_up_service.consume, by the number the request read.
StepUp(q, code) ==
    LET codes == q.saw.stepUp[q.of]  latest == LatestFor(q.saw, q.of, q.for) IN
    IF \/ ~MayGuess(q.saw, q.knew.phone, q.now)
       \/ CodesFor(q.saw, q.of, q.for) = {}
       \/ ~Usable(SubSeq(codes, 1, latest), q.now) THEN "refused"
    ELSE IF code # latest \/ codes[latest].for # q.for THEN "wrong" ELSE "right"
WrongStepUp(q) ==
    LET latest == LatestFor(q.saw, q.of, q.for) IN
    /\ stepUp' = [stepUp EXCEPT ![q.of][latest].wrong =
                  q.saw.stepUp[q.of][latest].wrong + 1]
    /\ UNCHANGED <<acct, family, sent, change, ended>>
SpendStepUp(q) ==
    stepUp' = [stepUp EXCEPT ![q.of][LatestFor(q.saw, q.of, q.for)].spent = TRUE]

LogOutEverywhere(r) ==
    LET q == req[r]  shown == StepUp(q, q.code) IN
    /\ Commits(r, "everywhere")
    /\ \/ shown = "wrong" /\ WrongStepUp(q)
       \/ shown = "refused" /\ Refused
       \/ /\ shown = "right"
          /\ SpendStepUp(q)
          /\ EndLogins(q.saw, LoginsOf(q.saw, {q.of}))
          /\ UNCHANGED <<acct, sent, change>>

\* Variant: the token that was shown stays unused.
RotatedUnmarked(fam, i) ==
    [fam EXCEPT !.rows = Append(@, [used |-> FALSE, revoked |-> FALSE])]
\* A token is used up, and the next one of its login made.
Rotated(fam, i) ==
    [fam EXCEPT !.rows = Append([@ EXCEPT ![i].used = TRUE], [used |-> FALSE, revoked |-> FALSE])]

\* A used token shown again ends its login; so does one of a suspended account.
RefreshSession(r) ==
    LET q == req[r]  row == RowsOf(q.saw, q.family)[q.code]
        fresh == ~row.used /\ ~row.revoked
        suspended == q.saw.acct[q.of].suspended IN
    /\ Commits(r, "refresh")
    /\ \/ row.used /\ EndLogins(q.saw, {q.family})
       \/ ~row.used /\ row.revoked /\ UNCHANGED <<family, ended>>
       \/ /\ fresh /\ suspended
          /\ family' = [Revoked(q.saw, {q.family}) EXCEPT ![q.family].rows[q.code].used = TRUE]
          /\ ended' = ended \union {q.family}
       \/ /\ fresh /\ ~suspended
          /\ family' = [family EXCEPT ![q.family] = Rotated(@, q.code)]
          /\ UNCHANGED ended
    /\ UNCHANGED <<acct, sent, stepUp, change>>

Logout(r) ==
    /\ Commits(r, "logout")
    /\ EndLogins(req[r].saw, {req[r].family})
    /\ UNCHANGED <<acct, sent, stepUp, change>>

Suspend(r) ==
    LET q == req[r] IN
    /\ Commits(r, "suspend")
    /\ IF q.saw.acct[q.of].suspended THEN Refused
       ELSE /\ acct' = [acct EXCEPT ![q.of].suspended = TRUE]
            /\ EndLogins(q.saw, LoginsOf(q.saw, {q.of}))
            /\ UNCHANGED <<sent, stepUp, change>>

Restore(r) ==
    /\ Commits(r, "restore")
    /\ acct' = [acct EXCEPT ![req[r].of].suspended = FALSE]
    /\ UNCHANGED <<family, sent, stepUp, change, ended>>

-----------------------------------------------------------------------------
(* A new number. *)

\* Its own account's row the request does not read again.
ClaimRefused(q) ==
    LET d == q.saw  on == OnNumber(d, q.knew.phone) IN
    \/ Waiting(d, q.of) /\ q.now >= d.change[q.of].due
    \/ \E a \in on \ {q.of} : Waiting(d, a) \/ Leaving(d, a)
    \/ q.of \in on /\ q.knew.leaves # 0
    \/ LoginCode(q, q.newCode) = "refused"

Claims(q) ==
    LET d == q.saw IN
    IF OnNumber(d, q.to) # {} \/ \E a \in Accounts \ {q.of} : change[a].to = q.to
    THEN Refused
    ELSE /\ MayPointAt(q.of)
         /\ SpendLoginCode(q)
         /\ IF q.lost THEN UNCHANGED stepUp ELSE SpendStepUp(q)
         /\ change' = [change EXCEPT ![q.of] =
                         [to |-> q.to, since |-> q.now, lost |-> q.lost,
                          due |-> q.now + (IF q.lost THEN LostWait ELSE ChangeWait)]]
         /\ UNCHANGED <<acct, family, ended>>

\* The new number's code is checked before the current number's, and a wrong
\* one costs only its own try.
RequestChange(r) ==
    LET q == req[r] IN
    /\ Commits(r, "claim")
    /\ \/ ClaimRefused(q) /\ Refused
       \/ ~ClaimRefused(q) /\ LoginCode(q, q.newCode) = "wrong" /\ WrongTry(q)
       \/ /\ ~ClaimRefused(q) /\ LoginCode(q, q.newCode) = "right"
          /\ \/ q.lost /\ Claims(q)
             \/ ~q.lost /\ StepUp(q, q.code) = "right" /\ Claims(q)
             \/ ~q.lost /\ StepUp(q, q.code) = "wrong" /\ WrongStepUp(q)
             \/ ~q.lost /\ StepUp(q, q.code) = "refused" /\ Refused

CancelChange(r) ==
    LET q == req[r] IN
    /\ Commits(r, "cancel")
    /\ change' = IF Waiting(q.saw, q.of) /\ q.now < q.saw.change[q.of].due
                 THEN [change EXCEPT ![q.of] = NoChange] ELSE change
    /\ UNCHANGED <<acct, family, sent, stepUp, ended>>

\* Variant: the other side of the number stays behind.
MovesAlone(q) ==
    acct' = [acct EXCEPT ![q.of].phone = q.to] /\ EndLogins(q.saw, LoginsOf(q.saw, {q.of}))
\* Every account on the old number moves with it, and logs in again.
Moves(q) ==
    LET d == q.saw  moving == OnNumber(d, q.knew.phone) IN
    /\ acct' = [a \in Accounts |->
                  IF a \in moving THEN [acct[a] EXCEPT !.phone = q.to] ELSE acct[a]]
    /\ EndLogins(d, LoginsOf(d, moving))

\* As make_change finds it: the change, if it is still there, its own number.
MakeChange(r) ==
    LET q == req[r]  d == q.saw IN
    /\ Commits(r, "make")
    /\ IF ~Waiting(d, q.of) \/ (~Void(d, q.of) /\ q.now < d.change[q.of].due) THEN Refused
       ELSE /\ change' = [change EXCEPT ![q.of] = NoChange]
            /\ IF Void(d, q.of) \/ OnNumber(d, q.to) # {}
               THEN UNCHANGED <<acct, family, ended>> ELSE Moves(q)
            /\ UNCHANGED <<sent, stepUp>>

-----------------------------------------------------------------------------
(* Leaving. *)

RequestDeletion(r) ==
    LET q == req[r]  shown == StepUp(q, q.code) IN
    /\ Commits(r, "delete")
    /\ \/ shown = "wrong" /\ WrongStepUp(q)
       \/ (shown = "refused" \/ (shown = "right" /\ Leaving(q.saw, q.of))) /\ Refused
       \/ /\ shown = "right" /\ ~Leaving(q.saw, q.of)
          /\ SpendStepUp(q)
          /\ acct' = [acct EXCEPT ![q.of].leaves = q.now + DeletionWait]
          /\ UNCHANGED <<family, sent, change, ended>>

CancelDeletion(r) ==
    LET q == req[r] IN
    /\ Commits(r, "keep")
    /\ acct' = IF q.saw.acct[q.of].phone = NoPhone THEN acct
               ELSE [acct EXCEPT ![q.of].leaves = 0]
    /\ UNCHANGED <<family, sent, stepUp, change, ended>>

Erase(r) ==
    LET q == req[r]  d == q.saw  p == q.knew.phone IN
    /\ Commits(r, "erase")
    /\ IF ~Leaving(d, q.of) \/ q.now < d.acct[q.of].leaves \/ d.acct[q.of].phone # p
       THEN Refused
       ELSE /\ acct' = [acct EXCEPT ![q.of].phone = NoPhone]
            /\ EndLogins(d, LoginsOf(d, {q.of}))
            /\ sent' = IF OnNumber(d, p) # {q.of} THEN sent
                       ELSE [sent EXCEPT ![p] = [i \in DOMAIN @ |->
                               [@[i] EXCEPT !.at = LongAgo, !.spent = TRUE]]]
            /\ stepUp' = [stepUp EXCEPT ![q.of] = [i \in DOMAIN @ |->
                               [@[i] EXCEPT !.spent = TRUE]]]
            /\ change' = [change EXCEPT ![q.of] = NoChange]

-----------------------------------------------------------------------------
(* Who asks for what. *)

\* dependencies._authenticate: a session of the account that nobody ended.
SignedIn(a) ==
    /\ acct[a].phone # NoPhone /\ ~acct[a].suspended
    /\ \E f \in Families : family[f].of = a /\ Live(DB, f)
\* What is shown for a code: the newest there is, or another (0).
Shown(codes) == {0, Len(codes)}
Unused(things, nothing) ==
    Cardinality({x \in DOMAIN things : things[x] = nothing})
       > Cardinality({s \in Requests : req[s].op = "login"})
Room(p, role) ==
    Unused(family, NoLogin) /\ (SideOn(DB, p, role) # {} \/ Unused(acct, NoAccount))

BeginOnNumber(r) ==
    \E p \in Phones :
       \/ Len(sent[p]) < MaxCodes /\ Began(r, [Fresh("code") EXCEPT !.to = p])
       \/ \E role \in Sides, code \in Shown(sent[p]) :
             /\ Room(p, role) /\ sent[p] # <<>>
             /\ Began(r, [Fresh("login") EXCEPT !.to = p, !.role = role, !.code = code])

BeginSession(r) ==
    \E f \in Families : \E i \in DOMAIN family[f].rows :
       /\ acct[family[f].of].phone # NoPhone
       /\ \/ Len(family[f].rows) < NRows
             /\ Began(r, [Fresh("refresh") EXCEPT !.of = family[f].of, !.family = f, !.code = i])
          \/ Began(r, [Fresh("logout") EXCEPT !.of = family[f].of, !.family = f])

BeginSignedIn(r) ==
    \E a \in {a \in Accounts : SignedIn(a)} :
       \/ Len(stepUp[a]) < MaxCodes
          /\ \E for \in Actions : for # <<"move", acct[a].phone>>
                                    /\ Began(r, [Asking("step_up", a) EXCEPT !.for = for])
       \/ stepUp[a] # <<>> /\ \E code \in Shown(stepUp[a]) :
             \/ Began(r, [Asking("everywhere", a) EXCEPT !.code = code])
             \/ ~Leaving(DB, a)
                /\ Began(r, [Asking("delete", a) EXCEPT !.for = <<"delete">>, !.code = code])
       \/ \E p \in Phones \ {acct[a].phone} : \E new \in Shown(sent[p]) :
             /\ sent[p] # <<>>
             /\ \/ Began(r, [Asking("claim", a) EXCEPT !.to = p, !.newCode = new, !.lost = TRUE])
                \/ stepUp[a] # <<>> /\ \E code \in Shown(stepUp[a]) :
                      Began(r, [Asking("claim", a) EXCEPT !.to = p, !.newCode = new,
                                  !.for = <<"move", p>>, !.code = code])
       \/ change[a] # NoChange /\ Began(r, Asking("cancel", a))
       \/ Leaving(DB, a) /\ Began(r, Asking("keep", a))

\* Administrators, and the jobs: each change due or made without the current
\* number, each account whose days are over.
BeginWithout(r) ==
    \E a \in {a \in Accounts : acct[a].phone # NoPhone} :
       \/ Began(r, [Fresh("suspend") EXCEPT !.of = a])
       \/ acct[a].suspended /\ Began(r, [Fresh("restore") EXCEPT !.of = a])
       \/ /\ Waiting(DB, a) /\ (change[a].lost \/ time >= change[a].due)
          /\ Began(r, [Asking("make", a) EXCEPT !.to = change[a].to])
       \/ Leaving(DB, a) /\ time >= acct[a].leaves
          /\ Began(r, Asking("erase", a))

Begin(r) ==
    BeginOnNumber(r) \/ BeginSession(r) \/ BeginSignedIn(r) \/ BeginWithout(r)

\* No request lasts as long as the days a change or a deletion waits.
Tick ==
    /\ time < MaxTime
    /\ \A r \in Requests : Running(r) => time < req[r].now + Patience
    /\ time' = time + 1
    /\ UNCHANGED <<db, ended, req>>

-----------------------------------------------------------------------------
Init ==
    /\ time = 1
    /\ acct = [a \in Accounts |-> NoAccount]
    /\ family = [f \in Families |-> NoLogin]
    /\ sent = [p \in Phones |-> <<>>]
    /\ stepUp = [a \in Accounts |-> <<>>]
    /\ change = [a \in Accounts |-> NoChange]
    /\ ended = {}
    /\ req = [r \in Requests |-> Idle]

\* A request under way.
Served(r) ==
    \/ Take(r)
    \/ RequestOtp(r) \/ VerifyOtp(r) \/ RequestStepUp(r) \/ LogOutEverywhere(r)
    \/ RefreshSession(r) \/ Logout(r) \/ Suspend(r) \/ Restore(r)
    \/ RequestChange(r) \/ CancelChange(r) \/ MakeChange(r)
    \/ RequestDeletion(r) \/ CancelDeletion(r) \/ Erase(r)

Next == (\E r \in Requests : Begin(r) \/ Served(r)) \/ Tick

Spec == Init /\ [][Next]_vars

-----------------------------------------------------------------------------
(* What should hold. *)

\* What is stored is well formed, and a request has taken a prefix of its locks.
\* A code never counts more wrong guesses than it may take.
TypeOK ==
    /\ time \in Times
    /\ DB \in Database
    /\ ended \subseteq Families
    /\ req \in [Requests -> Request \union {Idle}]
    /\ \A r \in Requests : Running(r) => req[r].step <= Len(LockOrder(req[r])) + 1

\* A login that a logout, a suspension, a move or an erasure has ended has no
\* working token, whatever refresh was in flight (lock_sessions_of).
EndedStaysEnded == \A f \in ended : ~Live(DB, f)

\* Tokens rotate: each was made for one that was used, once, so that a copied
\* one cannot live beside its original (refresh_session).
TokensRotateOnce ==
    \A f \in Families : family[f] # NoLogin =>
       Len(family[f].rows) <= 1 + Cardinality({i \in DOMAIN family[f].rows :
                                                 family[f].rows[i].used})

\* What is stored is well formed, and each login is one line of tokens.
LoginsAreOneLine == TypeOK /\ TokensRotateOnce

\* Who has a working session proved the number its account has now: a move ends
\* the sessions of both sides, and an erased account has none (make_change, erase).
SessionsProveTheNumber ==
    \A f \in Families : Live(DB, f) => acct[family[f].of].phone = family[f].on

\* A number somebody waits to move to is nobody's, so that the move can be made
\* (verify_otp, is_waiting_to_move, _claim).
WaitedNumberIsFree ==
    \A a \in Accounts : Waiting(DB, a) => OnNumber(DB, change[a].to) = {}

\* A number is sent no more codes than it may be, though login codes and the
\* step-up codes of its accounts are asked for at once (lock_phone).
CodesToNumber(p, since) ==
    {<<Nobody, i>> : i \in {i \in DOMAIN sent[p] : sent[p][i].at > since}}
    \union UNION {{<<a, i>> : i \in {i \in DOMAIN stepUp[a] :
                                     stepUp[a][i].to = p /\ stepUp[a][i].at > since}} :
                  a \in OnNumber(DB, p)}
CodesAreRationed ==
    \A p \in Phones :
      LET logins == Len(sent'[p]) > Len(sent[p])
          sides == {a \in OnNumber(DB, p) : Len(stepUp'[a]) > Len(stepUp[a])
                                              /\ Last(stepUp'[a]).to = p}
          now == IF logins THEN Last(sent'[p]).at
                 ELSE Last(stepUp'[CHOOSE a \in sides : TRUE]).at IN
      logins \/ sides # {} =>
         \A limit \in SendLimits :
            Cardinality(CodesToNumber(p, now - limit[1])) < limit[2]

\* Every login, and every change asked for, uses up a code that nothing had
\* used: one code never serves two of them (check_phone_code).
CodesServeOnce ==
    \A p \in Phones :
      LET logins == {f \in Families : family[f] = NoLogin /\ family'[f].on = p}
          claims == {a \in Accounts : change'[a] # change[a] /\ change'[a].to = p}
          spent == {i \in DOMAIN sent[p] : ~sent[p][i].spent /\ sent'[p][i].spent} IN
      Cardinality(logins) + Cardinality(claims) <= Cardinality(spent)

\* Both, for every code that is sent: it counts against its number, and once.
EachCodeCounts == [][CodesAreRationed /\ CodesServeOnce]_vars

\* The two sides of a number move together or not at all, so that its next
\* holder never reaches one left behind (make_change, D-126).
SidesStayTogether ==
    \A a, b \in Accounts :
      acct[a].phone = acct[b].phone /\ acct'[a].phone # acct'[b].phone =>
         NoPhone \in {acct[a].phone, acct'[a].phone, acct'[b].phone}

\* An account moves without a code from its number only if nobody on that number,
\* on either side, logged in since the change was asked for (is_void, D-110).
LostMoveIsUnopposed ==
    \A a \in Accounts :
      change[a].lost /\ change'[a] = NoChange /\ acct'[a].phone = change[a].to =>
         ~\E f \in Families : /\ family[f].of \in OnNumber(DB, acct[a].phone)
                             /\ family[f].since >= change[a].since

\* Both, for every move of a number: whole, and not against its holder's will.
MovesAreFair == [][SidesStayTogether /\ LostMoveIsUnopposed]_vars

\* What suspend says: tokens are revoked so that restoring an account taken over
\* never brings the intruder's tokens back (D-138).
RestoreRevivesNothing ==
    [][\A a \in Accounts : acct[a].suspended /\ ~acct'[a].suspended =>
          ~\E f \in Families : family[f].of = a /\ Live(DB, f)]_vars
=============================================================================
