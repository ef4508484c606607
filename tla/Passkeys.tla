------------------------------- MODULE Passkeys -------------------------------
(***************************************************************************)
(* One account's passkeys (auth/passkeys.py, me/passkey_service.py): adding *)
(* and removing them, signing in with them, "passkey only" sign-in, and the *)
(* reset of lost ones, with the codes that allow each change                *)
(* (auth/step_up_service.py) and the erasure of the account                 *)
(* (me/account_deletion_service.py).                                        *)
(*                                                                         *)
(* A request reads its clock and its account first, then takes its locks    *)
(* one by one, and writes when it commits.  WebAuthn's own checks and the   *)
(* key's counter, the tries a wrong code uses up (see SignIn), the age a    *)
(* login needs, names and notices are left out: what is shown here is a     *)
(* right code, a good answer and an established login.                      *)
(***************************************************************************)
EXTENDS Integers, Sequences, FiniteSets

CONSTANTS
    Keys,        \* the passkeys the account may ever hold
    Requests,    \* what the account's devices ask at once
    Settler,     \* the job that settles resets, each minute
    Eraser,      \* the job that erases accounts whose 30 days are over
    MaxKeys,     \* MAX_PASSKEYS
    ResetWait,   \* PASSKEY_RESET_WAIT
    CodeLife,    \* STEP_UP_TTL
    MaxCodes,    \* bound: codes and grants ever asked for
    MaxTime      \* bound: the clock

ASSUME LimitsAssumption ==
    /\ MaxKeys \in Nat /\ ResetWait \in Nat \ {0} /\ CodeLife \in Nat \ {0}
    /\ MaxCodes \in Nat /\ MaxTime \in Nat \ {0}

ASSUME WorkersAssumption ==
    Settler \notin Requests /\ Eraser \notin Requests /\ Settler # Eraser

Workers == Requests \union {Settler, Eraser}

-----------------------------------------------------------------------------
VARIABLES
    time,
    key,      \* each passkey: not made yet, held or removed, and its last use
    only,     \* account.passkey_only
    signedIn, \* whether a passkey's login left a session
    codes,    \* step_up_challenge, oldest first
    reset,    \* the reset waiting, if any
    gone,     \* whether the account is erased
    req

vars == <<time, key, only, signedIn, codes, reset, gone, req>>

Never == 0
Times == 1..MaxTime
Key == [state : {"new", "held", "removed"}, used : {Never} \union Times]

\* What a code allows: one change, to one value.
Changes ==
    {<<"add">>, <<"only", "on">>, <<"only", "off">>} \union ({"remove"} \X Keys)
Code == [for : Changes, by : {"phone", "passkey"}, at : Times, spent : BOOLEAN]

NoReset == [since |-> Never, due |-> Never]
Reset == [since : Times, due : Nat]

Held == {k \in Keys : key[k].state = "held"}

-----------------------------------------------------------------------------
(* Requests and their locks. *)

Idle == [op |-> "idle"]
\* saw: what the request read of passkey_only when it began; code: the code it
\* shows; step: the next lock.  Of the job that settles resets, rows: the keys
\* its locking statement finds; verdict: what it decided to do with the reset.
Request ==
    [op : {"sign_in", "grant", "ask_code", "add", "remove", "only", "reset",
           "settle", "erase"},
     key : Keys \union {"any"}, for : Changes, saw : BOOLEAN, now : Times,
     code : 0..MaxCodes, rows : SUBSET Keys,
     verdict : {"none", "cancel", "wait", "make"}, step : 1..5]

Running(w) == req[w] # Idle

Row(table, of, mode) == [table |-> table, of |-> of, mode |-> mode]
Phone == Row("phone", {}, "update")
KeyRows(ks) == Row("key", ks, "update")
ResetRow == Row("reset", {}, "update")
\* FOR UPDATE, FOR NO KEY UPDATE, and the KEY SHARE of a row that points there.
Account(mode) == Row("account", {}, mode)

AnswerLocks(k) == <<KeyRows({k}), Account("key_share")>>
\* Variant: the account before the key.
RemoveLocksAccountFirst(k) == <<Phone, Account("no_key_update"), KeyRows({k})>>
RemoveLocks(k) == <<Phone, KeyRows({k}), Account("no_key_update")>>
\* Variant: asks whether a key signed in before it holds the keys still.
SettleLocksKeysLast(q) == <<ResetRow, Account("no_key_update"), KeyRows(q.rows)>>
\* The keys it finds are locked, then the account, under which none is added.  To
\* make the reset it deletes every key, and waits for one added in between.
SettleLocks(q) ==
    IF q.verdict = "make"
    THEN <<ResetRow, KeyRows(q.rows), Account("no_key_update"), KeyRows(Keys)>>
    ELSE <<ResetRow, KeyRows(q.rows), Account("no_key_update")>>
\* Variant: without the number's lock.
EraseLocksNoPhone == <<Account("update"), ResetRow, KeyRows(Keys)>>
EraseLocks == <<Phone, Account("update"), ResetRow, KeyRows(Keys)>>
\* The account is written only when the setting changes.
OnlyLocks(q) ==
    IF q.saw = (q.for[2] = "on") THEN <<Phone>> ELSE <<Phone, Account("no_key_update")>>

LockOrder(q) ==
    CASE q.op \in {"sign_in", "grant"} -> AnswerLocks(q.key)
      [] q.op = "ask_code" -> <<Phone, Account("key_share")>>
      [] q.op = "add" -> <<Phone, Account("no_key_update")>>
      [] q.op = "remove" -> RemoveLocks(q.key)
      [] q.op = "only" -> OnlyLocks(q)
      [] q.op = "reset" -> <<Phone, ResetRow, Account("key_share")>>
      [] q.op = "settle" -> SettleLocks(q)
      [] q.op = "erase" -> EraseLocks

Compatible == {{"key_share"}, {"key_share", "no_key_update"}}
Conflict(a, b) ==
    /\ a.table = b.table
    /\ a.table = "key" => a.of \intersect b.of # {}
    /\ {a.mode, b.mode} \notin Compatible

HoldsAll(w) == Running(w) /\ req[w].step > Len(LockOrder(req[w]))
NextLock(w) == LockOrder(req[w])[req[w].step]
HeldBy(w) ==
    IF Running(w) THEN {LockOrder(req[w])[i] : i \in 1..(req[w].step - 1)} ELSE {}
WaitsFor(v, w) ==
    /\ v # w /\ Running(v) /\ ~HoldsAll(v)
    /\ \E held \in HeldBy(w) : Conflict(NextLock(v), held)

\* A set of requests each waiting for another of them.
Stuck(S) == S # {} /\ \A v \in S : \E w \in S : WaitsFor(v, w)

-----------------------------------------------------------------------------
(* Reading. *)

\* Variant: a phone's code still counts.
CodesForAny(action, ks) == {i \in DOMAIN codes : codes[i].for[1] = action}
\* The newest code for the action counts, and with a passkey only a passkey's.
CodesFor(action, ks) ==
    {i \in DOMAIN codes :
       codes[i].for[1] = action /\ (ks # {} => codes[i].by = "passkey")}

\* q: a request that shows its code.
Spendable(q) ==
    /\ q.code \in CodesFor(q.for[1], Held)
    /\ \A j \in CodesFor(q.for[1], Held) : j <= q.code
    /\ ~codes[q.code].spent /\ q.now < codes[q.code].at + CodeLife
    /\ codes[q.code].for = q.for

Stopped == \E k \in Held : key[k].used > reset.since

-----------------------------------------------------------------------------
(* Steps every request takes. *)

\* What a request of this kind is when it begins, before what it names.
Fresh(op) ==
    [op |-> op, key |-> "any", for |-> <<"add">>,
     saw |-> only /\ op \in {"remove", "only"}, now |-> time,
     code |-> 0, rows |-> {}, verdict |-> "none", step |-> 1]

Began(w, q) ==
    /\ ~Running(w)
    /\ req' = [req EXCEPT ![w] = q]
    /\ UNCHANGED <<time, key, only, signedIn, codes, reset, gone>>

\* What is refused before any lock is not begun; whoever asks for a change has
\* been given a code for one of its kind.
Begin(w) ==
    \/ \E k \in Held : Began(w, [Fresh("sign_in") EXCEPT !.key = k])
    \/ \E k \in Held, c \in Changes :
          Began(w, [Fresh("grant") EXCEPT !.key = k, !.for = c])
    \/ Held = {} /\ ~gone /\ \E c \in Changes :
          Began(w, [Fresh("ask_code") EXCEPT !.for = c])
    \/ ~gone /\ \E c \in Changes, i \in DOMAIN codes :
          /\ codes[i].for[1] = c[1]
          /\ \/ c[1] = "add" /\ \E k \in Keys : key[k].state = "new" /\
                   Began(w, [Fresh("add") EXCEPT !.key = k, !.for = c, !.code = i])
             \/ c[1] = "remove" /\ c[2] \in Held /\
                   Began(w, [Fresh("remove") EXCEPT !.key = c[2], !.for = c, !.code = i])
             \/ c[1] = "only" /\ Held # {} /\
                   Began(w, [Fresh("only") EXCEPT !.for = c, !.code = i])
    \/ ~gone /\ Began(w, Fresh("reset"))

BeginSettle == reset # NoReset /\ Began(Settler, Fresh("settle"))
BeginErase == ~gone /\ Began(Eraser, Fresh("erase"))

\* What a request finds once it holds the lock it waited for.
Finds(w, lock) ==
    LET q == req[w] IN
    /\ lock = Phone /\ q.op \in {"add", "remove", "only"} => Spendable(q)
    /\ lock = Phone /\ q.op = "reset" => Held # {}
    /\ lock.table = "key" /\ q.op \in {"sign_in", "grant"} => q.key \in Held
    /\ lock = ResetRow /\ q.op = "settle" => reset # NoReset

\* What the job decides of the reset once it holds the account.
Verdict(q) ==
    IF Stopped THEN "cancel" ELSE IF q.now < reset.due THEN "wait" ELSE "make"

Lock(w) ==
    /\ Running(w) /\ ~HoldsAll(w)
    /\ \A v \in Workers : ~WaitsFor(w, v)
    /\ LET q == req[w]  lock == NextLock(w) IN
         req' = [req EXCEPT ![w] =
           IF ~Finds(w, lock) THEN Idle
           ELSE [q EXCEPT
             !.step = @ + 1,
             !.rows = IF lock = ResetRow /\ q.op = "settle" THEN Held ELSE @,
             !.verdict = IF lock.table = "account" /\ q.op = "settle"
                         THEN Verdict(q) ELSE @]]
    /\ UNCHANGED <<time, key, only, signedIn, codes, reset, gone>>

\* The job's locking statement may begin later than it got the reset's row.
FindKeys(w) ==
    /\ Running(w) /\ req[w].op = "settle" /\ req[w].step = 2
    /\ req' = [req EXCEPT ![w].rows = Held]
    /\ UNCHANGED <<time, key, only, signedIn, codes, reset, gone>>

\* PostgreSQL ends one request of a circle; the job's own is taken up again by
\* its next run.
EndDeadlock(w) ==
    /\ \E S \in SUBSET {v \in Workers : Running(v)} : w \in S /\ Stuck(S)
    /\ req' = [req EXCEPT ![w] = Idle]
    /\ UNCHANGED <<time, key, only, signedIn, codes, reset, gone>>

Commits(w, op) ==
    /\ HoldsAll(w) /\ req[w].op = op
    /\ req' = [req EXCEPT ![w] = Idle]
    /\ UNCHANGED time

-----------------------------------------------------------------------------
(* What requests write. *)

Use(k, now) == key' = [key EXCEPT ![k].used = now]
NewCode(c) == Len(codes) < MaxCodes /\ codes' = Append(codes, c)
Spend(i) == codes' = [codes EXCEPT ![i].spent = TRUE]

\* passkeys.log_in
LogIn(w) ==
    /\ Commits(w, "sign_in")
    /\ Use(req[w].key, req[w].now)
    /\ signedIn' = TRUE
    /\ UNCHANGED <<only, codes, reset, gone>>

\* step_up_service.grant_for_passkey
GrantForPasskey(w) ==
    /\ Commits(w, "grant")
    /\ Use(req[w].key, req[w].now)
    /\ NewCode([for |-> req[w].for, by |-> "passkey", at |-> req[w].now, spent |-> FALSE])
    /\ UNCHANGED <<only, signedIn, reset, gone>>

\* step_up_service.request_code, of an account that had no passkey when asked
RequestCode(w) ==
    /\ Commits(w, "ask_code")
    /\ NewCode([for |-> req[w].for, by |-> "phone", at |-> req[w].now, spent |-> FALSE])
    /\ UNCHANGED <<key, only, signedIn, reset, gone>>

Add(w) ==
    /\ Commits(w, "add")
    /\ IF Cardinality(Held) < MaxKeys /\ key[req[w].key].state = "new"
       THEN /\ key' = [key EXCEPT ![req[w].key].state = "held"]
            /\ Spend(req[w].code)
       ELSE UNCHANGED <<key, codes>>
    /\ UNCHANGED <<only, signedIn, reset, gone>>

\* The last one also ends passkey-only sign-in, as the request read it.
Remove(w) ==
    /\ Commits(w, "remove")
    /\ key' = [key EXCEPT ![req[w].key].state = "removed"]
    /\ Spend(req[w].code)
    /\ only' = (only /\ ~(req[w].saw /\ Held \subseteq {req[w].key}))
    /\ UNCHANGED <<signedIn, reset, gone>>

SetPasskeyOnly(w) ==
    LET on == req[w].for[2] = "on" IN
    /\ Commits(w, "only")
    /\ Spend(req[w].code)
    /\ only' = IF req[w].saw # on THEN on ELSE only
    /\ UNCHANGED <<key, signedIn, reset, gone>>

\* One waiting is kept, never restarted, unless a sign-in cancelled it.
RequestReset(w) ==
    /\ Commits(w, "reset")
    /\ reset' = IF reset # NoReset /\ ~Stopped THEN reset
                ELSE [since |-> req[w].now, due |-> req[w].now + ResetWait]
    /\ UNCHANGED <<key, only, signedIn, codes, gone>>

\* passkey_service._settle
Settle(w) ==
    /\ Commits(w, "settle")
    /\ reset' = IF req[w].verdict = "wait" THEN reset ELSE NoReset
    /\ IF req[w].verdict # "make"
       THEN UNCHANGED <<key, only>>
       ELSE /\ key' = [k \in Keys |->
                         IF k \in Held THEN [key[k] EXCEPT !.state = "removed"] ELSE key[k]]
            /\ only' = FALSE
    /\ UNCHANGED <<signedIn, codes, gone>>

\* account_deletion_service.erase, as far as it reaches here: a code whose row
\* is deleted can never be spent.
Erase(w) ==
    /\ Commits(w, "erase")
    /\ key' = [k \in Keys |->
                 IF k \in Held THEN [key[k] EXCEPT !.state = "removed"] ELSE key[k]]
    /\ only' = FALSE /\ signedIn' = FALSE
    /\ codes' = [i \in DOMAIN codes |-> [codes[i] EXCEPT !.spent = TRUE]]
    /\ reset' = NoReset
    /\ gone' = TRUE

Tick == time < MaxTime /\ time' = time + 1
        /\ UNCHANGED <<key, only, signedIn, codes, reset, gone, req>>

-----------------------------------------------------------------------------
Init ==
    /\ time = 1
    /\ key \in [Keys -> [state : {"new", "held"}, used : {Never}]]
    /\ Cardinality(Held) <= MaxKeys
    /\ only = FALSE /\ signedIn = FALSE
    /\ codes = <<>>
    /\ reset = NoReset
    /\ gone = FALSE
    /\ req = [w \in Workers |-> Idle]

Step(w) ==
    \/ Lock(w) \/ FindKeys(w) \/ EndDeadlock(w)
    \/ LogIn(w) \/ GrantForPasskey(w) \/ RequestCode(w)
    \/ Add(w) \/ Remove(w) \/ SetPasskeyOnly(w)
    \/ RequestReset(w) \/ Settle(w) \/ Erase(w)

Next ==
    \/ \E r \in Requests : Begin(r)
    \/ BeginSettle \/ BeginErase
    \/ \E w \in Workers : Step(w)
    \/ Tick

Spec == Init /\ [][Next]_vars

-----------------------------------------------------------------------------
(* What the code promises. *)

\* What is stored is well formed; no code or reset comes from a clock ahead.
TypeOK ==
    /\ time \in Times
    /\ key \in [Keys -> Key]
    /\ only \in BOOLEAN /\ signedIn \in BOOLEAN /\ gone \in BOOLEAN
    /\ codes \in Seq(Code) /\ Len(codes) <= MaxCodes
    /\ reset \in Reset \union {NoReset}
    /\ req \in [Workers -> Request \union {Idle}]

Ends(w) == HoldsAll(w) /\ req'[w] = Idle
Added == {k \in Keys : key[k].state = "new" /\ key'[k].state = "held"}
Removed == {k \in Held : key'[k].state = "removed"}
\* A code made for exactly this is spent and, while the account has a passkey,
\* one no message carried.
Allowed(for) ==
    \E i \in DOMAIN codes :
        /\ ~codes[i].spent /\ codes'[i].spent /\ codes[i].for = for
        /\ Held # {} => codes[i].by = "passkey"

ChangeIsAllowed ==
    /\ Added # {} => Allowed(<<"add">>)
    /\ \A k \in Removed : Allowed(<<"remove", k>>)
    /\ only' # only =>
          \/ Allowed(<<"only", IF only' THEN "on" ELSE "off">>)
          \/ ~only' /\ Held' = {} /\ \E k \in Keys : Allowed(<<"remove", k>>)

\* Whatever requests race, each change of the keys or of passkey-only sign-in
\* spends a code for exactly that change, or for removing a key of an account
\* that is left with none; only a reset and the erasure change them without.
ChangesAreAllowed == [][~Ends(Settler) /\ ~Ends(Eraser) => ChangeIsAllowed]_vars

\* Of the keys the job found when it locked them, a reset never removes one that
\* signed in, or approved a change, since the reset was asked for, not even one
\* that was signing in as the job ran.  (Of a key added after, see NoUsedKeyIsReset.)
UsedKeysSurviveAReset ==
    [][Ends(Settler) =>
         \A k \in Removed \cap req[Settler].rows : key[k].used <= reset.since]_vars

\* Sign-ins, changes and the job wait for each other in a circle in two cases
\* only: the erasure, which holds the account before the keys, is in it; or a
\* key is being removed that was added after the job locked the keys it found.
OnlyErasureOrALateKeyDeadlocks ==
    \A S \in SUBSET {w \in Workers : Running(w)} : Stuck(S) =>
        \/ Eraser \in S
        \/ Settler \in S /\ \E w \in S :
              req[w].op = "remove" /\ req[w].key \notin req[Settler].rows

\* Nothing of an erased account can sign in or be reset, whatever was under
\* way when it was erased.
ErasedStaysErased ==
    gone => Held = {} /\ ~signedIn /\ ~only /\ reset = NoReset

\* What is stored is well formed, before an erasure and for ever after one.
KeysAreInOrder == TypeOK /\ ErasedStaysErased

(* What the documents say and the code does not keep. *)

\* "Removing the last also turns passkey-only sign-in off, since nothing could
\* sign in then."
PasskeyOnlyHasAPasskey == only => Held # {}

\* "Every key locked before asking whether one signed in: a sign-in under way
\* holds its key's lock, so it finishes, and is counted, first."
NoUsedKeyIsReset ==
    [][Ends(Settler) => \A k \in Removed : key[k].used <= reset.since]_vars

\* "any passkey sign-in before then cancels it"
AnySignInCancelsTheReset ==
    [][(Ends(Settler) /\ Removed # {}) =>
         \A k \in Keys : ~(reset.since < key[k].used /\ key[k].used < reset.due)]_vars
=============================================================================
