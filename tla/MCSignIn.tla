------------------------------- MODULE MCSignIn -------------------------------
(* Numbers, accounts and sessions on a small instance: what a behaviour is    *)
(* about is chosen at its start, with the account it starts from.             *)
EXTENDS SignIn

VARIABLE scenario

Scenarios == {"sessions", "codes", "off", "onto", "leaving"}

\* Number 1 logged in as a brand a while ago; in some behaviours the next
\* codes have just been sent.
LoggedIn ==
    /\ acct = [a \in Accounts |->
                 IF a = 1 THEN [NoAccount EXCEPT !.phone = 1, !.role = "brand"] ELSE NoAccount]
    /\ family = [f \in Families |->
                   IF f = 1 THEN [of |-> 1, on |-> 1, since |-> 1,
                                  rows |-> <<[used |-> FALSE, revoked |-> FALSE]>>]
                   ELSE NoLogin]
    /\ sent = [p \in Phones |->
                 (IF p = 1 THEN <<[NewCode(1) EXCEPT !.spent = TRUE]>> ELSE <<>>)
                 \o (IF <<scenario, p>> \in {<<"leaving", 1>>, <<"off", 1>>, <<"off", 2>>}
                     THEN <<NewCode(2)>> ELSE <<>>)]
StepUpFor(for) == <<[for |-> for, to |-> 1] @@ NewCode(2)>>

MCInit ==
    /\ scenario \in Scenarios
    /\ time = 2
    /\ LoggedIn
    /\ stepUp = [a \in Accounts |->
                   IF a # 1 THEN <<>>
                   ELSE CASE scenario \in {"off", "onto"} -> StepUpFor(<<"move", 2>>)
                          [] scenario = "leaving" -> StepUpFor(<<"delete">>)
                          [] OTHER -> <<>>]
    /\ change = [a \in Accounts |-> NoChange]
    /\ ended = {}
    /\ req = [r \in Requests |-> Idle]

\* Logins, refreshes, logouts and a suspension at once.
Sessions(r) ==
    /\ acct[2] = NoAccount
    /\ BeginOnNumber(r) \/ BeginSession(r) \/ BeginWithout(r)
    /\ req'[r].to # 2

\* Codes asked for and guessed at, from the login page and from a session.
Codes(r) ==
    /\ BeginOnNumber(r) \/ BeginSignedIn(r)
    /\ req'[r].op \in {"code", "login", "step_up", "everywhere"}
    /\ req'[r].to # 2 /\ req'[r].for = <<"everywhere">>
    /\ req'[r].op = "login" => family[2] = NoLogin /\ req'[r].role = "brand"

\* The codes are at hand.
RightCodes(q) ==
    /\ q.op = "login" => q.code # 0
    /\ q.op = "delete" => q.code # 0
    /\ q.op = "claim" => q.newCode # 0 /\ (q.lost \/ q.code # 0)

\* Number 1 moves to number 2, asked for with and without number 1, which
\* both its sides log in with.
MovesOff(r) ==
    /\ BeginOnNumber(r) \/ BeginSignedIn(r) \/ BeginWithout(r)
    /\ req'[r].op \in {"login", "claim", "cancel", "make"}
    /\ RightCodes(req'[r])
    /\ req'[r].op = "login" => family[2] = NoLogin /\ req'[r].to = 1
    /\ req'[r].op = "claim" => req'[r].to = 2

\* Number 2 logs in while number 1 moves there.
MovesOnto(r) ==
    /\ BeginOnNumber(r) \/ BeginSignedIn(r) \/ BeginWithout(r)
    /\ req'[r].op \in {"code", "login", "claim", "make"}
    /\ RightCodes(req'[r])
    /\ req'[r].op \in {"code", "login", "claim"} => req'[r].to = 2
    /\ req'[r].op = "login" => req'[r].role = "creator"
    /\ req'[r].op = "claim" => ~req'[r].lost

\* An account leaves while its number logs in.
Leaves(r) ==
    /\ BeginOnNumber(r) \/ BeginSession(r) \/ BeginSignedIn(r) \/ BeginWithout(r)
    /\ req'[r].op \in {"login", "delete", "keep", "erase", "refresh"}
    /\ RightCodes(req'[r]) /\ req'[r].to # 2

MCNext ==
    /\ \/ \E r \in Requests :
             \/ scenario = "sessions" /\ Sessions(r)
             \/ scenario = "codes" /\ Codes(r)
             \/ scenario = "off" /\ MovesOff(r)
             \/ scenario = "onto" /\ MovesOnto(r)
             \/ scenario = "leaving" /\ Leaves(r)
             \/ Served(r)
       \/ scenario # "sessions" /\ (scenario = "codes" => time <= 2) /\ Tick
    /\ UNCHANGED scenario
MCSpec == MCInit /\ [][MCNext]_<<vars, scenario>>

Alike == Permutations(Requests)
Limits == {<<1, 2>>}
=============================================================================
