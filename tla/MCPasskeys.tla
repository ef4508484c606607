----------------------------- MODULE MCPasskeys -----------------------------
(* Passkeys on a small instance: what a behaviour is about is chosen at its   *)
(* start, so that each question meets the bounds it needs.                    *)
EXTENDS Passkeys, TLC

VARIABLE scenario

Asked(ops) == {req'[w].op : w \in Workers} \subseteq ops \union {"idle"}

\* Sign-ins while a reset waits, is asked for again, and is made.
Resets == Asked({"sign_in", "reset", "settle"})
\* A key that stops a reset is removed before the job has seen it.
KeysRemoved ==
    /\ Asked({"grant", "remove", "reset", "settle"})
    /\ Cardinality({r \in Requests : req'[r] # Idle}) <= 1
    /\ Len(codes') <= 1
\* Every change of an account whose keys come and go.
ChangesRace ==
    /\ Asked({"grant", "ask_code", "add", "remove", "only"})
    /\ time' <= 1 /\ Len(codes') <= 2
\* The erasure among sign-ins, a first key and a reset being made, one
\* request at a time.
Leaving ==
    /\ Asked({"sign_in", "ask_code", "add", "reset", "settle", "erase"})
    /\ Cardinality({r \in Requests : req'[r] # Idle}) <= 1
    /\ Len(codes') <= 1

\* A reset waits; its key is removed, and while the job settles it another key
\* is added and used or removed, one request at a time.
LateKey ==
    /\ Asked({"grant", "ask_code", "add", "remove", "reset", "settle", "sign_in"})
    /\ Cardinality({r \in Requests : req'[r] # Idle}) <= 1
    /\ time < MaxTime => Asked({"reset"})
    /\ reset' # NoReset => reset'.since = 1
    /\ \A i \in DOMAIN codes' : codes'[i].for[1] = (IF i = 2 THEN "add" ELSE "remove")
    /\ \A r \in Requests : req'[r] # Idle /\ req'[r].op \in {"grant", "ask_code"} =>
          req'[r].for[1] = (IF Len(codes) = 1 THEN "add" ELSE "remove")
    /\ Cardinality({k \in Keys : key'[k].state = "held"}) <= 1
\* The last key is removed twice while passkey-only sign-in is set.
RemovedTwice ==
    /\ Asked({"grant", "remove", "only"})
    /\ time' <= 1 /\ Cardinality({k \in Keys : key'[k].state = "new"}) > 0

MCInit == Init /\ scenario \in {"resets", "keys removed", "changes", "removed twice", "leaving", "late key"}
MCNext ==
    /\ Next /\ UNCHANGED scenario
    /\ scenario = "resets" => Resets
    /\ scenario = "keys removed" => KeysRemoved
    /\ scenario = "changes" => ChangesRace
    /\ scenario = "removed twice" => RemovedTwice
    /\ scenario = "leaving" => Leaving
    /\ scenario = "late key" => LateKey
MCSpec == MCInit /\ [][MCNext]_<<vars, scenario>>

Alike == Permutations(Requests) \union Permutations(Keys)
=============================================================================
