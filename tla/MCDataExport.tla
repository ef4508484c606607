---------------------------- MODULE MCDataExport ----------------------------
(* DataExport on a small instance: what a behaviour is about is chosen at its *)
(* start.  A scenario limits what begins, never what has begun, so that the   *)
(* fairness of the specification means the same in each.                      *)
EXTENDS DataExport

CONSTANTS OneExport, OneJob, OneRequest
VARIABLE scenario

\* What of the exports, runs and requests there is.
Only(exports, jobs, requests) ==
    /\ \A e \in Exports \ exports : row'[e] = Unasked
    /\ \A j \in Jobs \ jobs : job'[j] = Resting
    /\ \A r \in Requests \ requests : req'[r] = Idle
Stays == ~leaving' /\ deals' = deals

\* Runs that overlap build one export while it is asked for and taken.
Building == Only({OneExport}, Jobs, {OneRequest}) /\ Stays /\ faults' = 0
\* Requests at once.
Downloading == Only({OneExport}, {OneJob}, Requests) /\ Stays
\* One export after another.
Following == Only(Exports, {OneJob}, {OneRequest}) /\ Stays /\ faults' = 0
\* The account is deleted meanwhile.
Leaving == Only({OneExport}, {OneJob}, {OneRequest})

MCInit == Init /\ scenario \in {"building", "downloading", "following", "leaving"}
MCNext ==
    /\ Next /\ UNCHANGED scenario
    /\ scenario = "building" => Building
    /\ scenario = "downloading" => Downloading
    /\ scenario = "following" => Following
    /\ scenario = "leaving" => Leaving
MCSpec == MCInit /\ [][MCNext]_<<vars, scenario>> /\ Fairness
=============================================================================
