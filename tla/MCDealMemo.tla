----------------------------- MODULE MCDealMemo -----------------------------
(* DealMemo on a small instance: a behaviour is about the terms or about the *)
(* work, as it chose at its start.                                           *)
EXTENDS DealMemo, TLC

VARIABLE scenario

TwoFees == {1, 2}
SomeDueDays == {NoDay, 1}
RequestsAlike == Permutations(Requests)

\* The memo is written, sent, answered and changed, and no work handed in.
WritesTerms ==
    /\ today' <= 1
    /\ \A r \in Requests : req'[r] # Idle => req'[r].op # "submit"

\* The terms stand: proofs are submitted and answered, by the clock as well.
DoesWork == memo'.terms = memo.terms /\ memo'.revisions = memo.revisions
          /\ \A r \in Requests : req'[r] # Idle =>
                req'[r].op \notin {"update", "request_change"}

MCInit ==
    /\ Init
    /\ scenario \in {"terms", "work"}
    /\ scenario = "work" => memo.terms = [fee |-> 1, due |-> NoDay] /\ memo.revisions = 0
MCNext ==
    /\ Next /\ UNCHANGED scenario
    /\ scenario = "terms" => WritesTerms
    /\ scenario = "work" => DoesWork
MCSpec == MCInit /\ [][MCNext]_<<vars, scenario>>
=============================================================================
