--------------------------- MODULE MCContentReview ---------------------------
(* ContentReview on a small instance: what a behaviour is about is chosen at  *)
(* its start, so that each question meets the bounds it needs.                *)
EXTENDS ContentReview, TLC

VARIABLE scenario

Asked == {req'[r].op : r \in Requests} \ {"idle"}
ImagesAsked == Cardinality({f \in Images : file'[f] # NoFile})
AtOnce(requests, workers) ==
    /\ Cardinality({r \in Requests : req'[r] # Idle}) <= requests
    /\ Cardinality({w \in Workers : job'[w] # Free}) <= workers

\* Three drafts without images, until the proof or the brand's cancellation.
Rounds3 == ImagesAsked = 0 /\ Asked \subseteq Ops \ {"upload", "withdraw"}
\* Two images on a draft or on its proof, two workers, one midnight.
TwoImages ==
    /\ Asked \subseteq {"upload", "show", "approve", "request_changes", "proof"}
    /\ AtOnce(1, 2) /\ Len(drafts') <= 1 /\ today' <= 1
\* The clock of drafts whose image is cleaned late or never.
LateImage ==
    /\ Asked \subseteq {"upload", "show", "read", "request_changes", "withdraw"}
    /\ ImagesAsked <= 1 /\ AtOnce(1, 1) /\ Len(drafts') <= 2 /\ today' <= 2

MCInit == Init /\ scenario \in {"rounds", "images", "late image"}
MCNext ==
    /\ Next /\ UNCHANGED scenario
    /\ scenario = "rounds" => Rounds3
    /\ scenario = "images" => TwoImages
    /\ scenario = "late image" => LateImage
MCSpec == MCInit /\ [][MCNext]_<<vars, scenario>>

Alike == Permutations(Requests) \union Permutations(Workers) \union Permutations(Images)
==============================================================================
