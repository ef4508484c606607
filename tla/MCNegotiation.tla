---------------------------- MODULE MCNegotiation ----------------------------
(* Negotiation on a small instance: what a behaviour is about is chosen at    *)
(* its start.                                                                 *)
EXTENDS Negotiation, TLC

VARIABLE scenario

RequestsAlike == Permutations(Requests)
AllOps == Ops

Asks(ops, creators) ==
    \A r \in Requests : req'[r] # Idle => req'[r].op \in ops /\ req'[r].creator \in creators

\* From the application or the invitation, over the offers, to the memo, while
\* the creator may leave.
Bargaining ==
    Asks({"apply", "invite", "publish", "create_memo", "shortlist", "accept",
          "accept_invitation", "erase_creator"} \union OfferOps, {Brand, 1})

\* Invitations of two creators race for a place, and with the end of the
\* campaign or of a side.
Inviting ==
    /\ campaign.type = "paid"
    /\ Asks({"invite", "publish", "close", "accept_invitation", "withdraw_invitation",
             "erase_brand", "erase_creator"}, {Brand} \union Creators)

\* The campaign's type is changed while it is published and a deal is made or
\* refused, and the brand may leave.
Patching ==
    Asks({"patch", "publish", "apply", "invite", "shortlist", "accept", "reject",
          "accept_invitation", "create_memo", "erase_brand"}, {Brand, 1})

MCInit == Init /\ scenario \in {"bargaining", "inviting", "patching"}
MCNext ==
    /\ Next /\ UNCHANGED scenario
    /\ scenario = "bargaining" => Bargaining
    /\ scenario = "inviting" => Inviting
    /\ scenario = "patching" => Patching
MCSpec == MCInit /\ [][MCNext]_<<vars, scenario>>
==============================================================================
