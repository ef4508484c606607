-------------------------- MODULE NegotiationProofs --------------------------
(* What is proved of a negotiation, for every number of creators and of       *)
(* requests and for every limit: its offers read as one negotiation, a memo   *)
(* comes from what was agreed, whoever left is left alone, no more            *)
(* invitations wait than may, and only an invitation or the erasure of a      *)
(* brand is ever in a circle of waiting requests.                             *)
EXTENDS Negotiation, FiniteSetTheorems, SequenceTheorems, TLAPS

-----------------------------------------------------------------------------
(* What every request in flight is, holds and has been told.                  *)

\* Each request is one that can be asked.
FitsOp(q) ==
    /\ q.op \notin CampaignOps \union {"erase_brand"} => q.creator \in Creators
    /\ q.op \in CampaignOps \union {"erase_brand"} => q.creator = Brand
    /\ q.op \in {"invite", "create_memo", "erase_brand"} \union CampaignOps => q.side = "brand"
    /\ q.op \in {"apply", "erase_creator"} => q.side = "creator"
    /\ q.op \in MoveOps => q.side = Move[q.op].actor
    /\ q.op = "invite" => q.with \in {"nothing", "deal_with_fee", "deal_without_fee"}
    /\ q.op = "patch" => q.with \in CampaignTypes
    /\ q.step <= Len(LockOrder(q)) + 1

AllFit == \A r \in Requests : Running(r) => FitsOp(req[r])

\* No two requests hold what only one may.
Exclusive ==
    \A r, s \in Requests : r # s =>
        \A a \in Held(r), b \in Held(s) : ~Conflict(a, b)

Invited == {c \in Creators : app[c].status = "invited"}

\* A move that has been checked may still be made.
MoveStands(q) ==
    LET c == q.creator
        to == Move[q.op].to
    IN  /\ app[c].status \in Waiting
        /\ to \in ApplicationMoves[Move[q.op].actor][app[c].status]
        /\ to = "accepted" => OpenOffers(c) = {}

OfferStands(q) ==
    LET c == q.creator
        list == offers[c]
    IN  /\ q.op = "make_offer" =>
             app[c].status \in Waiting /\ c \notin gone /\ MayMake(list, q.side)
        /\ q.op \in {"accept_offer", "decline_offer"} => MayAnswer(list[q.nth], q.side)
        /\ q.op = "withdraw_offer" => MayWithdraw(list[q.nth], q.side)

\* What a request was told as it locked is still so.
Told(q) ==
    /\ q.op = "apply" /\ q.step > 1 => app[q.creator] = NoRow
    /\ q.op = "invite" =>
          /\ q.step > 1 => campaign.status = "open"
          /\ q.step > 2 => q.creator \notin gone
                           /\ Cardinality(Invited) < MaxWaitingInvitations
          /\ q.step > 3 => app[q.creator] = NoRow
    /\ q.op \in MoveOps /\ q.step > 1 => MoveStands(q)
    /\ q.op \in AnswerOps => q.nth \in DOMAIN offers[q.creator]
    /\ q.op \in OfferOps /\ q.step > 1 => OfferStands(q)
    /\ q.op = "create_memo" /\ q.step > 1 =>
          /\ app[q.creator].status = "accepted" /\ q.creator \notin gone
          /\ memo[q.creator] = NoMemo
    /\ q.op \in DOMAIN CampaignMove /\ q.step > 1 =>
          CampaignMove[q.op] \in AllowedTransitions[campaign.status]

ToldStands == \A r \in Requests : Running(r) => Told(req[r])

NegInv ==
    /\ TypeOK /\ AllFit /\ Exclusive /\ ToldStands
    /\ OffersTellOneNegotiation /\ MemoComesFromTheDeal /\ WhoLeftIsLeftAlone
    /\ WaitingInvitationsAreFew

-----------------------------------------------------------------------------
(* Operations and what may be asked.                                          *)

LEMMA OpSets ==
    /\ MoveOps = {"shortlist", "accept", "reject", "withdraw_invitation", "withdraw",
                  "accept_invitation", "decline_invitation"}
    /\ OfferOps = {"accept_offer", "decline_offer", "withdraw_offer", "make_offer"}
    /\ DOMAIN CampaignMove = {"publish", "close", "cancel"}
    /\ CampaignOps = {"publish", "close", "cancel", "patch"}
BY DEF MoveOps, Move, OfferOps, AnswerOps, CampaignMove, CampaignOps

LEMMA AllOps ==
    Ops = {"shortlist", "accept", "reject", "withdraw_invitation", "withdraw",
           "accept_invitation", "decline_invitation",
           "accept_offer", "decline_offer", "withdraw_offer", "make_offer", "create_memo",
           "publish", "close", "cancel", "patch",
           "apply", "invite", "erase_brand", "erase_creator"}
BY OpSets DEF Ops, ApplicationOps

\* No request is nothing.
LEMMA NotIdle == \A q \in Request : q # Idle
<1> SUFFICES ASSUME NEW q \in Request, q = Idle
             PROVE  FALSE
  OBVIOUS
<1>1. q.op # "idle"
  BY AllOps DEF Request
<1> QED
  BY <1>1 DEF Idle

\* Moves are made by this side, and to where.
LEMMA Movers ==
    /\ Move["shortlist"] = [actor |-> "brand", to |-> "shortlisted"]
    /\ Move["accept"] = [actor |-> "brand", to |-> "accepted"]
    /\ Move["reject"] = [actor |-> "brand", to |-> "rejected"]
    /\ Move["withdraw_invitation"] = [actor |-> "brand", to |-> "withdrawn"]
    /\ Move["withdraw"] = [actor |-> "creator", to |-> "withdrawn"]
    /\ Move["accept_invitation"] = [actor |-> "creator", to |-> "accepted"]
    /\ Move["decline_invitation"] = [actor |-> "creator", to |-> "declined"]
BY DEF Move

\* A move leads on or ends the application, and only an invitation is accepted
\* as one.
LEMMA Moves ==
    ASSUME NEW op \in MoveOps, NEW from \in Waiting,
           Move[op].to \in ApplicationMoves[Move[op].actor][from]
    PROVE  /\ Move[op].to \in {"shortlisted"} \union Final
           /\ op = "accept_invitation" => from = "invited" /\ Move[op].to = "accepted"
           /\ Move[op].to = "accepted" => op \in {"accept", "accept_invitation"}
<1>1. op \in {"shortlist", "accept", "reject", "withdraw_invitation", "withdraw",
              "accept_invitation", "decline_invitation"}
  BY OpSets
<1>2. PICK move : move = Move[op]
  OBVIOUS
<1>3. move.to \in {"shortlisted"} \union Final
  BY <1>1, <1>2, Movers DEF Final
<1>4. move.to = "accepted" => op \in {"accept", "accept_invitation"}
  BY <1>1, <1>2, Movers
<1>5. op = "accept_invitation" => move.to = "accepted" /\ move.actor = "creator"
  BY <1>2, Movers
<1>6. op = "accept_invitation" => "accepted" \in ApplicationMoves["creator"][from]
  BY <1>2, <1>5
<1>7. /\ ApplicationMoves["creator"]["submitted"] = {"withdrawn"}
      /\ ApplicationMoves["creator"]["shortlisted"] = {"withdrawn"}
  BY DEF ApplicationMoves
<1>8. op = "accept_invitation" => from = "invited"
  BY <1>6, <1>7 DEF Waiting
<1> QED
  BY <1>2, <1>3, <1>4, <1>5, <1>8

-----------------------------------------------------------------------------
(* Locks.                                                                     *)

\* What a request at this step holds.
HeldOf(q) == {LockOrder(q)[i] : i \in 1..(q.step - 1)}

RowOps == MoveOps \union OfferOps

\* Each operation takes its locks in this order.
LEMMA Orders ==
    ASSUME NEW q \in Request
    PROVE  /\ q.op = "apply" => LockOrder(q) = ApplyLocks(q.creator)
           /\ q.op = "invite" => LockOrder(q) = InviteLocks(q.creator)
           /\ q.op \in RowOps => LockOrder(q) = MoveLocks(q.creator)
           /\ q.op = "create_memo" => LockOrder(q) = <<ApplicationRow(q.creator)>>
           /\ q.op \in CampaignOps => LockOrder(q) = StatusLocks(q.op)
           /\ q.op = "erase_brand" => LockOrder(q) = EraseBrandLocks
           /\ q.op = "erase_creator" => LockOrder(q) = EraseCreatorLocks(q.creator)
BY OpSets, Zenon DEF LockOrder, RowOps

\* A brand's erasure locks its campaign, then every application on it.
LEMMA BrandOrder ==
    /\ Len(EraseBrandLocks) = NCreators + 1
    /\ EraseBrandLocks[1] = CampaignRow("update")
    /\ \A c \in Creators : EraseBrandLocks[c + 1] = ApplicationRow(c)
<1> DEFINE Locks == {CampaignRow("update")} \union {ApplicationRow(c) : c \in Creators}
           first == <<CampaignRow("update")>>
           rest  == [c \in Creators |-> ApplicationRow(c)]
<1>1. first \in Seq(Locks) /\ Len(first) = 1 /\ first[1] = CampaignRow("update")
  OBVIOUS
<1>2. rest \in [1..NCreators -> Locks] /\ NCreators \in Nat
  BY NCreatorsAssumption DEF Creators
<1>3. rest \in Seq(Locks) /\ Len(rest) = NCreators
  BY <1>2
<1>4. \A c \in Creators : rest[c] = ApplicationRow(c)
  OBVIOUS
<1>5. EraseBrandLocks = first \o rest
  BY DEF EraseBrandLocks
<1> HIDE DEF first, rest, Locks
<1>6. /\ Len(EraseBrandLocks) = NCreators + 1
      /\ \A i \in 1..NCreators + 1 :
            EraseBrandLocks[i] = IF i <= 1 THEN first[i] ELSE rest[i - 1]
  <2>1. PICK both : both = first \o rest
    OBVIOUS
  <2>2. /\ Len(both) = Len(first) + Len(rest)
        /\ \A i \in 1..Len(first) + Len(rest) :
              both[i] = IF i <= Len(first) THEN first[i] ELSE rest[i - Len(first)]
    BY <1>1, <1>3, <2>1, ConcatProperties
  <2>3. Len(first) + Len(rest) = NCreators + 1
    BY <1>1, <1>2, <1>3
  <2> QED
    BY <1>1, <1>5, <2>1, <2>2, <2>3
<1>7. EraseBrandLocks[1] = first[1]
  BY <1>2, <1>6
<1>8. ASSUME NEW c \in Creators
      PROVE  EraseBrandLocks[c + 1] = rest[c]
  <2>1. c \in Nat /\ c >= 1 /\ c + 1 \in 1..NCreators + 1 /\ ~(c + 1 <= 1) /\ (c + 1) - 1 = c
    BY <1>2 DEF Creators
  <2>2. EraseBrandLocks[c + 1] = rest[(c + 1) - 1]
    BY <1>6, <2>1
  <2> QED
    BY <2>1, <2>2
<1> QED
  BY <1>1, <1>4, <1>6, <1>7, <1>8

\* How many locks each kind takes, and which of them comes when.
LEMMA Chains ==
    ASSUME NEW q \in Request, NEW o, o = LockOrder(q)
    PROVE  /\ q.op = "apply" => Len(o) = 3 /\ o[1] = Row("slot", q.creator, "update")
           /\ q.op = "invite" =>
                /\ Len(o) = 3 /\ o[1] = CampaignRow("update")
                /\ o[2] = Row("creator", q.creator, "share")
                /\ o[3] = Row("slot", q.creator, "update")
           /\ q.op \in RowOps => Len(o) = 2 /\ o[1] = ApplicationRow(q.creator)
           /\ q.op = "create_memo" => Len(o) = 1 /\ o[1] = ApplicationRow(q.creator)
           /\ q.op \in CampaignOps => Len(o) = 1
           /\ q.op \in DOMAIN CampaignMove => o[1] = CampaignRow("update")
           /\ q.op = "erase_brand" =>
                /\ Len(o) = NCreators + 1 /\ o[1] = CampaignRow("update")
                /\ \A c \in Creators : o[c + 1] = ApplicationRow(c)
           /\ q.op = "erase_creator" =>
                /\ Len(o) = 2 /\ o[1] = Row("creator", q.creator, "update")
                /\ o[2] = ApplicationRow(q.creator)
<1>1. q.op = "apply" => o = <<Row("slot", q.creator, "update"), CampaignRow("key_share"),
                              Row("creator", q.creator, "key_share")>>
  BY Orders DEF ApplyLocks
<1>2. q.op = "invite" => o = <<CampaignRow("update"), Row("creator", q.creator, "share"),
                               Row("slot", q.creator, "update")>>
  BY Orders DEF InviteLocks
<1>3. q.op \in RowOps => o = <<ApplicationRow(q.creator), CampaignRow("key_share")>>
  BY Orders DEF MoveLocks
<1>4. q.op = "create_memo" => o = <<ApplicationRow(q.creator)>>
  BY Orders
<1>5. q.op \in CampaignOps =>
        o = <<CampaignRow(IF q.op = "patch" THEN "no_key_update" ELSE "update")>>
  BY Orders DEF StatusLocks
<1>6. q.op = "erase_brand" => o = EraseBrandLocks
  BY Orders
<1>7. q.op = "erase_creator" =>
        o = <<Row("creator", q.creator, "update"), ApplicationRow(q.creator)>>
  BY Orders DEF EraseCreatorLocks
<1>8. q.op = "apply" => Len(o) = 3 /\ o[1] = Row("slot", q.creator, "update")
  BY <1>1
<1>9. q.op = "invite" =>
        /\ Len(o) = 3 /\ o[1] = CampaignRow("update")
        /\ o[2] = Row("creator", q.creator, "share")
        /\ o[3] = Row("slot", q.creator, "update")
  BY <1>2
<1>10. q.op \in RowOps => Len(o) = 2 /\ o[1] = ApplicationRow(q.creator)
  BY <1>3
<1>11. q.op = "create_memo" => Len(o) = 1 /\ o[1] = ApplicationRow(q.creator)
  BY <1>4
<1>12. q.op \in CampaignOps =>
         Len(o) = 1 /\ o[1] = CampaignRow(IF q.op = "patch" THEN "no_key_update" ELSE "update")
  BY <1>5
<1>13. q.op \in DOMAIN CampaignMove => q.op \in CampaignOps /\ q.op # "patch"
  BY OpSets
<1>14. q.op \in DOMAIN CampaignMove => o[1] = CampaignRow("update")
  BY <1>12, <1>13
<1>15. q.op = "erase_creator" =>
         /\ Len(o) = 2 /\ o[1] = Row("creator", q.creator, "update")
         /\ o[2] = ApplicationRow(q.creator)
  BY <1>7
<1>16. q.op = "erase_brand" =>
         /\ Len(o) = NCreators + 1 /\ o[1] = CampaignRow("update")
         /\ \A c \in Creators : o[c + 1] = ApplicationRow(c)
  BY <1>6, BrandOrder
<1> QED
  BY <1>8, <1>9, <1>10, <1>11, <1>12, <1>14, <1>15, <1>16

\* The locks that keep others out: an application's row, the place of a
\* creator on the campaign, the campaign, a creator's own row.
OnApplication(q, c) ==
    \/ q.op \in RowOps \union {"create_memo"} /\ q.creator = c /\ q.step > 1
    \/ q.op = "erase_creator" /\ q.creator = c /\ q.step > 2
    \/ q.op = "erase_brand" /\ c \in Creators /\ q.step > NCreators + 1
OnSlot(q, c) ==
    /\ q.creator = c
    /\ \/ q.op = "apply" /\ q.step > 1
       \/ q.op = "invite" /\ q.step > 3
OnCampaign(q) ==
    q.op \in DOMAIN CampaignMove \union {"invite", "erase_brand"} /\ q.step > 1

LEMMA Holding ==
    ASSUME NEW q \in Request
    PROVE  /\ \A c : OnApplication(q, c) => ApplicationRow(c) \in HeldOf(q)
           /\ \A c : OnSlot(q, c) => Row("slot", c, "update") \in HeldOf(q)
           /\ OnCampaign(q) => CampaignRow("update") \in HeldOf(q)
           /\ q.op = "invite" /\ q.step > 2 => Row("creator", q.creator, "share") \in HeldOf(q)
           /\ q.op = "erase_creator" /\ q.step > 1 =>
                Row("creator", q.creator, "update") \in HeldOf(q)
<1>1. q.step \in Nat /\ NCreators \in Nat
  BY NCreatorsAssumption DEF Request
<1>2. PICK o : o = LockOrder(q)
  OBVIOUS
<1>3. \A i \in Nat : i >= 1 /\ q.step > i => o[i] \in HeldOf(q)
  BY <1>1, <1>2 DEF HeldOf
<1>4. /\ q.step > 1 => o[1] \in HeldOf(q)
      /\ q.step > 2 => o[2] \in HeldOf(q)
      /\ q.step > 3 => o[3] \in HeldOf(q)
  BY <1>1, <1>3
<1>5. ASSUME NEW c \in Creators, q.step > NCreators + 1
      PROVE  o[c + 1] \in HeldOf(q)
  <2>1. c + 1 \in Nat /\ c + 1 >= 1 /\ q.step > c + 1
    BY <1>1, <1>5 DEF Creators
  <2> QED
    BY <1>3, <2>1
<1>6. ASSUME NEW c, OnApplication(q, c)
      PROVE  ApplicationRow(c) \in HeldOf(q)
  <2>1. CASE q.op \in RowOps /\ q.creator = c /\ q.step > 1
    BY <1>2, <1>4, <2>1, Chains
  <2>2. CASE q.op = "create_memo" /\ q.creator = c /\ q.step > 1
    BY <1>2, <1>4, <2>2, Chains
  <2>3. CASE q.op = "erase_creator" /\ q.creator = c /\ q.step > 2
    BY <1>2, <1>4, <2>3, Chains
  <2>4. CASE q.op = "erase_brand" /\ c \in Creators /\ q.step > NCreators + 1
    <3>1. o[c + 1] = ApplicationRow(c)
      BY <1>2, <2>4, Chains
    <3> QED
      BY <1>5, <2>4, <3>1
  <2> QED
    BY <1>6, <2>1, <2>2, <2>3, <2>4 DEF OnApplication
<1>7. ASSUME NEW c, OnSlot(q, c)
      PROVE  Row("slot", c, "update") \in HeldOf(q)
  <2>1. CASE q.creator = c /\ q.op = "apply" /\ q.step > 1
    BY <1>2, <1>4, <2>1, Chains
  <2>2. CASE q.creator = c /\ q.op = "invite" /\ q.step > 3
    BY <1>2, <1>4, <2>2, Chains
  <2> QED
    BY <1>7, <2>1, <2>2 DEF OnSlot
<1>8. OnCampaign(q) => CampaignRow("update") \in HeldOf(q)
  <2>1. q.op \in DOMAIN CampaignMove => o[1] = CampaignRow("update")
    BY <1>2, Chains
  <2>2. q.op = "invite" => o[1] = CampaignRow("update")
    BY <1>2, Chains
  <2>3. q.op = "erase_brand" => o[1] = CampaignRow("update")
    BY <1>2, Chains
  <2> QED
    BY <1>4, <2>1, <2>2, <2>3 DEF OnCampaign
<1>9. q.op = "invite" => o[2] = Row("creator", q.creator, "share")
  BY <1>2, Chains
<1>10. q.op = "erase_creator" => o[1] = Row("creator", q.creator, "update")
  BY <1>2, Chains
<1> QED
  BY <1>4, <1>6, <1>7, <1>8, <1>9, <1>10

-----------------------------------------------------------------------------
(* Requests in flight.                                                        *)

\* What is asked is a request at its first lock, that can be asked.
LEMMA Asking ==
    ASSUME NEW op \in Ops
    PROVE  /\ op = "apply" => Asked(op) = [op : {op}, creator : Creators, side : {"creator"},
                                          nth : {0}, with : {"nothing"}, step : {1}]
           /\ op = "invite" =>
                Asked(op) = [op : {op}, creator : Creators, side : {"brand"}, nth : {0},
                             with : {"nothing", "deal_with_fee", "deal_without_fee"}, step : {1}]
           /\ op \in MoveOps =>
                Asked(op) = [op : {op}, creator : Creators, side : {Move[op].actor}, nth : {0},
                             with : {"nothing"}, step : {1}]
           /\ op = "make_offer" =>
                Asked(op) = [op : {op}, creator : Creators, side : Sides, nth : {0},
                             with : {"nothing"}, step : {1}]
           /\ op \in AnswerOps =>
                Asked(op) = [op : {op}, creator : Creators, side : Sides,
                             nth : 1..(2 * MaxOffersPerSide), with : {"nothing"}, step : {1}]
           /\ op = "create_memo" =>
                Asked(op) = [op : {op}, creator : Creators, side : {"brand"}, nth : {0},
                             with : {"nothing", "fee"}, step : {1}]
           /\ op = "patch" =>
                Asked(op) = [op : {op}, creator : {Brand}, side : {"brand"}, nth : {0},
                             with : CampaignTypes, step : {1}]
           /\ op \in DOMAIN CampaignMove \union {"erase_brand"} =>
                Asked(op) = [op : {op}, creator : {Brand}, side : {"brand"}, nth : {0},
                             with : {"nothing"}, step : {1}]
           /\ op = "erase_creator" =>
                Asked(op) = [op : {op}, creator : Creators, side : {"creator"}, nth : {0},
                             with : {"nothing"}, step : {1}]
BY OpSets, Zenon DEF Asked, AnswerOps

\* An order is one lock at least, and one for each creator and one more at most.
LEMMA Lengths ==
    ASSUME NEW q \in Request
    PROVE  \E n \in 1..NCreators + 3 : n = Len(LockOrder(q))
<1>1. PICK o : o = LockOrder(q)
  OBVIOUS
<1>2. q.op \in Ops /\ NCreators \in Nat
  BY NCreatorsAssumption DEF Request
<1>3. 1 \in 1..NCreators + 3 /\ 2 \in 1..NCreators + 3 /\ 3 \in 1..NCreators + 3
      /\ NCreators + 1 \in 1..NCreators + 3
  BY <1>2
<1>4. q.op \in {"apply", "invite"} => Len(o) = 3
  BY <1>1, Chains
<1>5. q.op \in RowOps \union {"erase_creator"} => Len(o) = 2
  BY <1>1, Chains
<1>6. q.op \in CampaignOps \union {"create_memo"} => Len(o) = 1
  BY <1>1, Chains
<1>7. q.op = "erase_brand" => Len(o) = NCreators + 1
  BY <1>1, Chains
<1>8. \/ q.op \in {"apply", "invite"} \/ q.op \in RowOps \union {"erase_creator"}
      \/ q.op \in CampaignOps \union {"create_memo"} \/ q.op = "erase_brand"
  BY <1>2, AllOps, OpSets DEF RowOps
<1>9. Len(o) \in 1..NCreators + 3
  BY <1>3, <1>4, <1>5, <1>6, <1>7, <1>8
<1> QED
  BY <1>1, <1>9

LEMMA AskedFits ==
    ASSUME NEW op \in Ops, NEW q \in Asked(op)
    PROVE  /\ q \in Request /\ q.op = op /\ q.step = 1 /\ FitsOp(q)
           /\ op \in AnswerOps => q.nth \in 1..(2 * MaxOffersPerSide)
<1> DEFINE Shape(creators, sides, nths, withs) ==
             [op : {op}, creator : creators, side : sides, nth : nths,
              with : withs, step : {1}]
           Fitting ==
             /\ q \in Request /\ q.op = op /\ q.step = 1
             /\ op \notin CampaignOps \union {"erase_brand"} => q.creator \in Creators
             /\ op \in CampaignOps \union {"erase_brand"} => q.creator = Brand
             /\ op \in {"invite", "create_memo", "erase_brand"} \union CampaignOps =>
                  q.side = "brand"
             /\ op \in {"apply", "erase_creator"} => q.side = "creator"
             /\ op \in MoveOps => q.side = Move[op].actor
             /\ op = "invite" => q.with \in {"nothing", "deal_with_fee", "deal_without_fee"}
             /\ op = "patch" => q.with \in CampaignTypes
             /\ op \in AnswerOps => q.nth \in 1..(2 * MaxOffersPerSide)
<1>1. /\ 0 \in 0..(2 * MaxOffersPerSide)
      /\ \A n \in 1..(2 * MaxOffersPerSide) : n \in 0..(2 * MaxOffersPerSide)
      /\ 1 \in 1..(NCreators + 3)
      /\ Creators \subseteq People /\ Brand \in People
  BY LimitsAssumption, NCreatorsAssumption DEF People
<1>2. ASSUME NEW creators, NEW sides, NEW nths, NEW withs,
             q \in Shape(creators, sides, nths, withs),
             creators \subseteq People, sides \subseteq Sides,
             nths \subseteq 0..(2 * MaxOffersPerSide),
             withs \subseteq {"nothing", "fee", "deal_with_fee", "deal_without_fee",
                              "paid", "barter", "commission", "local_business"}
      PROVE  /\ q \in Request /\ q.op = op /\ q.step = 1
             /\ q.creator \in creators /\ q.side \in sides /\ q.nth \in nths /\ q.with \in withs
  BY <1>1, <1>2 DEF Request
<1> HIDE DEF Shape
<1>3. ASSUME NEW A, NEW S, NEW N, NEW W, Asked(op) = Shape(A, S, N, W)
      PROVE  q \in Shape(A, S, N, W)
  BY <1>3
<1>4. \A m \in MoveOps : Move[m].actor \in Sides
  <2>1. ASSUME NEW m \in MoveOps
        PROVE  Move[m].actor \in Sides
    <3>1. m \in {"shortlist", "accept", "reject", "withdraw_invitation", "withdraw",
                 "accept_invitation", "decline_invitation"}
      BY OpSets
    <3> QED
      BY <3>1, Movers DEF Sides
  <2> QED
    BY <2>1
<1>5. Fitting
  <2>1. CASE op = "apply"
    <3>1. Asked(op) = Shape(Creators, {"creator"}, {0}, {"nothing"})
      BY <2>1, Asking DEF Shape
    <3>2. /\ q \in Request /\ q.op = op /\ q.step = 1
          /\ q.creator \in Creators /\ q.side = "creator"
      BY <1>1, <1>2, <1>3, <3>1 DEF Sides
    <3> QED
      BY <2>1, <3>2, OpSets DEF AnswerOps
  <2>2. CASE op = "invite"
    <3>1. Asked(op) = Shape(Creators, {"brand"}, {0},
                            {"nothing", "deal_with_fee", "deal_without_fee"})
      BY <2>2, Asking DEF Shape
    <3>2. /\ q \in Request /\ q.op = op /\ q.step = 1
          /\ q.creator \in Creators /\ q.side = "brand"
          /\ q.with \in {"nothing", "deal_with_fee", "deal_without_fee"}
      BY <1>1, <1>2, <1>3, <3>1 DEF Sides
    <3> QED
      BY <2>2, <3>2, OpSets DEF AnswerOps
  <2>3. CASE op \in MoveOps
    <3>1. Asked(op) = Shape(Creators, {Move[op].actor}, {0}, {"nothing"})
      BY <2>3, Asking DEF Shape
    <3>2. /\ q \in Request /\ q.op = op /\ q.step = 1
          /\ q.creator \in Creators /\ q.side = Move[op].actor
      BY <1>1, <1>2, <1>3, <1>4, <2>3, <3>1
    <3> QED
      BY <2>3, <3>2, OpSets DEF AnswerOps
  <2>4. CASE op = "make_offer"
    <3>1. Asked(op) = Shape(Creators, Sides, {0}, {"nothing"})
      BY <2>4, Asking DEF Shape
    <3>2. q \in Request /\ q.op = op /\ q.step = 1 /\ q.creator \in Creators
      BY <1>1, <1>2, <1>3, <3>1
    <3> QED
      BY <2>4, <3>2, OpSets DEF AnswerOps
  <2>5. CASE op \in AnswerOps
    <3>1. Asked(op) = Shape(Creators, Sides, 1..(2 * MaxOffersPerSide), {"nothing"})
      BY <2>5, Asking DEF Shape
    <3>2. /\ q \in Request /\ q.op = op /\ q.step = 1 /\ q.creator \in Creators
          /\ q.nth \in 1..(2 * MaxOffersPerSide)
      BY <1>1, <1>2, <1>3, <3>1
    <3> QED
      BY <2>5, <3>2, OpSets DEF AnswerOps
  <2>6. CASE op = "create_memo"
    <3>1. Asked(op) = Shape(Creators, {"brand"}, {0}, {"nothing", "fee"})
      BY <2>6, Asking DEF Shape
    <3>2. /\ q \in Request /\ q.op = op /\ q.step = 1
          /\ q.creator \in Creators /\ q.side = "brand"
      BY <1>1, <1>2, <1>3, <3>1 DEF Sides
    <3> QED
      BY <2>6, <3>2, OpSets DEF AnswerOps
  <2>7. CASE op = "patch"
    <3>1. Asked(op) = Shape({Brand}, {"brand"}, {0}, CampaignTypes)
      BY <2>7, Asking DEF Shape
    <3>2. /\ q \in Request /\ q.op = op /\ q.step = 1
          /\ q.creator = Brand /\ q.side = "brand" /\ q.with \in CampaignTypes
      <4>1. /\ q.op = op /\ q.creator = Brand /\ q.side = "brand" /\ q.nth = 0
            /\ q.with \in CampaignTypes /\ q.step = 1
            /\ q = [op |-> q.op, creator |-> q.creator, side |-> q.side, nth |-> q.nth,
                    with |-> q.with, step |-> q.step]
        BY <3>1 DEF Shape
      <4>2. /\ q.with \in {"nothing", "fee", "deal_with_fee", "deal_without_fee",
                           "paid", "barter", "commission", "local_business"}
            /\ q.op \in Ops /\ q.creator \in People /\ q.side \in Sides
            /\ q.nth \in 0..(2 * MaxOffersPerSide) /\ q.step \in 1..(NCreators + 3)
        BY <1>1, <4>1, CampaignTypesAssumption DEF Sides
      <4>3. q \in Request
        BY <4>1, <4>2 DEF Request
      <4> QED
        BY <4>1, <4>3
    <3> QED
      BY <2>7, <3>2, OpSets DEF AnswerOps
  <2>8. CASE op \in DOMAIN CampaignMove \union {"erase_brand"}
    <3>1. Asked(op) = Shape({Brand}, {"brand"}, {0}, {"nothing"})
      BY <2>8, Asking DEF Shape
    <3>2. /\ q \in Request /\ q.op = op /\ q.step = 1
          /\ q.creator = Brand /\ q.side = "brand"
      BY <1>1, <1>2, <1>3, <3>1 DEF Sides
    <3> QED
      BY <2>8, <3>2, OpSets DEF AnswerOps
  <2>9. CASE op = "erase_creator"
    <3>1. Asked(op) = Shape(Creators, {"creator"}, {0}, {"nothing"})
      BY <2>9, Asking DEF Shape
    <3>2. /\ q \in Request /\ q.op = op /\ q.step = 1
          /\ q.creator \in Creators /\ q.side = "creator"
      BY <1>1, <1>2, <1>3, <3>1 DEF Sides
    <3> QED
      BY <2>9, <3>2, OpSets DEF AnswerOps
  <2> QED
    BY <2>1, <2>2, <2>3, <2>4, <2>5, <2>6, <2>7, <2>8, <2>9, AllOps, OpSets DEF AnswerOps
<1>6. q.step <= Len(LockOrder(q)) + 1
  <2>1. PICK n \in 1..NCreators + 3 : n = Len(LockOrder(q))
    BY <1>5, Lengths
  <2>2. n >= 1 /\ n \in Nat
    BY <2>1, NCreatorsAssumption
  <2> QED
    BY <1>5, <2>1, <2>2
<1> QED
  BY <1>5, <1>6 DEF FitsOp

LEMMA Conflicts ==
    /\ \A c : Conflict(ApplicationRow(c), ApplicationRow(c))
    /\ \A c : Conflict(Row("slot", c, "update"), Row("slot", c, "update"))
    /\ \A m \in DOMAIN Strength : Conflict(CampaignRow("update"), CampaignRow(m))
    /\ \A c : Conflict(Row("creator", c, "update"), Row("creator", c, "share"))
    /\ \A a, b : a.mode \in DOMAIN Strength /\ b.mode \in DOMAIN Strength =>
                   (Conflict(a, b) <=> Conflict(b, a))
<1>1. /\ DOMAIN Strength = {"key_share", "share", "no_key_update", "update"}
      /\ Strength["key_share"] = 1 /\ Strength["share"] = 2
      /\ Strength["no_key_update"] = 3 /\ Strength["update"] = 4
  BY DEF Strength
<1>2. \A m \in DOMAIN Strength : Strength[m] \in 1..4
  BY <1>1
<1>3. \A t, c, m : Row(t, c, m).table = t /\ Row(t, c, m).of = c /\ Row(t, c, m).mode = m
  BY DEF Row
<1>4. \A t, c, m : m \in DOMAIN Strength => Conflict(Row(t, c, "update"), Row(t, c, m))
  <2>1. \A m \in DOMAIN Strength : Strength["update"] + Strength[m] > 4
    BY <1>1, <1>2
  <2> QED
    BY <1>3, <2>1 DEF Conflict
<1>5. ASSUME NEW a, NEW b, a.mode \in DOMAIN Strength, b.mode \in DOMAIN Strength
      PROVE  Conflict(a, b) <=> Conflict(b, a)
  <2>1. PICK m, n \in 1..4 : m = Strength[a.mode] /\ n = Strength[b.mode]
    BY <1>2, <1>5
  <2>2. m + n > 4 <=> n + m > 4
    OBVIOUS
  <2> QED
    BY <2>1, <2>2 DEF Conflict
<1> QED
  BY <1>1, <1>4, <1>5 DEF ApplicationRow, CampaignRow

\* A request in flight is well formed, and holds what its step says.
LEMMA InFlight ==
    ASSUME TypeOK, NEW r \in Requests, Running(r)
    PROVE  req[r] \in Request /\ Held(r) = HeldOf(req[r])
BY DEF TypeOK, Running, Held, HeldOf, Order

\* Two in flight do not both hold what keeps others out.
LEMMA Alone ==
    ASSUME NegInv, NEW r \in Requests, NEW s \in Requests, r # s, Running(r), Running(s)
    PROVE  /\ \A c : ~(OnApplication(req[r], c) /\ OnApplication(req[s], c))
           /\ \A c : ~(OnSlot(req[r], c) /\ OnSlot(req[s], c))
           /\ ~(OnCampaign(req[r]) /\ OnCampaign(req[s]))
           /\ req[r].op = "erase_creator" /\ req[r].step > 1 =>
                ~(/\ req[s].op = "invite" /\ req[s].step > 2
                  /\ req[s].creator = req[r].creator)
<1>1. PICK p \in Request : p = req[r] /\ Held(r) = HeldOf(p)
  BY InFlight DEF NegInv
<1>2. PICK q \in Request : q = req[s] /\ Held(s) = HeldOf(q)
  BY InFlight DEF NegInv
<1>3. \A a \in HeldOf(p), b \in HeldOf(q) : ~Conflict(a, b)
  BY <1>1, <1>2 DEF NegInv, Exclusive
<1>4. "update" \in DOMAIN Strength
  BY DEF Strength
<1>5. \A c : ~(OnApplication(p, c) /\ OnApplication(q, c))
  <2>1. ASSUME NEW c, OnApplication(p, c), OnApplication(q, c)
        PROVE  FALSE
    <3>1. ApplicationRow(c) \in HeldOf(p) /\ ApplicationRow(c) \in HeldOf(q)
      BY <2>1, Holding
    <3> QED
      BY <1>3, <3>1, Conflicts
  <2> QED
    BY <2>1
<1>6. \A c : ~(OnSlot(p, c) /\ OnSlot(q, c))
  <2>1. ASSUME NEW c, OnSlot(p, c), OnSlot(q, c)
        PROVE  FALSE
    <3>1. Row("slot", c, "update") \in HeldOf(p) /\ Row("slot", c, "update") \in HeldOf(q)
      BY <2>1, Holding
    <3> QED
      BY <1>3, <3>1, Conflicts
  <2> QED
    BY <2>1
<1>7. ~(OnCampaign(p) /\ OnCampaign(q))
  BY <1>3, <1>4, Holding, Conflicts
<1>8. p.op = "erase_creator" /\ p.step > 1 =>
        ~(q.op = "invite" /\ q.step > 2 /\ q.creator = p.creator)
  BY <1>3, Holding, Conflicts
<1> QED
  BY <1>1, <1>2, <1>5, <1>6, <1>7, <1>8

\* A request about to commit is past its last lock.
LEMMA Finished ==
    ASSUME NegInv, NEW r \in Requests, Running(r), ~MoreLocks(r)
    PROVE  /\ req[r] \in Request /\ FitsOp(req[r]) /\ Told(req[r])
           /\ req[r].op \in RowOps \union {"create_memo", "apply"} \union CampaignOps =>
                req[r].step > 1
           /\ req[r].op = "invite" => req[r].step > 3
           /\ req[r].op = "erase_creator" => req[r].step > 2
           /\ req[r].op = "erase_brand" => req[r].step > 1 /\ req[r].step > NCreators + 1
<1>1. req[r] \in Request /\ FitsOp(req[r]) /\ Told(req[r])
  BY InFlight DEF NegInv, AllFit, ToldStands
<1>2. PICK q \in Request : q = req[r]
  BY <1>1
<1>3. PICK o : o = LockOrder(q)
  OBVIOUS
<1>4. PICK n \in 1..NCreators + 3 : n = Len(o)
  BY <1>3, Lengths
<1>5. n \in Nat /\ NCreators \in Nat /\ n >= 1
  BY <1>4, NCreatorsAssumption
<1>6. q.step \in 1..(NCreators + 3) /\ ~(q.step <= n)
  BY <1>2, <1>3, <1>4 DEF MoreLocks, Order, Request
<1>7. q.step > n /\ q.step > 1
  BY <1>5, <1>6
<1>8. /\ q.op = "invite" => n = 3
      /\ q.op = "erase_creator" => n = 2
      /\ q.op = "erase_brand" => n = NCreators + 1
  BY <1>3, <1>4, Chains
<1> QED
  BY <1>1, <1>2, <1>5, <1>7, <1>8

-----------------------------------------------------------------------------
(* Beginning, refusing, ending.                                               *)

\* What was told to a request stays so if others keep to this.
Undisturbed(q) ==
    LET c == q.creator IN
    /\ q.op \in RowOps \union {"create_memo"} /\ q.step > 1 =>
          /\ app'[c] = app[c] /\ offers'[c] = offers[c]
          /\ c \in gone' => c \in gone
    /\ q.op = "create_memo" /\ q.step > 1 => memo'[c] = memo[c]
    /\ OnSlot(q, c) => app'[c] = app[c]
    /\ OnCampaign(q) => campaign'.status = campaign.status
    /\ q.op = "invite" /\ q.step > 2 =>
          /\ c \in gone' => c \in gone
          /\ Cardinality(Invited') <= Cardinality(Invited)
    /\ q.op \in AnswerOps => DOMAIN offers[c] \subseteq DOMAIN offers'[c]

LEMMA InvitedFinite == IsFiniteSet(Invited) /\ Cardinality(Invited) \in Nat
<1>1. IsFiniteSet(Creators)
  BY NCreatorsAssumption, FS_Interval DEF Creators
<1>2. Invited \subseteq Creators
  BY DEF Invited
<1> QED
  BY <1>1, <1>2, FS_Subset, FS_CardinalityType

LEMMA ToldKeeps ==
    ASSUME NEW q \in Request, FitsOp(q), Told(q), Undisturbed(q),
           Cardinality(Invited') \in Nat
    PROVE  Told(q)'
<1> DEFINE c == q.creator
<1>1. q.op \in AnswerOps => q.op \in OfferOps
  BY OpSets DEF AnswerOps
<1>2. q.op = "apply" /\ q.step > 1 => app'[c] = NoRow
  BY DEF Undisturbed, Told, OnSlot
<1>3. q.op = "invite" /\ q.step > 1 => campaign'.status = "open"
  BY DEF Undisturbed, Told, OnCampaign
<1>4. q.op = "invite" /\ q.step > 2 =>
        c \notin gone' /\ Cardinality(Invited') < MaxWaitingInvitations
  <2>1. ASSUME q.op = "invite", q.step > 2
        PROVE  c \notin gone' /\ Cardinality(Invited') < MaxWaitingInvitations
    <3>1. PICK m, n \in Nat : m = Cardinality(Invited) /\ n = Cardinality(Invited')
      BY InvitedFinite
    <3>2. m < MaxWaitingInvitations /\ n <= m
      BY <2>1, <3>1 DEF Undisturbed, Told
    <3> QED
      BY <2>1, <3>1, <3>2, LimitsAssumption DEF Undisturbed, Told
  <2> QED
    BY <2>1
<1>5. q.op = "invite" /\ q.step > 3 => app'[c] = NoRow
  BY DEF Undisturbed, Told, OnSlot
<1>6. q.op \in MoveOps /\ q.step > 1 => MoveStands(q)'
  BY DEF Undisturbed, Told, RowOps, MoveStands, OpenOffers
<1>7. q.op \in AnswerOps => q.nth \in DOMAIN offers'[c]
  BY DEF Undisturbed, Told
<1>8. q.op \in OfferOps /\ q.step > 1 => OfferStands(q)'
  BY DEF Undisturbed, Told, RowOps, OfferStands
<1>9. q.op = "create_memo" /\ q.step > 1 =>
        app'[c].status = "accepted" /\ c \notin gone' /\ memo'[c] = NoMemo
  BY DEF Undisturbed, Told
<1>10. q.op \in DOMAIN CampaignMove /\ q.step > 1 =>
         CampaignMove[q.op] \in AllowedTransitions[campaign'.status]
  BY DEF Undisturbed, Told, OnCampaign
<1> QED
  BY <1>2, <1>3, <1>4, <1>5, <1>6, <1>7, <1>8, <1>9, <1>10 DEF Told

\* The requests after a step that changes one of them only.
LEMMA Replaced ==
    ASSUME TypeOK, NEW r \in Requests, NEW q \in Request \union {Idle},
           req' = [req EXCEPT ![r] = q]
    PROVE  /\ req' \in [Requests -> Request \union {Idle}]
           /\ req'[r] = q
           /\ \A s \in Requests \ {r} :
                /\ req'[s] = req[s]
                /\ Running(s)' <=> Running(s)
                /\ Held(s)' = Held(s)
<1>1. req \in [Requests -> Request \union {Idle}]
  BY DEF TypeOK
<1>2. req' \in [Requests -> Request \union {Idle}] /\ req'[r] = q
  BY <1>1
<1>3. \A s \in Requests \ {r} : req'[s] = req[s]
  BY <1>1
<1> QED
  BY <1>2, <1>3 DEF Running, Held, Order

\* A request that ends lets go of what it held; nobody else's story changes.
LEMMA EndKeeps ==
    ASSUME NegInv, NEW r \in Requests, req' = [req EXCEPT ![r] = Idle],
           \A s \in Requests : s # r /\ Running(s) => Undisturbed(req[s])
    PROVE  /\ req' \in [Requests -> Request \union {Idle}]
           /\ AllFit' /\ Exclusive' /\ ToldStands'
<1>1. TypeOK
  BY DEF NegInv
<1>2. /\ req' \in [Requests -> Request \union {Idle}] /\ req'[r] = Idle
      /\ \A s \in Requests \ {r} :
           /\ req'[s] = req[s]
           /\ Running(s)' <=> Running(s)
           /\ Held(s)' = Held(s)
  BY <1>1, Replaced
<1>3. ~Running(r)' /\ Held(r)' = {}
  BY <1>2 DEF Running, Held
<1>4. AllFit'
  BY <1>2, <1>3 DEF NegInv, AllFit
<1>5. Exclusive'
  BY <1>2, <1>3 DEF NegInv, Exclusive
<1>6. Cardinality(Invited') \in Nat
  <2>1. IsFiniteSet(Creators) /\ Invited' \subseteq Creators
    BY NCreatorsAssumption, FS_Interval DEF Creators, Invited
  <2> QED
    BY <2>1, FS_Subset, FS_CardinalityType
<1>7. ToldStands'
  <2>1. ASSUME NEW s \in Requests, Running(s)'
        PROVE  Told(req[s])' 
    <3>1. s # r /\ Running(s) /\ req'[s] = req[s]
      BY <1>2, <1>3, <2>1
    <3>2. PICK q \in Request : q = req[s]
      BY <1>1, <3>1, InFlight
    <3>3. FitsOp(q) /\ Told(q) /\ Undisturbed(q)
      BY <3>1, <3>2 DEF NegInv, AllFit, ToldStands
    <3>4. Told(q)'
      BY <1>6, <3>3, ToldKeeps
    <3> QED
      BY <3>1, <3>2, <3>4
  <2> QED
    BY <2>1 DEF ToldStands
<1> QED
  BY <1>2, <1>4, <1>5, <1>7

\* A step that writes nothing but what is asked.
Unwritten == UNCHANGED <<campaign, app, offers, memo, gone>>

\* What is stored, and whether it is as it should be.
StoredInv ==
    /\ OffersTellOneNegotiation /\ MemoComesFromTheDeal /\ WhoLeftIsLeftAlone
    /\ WaitingInvitationsAreFew
TablesOK ==
    /\ campaign \in Campaign
    /\ app \in [Creators -> Application \union {NoRow}]
    /\ offers \in [Creators -> Seq(Offer)]
    /\ memo \in [Creators -> Memo \union {NoMemo}]
    /\ gone \subseteq People

LEMMA NothingWritten ==
    ASSUME NegInv, Unwritten
    PROVE  /\ TablesOK' /\ StoredInv'
           /\ \A q \in Request : Undisturbed(q)
<1>1. campaign' = campaign /\ app' = app /\ offers' = offers /\ memo' = memo /\ gone' = gone
  BY DEF Unwritten
<1>2. TablesOK'
  BY <1>1 DEF NegInv, TypeOK, TablesOK
<1>3. OffersTellOneNegotiation' /\ MemoComesFromTheDeal'
  BY <1>1 DEF NegInv, OffersTellOneNegotiation, MemoComesFromTheDeal, OpenOffers, AgreedOffers
<1>4. WhoLeftIsLeftAlone'
  BY <1>1 DEF NegInv, WhoLeftIsLeftAlone, OpenOffers
<1>5. Invited' = Invited
  BY <1>1 DEF Invited
<1>6. WaitingInvitationsAreFew'
  BY <1>5 DEF NegInv, WaitingInvitationsAreFew, Invited
<1>7. Cardinality(Invited') <= Cardinality(Invited)
  BY <1>5, InvitedFinite
<1>8. \A q \in Request : Undisturbed(q)
  BY <1>1, <1>7 DEF Undisturbed
<1> QED
  BY <1>2, <1>3, <1>4, <1>6, <1>8 DEF StoredInv

\* The invariant, from its parts.
LEMMA Whole ==
    ASSUME TablesOK', req' \in [Requests -> Request \union {Idle}],
           AllFit', Exclusive', ToldStands', StoredInv'
    PROVE  NegInv'
BY DEF NegInv, TypeOK, TablesOK, StoredInv

\* A request that ends and writes nothing.
LEMMA RefuseKeeps ==
    ASSUME NegInv, NEW r \in Requests, req' = [req EXCEPT ![r] = Idle], Unwritten
    PROVE  NegInv'
<1>1. TablesOK' /\ StoredInv' /\ \A q \in Request : Undisturbed(q)
  BY NothingWritten
<1>2. \A s \in Requests : s # r /\ Running(s) => Undisturbed(req[s])
  BY <1>1, InFlight DEF NegInv
<1>3. req' \in [Requests -> Request \union {Idle}] /\ AllFit' /\ Exclusive' /\ ToldStands'
  BY <1>2, EndKeeps
<1> QED
  BY <1>1, <1>3, Whole

\* What begins holds nothing, and has been told no more than that its offer is there.
LEMMA BeginKeeps ==
    ASSUME NegInv, NEW r \in Requests, Begin(r)
    PROVE  NegInv'
<1>1. TypeOK
  BY DEF NegInv
<1>2. PICK op \in Enabled : \E q \in Asked(op) : ReadFirst(q) /\ req' = [req EXCEPT ![r] = q]
  BY DEF Begin
<1>3. op \in Ops
  BY EnabledAssumption
<1>4. PICK q \in Asked(op) : ReadFirst(q) /\ req' = [req EXCEPT ![r] = q]
  BY <1>2
<1>5. q \in Request /\ q.step = 1 /\ FitsOp(q)
  BY <1>3, AskedFits
<1>6. /\ req' \in [Requests -> Request \union {Idle}] /\ req'[r] = q
      /\ \A s \in Requests \ {r} :
           /\ req'[s] = req[s]
           /\ Running(s)' <=> Running(s)
           /\ Held(s)' = Held(s)
  BY <1>1, <1>4, <1>5, Replaced
<1>7. Unwritten
  BY DEF Begin, Unwritten
<1>8. TablesOK' /\ StoredInv' /\ \A p \in Request : Undisturbed(p)
  BY <1>7, NothingWritten
<1>9. AllFit'
  <2>1. ASSUME NEW s \in Requests, Running(s)'
        PROVE  FitsOp(req'[s])
    <3>1. CASE s = r
      BY <1>5, <1>6, <3>1
    <3>2. CASE s # r
      BY <1>6, <2>1, <3>2 DEF NegInv, AllFit
    <3> QED
      BY <3>1, <3>2
  <2> QED
    BY <2>1 DEF AllFit
<1>10. Held(r)' = {}
  BY <1>5, <1>6, NotIdle DEF Held, Running
<1>11. Exclusive'
  BY <1>6, <1>10 DEF NegInv, Exclusive
<1>12. Cardinality(Invited') \in Nat
  <2>1. Invited' = Invited
    BY <1>7 DEF Unwritten, Invited
  <2> QED
    BY <2>1, InvitedFinite
<1>13. Told(q)'
  <2>1. q.op \in AnswerOps => q.nth \in DOMAIN offers'[q.creator]
    BY <1>4, <1>7 DEF ReadFirst, Unwritten
  <2>2. q.step = 1 /\ ~(q.step > 1) /\ ~(q.step > 2) /\ ~(q.step > 3)
    BY <1>5
  <2> QED
    BY <2>1, <2>2 DEF Told
<1>14. ToldStands'
  <2>1. ASSUME NEW s \in Requests, Running(s)'
        PROVE  Told(req[s])'
    <3>1. CASE s = r
      BY <1>6, <1>13, <3>1 DEF Told, MoveStands, OfferStands
    <3>2. CASE s # r
      <4>1. Running(s) /\ req'[s] = req[s]
        BY <1>6, <2>1, <3>2
      <4>2. PICK p \in Request : p = req[s]
        BY <1>1, <4>1, InFlight
      <4>3. FitsOp(p) /\ Told(p)
        BY <4>1, <4>2 DEF NegInv, AllFit, ToldStands
      <4>4. Told(p)'
        BY <1>8, <1>12, <4>3, ToldKeeps
      <4> QED
        BY <4>1, <4>2, <4>4
    <3> QED
      BY <3>1, <3>2
  <2> QED
    BY <2>1 DEF ToldStands
<1> QED
  BY <1>6, <1>8, <1>9, <1>11, <1>14, Whole

-----------------------------------------------------------------------------
(* Locking.                                                                   *)

\* A request keeps to its order.
LEMMA SameOrder ==
    ASSUME NEW q \in Request, NEW p \in Request, p.op = q.op, p.creator = q.creator
    PROVE  LockOrder(p) = LockOrder(q)
<1>1. q.op \in Ops
  BY DEF Request
<1>2. CASE q.op \in RowOps
  BY <1>2, Orders
<1>3. CASE q.op \in CampaignOps
  BY <1>3, Orders
<1>4. CASE q.op \in {"apply", "invite", "create_memo", "erase_brand", "erase_creator"}
  BY <1>4, Orders
<1> QED
  BY <1>1, <1>2, <1>3, <1>4, AllOps, OpSets DEF RowOps

\* Every lock is in one of PostgreSQL's modes.
LEMMA Modes ==
    ASSUME NEW q \in Request, NEW lock \in HeldOf(q), q.step <= Len(LockOrder(q)) + 1
    PROVE  lock.mode \in DOMAIN Strength
<1>1. \A t, c, m : Row(t, c, m).mode = m
  BY DEF Row
<1>2. DOMAIN Strength = {"key_share", "share", "no_key_update", "update"}
  BY DEF Strength
<1>3. PICK o : o = LockOrder(q)
  OBVIOUS
<1>4. PICK n \in 1..NCreators + 3 : n = Len(o)
  BY <1>3, Lengths
<1>5. PICK i \in 1..(q.step - 1) : lock = o[i]
  BY <1>3 DEF HeldOf
<1>6. i \in 1..n
  <2>1. q.step \in Nat /\ n \in Nat /\ NCreators \in Nat
    BY <1>4, NCreatorsAssumption DEF Request
  <2>2. q.step <= n + 1
    BY <1>3, <1>4
  <2> QED
    BY <1>5, <2>1, <2>2
<1>7. CASE q.op = "apply"
  <2>1. o = <<Row("slot", q.creator, "update"), CampaignRow("key_share"),
              Row("creator", q.creator, "key_share")>>
    BY <1>3, <1>7, Orders DEF ApplyLocks
  <2>2. n = 3
    BY <1>4, <2>1
  <2> QED
    BY <1>1, <1>2, <1>5, <1>6, <2>1, <2>2 DEF CampaignRow
<1>8. CASE q.op = "invite"
  <2>1. o = <<CampaignRow("update"), Row("creator", q.creator, "share"),
              Row("slot", q.creator, "update")>>
    BY <1>3, <1>8, Orders DEF InviteLocks
  <2>2. n = 3
    BY <1>4, <2>1
  <2> QED
    BY <1>1, <1>2, <1>5, <1>6, <2>1, <2>2 DEF CampaignRow
<1>9. CASE q.op \in RowOps
  <2>1. o = <<ApplicationRow(q.creator), CampaignRow("key_share")>>
    BY <1>3, <1>9, Orders DEF MoveLocks
  <2>2. n = 2
    BY <1>4, <2>1
  <2> QED
    BY <1>1, <1>2, <1>5, <1>6, <2>1, <2>2 DEF CampaignRow, ApplicationRow
<1>10. CASE q.op = "create_memo"
  <2>1. o = <<ApplicationRow(q.creator)>>
    BY <1>3, <1>10, Orders
  <2>2. n = 1
    BY <1>4, <2>1
  <2> QED
    BY <1>1, <1>2, <1>5, <1>6, <2>1, <2>2 DEF ApplicationRow
<1>11. CASE q.op \in CampaignOps
  <2>1. o = <<CampaignRow(IF q.op = "patch" THEN "no_key_update" ELSE "update")>>
    BY <1>3, <1>11, Orders DEF StatusLocks
  <2>2. n = 1
    BY <1>4, <2>1
  <2> QED
    BY <1>1, <1>2, <1>5, <1>6, <2>1, <2>2 DEF CampaignRow
<1>12. CASE q.op = "erase_brand"
  <2>1. /\ n = NCreators + 1 /\ o[1] = CampaignRow("update")
        /\ \A c \in Creators : o[c + 1] = ApplicationRow(c)
    BY <1>3, <1>4, <1>12, Chains
  <2>2. i = 1 \/ \E c \in Creators : i = c + 1
    BY <1>6, <2>1, NCreatorsAssumption DEF Creators
  <2> QED
    BY <1>1, <1>2, <1>5, <2>1, <2>2 DEF CampaignRow, ApplicationRow
<1>13. CASE q.op = "erase_creator"
  <2>1. o = <<Row("creator", q.creator, "update"), ApplicationRow(q.creator)>>
    BY <1>3, <1>13, Orders DEF EraseCreatorLocks
  <2>2. n = 2
    BY <1>4, <2>1
  <2> QED
    BY <1>1, <1>2, <1>5, <1>6, <2>1, <2>2 DEF ApplicationRow
<1>14. q.op \in Ops
  BY DEF Request
<1> QED
  BY <1>7, <1>8, <1>9, <1>10, <1>11, <1>12, <1>13, <1>14, AllOps, OpSets DEF RowOps

\* What is checked at a lock is what the request has then been told.
LEMMA Telling ==
    ASSUME TypeOK, NEW q \in Request, FitsOp(q), Told(q), Passes(q), q.step <= Len(LockOrder(q)),
           NEW p \in Request, p = [q EXCEPT !.step = q.step + 1]
    PROVE  Told(p)
<1>1. /\ p.op = q.op /\ p.creator = q.creator /\ p.side = q.side /\ p.nth = q.nth
      /\ p.step = q.step + 1
  BY DEF Request
<1>2. q.step \in Nat /\ q.step >= 1
  BY NCreatorsAssumption DEF Request
<1>3. /\ p.step > 1
      /\ p.step > 2 => q.step = 2 \/ q.step > 2
      /\ p.step > 3 => q.step = 3 \/ q.step > 3
      /\ q.step = 1 \/ q.step > 1
  BY <1>1, <1>2
<1>4. PICK op : op = q.op
  OBVIOUS
<1>5. op = "apply" => app[q.creator] = NoRow
  BY <1>3, <1>4 DEF Passes, Told
<1>6. op = "invite" => campaign.status = "open"
  BY <1>3, <1>4 DEF Passes, PassesInvite, Told
<1>7. op = "invite" /\ p.step > 2 =>
        q.creator \notin gone /\ Cardinality(Invited) < MaxWaitingInvitations
  BY <1>3, <1>4 DEF Passes, PassesInvite, Told, Invited
<1>8. op = "invite" /\ p.step > 3 => app[q.creator] = NoRow
  BY <1>3, <1>4 DEF Passes, PassesInvite, Told
<1>9. op \in MoveOps => MoveStands(p)
  <2>1. op \in MoveOps => MoveStands(q)
    BY <1>3, <1>4 DEF Passes, PassesMove, Told, MoveStands
  <2> QED
    BY <1>1, <1>4, <2>1 DEF MoveStands
<1>10. op \in AnswerOps => p.nth \in DOMAIN offers[p.creator]
  BY <1>1, <1>4 DEF Told
<1>11. op \in OfferOps => OfferStands(p)
  <2>1. op \in OfferOps => OfferStands(q)
    <3>1. op \in OfferOps /\ q.step = 1 => PassesOffer(q)
      BY <1>4 DEF Passes
    <3>2. PassesOffer(q) => OfferStands(q)
      BY <1>4 DEF PassesOffer, OfferStands, Negotiable
    <3>3. op \in OfferOps /\ q.step > 1 => OfferStands(q)
      BY <1>4 DEF Told
    <3> QED
      BY <1>3, <3>1, <3>2, <3>3
  <2> QED
    BY <1>1, <1>4, <2>1 DEF OfferStands
<1>12. op = "create_memo" =>
         /\ app[q.creator].status = "accepted" /\ q.creator \notin gone
         /\ memo[q.creator] = NoMemo
  BY <1>4 DEF Passes, PassesMemo
<1>13. op \in DOMAIN CampaignMove => CampaignMove[op] \in AllowedTransitions[campaign.status]
  BY <1>4 DEF Passes
<1> QED
  BY <1>1, <1>4, <1>5, <1>6, <1>7, <1>8, <1>9, <1>10, <1>11, <1>12, <1>13 DEF Told

\* A lock is only granted when nobody holds one it would conflict with.
LEMMA LockKeeps ==
    ASSUME NegInv, NEW r \in Requests, Lock(r)
    PROVE  NegInv'
<1>1. TypeOK
  BY DEF NegInv
<1>2. /\ Running(r) /\ MoreLocks(r) /\ Passes(req[r])
      /\ \A s \in Requests : ~WaitsFor(r, s)
  BY DEF Lock, MoreLocks, Free
<1>3. PICK q \in Request : q = req[r] /\ Held(r) = HeldOf(q)
  BY <1>1, <1>2, InFlight
<1>4. FitsOp(q) /\ Told(q) /\ Passes(q)
  BY <1>2, <1>3 DEF NegInv, AllFit, ToldStands
<1>5. PICK n \in 1..NCreators + 3 : n = Len(LockOrder(q))
  BY Lengths
<1>6. q.step \in 1..(NCreators + 3) /\ q.step <= Len(LockOrder(q))
  BY <1>2, <1>3 DEF MoreLocks, Order, Request
<1>7. PICK p : p = [q EXCEPT !.step = q.step + 1]
  OBVIOUS
<1>8. p.op = q.op /\ p.creator = q.creator /\ p.side = q.side /\ p.with = q.with /\ p.step = q.step + 1
  BY <1>7 DEF Request
<1>9. CASE ~(q.step + 1 \in 1..(NCreators + 3))
  <2>1. q.op \in Ops
    BY DEF Request
  <2>2. PICK m \in 1..NCreators + 3 : m = q.step
    BY <1>6
  <2>3. m <= n /\ m = NCreators + 3
    BY <1>5, <1>6, <1>9, <2>2, NCreatorsAssumption
  <2>4. n = NCreators + 3
    BY <2>3, NCreatorsAssumption
  <2>5. q.op \in {"apply", "invite"} => n = 3
    BY <1>5, Chains
  <2>6. q.op \in RowOps \union {"erase_creator"} => n = 2
    BY <1>5, Chains
  <2>7. q.op \in CampaignOps \union {"create_memo"} => n = 1
    BY <1>5, Chains
  <2>8. q.op = "erase_brand" => n = NCreators + 1
    BY <1>5, Chains
  <2>9. q.op \in {"apply", "invite"} /\ NCreators = 0
    <3>1. NCreators \in Nat
      BY NCreatorsAssumption
    <3>2. q.op \notin RowOps \union {"erase_creator"}
      BY <2>4, <2>6, <3>1
    <3>3. q.op \notin CampaignOps \union {"create_memo"}
      BY <2>4, <2>7, <3>1
    <3>4. q.op # "erase_brand"
      BY <2>4, <2>8, <3>1
    <3>5. q.op \in {"apply", "invite"}
      BY <2>1, <3>2, <3>3, <3>4, AllOps, OpSets DEF RowOps
    <3> QED
      BY <2>4, <2>5, <3>1, <3>5
  <2>10. q.creator \in Creators
    BY <1>4, <2>9, OpSets DEF FitsOp
  <2> QED
    BY <2>9, <2>10 DEF Creators
<1>10. CASE q.step + 1 \in 1..(NCreators + 3)
  <2>1. p \in Request
    BY <1>7, <1>10 DEF Request
  <2>2. req' = [req EXCEPT ![r] = p]
    BY <1>3, <1>7 DEF Lock
  <2>3. /\ req' \in [Requests -> Request \union {Idle}] /\ req'[r] = p
        /\ \A s \in Requests \ {r} :
             /\ req'[s] = req[s]
             /\ Running(s)' <=> Running(s)
             /\ Held(s)' = Held(s)
    BY <1>1, <2>1, <2>2, Replaced
  <2>4. LockOrder(p) = LockOrder(q)
    BY <1>8, <2>1, SameOrder
  <2>5. p.step <= Len(LockOrder(p)) + 1
    BY <1>5, <1>6, <1>8, <2>4
  <2>6. FitsOp(p)
    BY <1>4, <1>8, <2>5 DEF FitsOp
  <2>7. AllFit'
    <3>1. ASSUME NEW s \in Requests, Running(s)'
          PROVE  FitsOp(req'[s])
      <4>1. CASE s = r
        BY <2>3, <2>6, <4>1
      <4>2. CASE s # r
        BY <2>3, <3>1, <4>2 DEF NegInv, AllFit
      <4> QED
        BY <4>1, <4>2
    <3> QED
      BY <3>1 DEF AllFit
  <2>8. PICK lock : lock = LockOrder(q)[q.step] /\ lock = NextLock(r)
    BY <1>3 DEF NextLock, Order
  <2>9. HeldOf(p) = HeldOf(q) \union {lock}
    <3>1. PICK o : o = LockOrder(q)
      OBVIOUS
    <3>2. PICK m \in 1..(NCreators + 3) : m = q.step /\ p.step = m + 1
      BY <1>6, <1>8
    <3>3. m \in Nat /\ m >= 1
      BY <3>2, NCreatorsAssumption
    <3>4. 1..((m + 1) - 1) = 1..(m - 1) \union {m}
      BY <3>3
    <3>5. HeldOf(p) = {o[i] : i \in 1..((m + 1) - 1)}
      BY <2>4, <3>1, <3>2 DEF HeldOf
    <3>6. HeldOf(q) = {o[i] : i \in 1..(m - 1)}
      BY <3>1, <3>2 DEF HeldOf
    <3>7. lock = o[m]
      BY <2>8, <3>1, <3>2
    <3> QED
      BY <3>4, <3>5, <3>6, <3>7
  <2>10. Held(r)' = Held(r) \union {lock}
    <3>1. Held(r)' = HeldOf(p)
      BY <2>1, <2>3, NotIdle DEF Held, HeldOf, Order, Running
    <3> QED
      BY <1>3, <2>9, <3>1
  <2>11. \A s \in Requests \ {r} : \A b \in Held(s) : ~Conflict(lock, b) /\ ~Conflict(b, lock)
    <3>1. ASSUME NEW s \in Requests \ {r}, NEW b \in Held(s)
          PROVE  ~Conflict(lock, b) /\ ~Conflict(b, lock)
      <4>1. ~Conflict(lock, b)
        BY <1>2, <2>8, <3>1 DEF WaitsFor
      <4>2. Running(s)
        BY <3>1 DEF Held
      <4>3. PICK t \in Request : t = req[s] /\ Held(s) = HeldOf(t)
        BY <1>1, <4>2, InFlight
      <4>4. t.step <= Len(LockOrder(t)) + 1
        BY <4>2, <4>3 DEF NegInv, AllFit, FitsOp
      <4>5. b.mode \in DOMAIN Strength
        BY <4>3, <4>4, Modes
      <4>6. lock.mode \in DOMAIN Strength
        <5>1. lock \in HeldOf(p)
          BY <2>9
        <5> QED
          BY <2>1, <2>5, <5>1, Modes
      <4> QED
        BY <4>1, <4>5, <4>6, Conflicts
    <3> QED
      BY <3>1
  <2>12. Exclusive'
    <3>1. ASSUME NEW s \in Requests, NEW t \in Requests, s # t,
                 NEW a \in Held(s)', NEW b \in Held(t)'
          PROVE  ~Conflict(a, b)
      <4>1. CASE s # r /\ t # r
        <5>1. a \in Held(s) /\ b \in Held(t)
          BY <2>3, <3>1, <4>1
        <5> QED
          BY <3>1, <5>1 DEF NegInv, Exclusive
      <4>2. CASE s = r
        <5>1. b \in Held(t) /\ (a \in Held(r) \/ a = lock)
          BY <2>3, <2>10, <3>1, <4>2
        <5> QED
          BY <2>11, <3>1, <4>2, <5>1 DEF NegInv, Exclusive
      <4>3. CASE t = r
        <5>1. a \in Held(s) /\ (b \in Held(r) \/ b = lock)
          BY <2>3, <2>10, <3>1, <4>3
        <5> QED
          BY <2>11, <3>1, <4>3, <5>1 DEF NegInv, Exclusive
      <4> QED
        BY <4>1, <4>2, <4>3
    <3> QED
      BY <3>1 DEF Exclusive
  <2>13. Unwritten
    BY DEF Lock, Unwritten
  <2>14. TablesOK' /\ StoredInv' /\ \A t \in Request : Undisturbed(t)
    BY <2>13, NothingWritten
  <2>15. Cardinality(Invited') \in Nat
    <3>1. Invited' = Invited
      BY <2>13 DEF Unwritten, Invited
    <3> QED
      BY <3>1, InvitedFinite
  <2>16. Told(p)'
    <3>1. Told(p)
      BY <1>1, <1>4, <1>6, <1>7, <2>1, Telling
    <3> QED
      BY <2>1, <2>6, <2>14, <2>15, <3>1, ToldKeeps
  <2>17. ToldStands'
    <3>1. ASSUME NEW s \in Requests, Running(s)'
          PROVE  Told(req[s])'
      <4>1. CASE s = r
        BY <2>3, <2>16, <4>1 DEF Told, MoveStands, OfferStands
      <4>2. CASE s # r
        <5>1. Running(s) /\ req'[s] = req[s]
          BY <2>3, <3>1, <4>2
        <5>2. PICK t \in Request : t = req[s]
          BY <1>1, <5>1, InFlight
        <5>3. FitsOp(t) /\ Told(t)
          BY <5>1, <5>2 DEF NegInv, AllFit, ToldStands
        <5>4. Told(t)'
          BY <2>14, <2>15, <5>3, ToldKeeps
        <5> QED
          BY <5>1, <5>2, <5>4
      <4> QED
        BY <4>1, <4>2
    <3> QED
      BY <3>1 DEF ToldStands
  <2> QED
    BY <2>3, <2>7, <2>12, <2>14, <2>17, Whole
<1> QED
  BY <1>9, <1>10

-----------------------------------------------------------------------------
(* One list of offers.                                                        *)

\* These offers read as one negotiation, on an application in this state.
TellsOne(status, list) ==
    /\ (\E i \in DOMAIN list : list[i].outcome = "open") => status \in Waiting
    /\ \A i \in DOMAIN list :
          /\ list[i].outcome \in {"open", "accepted"} => i = Len(list)
          /\ list[i].outcome = "replaced" =>
                i + 1 \in DOMAIN list /\ list[i + 1].side # list[i].side

\* The memo of an application comes from these offers.
FromDeal(row, list, draft) ==
    draft # NoMemo =>
        /\ row.status = "accepted"
        /\ \A i \in DOMAIN list : list[i].outcome # "open"
        /\ draft.fee # "stated" =>
              (draft.fee = "agreed" <=> \E i \in DOMAIN list : list[i].outcome = "accepted")
        /\ draft.fee = "earlier" => row.repeats = "deal_with_fee"

\* A list after a counter, and after an answer.
Counter(list, side) ==
    Append([i \in DOMAIN list |->
              IF list[i].outcome = "open"
              THEN [list[i] EXCEPT !.outcome = "replaced"] ELSE list[i]],
           [side |-> side, outcome |-> "open"])
Settle(list, n, said) == [list EXCEPT ![n].outcome = said]

\* Closing the open offer leaves one negotiation, with nothing open.
LEMMA Closing ==
    ASSUME NEW list \in Seq(Offer), NEW actor, NEW status, TellsOne(status, list),
           NEW new, new = CloseOpen(list, actor)
    PROVE  /\ new \in Seq(Offer) /\ DOMAIN new = DOMAIN list
           /\ \A i \in DOMAIN new : new[i].outcome # "open"
           /\ \A i \in DOMAIN list :
                 list[i].outcome # "open" => new[i] = list[i]
           /\ \A i \in DOMAIN list : new[i].outcome = "accepted" <=> list[i].outcome = "accepted"
           /\ \A any : TellsOne(any, new)
<1>1. DOMAIN list = 1..Len(list) /\ Len(list) \in Nat
  OBVIOUS
<1>2. DOMAIN new = DOMAIN list
  BY DEF CloseOpen
<1>3. ASSUME NEW i \in DOMAIN list
      PROVE  /\ new[i] \in Offer /\ new[i].side = list[i].side
             /\ new[i].outcome # "open"
             /\ list[i].outcome # "open" => new[i] = list[i]
             /\ list[i].outcome = "open" => new[i].outcome \in {"withdrawn", "declined"}
  <2>1. list[i] \in Offer
    OBVIOUS
  <2>2. new[i] = IF list[i].outcome # "open" THEN list[i]
                 ELSE [list[i] EXCEPT !.outcome =
                         IF actor \in {list[i].side, "nobody"} THEN "withdrawn" ELSE "declined"]
    BY DEF CloseOpen
  <2>3. CASE list[i].outcome # "open"
    BY <2>1, <2>2, <2>3
  <2>4. CASE list[i].outcome = "open"
    <3>1. PICK a \in {"withdrawn", "declined"} : new[i] = [list[i] EXCEPT !.outcome = a]
      BY <2>2, <2>4
    <3> QED
      BY <2>1, <2>4, <3>1 DEF Offer
  <2> QED
    BY <2>3, <2>4
<1>4. new = [i \in 1..Len(list) |-> new[i]]
  BY <1>1, <1>2 DEF CloseOpen
<1>5. new \in Seq(Offer) /\ Len(new) = Len(list)
  BY <1>1, <1>2, <1>3, <1>4
<1>6. \A i \in DOMAIN list : new[i].outcome = "accepted" <=> list[i].outcome = "accepted"
  BY <1>3
<1>7. \A any : TellsOne(any, new)
  <2>1. \A i \in DOMAIN new : new[i].outcome = "accepted" => i = Len(new)
    BY <1>2, <1>3, <1>5 DEF TellsOne
  <2>2. ASSUME NEW i \in DOMAIN new, new[i].outcome = "replaced"
        PROVE  i + 1 \in DOMAIN new /\ new[i + 1].side # new[i].side
    <3>1. list[i].outcome = "replaced"
      BY <1>2, <1>3, <2>2
    <3>2. i + 1 \in DOMAIN list /\ list[i + 1].side # list[i].side
      BY <1>2, <3>1 DEF TellsOne
    <3> QED
      BY <1>2, <1>3, <3>2
  <2> QED
    BY <1>2, <1>3, <2>1, <2>2 DEF TellsOne
<1> QED
  BY <1>2, <1>3, <1>5, <1>6, <1>7

LEMMA FunctionIsSeq ==
    ASSUME NEW n \in Nat, NEW S, NEW f \in [1..n -> S]
    PROVE  f \in Seq(S) /\ Len(f) = n
OBVIOUS

\* A counter replaces the other side's open offer, which came last.
LEMMA Countering ==
    ASSUME NEW list \in Seq(Offer), NEW side \in Sides, NEW status \in Waiting,
           TellsOne(status, list), MayMake(list, side),
           NEW new, new = Counter(list, side)
    PROVE  /\ new \in Seq(Offer) /\ TellsOne(status, new)
           /\ Len(new) = Len(list) + 1
           /\ \A i \in DOMAIN list :
                /\ i \in DOMAIN new
                /\ list[i].outcome # "open" => new[i] = list[i]
                /\ list[i].outcome = "open" => new[i].outcome = "replaced"
<1> DEFINE old == [i \in DOMAIN list |->
                     IF list[i].outcome = "open"
                     THEN [list[i] EXCEPT !.outcome = "replaced"] ELSE list[i]]
<1>0. new = Append(old, [side |-> side, outcome |-> "open"])
  BY DEF Counter
<1>1. PICK n \in Nat : n = Len(list) /\ DOMAIN list = 1..n
  OBVIOUS
<1>2. ASSUME NEW i \in 1..n
      PROVE  /\ old[i] \in Offer /\ old[i].side = list[i].side
             /\ list[i].outcome # "open" => old[i] = list[i]
             /\ list[i].outcome = "open" => old[i].outcome = "replaced"
  <2>1. list[i] \in Offer
    BY <1>1
  <2>2. old[i] = IF list[i].outcome = "open"
                 THEN [list[i] EXCEPT !.outcome = "replaced"] ELSE list[i]
    BY <1>1
  <2>3. PICK offer : offer = [list[i] EXCEPT !.outcome = "replaced"]
    OBVIOUS
  <2>4. offer \in Offer /\ offer.side = list[i].side /\ offer.outcome = "replaced"
    BY <2>1, <2>3 DEF Offer
  <2> QED
    BY <2>1, <2>2, <2>3, <2>4
<1>3. old \in [1..n -> Offer]
  BY <1>1, <1>2
<1> HIDE DEF old
<1>4. old \in Seq(Offer) /\ Len(old) = n
  BY <1>3, FunctionIsSeq
<1>5. PICK last : last = [side |-> side, outcome |-> "open"]
  OBVIOUS
<1>6. last \in Offer /\ last.side = side /\ last.outcome = "open"
  BY <1>5 DEF Offer
<1>7. /\ new \in Seq(Offer) /\ Len(new) = n + 1 /\ DOMAIN new = 1..n + 1
      /\ \A i \in 1..n : new[i] = old[i]
      /\ new[n + 1] = last
  BY <1>0, <1>4, <1>5, <1>6
<1>8. \A i \in 1..n : i \in 1..n + 1 /\ i + 1 \in 1..n + 1 /\ (i = n \/ i + 1 \in 1..n)
  OBVIOUS
<1>9. ASSUME NEW i \in 1..n
      PROVE  list[i].outcome \notin {"accepted"} /\ (list[i].outcome = "open" => i = n /\ list[i].side # side)
  <2>1. list[i].outcome # "accepted" /\ ~(list[i].outcome = "open" /\ list[i].side = side)
    BY <1>1 DEF MayMake
  <2>2. list[i].outcome = "open" => i = n
    BY <1>1 DEF TellsOne
  <2> QED
    BY <2>1, <2>2
<1>10. \A i \in 1..n + 1 : new[i].outcome \in {"open", "accepted"} => i = n + 1
  <2>1. ASSUME NEW i \in 1..n
        PROVE  new[i].outcome \notin {"open", "accepted"}
    BY <1>2, <1>7, <1>9
  <2>2. \A i \in 1..n + 1 : i \in 1..n \/ i = n + 1
    OBVIOUS
  <2> QED
    BY <2>1, <2>2
<1>11. ASSUME NEW i \in 1..n + 1, new[i].outcome = "replaced"
       PROVE  i + 1 \in 1..n + 1 /\ new[i + 1].side # new[i].side
  <2>1. i \in 1..n
    <3>1. i \in 1..n \/ i = n + 1
      OBVIOUS
    <3> QED
      BY <1>6, <1>7, <1>11, <3>1
  <2>2. CASE list[i].outcome = "open"
    <3>1. i = n /\ list[i].side # side
      BY <1>9, <2>1, <2>2
    <3>2. new[i + 1] = last /\ new[i].side = list[i].side
      BY <1>2, <1>7, <2>1, <3>1
    <3> QED
      BY <1>6, <1>8, <2>1, <3>1, <3>2
  <2>3. CASE list[i].outcome # "open"
    <3>1. list[i].outcome = "replaced" /\ new[i].side = list[i].side
      BY <1>2, <1>7, <1>11, <2>1, <2>3
    <3>2. i + 1 \in 1..n /\ list[i + 1].side # list[i].side
      BY <1>1, <2>1, <3>1 DEF TellsOne
    <3>3. new[i + 1].side = list[i + 1].side
      BY <1>2, <1>7, <3>2
    <3> QED
      BY <1>8, <2>1, <3>1, <3>2, <3>3
  <2> QED
    BY <2>2, <2>3
<1>12. TellsOne(status, new)
  BY <1>7, <1>10, <1>11 DEF TellsOne
<1>13. \A i \in DOMAIN list :
         /\ i \in DOMAIN new
         /\ list[i].outcome # "open" => new[i] = list[i]
         /\ list[i].outcome = "open" => new[i].outcome = "replaced"
  BY <1>1, <1>2, <1>7, <1>8
<1> QED
  BY <1>1, <1>7, <1>12, <1>13

\* An answer settles the open offer.
LEMMA Settling ==
    ASSUME NEW list \in Seq(Offer), NEW status, TellsOne(status, list),
           NEW n \in DOMAIN list, list[n].outcome = "open",
           NEW said \in {"accepted", "declined", "withdrawn"},
           NEW new, new = Settle(list, n, said)
    PROVE  /\ new \in Seq(Offer) /\ DOMAIN new = DOMAIN list /\ TellsOne(status, new)
           /\ new[n].outcome = said
           /\ \A i \in DOMAIN list : i # n => new[i] = list[i] /\ list[i].outcome # "open"
<1>1. DOMAIN list = 1..Len(list) /\ Len(list) \in Nat /\ list[n] \in Offer
  OBVIOUS
<1>2. DOMAIN new = DOMAIN list /\ \A i \in DOMAIN list : i # n => new[i] = list[i]
  BY DEF Settle
<1>3. PICK offer : offer = [list[n] EXCEPT !.outcome = said]
  OBVIOUS
<1>4. offer \in Offer /\ offer.side = list[n].side /\ offer.outcome = said
  BY <1>1, <1>3 DEF Offer
<1>5. new[n] = offer
  BY <1>3 DEF Settle
<1>6. \A i \in DOMAIN list : new[i] \in Offer /\ new[i].side = list[i].side
  BY <1>1, <1>2, <1>4, <1>5
<1>7. new \in [1..Len(list) -> Offer]
  <2>1. new = [i \in DOMAIN list |-> new[i]]
    BY DEF Settle
  <2> QED
    BY <1>1, <1>2, <1>6, <2>1
<1>8. new \in Seq(Offer) /\ Len(new) = Len(list)
  BY <1>1, <1>7
<1>9. n = Len(list)
  BY DEF TellsOne
<1>10. \A i \in DOMAIN list : i # n => list[i].outcome # "open"
  BY <1>9 DEF TellsOne
<1>11. TellsOne(status, new)
  <2>1. \A i \in DOMAIN new : new[i].outcome # "open"
    BY <1>2, <1>4, <1>5, <1>10
  <2>2. \A i \in DOMAIN new : new[i].outcome = "accepted" => i = Len(new)
    BY <1>2, <1>8, <1>9 DEF TellsOne
  <2>3. ASSUME NEW i \in DOMAIN new, new[i].outcome = "replaced"
        PROVE  i + 1 \in DOMAIN new /\ new[i + 1].side # new[i].side
    <3>1. i # n /\ list[i].outcome = "replaced"
      BY <1>2, <1>4, <1>5, <2>3
    <3>2. i + 1 \in DOMAIN list /\ list[i + 1].side # list[i].side
      BY <1>2, <3>1 DEF TellsOne
    <3> QED
      BY <1>2, <1>6, <3>2
  <2> QED
    BY <2>1, <2>2, <2>3 DEF TellsOne
<1> QED
  BY <1>2, <1>4, <1>5, <1>8, <1>10, <1>11

-----------------------------------------------------------------------------
(* What the operations write.                                                 *)

LEMMA TellsEach ==
    /\ OffersTellOneNegotiation <=> \A c \in Creators : TellsOne(app[c].status, offers[c])
    /\ MemoComesFromTheDeal <=> \A c \in Creators : FromDeal(app[c], offers[c], memo[c])
<1>1. OffersTellOneNegotiation <=> \A c \in Creators : TellsOne(app[c].status, offers[c])
  BY DEF OffersTellOneNegotiation, TellsOne, OpenOffers
<1>2. MemoComesFromTheDeal <=> \A c \in Creators : FromDeal(app[c], offers[c], memo[c])
  BY DEF MemoComesFromTheDeal, FromDeal, OpenOffers, AgreedOffers
<1> QED
  BY <1>1, <1>2

\* Nothing waits for an answer of one who left, and every deal of theirs has ended.
LeftAlone(row, list, draft) ==
    /\ row.status # "invited"
    /\ \A i \in DOMAIN list : list[i].outcome # "open"
    /\ draft # NoMemo => draft.deal # "on"

LEMMA PeopleWhoLeft ==
    ASSUME gone \subseteq People
    PROVE  WhoLeftIsLeftAlone <=>
             /\ Brand \in gone => /\ campaign.status \in {"closed", "cancelled"}
                                  /\ \A c \in Creators : app[c].status # "invited"
             /\ \A c \in Creators : c \in gone => LeftAlone(app[c], offers[c], memo[c])
<1>1. \A c \in gone \ {Brand} : c \in Creators
  BY DEF People
<1>2. \A c \in Creators : c # Brand
  BY DEF Creators, Brand
<1>3. ASSUME NEW c \in Creators
      PROVE  OpenOffers(c) = {} <=> \A i \in DOMAIN offers[c] : offers[c][i].outcome # "open"
  BY DEF OpenOffers
<1> QED
  BY <1>1, <1>2, <1>3 DEF WhoLeftIsLeftAlone, LeftAlone

LEMMA LeftAloneNext ==
    ASSUME gone' \subseteq People,
           Brand \in gone' => /\ campaign'.status \in {"closed", "cancelled"}
                              /\ \A c \in Creators : app'[c].status # "invited",
           \A c \in Creators : c \in gone' => LeftAlone(app'[c], offers'[c], memo'[c])
    PROVE  WhoLeftIsLeftAlone'
<1>1. \A c \in gone' \ {Brand} : c \in Creators /\ c # Brand
  BY DEF People
<1>2. ASSUME NEW c \in gone' \ {Brand}
      PROVE  /\ app'[c].status # "invited" /\ OpenOffers(c)' = {}
             /\ memo'[c] # NoMemo => memo'[c].deal # "on"
  <2>1. c # Brand /\ LeftAlone(app'[c], offers'[c], memo'[c])
    BY <1>1, <1>2
  <2>2. OpenOffers(c)' = {}
    BY <2>1 DEF OpenOffers, LeftAlone
  <2> QED
    BY <2>1, <2>2 DEF LeftAlone
<1>3. \A c \in gone' \ {Brand} :
         /\ app'[c].status # "invited" /\ OpenOffers(c)' = {}
         /\ memo'[c] # NoMemo => memo'[c].deal # "on"
  BY <1>2
<1> QED
  BY <1>3 DEF WhoLeftIsLeftAlone, OpenOffers

\* The invariants of the tables, one creator's rows at a time.
LEMMA EachRow ==
    ASSUME NegInv, NEW c \in Creators
    PROVE  /\ app[c] \in Application \union {NoRow}
           /\ offers[c] \in Seq(Offer) /\ memo[c] \in Memo \union {NoMemo}
           /\ TellsOne(app[c].status, offers[c]) /\ FromDeal(app[c], offers[c], memo[c])
           /\ c \in gone => LeftAlone(app[c], offers[c], memo[c])
           /\ c # Brand
<1>1. /\ app[c] \in Application \union {NoRow}
      /\ offers[c] \in Seq(Offer) /\ memo[c] \in Memo \union {NoMemo}
  BY DEF NegInv, TypeOK
<1>2. c # Brand
  BY DEF Creators, Brand
<1>3. gone \subseteq People
  BY DEF NegInv, TypeOK
<1> QED
  BY <1>1, <1>2, <1>3, TellsEach, PeopleWhoLeft DEF NegInv

\* Nobody is newly invited: the limit holds on.
LEMMA FewKeeps ==
    ASSUME NegInv, Invited' \subseteq Invited
    PROVE  WaitingInvitationsAreFew' /\ Cardinality(Invited') <= Cardinality(Invited)
<1>1. Cardinality(Invited') <= Cardinality(Invited) /\ IsFiniteSet(Invited')
  BY InvitedFinite, FS_Subset
<1>2. PICK m, n \in Nat : m = Cardinality(Invited) /\ n = Cardinality(Invited')
  BY <1>1, InvitedFinite, FS_CardinalityType
<1>3. m <= MaxWaitingInvitations
  BY <1>2 DEF NegInv, WaitingInvitationsAreFew, Invited
<1>4. n <= MaxWaitingInvitations
  BY <1>1, <1>2, <1>3, LimitsAssumption
<1>5. WaitingInvitationsAreFew'
  BY <1>2, <1>4 DEF WaitingInvitationsAreFew, Invited
<1> QED
  BY <1>1, <1>5

\* Only the rows of one creator are written.
OnlyRows(c) ==
    /\ UNCHANGED <<campaign, gone>>
    /\ \A d \in Creators \ {c} : app'[d] = app[d] /\ offers'[d] = offers[d] /\ memo'[d] = memo[d]
    /\ DOMAIN offers[c] \subseteq DOMAIN offers'[c]

LEMMA OneRow ==
    ASSUME NegInv, NEW c \in Creators, OnlyRows(c), TablesOK',
           TellsOne(app'[c].status, offers'[c]), FromDeal(app'[c], offers'[c], memo'[c]),
           c \in gone => LeftAlone(app'[c], offers'[c], memo'[c]),
           app'[c].status # "invited" \/ Brand \notin gone,
           WaitingInvitationsAreFew'
    PROVE  StoredInv'
<1>1. campaign' = campaign /\ gone' = gone
  BY DEF OnlyRows
<1>2. \A d \in Creators \ {c} :
         /\ TellsOne(app'[d].status, offers'[d]) /\ FromDeal(app'[d], offers'[d], memo'[d])
         /\ d \in gone => LeftAlone(app'[d], offers'[d], memo'[d])
  BY EachRow DEF OnlyRows
<1>3. \A d \in Creators : TellsOne(app'[d].status, offers'[d])
  BY <1>2
<1>4. \A d \in Creators : FromDeal(app'[d], offers'[d], memo'[d])
  BY <1>2
<1>5. \A d \in Creators : d \in gone' => LeftAlone(app'[d], offers'[d], memo'[d])
  BY <1>1, <1>2
<1>6. Brand \in gone' => /\ campaign'.status \in {"closed", "cancelled"}
                         /\ \A d \in Creators : app'[d].status # "invited"
  BY <1>1 DEF NegInv, WhoLeftIsLeftAlone, OnlyRows
<1>7. OffersTellOneNegotiation'
  BY <1>3 DEF OffersTellOneNegotiation, TellsOne, OpenOffers
<1>8. MemoComesFromTheDeal'
  BY <1>4 DEF MemoComesFromTheDeal, FromDeal, OpenOffers, AgreedOffers
<1>9. WhoLeftIsLeftAlone'
  <2>1. gone' \subseteq People
    BY DEF TablesOK
  <2> QED
    BY <1>5, <1>6, <2>1, LeftAloneNext
<1> QED
  BY <1>7, <1>8, <1>9 DEF StoredInv

\* A row with something told of it is there.
LEMMA RowIsThere ==
    ASSUME NegInv, NEW q \in Request, FitsOp(q), Told(q),
           q.op \in RowOps \union {"create_memo"}, q.step > 1
    PROVE  /\ q.creator \in Creators
           /\ app[q.creator].status \in Waiting \union {"accepted"}
           /\ app[q.creator] \in Application /\ app[q.creator] # NoRow
           /\ q.op \in RowOps => app[q.creator].status \in Waiting
<1> DEFINE c == q.creator
<1>1. c \in Creators
  BY OpSets DEF FitsOp, RowOps
<1>2. q.op \in MoveOps => app[c].status \in Waiting
  BY DEF Told, MoveStands
<1>3. q.op = "make_offer" => app[c].status \in Waiting
  BY OpSets DEF Told, OfferStands
<1>4. q.op \in AnswerOps => app[c].status \in Waiting
  <2>1. ASSUME q.op \in AnswerOps
        PROVE  app[c].status \in Waiting
    <3>1. q.nth \in DOMAIN offers[c] /\ OfferStands(q)
      BY <2>1, OpSets DEF Told, AnswerOps
    <3>2. offers[c][q.nth].outcome = "open"
      BY <2>1, <3>1 DEF OfferStands, MayAnswer, MayWithdraw, AnswerOps
    <3> QED
      BY <1>1, <3>1, <3>2, EachRow DEF TellsOne
  <2> QED
    BY <2>1
<1>5. q.op = "create_memo" => app[c].status = "accepted"
  BY DEF Told
<1>6. q.op \in RowOps => app[c].status \in Waiting
  BY <1>2, <1>3, <1>4, OpSets DEF RowOps, AnswerOps
<1>7. app[c].status # "none"
  BY <1>5, <1>6 DEF Waiting
<1>8. app[c] # NoRow /\ app[c] \in Application
  BY <1>1, <1>7, EachRow DEF NoRow
<1> QED
  BY <1>1, <1>5, <1>6, <1>8

\* A place on the campaign that is held is empty.
LEMMA SlotIsEmpty ==
    ASSUME NegInv, NEW q \in Request, FitsOp(q), Told(q), NEW c, OnSlot(q, c)
    PROVE  c = q.creator /\ c \in Creators /\ app[c] = NoRow
BY OpSets DEF OnSlot, FitsOp, Told

\* What is written under an application's lock disturbs nobody.
LEMMA RowCommit ==
    ASSUME NegInv, NEW r \in Requests, Running(r), ~MoreLocks(r),
           req[r].op \in RowOps \union {"create_memo"},
           OnlyRows(req[r].creator), Invited' \subseteq Invited
    PROVE  \A s \in Requests : s # r /\ Running(s) => Undisturbed(req[s])
<1>1. PICK p \in Request : p = req[r]
  BY Finished
<1>2. FitsOp(p) /\ Told(p) /\ p.op \in RowOps \union {"create_memo"} /\ p.step > 1
  BY <1>1, Finished
<1>3. /\ p.creator \in Creators /\ OnApplication(p, p.creator) /\ app[p.creator] # NoRow
  BY <1>2, RowIsThere DEF OnApplication
<1>4. ASSUME NEW s \in Requests, s # r, Running(s)
      PROVE  Undisturbed(req[s])
  <2>1. PICK q \in Request : q = req[s]
    BY <1>4, InFlight DEF NegInv
  <2>2. FitsOp(q) /\ Told(q)
    BY <1>4, <2>1 DEF NegInv, AllFit, ToldStands
  <2>3. ~(OnApplication(p, p.creator) /\ OnApplication(q, p.creator))
    BY <1>1, <1>4, <2>1, Alone
  <2>4. q.op \in RowOps \union {"create_memo"} /\ q.step > 1 =>
          q.creator \in Creators \ {p.creator}
    <3>1. ASSUME q.op \in RowOps \union {"create_memo"}, q.step > 1
          PROVE  q.creator \in Creators \ {p.creator}
      <4>1. OnApplication(q, q.creator)
        BY <3>1 DEF OnApplication
      <4>2. q.creator \in Creators
        BY <2>2, <3>1, RowIsThere
      <4> QED
        BY <1>3, <2>3, <4>1, <4>2
    <3> QED
      BY <3>1
  <2>5. OnSlot(q, q.creator) => q.creator \in Creators \ {p.creator}
    BY <1>3, <2>2, SlotIsEmpty
  <2>6. q.op \in AnswerOps => q.creator \in Creators
    BY <2>2, OpSets DEF FitsOp, AnswerOps
  <2>7. Cardinality(Invited') <= Cardinality(Invited)
    BY FewKeeps
  <2>8. campaign' = campaign /\ gone' = gone
    BY <1>1 DEF OnlyRows
  <2>9. \A d \in Creators \ {p.creator} :
           app'[d] = app[d] /\ offers'[d] = offers[d] /\ memo'[d] = memo[d]
    BY <1>1 DEF OnlyRows
  <2>10. \A d \in Creators : DOMAIN offers[d] \subseteq DOMAIN offers'[d]
    BY <1>1, <2>9 DEF OnlyRows
  <2>11. Undisturbed(q)
    BY <2>4, <2>5, <2>6, <2>7, <2>8, <2>9, <2>10 DEF Undisturbed
  <2> QED
    BY <2>1, <2>11
<1> QED
  BY <1>4

\* Nor what takes an empty place under its lock.
LEMMA SlotCommit ==
    ASSUME NegInv, NEW r \in Requests, Running(r), ~MoreLocks(r),
           req[r].op \in {"apply", "invite"},
           OnlyRows(req[r].creator), offers' = offers, memo' = memo,
           req[r].op = "apply" => Invited' \subseteq Invited
    PROVE  /\ app[req[r].creator] = NoRow
           /\ \A s \in Requests : s # r /\ Running(s) => Undisturbed(req[s])
<1>1. PICK p \in Request : p = req[r]
  BY Finished
<1>2. FitsOp(p) /\ Told(p) /\ OnSlot(p, p.creator)
  BY <1>1, Finished DEF OnSlot
<1>3. p.creator \in Creators /\ app[p.creator] = NoRow
  BY <1>2, SlotIsEmpty
<1>4. ASSUME NEW s \in Requests, s # r, Running(s)
      PROVE  Undisturbed(req[s])
  <2>1. PICK q \in Request : q = req[s]
    BY <1>4, InFlight DEF NegInv
  <2>2. FitsOp(q) /\ Told(q)
    BY <1>4, <2>1 DEF NegInv, AllFit, ToldStands
  <2>3. ~(OnSlot(p, p.creator) /\ OnSlot(q, p.creator)) /\ ~(OnCampaign(p) /\ OnCampaign(q))
    BY <1>1, <1>4, <2>1, Alone
  <2>4. q.op \in RowOps \union {"create_memo"} /\ q.step > 1 =>
          q.creator \in Creators \ {p.creator}
    BY <1>3, <2>2, RowIsThere
  <2>5. OnSlot(q, q.creator) => q.creator \in Creators \ {p.creator}
    BY <1>2, <2>2, <2>3, SlotIsEmpty
  <2>6. q.op \in AnswerOps => q.creator \in Creators
    BY <2>2, OpSets DEF FitsOp, AnswerOps
  <2>7. q.op = "invite" /\ q.step > 2 => Cardinality(Invited') <= Cardinality(Invited)
    <3>1. ASSUME q.op = "invite", q.step > 2
          PROVE  p.op = "apply"
      <4>1. OnCampaign(q)
        BY <3>1 DEF OnCampaign, Request
      <4>2. p.op = "invite" => OnCampaign(p)
        BY <1>1, Finished DEF OnCampaign, Request
      <4> QED
        BY <1>1, <2>3, <4>1, <4>2
    <3>2. p.op = "apply" => Cardinality(Invited') <= Cardinality(Invited)
      BY <1>1, FewKeeps
    <3> QED
      BY <3>1, <3>2
  <2>8. campaign' = campaign /\ gone' = gone
    BY DEF OnlyRows
  <2>9. \A d \in Creators \ {p.creator} : app'[d] = app[d]
    BY <1>1 DEF OnlyRows
  <2>10. Undisturbed(q)
    BY <2>4, <2>5, <2>6, <2>7, <2>8, <2>9 DEF Undisturbed
  <2> QED
    BY <2>1, <2>10
<1> QED
  BY <1>1, <1>3, <1>4

\* A request that commits.
LEMMA Committed ==
    ASSUME NegInv, NEW r \in Requests, req' = [req EXCEPT ![r] = Idle],
           TablesOK', StoredInv',
           \A s \in Requests : s # r /\ Running(s) => Undisturbed(req[s])
    PROVE  NegInv'
<1>1. req' \in [Requests -> Request \union {Idle}] /\ AllFit' /\ Exclusive' /\ ToldStands'
  BY EndKeeps
<1> QED
  BY <1>1, Whole

LEMMA Committing ==
    ASSUME NegInv, NEW r \in Requests, NEW ops, Commits(r, ops)
    PROVE  /\ Running(r) /\ ~MoreLocks(r) /\ req[r].op \in ops
           /\ req' = [req EXCEPT ![r] = Idle]
           /\ req[r] \in Request /\ FitsOp(req[r]) /\ Told(req[r])
BY Finished DEF Commits

\* An application lands in an empty place.
LEMMA ApplyKeeps ==
    ASSUME NegInv, NEW r \in Requests, ApplyToCampaign(r)
    PROVE  NegInv'
<1>1. /\ Running(r) /\ ~MoreLocks(r) /\ req[r].op = "apply"
      /\ req' = [req EXCEPT ![r] = Idle]
      /\ req[r] \in Request /\ FitsOp(req[r]) /\ Told(req[r])
  BY Committing DEF ApplyToCampaign
<1>2. PICK c \in Creators : c = req[r].creator
  BY <1>1, OpSets DEF FitsOp
<1>3. PICK row : row = [status |-> "submitted", origin |-> "applied", repeats |-> "nothing"]
  OBVIOUS
<1>4. row \in Application /\ row.status = "submitted"
  BY <1>3 DEF Application, Waiting
<1>5. /\ app' = [app EXCEPT ![c] = row]
      /\ campaign' = campaign /\ offers' = offers /\ memo' = memo /\ gone' = gone
  BY <1>2, <1>3 DEF ApplyToCampaign
<1>6. app \in [Creators -> Application \union {NoRow}]
  BY DEF NegInv, TypeOK
<1>7. app'[c] = row /\ \A d \in Creators \ {c} : app'[d] = app[d]
  BY <1>5, <1>6
<1>8. OnlyRows(c)
  BY <1>5, <1>7 DEF OnlyRows
<1>9. Invited' \subseteq Invited
  BY <1>4, <1>7 DEF Invited
<1>10. /\ app[c] = NoRow
       /\ \A s \in Requests : s # r /\ Running(s) => Undisturbed(req[s])
  BY <1>1, <1>2, <1>5, <1>8, <1>9, SlotCommit
<1>11. TablesOK'
  BY <1>4, <1>5, <1>6 DEF NegInv, TypeOK, TablesOK
<1>12. TellsOne(app[c].status, offers[c]) /\ FromDeal(app[c], offers[c], memo[c])
  BY EachRow
<1>13. app[c].status = "none"
  BY <1>10 DEF NoRow
<1>14. TellsOne(row.status, offers[c]) /\ FromDeal(row, offers[c], memo[c])
  BY <1>12, <1>13 DEF TellsOne, FromDeal, Waiting
<1>15. c \in gone => LeftAlone(row, offers[c], memo[c])
  BY <1>4, EachRow DEF LeftAlone
<1>16. StoredInv'
  BY <1>4, <1>5, <1>7, <1>8, <1>9, <1>11, <1>14, <1>15, FewKeeps, OneRow
<1> QED
  BY <1>1, <1>10, <1>11, <1>16, Committed

\* An invitation lands within the limit, while its sides are there.
LEMMA InviteKeeps ==
    ASSUME NegInv, NEW r \in Requests, InviteCreator(r)
    PROVE  NegInv'
<1>1. /\ Running(r) /\ ~MoreLocks(r) /\ req[r].op = "invite"
      /\ req' = [req EXCEPT ![r] = Idle]
      /\ req[r] \in Request /\ FitsOp(req[r]) /\ Told(req[r])
  BY Committing DEF InviteCreator
<1>2. PICK c \in Creators : c = req[r].creator
  BY <1>1, OpSets DEF FitsOp
<1>3. PICK row : row = [status |-> "invited", origin |-> "invited", repeats |-> req[r].with]
  OBVIOUS
<1>4. row \in Application /\ row.status = "invited"
  BY <1>1, <1>3 DEF Application, Waiting, FitsOp
<1>5. /\ app' = [app EXCEPT ![c] = row]
      /\ campaign' = campaign /\ offers' = offers /\ memo' = memo /\ gone' = gone
  BY <1>2, <1>3 DEF InviteCreator
<1>6. app \in [Creators -> Application \union {NoRow}]
  BY DEF NegInv, TypeOK
<1>7. app'[c] = row /\ \A d \in Creators \ {c} : app'[d] = app[d]
  BY <1>5, <1>6
<1>8. OnlyRows(c)
  BY <1>5, <1>7 DEF OnlyRows
<1>9. /\ app[c] = NoRow
      /\ \A s \in Requests : s # r /\ Running(s) => Undisturbed(req[s])
  BY <1>1, <1>2, <1>5, <1>8, SlotCommit
<1>10. TablesOK'
  BY <1>4, <1>5, <1>6 DEF NegInv, TypeOK, TablesOK
<1>11. req[r].step > 3 /\ req[r].step > 2 /\ req[r].step > 1
  <2>1. req[r].step > 3 /\ req[r].step \in 1..(NCreators + 3)
    BY <1>1, Finished DEF Request
  <2> QED
    BY <2>1
<1>12. /\ campaign.status = "open" /\ c \notin gone
       /\ Cardinality(Invited) < MaxWaitingInvitations
  BY <1>1, <1>2, <1>11 DEF Told
<1>13. WaitingInvitationsAreFew'
  <2>1. Invited' = Invited \union {c}
    BY <1>4, <1>7 DEF Invited
  <2>2. c \notin Invited
    BY <1>9 DEF Invited, NoRow
  <2>3. Cardinality(Invited \union {c}) = Cardinality(Invited) + 1
    BY <2>2, InvitedFinite, FS_AddElement
  <2>4. PICK n \in Nat : n = Cardinality(Invited)
    BY InvitedFinite
  <2>5. Cardinality(Invited') <= MaxWaitingInvitations
    BY <1>12, <2>1, <2>3, <2>4, LimitsAssumption
  <2> QED
    BY <2>5 DEF WaitingInvitationsAreFew, Invited
<1>14. TellsOne(app[c].status, offers[c]) /\ FromDeal(app[c], offers[c], memo[c])
  BY EachRow
<1>15. app[c].status = "none"
  BY <1>9 DEF NoRow
<1>16. TellsOne(row.status, offers[c]) /\ FromDeal(row, offers[c], memo[c])
  BY <1>14, <1>15 DEF TellsOne, FromDeal, Waiting
<1>17. Brand \notin gone
  BY <1>12 DEF NegInv, WhoLeftIsLeftAlone
<1>18. StoredInv'
  BY <1>5, <1>7, <1>8, <1>10, <1>12, <1>13, <1>16, <1>17, OneRow
<1> QED
  BY <1>1, <1>9, <1>10, <1>18, Committed

\* A move is made once, on an application that waits.
LEMMA MoveKeeps ==
    ASSUME NegInv, NEW r \in Requests, MoveApplication(r)
    PROVE  NegInv'
<1>1. /\ Running(r) /\ ~MoreLocks(r) /\ req[r].op \in MoveOps
      /\ req' = [req EXCEPT ![r] = Idle]
      /\ req[r] \in Request /\ FitsOp(req[r]) /\ Told(req[r])
  BY Committing DEF MoveApplication
<1>2. PICK p \in Request : p = req[r] /\ p.op \in MoveOps /\ p.op \in RowOps /\ p.step > 1
  BY <1>1, Finished DEF RowOps
<1>3. PICK c \in Creators : c = p.creator
  BY <1>1, <1>2, RowIsThere
<1>4. PICK to : to = Move[p.op].to
  OBVIOUS
<1>5. /\ app[c].status \in Waiting
      /\ to \in ApplicationMoves[Move[p.op].actor][app[c].status]
      /\ to = "accepted" => OpenOffers(c) = {}
  BY <1>1, <1>2, <1>3, <1>4 DEF Told, MoveStands
<1>6. /\ to \in {"shortlisted"} \union Final
      /\ p.op = "accept_invitation" => app[c].status = "invited" /\ to = "accepted"
  BY <1>2, <1>4, <1>5, Moves
<1>7. app[c] \in Application
  BY <1>1, <1>2, <1>3, RowIsThere
<1>8. PICK row : row = [app[c] EXCEPT !.status = to]
  OBVIOUS
<1>9. row \in Application /\ row.status = to /\ row.repeats = app[c].repeats
  BY <1>6, <1>7, <1>8 DEF Application, Waiting
<1>10. /\ TellsOne(app[c].status, offers[c]) /\ FromDeal(app[c], offers[c], memo[c])
       /\ offers[c] \in Seq(Offer) /\ memo[c] \in Memo \union {NoMemo}
       /\ c \in gone => LeftAlone(app[c], offers[c], memo[c])
  BY EachRow
<1>11. memo[c] = NoMemo
  BY <1>5, <1>10 DEF FromDeal, Waiting
<1>12. /\ campaign' = campaign /\ gone' = gone
       /\ app' = [app EXCEPT ![c] = row]
       /\ offers' = IF to \in {"rejected", "withdrawn", "declined"}
                    THEN [offers EXCEPT ![c] = CloseOpen(offers[c], p.side)] ELSE offers
       /\ memo' = IF p.op = "accept_invitation" /\ app[c].repeats # "nothing"
                  THEN [memo EXCEPT ![c] = [fee |-> RepeatFee(c), deal |-> "on"]]
                  ELSE memo
  BY <1>2, <1>3, <1>4, <1>8 DEF MoveApplication
<1>13. PICK list : list = IF to \in {"rejected", "withdrawn", "declined"}
                          THEN CloseOpen(offers[c], p.side) ELSE offers[c]
  OBVIOUS
<1>14. /\ list \in Seq(Offer) /\ DOMAIN list = DOMAIN offers[c]
       /\ TellsOne(to, list)
       /\ to # "shortlisted" => \A i \in DOMAIN list : list[i].outcome # "open"
       /\ (\A i \in DOMAIN offers[c] : offers[c][i].outcome # "open") =>
             \A i \in DOMAIN list : list[i].outcome # "open"
       /\ to = "accepted" => list = offers[c]
  <2>1. CASE to \in {"rejected", "withdrawn", "declined"}
    <3>1. list = CloseOpen(offers[c], p.side)
      BY <1>13, <2>1
    <3>2. /\ list \in Seq(Offer) /\ DOMAIN list = DOMAIN offers[c]
          /\ \A i \in DOMAIN list : list[i].outcome # "open"
          /\ \A any : TellsOne(any, list)
      BY <1>10, <3>1, Closing
    <3> QED
      BY <2>1, <3>2
  <2>2. CASE to \notin {"rejected", "withdrawn", "declined"}
    <3>1. list = offers[c] /\ to \in {"shortlisted", "accepted"}
      BY <1>6, <1>13, <2>2 DEF Final
    <3>2. to = "accepted" => \A i \in DOMAIN list : list[i].outcome # "open"
      BY <1>5, <3>1 DEF OpenOffers
    <3>3. TellsOne(to, list)
      BY <1>10, <3>1, <3>2 DEF TellsOne, Waiting
    <3> QED
      BY <1>10, <3>1, <3>2, <3>3
  <2> QED
    BY <2>1, <2>2
<1>15. PICK draft : draft = IF p.op = "accept_invitation" /\ app[c].repeats # "nothing"
                            THEN [fee |-> RepeatFee(c), deal |-> "on"] ELSE NoMemo
  OBVIOUS
<1>16. /\ draft \in Memo \union {NoMemo} /\ FromDeal(row, list, draft)
       /\ c \in gone => draft = NoMemo
  <2>1. CASE p.op = "accept_invitation" /\ app[c].repeats # "nothing"
    <3>1. draft = [fee |-> RepeatFee(c), deal |-> "on"]
      BY <1>15, <2>1
    <3>2. /\ RepeatFee(c) \in {"agreed", "earlier", "none"}
          /\ RepeatFee(c) = "agreed" <=> AgreedOffers(c) # {}
          /\ RepeatFee(c) = "earlier" => app[c].repeats = "deal_with_fee"
      BY DEF RepeatFee, EarlierFee
    <3>3. draft \in Memo /\ draft.fee = RepeatFee(c)
      BY <3>1, <3>2 DEF Memo
    <3>4. to = "accepted" /\ app[c].status = "invited"
      BY <1>6, <2>1
    <3>5. AgreedOffers(c) # {} <=> \E i \in DOMAIN list : list[i].outcome = "accepted"
      BY <1>14, <3>4 DEF AgreedOffers
    <3>6. FromDeal(row, list, draft)
      BY <1>9, <1>14, <3>2, <3>3, <3>4, <3>5 DEF FromDeal
    <3>7. c \notin gone
      BY <1>10, <3>4 DEF LeftAlone
    <3> QED
      BY <3>3, <3>6, <3>7
  <2>2. CASE ~(p.op = "accept_invitation" /\ app[c].repeats # "nothing")
    BY <1>15, <2>2 DEF FromDeal
  <2> QED
    BY <2>1, <2>2
<1>17. /\ app \in [Creators -> Application \union {NoRow}]
       /\ offers \in [Creators -> Seq(Offer)]
       /\ memo \in [Creators -> Memo \union {NoMemo}]
  BY DEF NegInv, TypeOK
<1>18. app'[c] = row /\ \A d \in Creators \ {c} : app'[d] = app[d]
  BY <1>12, <1>17
<1>19. offers' = [offers EXCEPT ![c] = list]
  <2>1. CASE to \in {"rejected", "withdrawn", "declined"}
    BY <1>12, <1>13, <2>1
  <2>2. CASE to \notin {"rejected", "withdrawn", "declined"}
    <3>1. offers' = offers /\ list = offers[c]
      BY <1>12, <1>13, <2>2
    <3> QED
      BY <1>17, <3>1
  <2> QED
    BY <2>1, <2>2
<1>20. memo' = [memo EXCEPT ![c] = draft]
  <2>1. CASE p.op = "accept_invitation" /\ app[c].repeats # "nothing"
    BY <1>12, <1>15, <2>1
  <2>2. CASE ~(p.op = "accept_invitation" /\ app[c].repeats # "nothing")
    <3>1. memo' = memo /\ draft = memo[c]
      BY <1>11, <1>12, <1>15, <2>2
    <3> QED
      BY <1>17, <3>1
  <2> QED
    BY <2>1, <2>2
<1>21. offers'[c] = list /\ \A d \in Creators \ {c} : offers'[d] = offers[d]
  BY <1>17, <1>19
<1>22. memo'[c] = draft /\ \A d \in Creators \ {c} : memo'[d] = memo[d]
  BY <1>17, <1>20
<1>23. OnlyRows(c)
  BY <1>12, <1>14, <1>18, <1>21, <1>22 DEF OnlyRows
<1>24. row.status # "invited"
  BY <1>6, <1>9 DEF Final
<1>25. Invited' \subseteq Invited
  BY <1>18, <1>24 DEF Invited
<1>26. \A s \in Requests : s # r /\ Running(s) => Undisturbed(req[s])
  BY <1>1, <1>2, <1>3, <1>23, <1>25, RowCommit
<1>27. TablesOK'
  <2>1. campaign' \in Campaign /\ gone' \subseteq People
    BY <1>12 DEF NegInv, TypeOK
  <2>2. app' \in [Creators -> Application \union {NoRow}]
    BY <1>9, <1>12, <1>17
  <2>3. offers' \in [Creators -> Seq(Offer)]
    BY <1>14, <1>17, <1>19
  <2>4. memo' \in [Creators -> Memo \union {NoMemo}]
    BY <1>16, <1>17, <1>20
  <2> QED
    BY <2>1, <2>2, <2>3, <2>4 DEF TablesOK
<1>28. c \in gone => LeftAlone(row, list, draft)
  BY <1>10, <1>14, <1>16, <1>24 DEF LeftAlone
<1>29. StoredInv'
  BY <1>9, <1>14, <1>16, <1>18, <1>21, <1>22, <1>23, <1>24, <1>25, <1>27, <1>28, FewKeeps, OneRow
<1> QED
  BY <1>1, <1>26, <1>27, <1>29, Committed

\* A counter is made while the application waits, and replaces the other side's.
LEMMA MakeKeeps ==
    ASSUME NegInv, NEW r \in Requests, MakeOffer(r)
    PROVE  NegInv'
<1>1. /\ Running(r) /\ ~MoreLocks(r) /\ req[r].op = "make_offer"
      /\ req' = [req EXCEPT ![r] = Idle]
      /\ req[r] \in Request /\ FitsOp(req[r]) /\ Told(req[r])
  <2>1. Commits(r, {"make_offer"})
    BY DEF MakeOffer
  <2> QED
    BY <2>1, Committing
<1>2. PICK p \in Request : p = req[r] /\ p.op \in OfferOps /\ p.op \in RowOps /\ p.step > 1
  BY <1>1, Finished, OpSets DEF RowOps
<1>3. PICK c \in Creators : c = p.creator
  BY <1>1, <1>2, RowIsThere
<1>4. /\ app[c].status \in Waiting /\ c \notin gone /\ MayMake(offers[c], p.side)
  BY <1>1, <1>2, <1>3 DEF Told, OfferStands
<1>5. /\ TellsOne(app[c].status, offers[c]) /\ FromDeal(app[c], offers[c], memo[c])
      /\ offers[c] \in Seq(Offer)
  BY EachRow
<1>6. memo[c] = NoMemo
  BY <1>4, <1>5 DEF FromDeal, Waiting
<1>7. PICK list : list = Counter(offers[c], p.side)
  OBVIOUS
<1>8. p.side \in Sides
  BY DEF Request
<1>10. /\ list \in Seq(Offer) /\ TellsOne(app[c].status, list)
       /\ \A i \in DOMAIN offers[c] : i \in DOMAIN list
  BY <1>4, <1>5, <1>7, <1>8, Countering
<1>11. /\ campaign' = campaign /\ gone' = gone /\ app' = app /\ memo' = memo
       /\ offers' = [offers EXCEPT ![c] = list]
  BY <1>2, <1>3, <1>7 DEF MakeOffer, Counter
<1>12. offers \in [Creators -> Seq(Offer)]
  BY DEF NegInv, TypeOK
<1>13. offers'[c] = list /\ \A d \in Creators \ {c} : offers'[d] = offers[d]
  BY <1>11, <1>12
<1>14. OnlyRows(c)
  BY <1>10, <1>11, <1>13 DEF OnlyRows
<1>15. Invited' \subseteq Invited
  BY <1>11 DEF Invited
<1>16. \A s \in Requests : s # r /\ Running(s) => Undisturbed(req[s])
  BY <1>1, <1>2, <1>3, <1>14, <1>15, RowCommit
<1>17. TablesOK'
  BY <1>10, <1>11, <1>12 DEF NegInv, TypeOK, TablesOK
<1>18. FromDeal(app[c], list, memo[c])
  BY <1>6 DEF FromDeal
<1>19. app[c].status # "invited" \/ Brand \notin gone
  BY DEF NegInv, WhoLeftIsLeftAlone
<1>20. StoredInv'
  BY <1>4, <1>10, <1>11, <1>13, <1>14, <1>15, <1>17, <1>18, <1>19, FewKeeps, OneRow
<1> QED
  BY <1>1, <1>16, <1>17, <1>20, Committed

\* An answer finds the offer open.
LEMMA AnswerKeeps ==
    ASSUME NegInv, NEW r \in Requests, AnswerOffer(r)
    PROVE  NegInv'
<1>1. /\ Running(r) /\ ~MoreLocks(r) /\ req[r].op \in AnswerOps
      /\ req' = [req EXCEPT ![r] = Idle]
      /\ req[r] \in Request /\ FitsOp(req[r]) /\ Told(req[r])
  BY Committing DEF AnswerOffer
<1>2. PICK p \in Request :
        p = req[r] /\ p.op \in AnswerOps /\ p.op \in OfferOps /\ p.op \in RowOps /\ p.step > 1
  BY <1>1, Finished DEF RowOps, OfferOps
<1>3. PICK c \in Creators : c = p.creator
  BY <1>1, <1>2, RowIsThere
<1>4. app[c].status \in Waiting
  BY <1>1, <1>2, <1>3, RowIsThere
<1>5. PICK n \in DOMAIN offers[c] : n = p.nth
  BY <1>1, <1>2, <1>3 DEF Told
<1>6. offers[c][n].outcome = "open"
  BY <1>1, <1>2, <1>3, <1>5 DEF Told, OfferStands, MayAnswer, MayWithdraw, AnswerOps
<1>7. PICK said \in {"accepted", "declined", "withdrawn"} : said = OfferAnswer[p.op]
  BY <1>2 DEF OfferAnswer, AnswerOps
<1>8. /\ TellsOne(app[c].status, offers[c]) /\ FromDeal(app[c], offers[c], memo[c])
      /\ offers[c] \in Seq(Offer)
      /\ c \in gone => LeftAlone(app[c], offers[c], memo[c])
  BY EachRow
<1>9. memo[c] = NoMemo /\ c \notin gone
  BY <1>4, <1>6, <1>8 DEF FromDeal, Waiting, LeftAlone
<1>10. PICK list : list = Settle(offers[c], n, said)
  OBVIOUS
<1>11. list \in Seq(Offer) /\ DOMAIN list = DOMAIN offers[c] /\ TellsOne(app[c].status, list)
  BY <1>6, <1>8, <1>10, Settling
<1>12. /\ campaign' = campaign /\ gone' = gone /\ app' = app /\ memo' = memo
       /\ offers' = [offers EXCEPT ![c] = list]
  BY <1>2, <1>3, <1>5, <1>7, <1>10 DEF AnswerOffer, Settle
<1>13. offers \in [Creators -> Seq(Offer)]
  BY DEF NegInv, TypeOK
<1>14. offers'[c] = list /\ \A d \in Creators \ {c} : offers'[d] = offers[d]
  BY <1>12, <1>13
<1>15. OnlyRows(c)
  BY <1>11, <1>12, <1>14 DEF OnlyRows
<1>16. Invited' \subseteq Invited
  BY <1>12 DEF Invited
<1>17. \A s \in Requests : s # r /\ Running(s) => Undisturbed(req[s])
  BY <1>1, <1>2, <1>3, <1>15, <1>16, RowCommit
<1>18. TablesOK'
  BY <1>11, <1>12, <1>13 DEF NegInv, TypeOK, TablesOK
<1>19. FromDeal(app[c], list, memo[c])
  BY <1>9 DEF FromDeal
<1>20. app[c].status # "invited" \/ Brand \notin gone
  BY DEF NegInv, WhoLeftIsLeftAlone
<1>21. StoredInv'
  BY <1>9, <1>11, <1>12, <1>14, <1>15, <1>16, <1>18, <1>19, <1>20, FewKeeps, OneRow
<1> QED
  BY <1>1, <1>17, <1>18, <1>21, Committed

\* A draft is made once, of an accepted application whose creator is there.
LEMMA CreateKeeps ==
    ASSUME NegInv, NEW r \in Requests, CreateMemo(r)
    PROVE  NegInv'
<1>1. /\ Running(r) /\ ~MoreLocks(r) /\ req[r].op = "create_memo"
      /\ req' = [req EXCEPT ![r] = Idle]
      /\ req[r] \in Request /\ FitsOp(req[r]) /\ Told(req[r]) /\ req[r].step > 1
  BY Committing, Finished DEF CreateMemo
<1>2. PICK p \in Request : p = req[r]
  BY <1>1
<1>3. PICK c \in Creators : c = p.creator
  BY <1>1, <1>2, RowIsThere
<1>4. app[c].status = "accepted" /\ c \notin gone /\ memo[c] = NoMemo
  BY <1>1, <1>2, <1>3 DEF Told
<1>5. PICK draft : draft = [fee |-> DraftFee(p), deal |-> "on"]
  OBVIOUS
<1>6. /\ DraftFee(p) \in {"stated", "agreed", "none"}
      /\ DraftFee(p) # "stated" => (DraftFee(p) = "agreed" <=> AgreedOffers(c) # {})
  BY <1>3 DEF DraftFee
<1>7. draft \in Memo /\ draft.fee = DraftFee(p)
  BY <1>5, <1>6 DEF Memo
<1>8. TellsOne(app[c].status, offers[c]) /\ offers[c] \in Seq(Offer)
  BY EachRow
<1>9. FromDeal(app[c], offers[c], draft)
  <2>1. \A i \in DOMAIN offers[c] : offers[c][i].outcome # "open"
    BY <1>4, <1>8 DEF TellsOne, Waiting
  <2>2. AgreedOffers(c) # {} <=> \E i \in DOMAIN offers[c] : offers[c][i].outcome = "accepted"
    BY DEF AgreedOffers
  <2> QED
    BY <1>4, <1>6, <1>7, <2>1, <2>2 DEF FromDeal
<1>10. /\ campaign' = campaign /\ gone' = gone /\ app' = app /\ offers' = offers
       /\ memo' = [memo EXCEPT ![c] = draft]
  BY <1>2, <1>3, <1>5 DEF CreateMemo
<1>11. memo \in [Creators -> Memo \union {NoMemo}]
  BY DEF NegInv, TypeOK
<1>12. memo'[c] = draft /\ \A d \in Creators \ {c} : memo'[d] = memo[d]
  BY <1>10, <1>11
<1>13. OnlyRows(c)
  BY <1>10, <1>12 DEF OnlyRows
<1>14. Invited' \subseteq Invited
  BY <1>10 DEF Invited
<1>15. \A s \in Requests : s # r /\ Running(s) => Undisturbed(req[s])
  BY <1>1, <1>2, <1>3, <1>13, <1>14, RowCommit
<1>16. TablesOK'
  BY <1>7, <1>10, <1>11 DEF NegInv, TypeOK, TablesOK
<1>17. StoredInv'
  BY <1>4, <1>8, <1>9, <1>10, <1>12, <1>13, <1>14, <1>16, FewKeeps, OneRow
<1> QED
  BY <1>1, <1>15, <1>16, <1>17, Committed

\* The campaign's status moves under its lock; nobody opens one whose brand left.
LEMMA StatusKeeps ==
    ASSUME NegInv, NEW r \in Requests, ChangeStatus(r)
    PROVE  NegInv'
<1>1. /\ Running(r) /\ ~MoreLocks(r) /\ req[r].op \in DOMAIN CampaignMove
      /\ req' = [req EXCEPT ![r] = Idle]
      /\ req[r] \in Request /\ FitsOp(req[r]) /\ Told(req[r])
  BY Committing DEF ChangeStatus
<1>2. PICK p \in Request : p = req[r] /\ p.op \in DOMAIN CampaignMove /\ p.step > 1
  BY <1>1, Finished DEF CampaignOps
<1>3. CampaignMove[p.op] \in AllowedTransitions[campaign.status]
  BY <1>1, <1>2 DEF Told
<1>4. campaign \in Campaign
  BY DEF NegInv, TypeOK
<1>5. campaign.status \notin {"closed", "cancelled"}
  BY <1>3 DEF AllowedTransitions
<1>6. Brand \notin gone
  BY <1>5 DEF NegInv, WhoLeftIsLeftAlone
<1>7. PICK to : to = CampaignMove[p.op]
  OBVIOUS
<1>8. to \in {"open", "closed", "cancelled"}
  <2>1. p.op \in {"publish", "close", "cancel"}
    BY <1>2, OpSets
  <2> QED
    BY <1>7, <2>1 DEF CampaignMove
<1>9. /\ campaign' = [campaign EXCEPT !.status = to]
      /\ app' = app /\ offers' = offers /\ memo' = memo /\ gone' = gone
  BY <1>2, <1>7 DEF ChangeStatus
<1>10. campaign' \in Campaign
  BY <1>4, <1>8, <1>9 DEF Campaign
<1>11. TablesOK'
  BY <1>9, <1>10 DEF NegInv, TypeOK, TablesOK
<1>12. OffersTellOneNegotiation' /\ MemoComesFromTheDeal'
  BY <1>9 DEF NegInv, OffersTellOneNegotiation, MemoComesFromTheDeal, OpenOffers, AgreedOffers
<1>13. WhoLeftIsLeftAlone'
  <2>1. gone' \subseteq People /\ Brand \notin gone'
    BY <1>6, <1>9 DEF NegInv, TypeOK
  <2>2. \A c \in Creators : c \in gone' => LeftAlone(app'[c], offers'[c], memo'[c])
    BY <1>9, EachRow
  <2> QED
    BY <2>1, <2>2, LeftAloneNext
<1>14. Invited' \subseteq Invited
  BY <1>9 DEF Invited
<1>15. ASSUME NEW s \in Requests, s # r, Running(s)
       PROVE  Undisturbed(req[s])
  <2>1. PICK q \in Request : q = req[s]
    BY <1>15, InFlight DEF NegInv
  <2>2. ~OnCampaign(q)
    <3>1. OnCampaign(p)
      BY <1>2 DEF OnCampaign
    <3> QED
      BY <1>1, <1>2, <1>15, <2>1, <3>1, Alone
  <2>3. Cardinality(Invited') <= Cardinality(Invited)
    BY <1>14, FewKeeps
  <2>4. Undisturbed(q)
    BY <1>9, <2>2, <2>3 DEF Undisturbed
  <2> QED
    BY <2>1, <2>4
<1>16. StoredInv'
  BY <1>12, <1>13, <1>14, FewKeeps DEF StoredInv
<1> QED
  BY <1>1, <1>11, <1>15, <1>16, Committed

\* A draft is changed as a whole; its status stays.
LEMMA UpdateKeeps ==
    ASSUME NegInv, NEW r \in Requests, UpdateCampaign(r)
    PROVE  NegInv'
<1>1. /\ Running(r) /\ ~MoreLocks(r) /\ req[r].op = "patch"
      /\ req' = [req EXCEPT ![r] = Idle]
      /\ req[r] \in Request /\ FitsOp(req[r]) /\ Told(req[r])
  BY Committing DEF UpdateCampaign
<1>2. req[r].with \in CampaignTypes
  BY <1>1 DEF FitsOp
<1>3. campaign \in Campaign
  BY DEF NegInv, TypeOK
<1>4. /\ campaign' = [campaign EXCEPT !.type = req[r].with]
      /\ app' = app /\ offers' = offers /\ memo' = memo /\ gone' = gone
  BY DEF UpdateCampaign
<1>5. campaign' \in Campaign /\ campaign'.status = campaign.status
  BY <1>2, <1>3, <1>4 DEF Campaign
<1>6. TablesOK'
  BY <1>4, <1>5 DEF NegInv, TypeOK, TablesOK
<1>7. OffersTellOneNegotiation' /\ MemoComesFromTheDeal'
  BY <1>4 DEF NegInv, OffersTellOneNegotiation, MemoComesFromTheDeal, OpenOffers, AgreedOffers
<1>8. WhoLeftIsLeftAlone'
  BY <1>4, <1>5 DEF NegInv, WhoLeftIsLeftAlone, OpenOffers
<1>9. Invited' \subseteq Invited
  BY <1>4 DEF Invited
<1>10. Cardinality(Invited') <= Cardinality(Invited)
  BY <1>9, FewKeeps
<1>11. \A q \in Request : Undisturbed(q)
  BY <1>4, <1>5, <1>10 DEF Undisturbed
<1>12. \A s \in Requests : s # r /\ Running(s) => Undisturbed(req[s])
  BY <1>11, InFlight DEF NegInv
<1>13. StoredInv'
  BY <1>7, <1>8, <1>9, FewKeeps DEF StoredInv
<1> QED
  BY <1>1, <1>6, <1>12, <1>13, Committed

\* An ending of some applications at once: each waiting one of the given
\* creators is ended, and its open offer with it.
LEMMA EndingEach ==
    ASSUME NegInv, NEW moves, NEW S, S \subseteq Creators, End(moves, S),
           DOMAIN moves \subseteq Waiting,
           \A from \in DOMAIN moves : moves[from] \in Final,
           NEW c \in Creators
    PROVE  /\ app'[c] \in Application \union {NoRow} /\ offers'[c] \in Seq(Offer)
           /\ app' \in [Creators -> Application \union {NoRow}]
           /\ offers' \in [Creators -> Seq(Offer)]
           /\ DOMAIN offers'[c] = DOMAIN offers[c]
           /\ TellsOne(app'[c].status, offers'[c]) /\ FromDeal(app'[c], offers'[c], memo[c])
           /\ LeftAlone(app[c], offers[c], memo[c]) => LeftAlone(app'[c], offers'[c], memo[c])
           /\ ~(c \in S /\ app[c].status \in DOMAIN moves) =>
                app'[c] = app[c] /\ offers'[c] = offers[c]
           /\ c \in S /\ app[c].status \in DOMAIN moves =>
                /\ app'[c].status \in Final
                /\ \A i \in DOMAIN offers'[c] : offers'[c][i].outcome # "open"
           /\ \A i \in DOMAIN offers[c] :
                /\ offers[c][i].outcome # "open" => offers'[c][i] = offers[c][i]
                /\ offers'[c][i].outcome = "accepted" <=> offers[c][i].outcome = "accepted"
<1> DEFINE Ends(d) == d \in S /\ app[d].status \in DOMAIN moves
           EndedRow(d) == IF Ends(d) THEN [app[d] EXCEPT !.status = moves[app[d].status]] ELSE app[d]
           EndedList(d) == IF Ends(d) THEN CloseOpen(offers[d], "nobody") ELSE offers[d]
<1>1. app' = [d \in Creators |-> EndedRow(d)] /\ offers' = [d \in Creators |-> EndedList(d)]
  BY Zenon DEF End
<1>2. ASSUME NEW d \in Creators
      PROVE  /\ EndedRow(d) \in Application \union {NoRow} /\ EndedList(d) \in Seq(Offer)
             /\ DOMAIN EndedList(d) = DOMAIN offers[d]
             /\ TellsOne(EndedRow(d).status, EndedList(d)) /\ FromDeal(EndedRow(d), EndedList(d), memo[d])
             /\ LeftAlone(app[d], offers[d], memo[d]) => LeftAlone(EndedRow(d), EndedList(d), memo[d])
             /\ ~Ends(d) => EndedRow(d) = app[d] /\ EndedList(d) = offers[d]
             /\ Ends(d) => /\ EndedRow(d).status \in Final
                           /\ \A i \in DOMAIN EndedList(d) : EndedList(d)[i].outcome # "open"
             /\ \A i \in DOMAIN offers[d] :
                  /\ offers[d][i].outcome # "open" => EndedList(d)[i] = offers[d][i]
                  /\ EndedList(d)[i].outcome = "accepted" <=> offers[d][i].outcome = "accepted"
  <2>1. /\ app[d] \in Application \union {NoRow} /\ offers[d] \in Seq(Offer)
        /\ TellsOne(app[d].status, offers[d]) /\ FromDeal(app[d], offers[d], memo[d])
    BY EachRow
  <2>2. CASE ~Ends(d)
    BY <2>1, <2>2
  <2>3. CASE Ends(d)
    <3>1. app[d].status \in Waiting /\ moves[app[d].status] \in Final
      BY <2>3
    <3>2. app[d] \in Application
      BY <2>1, <3>1 DEF NoRow, Waiting
    <3>3. PICK row : row = [app[d] EXCEPT !.status = moves[app[d].status]]
      OBVIOUS
    <3>4. row \in Application /\ row.status \in Final
      BY <3>1, <3>2, <3>3 DEF Application
    <3>5. PICK list : list = CloseOpen(offers[d], "nobody")
      OBVIOUS
    <3>6. /\ list \in Seq(Offer) /\ DOMAIN list = DOMAIN offers[d]
          /\ \A i \in DOMAIN list : list[i].outcome # "open"
          /\ TellsOne(row.status, list)
          /\ \A i \in DOMAIN offers[d] :
               /\ offers[d][i].outcome # "open" => list[i] = offers[d][i]
               /\ list[i].outcome = "accepted" <=> offers[d][i].outcome = "accepted"
      BY <2>1, <3>5, Closing
    <3>7. memo[d] = NoMemo
      BY <2>1, <3>1 DEF FromDeal, Waiting
    <3>8. FromDeal(row, list, memo[d])
      BY <3>7 DEF FromDeal
    <3>9. LeftAlone(row, list, memo[d])
      BY <3>4, <3>6, <3>7 DEF LeftAlone, Final
    <3>10. EndedRow(d) = row /\ EndedList(d) = list
      BY <2>3, <3>3, <3>5
    <3> HIDE DEF EndedRow, EndedList
    <3> QED
      BY <2>3, <3>4, <3>6, <3>8, <3>9, <3>10
  <2> QED
    BY <2>2, <2>3
<1>3. app'[c] = EndedRow(c) /\ offers'[c] = EndedList(c)
  BY <1>1
<1> HIDE DEF EndedRow, EndedList
<1> QED
  BY <1>1, <1>2, <1>3 DEF Ends

\* The brand's erasure ends its campaign and the invitations on it.
LEMMA EraseBrandKeeps ==
    ASSUME NegInv, NEW r \in Requests, EraseBrand(r)
    PROVE  NegInv'
<1>1. /\ Running(r) /\ ~MoreLocks(r) /\ req[r].op = "erase_brand"
      /\ req' = [req EXCEPT ![r] = Idle]
      /\ req[r] \in Request /\ FitsOp(req[r]) /\ Told(req[r])
      /\ req[r].step > 1 /\ req[r].step > NCreators + 1
  BY Committing, Finished DEF EraseBrand
<1>2. OnCampaign(req[r]) /\ \A c \in Creators : OnApplication(req[r], c)
  BY <1>1 DEF OnCampaign, OnApplication
<1>3. End(BrandLeaving, Creators) /\ memo' = memo /\ gone' = gone \union {Brand}
  BY DEF EraseBrand
<1>4. /\ DOMAIN BrandLeaving = {"invited"} /\ DOMAIN BrandLeaving \subseteq Waiting
      /\ \A from \in DOMAIN BrandLeaving : BrandLeaving[from] \in Final
  BY DEF BrandLeaving, Waiting, Final
<1>5. \A c \in Creators :
        /\ app'[c] \in Application \union {NoRow} /\ offers'[c] \in Seq(Offer)
        /\ DOMAIN offers'[c] = DOMAIN offers[c]
        /\ TellsOne(app'[c].status, offers'[c]) /\ FromDeal(app'[c], offers'[c], memo[c])
        /\ LeftAlone(app[c], offers[c], memo[c]) => LeftAlone(app'[c], offers'[c], memo[c])
        /\ app[c].status # "invited" => app'[c] = app[c] /\ offers'[c] = offers[c]
        /\ app[c].status = "invited" => app'[c].status \in Final
  BY <1>3, <1>4, EndingEach
<1>6. /\ app' \in [Creators -> Application \union {NoRow}]
      /\ offers' \in [Creators -> Seq(Offer)]
  <2>1. /\ app' = [c \in Creators |-> app'[c]] /\ offers' = [c \in Creators |-> offers'[c]]
    BY <1>3 DEF End
  <2> QED
    BY <1>5, <2>1
<1>7. campaign' \in Campaign /\ campaign'.status \in {"closed", "cancelled"}
  <2>1. campaign \in Campaign
    BY DEF NegInv, TypeOK
  <2>2. /\ DOMAIN CampaignLeaving = {"draft", "open"}
        /\ CampaignLeaving["draft"] = "cancelled" /\ CampaignLeaving["open"] = "closed"
    BY DEF CampaignLeaving
  <2>3. campaign' = IF campaign.status \in DOMAIN CampaignLeaving
                    THEN [campaign EXCEPT !.status = CampaignLeaving[campaign.status]]
                    ELSE campaign
    BY DEF EraseBrand
  <2>4. CASE campaign.status = "draft"
    BY <2>1, <2>2, <2>3, <2>4 DEF Campaign
  <2>5. CASE campaign.status = "open"
    BY <2>1, <2>2, <2>3, <2>5 DEF Campaign
  <2>6. CASE campaign.status \notin {"draft", "open"}
    BY <2>1, <2>2, <2>3, <2>6 DEF Campaign
  <2> QED
    BY <2>4, <2>5, <2>6
<1>8. TablesOK'
  BY <1>3, <1>6, <1>7 DEF NegInv, TypeOK, TablesOK, People
<1>9. OffersTellOneNegotiation'
  BY <1>5 DEF OffersTellOneNegotiation, TellsOne, OpenOffers
<1>10. MemoComesFromTheDeal'
  BY <1>3, <1>5 DEF MemoComesFromTheDeal, FromDeal, OpenOffers, AgreedOffers
<1>11. \A c \in Creators : app'[c].status # "invited"
  BY <1>5 DEF Final
<1>12. \A c \in Creators : c \in gone' => c \in gone
  BY <1>3, EachRow
<1>13. WhoLeftIsLeftAlone'
  <2>1. \A c \in Creators : c \in gone' => LeftAlone(app'[c], offers'[c], memo'[c])
    BY <1>3, <1>5, <1>12, EachRow
  <2>2. gone' \subseteq People
    BY <1>8 DEF TablesOK
  <2> QED
    BY <1>7, <1>11, <2>1, <2>2, LeftAloneNext
<1>14. Invited' \subseteq Invited
  BY <1>11 DEF Invited
<1>15. ASSUME NEW s \in Requests, s # r, Running(s)
       PROVE  Undisturbed(req[s])
  <2>1. PICK q \in Request : q = req[s]
    BY <1>15, InFlight DEF NegInv
  <2>2. FitsOp(q) /\ Told(q)
    BY <1>15, <2>1 DEF NegInv, AllFit, ToldStands
  <2>3. ~OnCampaign(q) /\ \A c \in Creators : ~OnApplication(q, c)
    BY <1>1, <1>2, <1>15, <2>1, Alone
  <2>4. ~(q.op \in RowOps \union {"create_memo"} /\ q.step > 1)
    <3>1. ASSUME q.op \in RowOps \union {"create_memo"}, q.step > 1
          PROVE  FALSE
      <4>1. OnApplication(q, q.creator)
        BY <3>1 DEF OnApplication
      <4>2. q.creator \in Creators
        BY <2>2, <3>1, RowIsThere
      <4> QED
        BY <2>3, <4>1, <4>2
    <3> QED
      BY <3>1
  <2>5. OnSlot(q, q.creator) => app'[q.creator] = app[q.creator]
    <3>1. ASSUME OnSlot(q, q.creator)
          PROVE  app'[q.creator] = app[q.creator]
      <4>1. q.creator \in Creators /\ app[q.creator] = NoRow
        BY <2>2, <3>1, SlotIsEmpty
      <4>2. app[q.creator].status # "invited"
        BY <4>1 DEF NoRow
      <4> QED
        BY <1>5, <4>1, <4>2
    <3> QED
      BY <3>1
  <2>6. ~(q.op = "invite" /\ q.step > 2)
    <3>1. q.op = "invite" /\ q.step > 2 => q.step > 1
      BY DEF Request
    <3> QED
      BY <2>3, <3>1 DEF OnCampaign
  <2>7. q.op \in AnswerOps => DOMAIN offers[q.creator] \subseteq DOMAIN offers'[q.creator]
    <3>1. q.op \in AnswerOps => q.creator \in Creators
      BY <2>2, OpSets DEF FitsOp, AnswerOps
    <3> QED
      BY <1>5, <3>1
  <2>8. Undisturbed(q)
    BY <2>3, <2>4, <2>5, <2>6, <2>7 DEF Undisturbed
  <2> QED
    BY <2>1, <2>8
<1>16. StoredInv'
  BY <1>9, <1>10, <1>13, <1>14, FewKeeps DEF StoredInv
<1> QED
  BY <1>1, <1>8, <1>15, <1>16, Committed

\* A creator's erasure ends what waits of theirs; a deal would have held it.
LEMMA EraseCreatorKeeps ==
    ASSUME NegInv, NEW r \in Requests, EraseCreator(r)
    PROVE  NegInv'
<1>1. /\ Running(r) /\ ~MoreLocks(r) /\ req[r].op = "erase_creator"
      /\ req' = [req EXCEPT ![r] = Idle]
      /\ req[r] \in Request /\ FitsOp(req[r]) /\ Told(req[r])
      /\ req[r].step > 2
  BY Committing, Finished DEF EraseCreator
<1>2. req[r].step > 1
  BY <1>1 DEF Request
<1>3. PICK c \in Creators : c = req[r].creator
  BY <1>1, OpSets DEF FitsOp
<1>4. OnApplication(req[r], c)
  BY <1>1, <1>3 DEF OnApplication
<1>5. /\ End(CreatorLeaving, {c}) /\ memo' = memo /\ campaign' = campaign
      /\ gone' = gone \union {c} /\ Erases(c)
  BY <1>3 DEF EraseCreator
<1>6. /\ DOMAIN CreatorLeaving = Waiting
      /\ \A from \in DOMAIN CreatorLeaving : CreatorLeaving[from] \in Final
  BY DEF CreatorLeaving, Waiting, Final
<1>7. \A d \in Creators :
        /\ app'[d] \in Application \union {NoRow} /\ offers'[d] \in Seq(Offer)
        /\ DOMAIN offers'[d] = DOMAIN offers[d]
        /\ TellsOne(app'[d].status, offers'[d]) /\ FromDeal(app'[d], offers'[d], memo[d])
        /\ LeftAlone(app[d], offers[d], memo[d]) => LeftAlone(app'[d], offers'[d], memo[d])
        /\ ~(d = c /\ app[d].status \in Waiting) => app'[d] = app[d] /\ offers'[d] = offers[d]
        /\ d = c /\ app[d].status \in Waiting =>
             /\ app'[d].status \in Final
             /\ \A i \in DOMAIN offers'[d] : offers'[d][i].outcome # "open"
  BY <1>5, <1>6, EndingEach
<1>8. /\ app' \in [Creators -> Application \union {NoRow}]
      /\ offers' \in [Creators -> Seq(Offer)]
  <2>1. /\ app' = [d \in Creators |-> app'[d]] /\ offers' = [d \in Creators |-> offers'[d]]
    BY <1>5 DEF End
  <2> QED
    BY <1>7, <2>1
<1>9. TablesOK'
  BY <1>5, <1>8 DEF NegInv, TypeOK, TablesOK, People
<1>10. OffersTellOneNegotiation'
  BY <1>7 DEF OffersTellOneNegotiation, TellsOne, OpenOffers
<1>11. MemoComesFromTheDeal'
  BY <1>5, <1>7 DEF MemoComesFromTheDeal, FromDeal, OpenOffers, AgreedOffers
<1>12. \A d \in Creators : app'[d].status = "invited" => app[d].status = "invited"
  BY <1>7 DEF Final
<1>13. LeftAlone(app'[c], offers'[c], memo[c])
  <2>1. memo[c] # NoMemo => memo[c].deal # "on"
    BY <1>5, EachRow DEF Erases, Unfinished
  <2>2. CASE app[c].status \in Waiting
    BY <1>7, <2>1, <2>2 DEF LeftAlone, Final
  <2>3. CASE app[c].status \notin Waiting
    <3>1. TellsOne(app[c].status, offers[c])
      BY EachRow
    <3> QED
      BY <1>7, <2>1, <2>3, <3>1 DEF LeftAlone, TellsOne, Waiting
  <2> QED
    BY <2>2, <2>3
<1>14. WhoLeftIsLeftAlone'
  <2>1. \A d \in Creators : d \in gone' => LeftAlone(app'[d], offers'[d], memo'[d])
    BY <1>5, <1>7, <1>13, EachRow
  <2>2. gone' \subseteq People
    BY <1>9 DEF TablesOK
  <2>3. Brand \in gone' => Brand \in gone
    BY <1>5, EachRow
  <2>4. Brand \in gone' => /\ campaign'.status \in {"closed", "cancelled"}
                           /\ \A d \in Creators : app'[d].status # "invited"
    BY <1>5, <1>12, <2>3 DEF NegInv, WhoLeftIsLeftAlone
  <2> QED
    BY <2>1, <2>2, <2>4, LeftAloneNext
<1>15. Invited' \subseteq Invited
  BY <1>12 DEF Invited
<1>16. ASSUME NEW s \in Requests, s # r, Running(s)
       PROVE  Undisturbed(req[s])
  <2>1. PICK q \in Request : q = req[s]
    BY <1>16, InFlight DEF NegInv
  <2>2. FitsOp(q) /\ Told(q)
    BY <1>16, <2>1 DEF NegInv, AllFit, ToldStands
  <2>3. ~OnApplication(q, c) /\ ~(q.op = "invite" /\ q.step > 2 /\ q.creator = c)
    BY <1>1, <1>2, <1>3, <1>4, <1>16, <2>1, Alone
  <2>4. q.op \in RowOps \union {"create_memo"} /\ q.step > 1 =>
          q.creator \in Creators /\ q.creator # c
    <3>1. ASSUME q.op \in RowOps \union {"create_memo"}, q.step > 1
          PROVE  q.creator \in Creators /\ q.creator # c
      <4>1. OnApplication(q, q.creator)
        BY <3>1 DEF OnApplication
      <4>2. q.creator \in Creators
        BY <2>2, <3>1, RowIsThere
      <4> QED
        BY <2>3, <4>1, <4>2
    <3> QED
      BY <3>1
  <2>5. OnSlot(q, q.creator) => app'[q.creator] = app[q.creator]
    <3>1. ASSUME OnSlot(q, q.creator)
          PROVE  app'[q.creator] = app[q.creator]
      <4>1. q.creator \in Creators /\ app[q.creator] = NoRow
        BY <2>2, <3>1, SlotIsEmpty
      <4>2. app[q.creator].status \notin Waiting
        BY <4>1 DEF NoRow, Waiting
      <4> QED
        BY <1>7, <4>1, <4>2
    <3> QED
      BY <3>1
  <2>6. Cardinality(Invited') <= Cardinality(Invited)
    BY <1>15, FewKeeps
  <2>7. q.op \in AnswerOps => DOMAIN offers[q.creator] \subseteq DOMAIN offers'[q.creator]
    <3>1. q.op \in AnswerOps => q.creator \in Creators
      BY <2>2, OpSets DEF FitsOp, AnswerOps
    <3> QED
      BY <1>7, <3>1
  <2>8. \A d : d # c => (d \in gone' => d \in gone)
    BY <1>5
  <2>9. Undisturbed(q)
    BY <1>5, <1>7, <2>3, <2>4, <2>5, <2>6, <2>7, <2>8 DEF Undisturbed
  <2> QED
    BY <2>1, <2>9
<1>17. StoredInv'
  BY <1>10, <1>11, <1>14, <1>15, FewKeeps DEF StoredInv
<1> QED
  BY <1>1, <1>9, <1>16, <1>17, Committed

\* A deal that ends, or is disputed, keeps its memo and is not on again.
DealMoves(c) ==
    /\ memo[c] # NoMemo
    /\ \E to \in {"over", "disputed", "closed"} : memo' = [memo EXCEPT ![c].deal = to]
    /\ UNCHANGED <<campaign, app, offers, gone, req>>

LEMMA Dealing ==
    ASSUME NEW c \in Creators, FinishDeal(c) \/ OpenDispute(c) \/ CloseDispute(c)
    PROVE  DealMoves(c)
BY DEF FinishDeal, OpenDispute, CloseDispute, DealGoes, DealMoves

LEMMA DealKeeps ==
    ASSUME NegInv, NEW c \in Creators, DealMoves(c)
    PROVE  NegInv'
<1>1. /\ memo[c] # NoMemo
      /\ campaign' = campaign /\ app' = app /\ offers' = offers /\ gone' = gone /\ req' = req
  BY DEF DealMoves
<1>2. memo \in [Creators -> Memo \union {NoMemo}]
  BY DEF NegInv, TypeOK
<1>3. PICK to \in {"over", "disputed", "closed"} : memo' = [memo EXCEPT ![c].deal = to]
  BY DEF DealMoves
<1>4. PICK draft : draft = [memo[c] EXCEPT !.deal = to]
  OBVIOUS
<1>5. draft \in Memo /\ draft.fee = memo[c].fee /\ draft.deal # "on"
  <2>1. memo[c] \in Memo
    BY <1>1, <1>2
  <2> QED
    BY <1>3, <1>4, <2>1 DEF Memo
<1>6. memo'[c] = draft /\ \A d \in Creators \ {c} : memo'[d] = memo[d]
  BY <1>2, <1>3, <1>4
<1>7. TablesOK'
  BY <1>1, <1>2, <1>3, <1>4, <1>5 DEF NegInv, TypeOK, TablesOK
<1>8. OnlyRows(c)
  BY <1>1, <1>6 DEF OnlyRows
<1>9. /\ TellsOne(app[c].status, offers[c]) /\ FromDeal(app[c], offers[c], memo[c])
      /\ c \in gone => LeftAlone(app[c], offers[c], memo[c])
  BY EachRow
<1>10. FromDeal(app[c], offers[c], draft) /\ (c \in gone => LeftAlone(app[c], offers[c], draft))
  BY <1>1, <1>5, <1>9 DEF FromDeal, LeftAlone
<1>11. Invited' \subseteq Invited
  BY <1>1 DEF Invited
<1>12. app[c].status # "invited" \/ Brand \notin gone
  BY DEF NegInv, WhoLeftIsLeftAlone
<1>13. StoredInv'
  BY <1>1, <1>6, <1>7, <1>8, <1>9, <1>10, <1>11, <1>12, FewKeeps, OneRow
<1>14. req' \in [Requests -> Request \union {Idle}]
  BY <1>1 DEF NegInv, TypeOK
<1>15. AllFit' /\ Exclusive'
  BY <1>1 DEF NegInv, AllFit, Exclusive, Running, Held, Order
<1>16. ToldStands'
  <2>1. ASSUME NEW s \in Requests, Running(s)'
        PROVE  Told(req[s])'
    <3>1. Running(s)
      BY <1>1, <2>1 DEF Running
    <3>2. PICK q \in Request : q = req[s]
      BY <3>1, InFlight DEF NegInv
    <3>3. FitsOp(q) /\ Told(q)
      BY <3>1, <3>2 DEF NegInv, AllFit, ToldStands
    <3>4. q.op = "create_memo" /\ q.step > 1 => q.creator \in Creators /\ q.creator # c
      BY <1>1, <3>3, RowIsThere DEF Told
    <3>5. Cardinality(Invited') <= Cardinality(Invited) /\ Cardinality(Invited') \in Nat
      <4>1. Invited' = Invited
        BY <1>1 DEF Invited
      <4> QED
        BY <4>1, InvitedFinite
    <3>6. Undisturbed(q)
      BY <1>1, <1>6, <3>4, <3>5 DEF Undisturbed
    <3>7. Told(q)'
      BY <3>3, <3>5, <3>6, ToldKeeps
    <3> QED
      BY <1>1, <3>2, <3>7
  <2> QED
    BY <2>1 DEF ToldStands
<1> QED
  BY <1>7, <1>13, <1>14, <1>15, <1>16, Whole

-----------------------------------------------------------------------------
(* The invariant holds.                                                       *)

LEMMA Initially == Init => NegInv
<1> SUFFICES ASSUME Init
             PROVE  NegInv
  OBVIOUS
<1>1. \A r \in Requests : ~Running(r) /\ Held(r) = {}
  BY DEF Init, Running, Held
<1>2. \A c \in Creators : app[c] = NoRow /\ offers[c] = <<>> /\ memo[c] = NoMemo
  BY DEF Init
<1>3. TypeOK
  BY CampaignTypesAssumption DEF Init, TypeOK, Campaign
<1>4. AllFit /\ Exclusive /\ ToldStands
  BY <1>1 DEF AllFit, Exclusive, ToldStands
<1>5. \A c \in Creators : TellsOne(app[c].status, offers[c])
  BY <1>2 DEF TellsOne
<1>6. \A c \in Creators : FromDeal(app[c], offers[c], memo[c])
  BY <1>2 DEF FromDeal
<1>7. OffersTellOneNegotiation /\ MemoComesFromTheDeal
  BY <1>5, <1>6, TellsEach
<1>8. WhoLeftIsLeftAlone
  BY DEF Init, WhoLeftIsLeftAlone
<1>9. WaitingInvitationsAreFew
  <2>1. Invited = {}
    BY <1>2 DEF Invited, NoRow
  <2>2. Cardinality(Invited) = 0
    BY <2>1, FS_EmptySet
  <2> QED
    BY <2>2, LimitsAssumption DEF WaitingInvitationsAreFew, Invited
<1> QED
  BY <1>3, <1>4, <1>7, <1>8, <1>9 DEF NegInv

LEMMA StepKeeps == NegInv /\ [Next]_vars => NegInv'
<1> SUFFICES ASSUME NegInv, [Next]_vars
             PROVE  NegInv'
  OBVIOUS
<1>1. ASSUME NEW r \in Requests,
             \/ Begin(r) \/ Lock(r) \/ Refuse(r) \/ TimeOut(r)
             \/ ApplyToCampaign(r) \/ InviteCreator(r) \/ MoveApplication(r)
             \/ MakeOffer(r) \/ AnswerOffer(r) \/ CreateMemo(r)
             \/ ChangeStatus(r) \/ UpdateCampaign(r)
             \/ EraseBrand(r) \/ EraseCreator(r) \/ EraseHeld(r)
      PROVE  NegInv'
  <2>1. CASE Begin(r)
    BY <2>1, BeginKeeps
  <2>2. CASE Lock(r)
    BY <2>2, LockKeeps
  <2>3. CASE Refuse(r)
    BY <2>3, RefuseKeeps DEF Refuse, Unwritten
  <2>4. CASE TimeOut(r)
    BY <2>4, RefuseKeeps DEF TimeOut, Unwritten
  <2>5. CASE ApplyToCampaign(r)
    BY <2>5, ApplyKeeps
  <2>6. CASE InviteCreator(r)
    BY <2>6, InviteKeeps
  <2>7. CASE MoveApplication(r)
    BY <2>7, MoveKeeps
  <2>8. CASE MakeOffer(r)
    BY <2>8, MakeKeeps
  <2>9. CASE AnswerOffer(r)
    BY <2>9, AnswerKeeps
  <2>10. CASE CreateMemo(r)
    BY <2>10, CreateKeeps
  <2>11. CASE ChangeStatus(r)
    BY <2>11, StatusKeeps
  <2>12. CASE UpdateCampaign(r)
    BY <2>12, UpdateKeeps
  <2>13. CASE EraseBrand(r)
    BY <2>13, EraseBrandKeeps
  <2>14. CASE EraseCreator(r)
    BY <2>14, EraseCreatorKeeps
  <2>15. CASE EraseHeld(r)
    BY <2>15, RefuseKeeps DEF EraseHeld, Commits, Unwritten
  <2> QED
    BY <1>1, <2>1, <2>2, <2>3, <2>4, <2>5, <2>6, <2>7, <2>8, <2>9, <2>10, <2>11, <2>12,
       <2>13, <2>14, <2>15
<1>2. ASSUME NEW c \in Creators, FinishDeal(c) \/ OpenDispute(c) \/ CloseDispute(c)
      PROVE  NegInv'
  BY <1>2, Dealing, DealKeeps
<1>3. CASE UNCHANGED vars
  <2>1. UNCHANGED <<campaign, app, offers, memo, gone, req>>
    BY <1>3 DEF vars
  <2>2. TypeOK'
    BY <2>1 DEF NegInv, TypeOK
  <2>3. AllFit'
    BY <2>1 DEF NegInv, AllFit, Running
  <2>4. Exclusive'
    BY <2>1 DEF NegInv, Exclusive, Running, Held, Order
  <2>5. ToldStands'
    <3> SUFFICES ASSUME NEW r \in Requests, Running(r)'
                 PROVE  Told(req[r])'
      BY DEF ToldStands
    <3>1. Running(r) /\ Told(req[r])
      BY <2>1 DEF NegInv, ToldStands, Running
    <3>2. PICK p : p = req[r] /\ p = req'[r]
      BY <2>1
    <3>3. MoveStands(p) => MoveStands(p)'
      BY <2>1 DEF MoveStands, OpenOffers
    <3>4. OfferStands(p) => OfferStands(p)'
      BY <2>1 DEF OfferStands
    <3>5. Invited' = Invited
      BY <2>1 DEF Invited
    <3>6. Told(p) => Told(p)'
      BY <2>1, <3>3, <3>4, <3>5 DEF Told
    <3>7. Told(p)
      BY <3>1, <3>2
    <3>8. Told(p)'
      BY <3>6, <3>7
    <3> QED
      BY <3>2, <3>7, <3>8
  <2>6. OffersTellOneNegotiation'
    BY <2>1 DEF NegInv, OffersTellOneNegotiation, OpenOffers
  <2>7. MemoComesFromTheDeal'
    BY <2>1 DEF NegInv, MemoComesFromTheDeal, OpenOffers, AgreedOffers
  <2>8. WhoLeftIsLeftAlone' /\ WaitingInvitationsAreFew'
    BY <2>1 DEF NegInv, WhoLeftIsLeftAlone, WaitingInvitationsAreFew, OpenOffers
  <2> QED
    BY <2>2, <2>3, <2>4, <2>5, <2>6, <2>7, <2>8 DEF NegInv
<1> QED
  BY <1>1, <1>2, <1>3 DEF Next

\* Whatever is asked and however it interleaves, what is stored stays as it
\* should be, and what a request found under its locks still stands when it
\* writes.
THEOREM NegotiationHolds == Spec => []NegInv
<1>1. Init => NegInv
  BY Initially
<1>2. NegInv /\ [Next]_vars => NegInv'
  BY StepKeeps
<1> QED
  BY <1>1, <1>2, PTL DEF Spec

-----------------------------------------------------------------------------
(* What the invariant shows.                                                  *)

\* The offers of an application read as one negotiation (offer_service.py).
THEOREM OffersReadAsOne == Spec => []OneNegotiation
<1>1. NegInv => OneNegotiation
  BY DEF NegInv, OneNegotiation
<1> QED
  BY <1>1, NegotiationHolds, PTL

\* A draft starts from what was agreed on its application
\* (deal_memo/service.py).
THEOREM MemosComeFromDeals == Spec => []MemoComesFromTheDeal
<1>1. NegInv => MemoComesFromTheDeal
  BY DEF NegInv
<1> QED
  BY <1>1, NegotiationHolds, PTL

\* An erasure leaves nothing to answer, whatever was in flight beside it
\* (departure_service.py).
THEOREM LeaversAreLeftAlone == Spec => []WhoLeftIsLeftAlone
<1>1. NegInv => WhoLeftIsLeftAlone
  BY DEF NegInv
<1> QED
  BY <1>1, NegotiationHolds, PTL

\* Invitations sent at once stay within the limit (invitation_service.py).
THEOREM InvitationsStayFew == Spec => []WaitingInvitationsAreFew
<1>1. NegInv => WaitingInvitationsAreFew
  BY DEF NegInv
<1> QED
  BY <1>1, NegotiationHolds, PTL

-----------------------------------------------------------------------------
(* Circles of waiting requests.                                               *)

Holders == {"invite", "erase_brand"}

\* How far a request is that holds no campaign: it only ever waits for one that
\* is further.
Layer(q) ==
    IF q.op \in RowOps \union {"apply"} /\ q.step = 2 THEN 4
    ELSE IF q.op \in RowOps \union {"create_memo"} \/ (q.op = "erase_creator" /\ q.step = 2) THEN 3
    ELSE IF q.op = "erase_creator" \/ (q.op = "apply" /\ q.step # 1) THEN 2
    ELSE IF q.op \in CampaignOps THEN 1 ELSE 0

\* What such a request holds and waits for.
LEMMA Waits ==
    ASSUME NEW q \in Request, q.op \notin Holders, q.step <= Len(LockOrder(q)),
           NEW lock, lock = LockOrder(q)[q.step]
    PROVE  /\ Layer(q) \in 0..4
           /\ Layer(q) = 4 => lock.table = "campaign" /\ lock.mode = "key_share"
           /\ Layer(q) = 3 => lock.table = "application"
           /\ Layer(q) = 2 => lock.table = "creator"
           /\ Layer(q) = 1 => lock.table = "campaign"
           /\ Layer(q) = 0 => lock.table = "slot"
           /\ \A b \in HeldOf(q) :
                /\ b.table \in {"slot", "campaign", "application", "creator"}
                /\ b.table = "slot" => Layer(q) > 0
                /\ b.table = "campaign" => b.mode = "key_share" /\ Layer(q) > 1
                /\ b.table = "application" => Layer(q) = 4
                /\ b.table = "creator" => Layer(q) > 2
<1>1. \A t, c, m : Row(t, c, m).table = t /\ Row(t, c, m).mode = m
  BY DEF Row
<1>2. PICK o : o = LockOrder(q)
  OBVIOUS
<1>3. PICK n : n = q.step
  OBVIOUS
<1>4. n \in Nat /\ n >= 1 /\ n <= Len(o) /\ lock = o[n]
  BY <1>2, <1>3, NCreatorsAssumption DEF Request
<1>5. \A b \in HeldOf(q) : \E i \in 1..(n - 1) : b = o[i]
  BY <1>2, <1>3 DEF HeldOf
<1>6. CASE q.op = "apply"
  <2>1. o = <<Row("slot", q.creator, "update"), Row("campaign", Brand, "key_share"),
              Row("creator", q.creator, "key_share")>>
    BY <1>2, <1>6, Orders DEF ApplyLocks, CampaignRow
  <2>2. /\ Len(o) = 3 /\ o[1].table = "slot"
        /\ o[2].table = "campaign" /\ o[2].mode = "key_share" /\ o[3].table = "creator"
    BY <1>1, <2>1
  <2>3. n \in {1, 2, 3}
    BY <1>4, <2>2
  <2>4. Layer(q) = IF n = 2 THEN 4 ELSE IF n # 1 THEN 2 ELSE 0
    BY <1>3, <1>6, OpSets DEF Layer, RowOps
  <2>5. \A b \in HeldOf(q) : \/ n \in {2, 3} /\ b = o[1]
                             \/ n = 3 /\ b = o[2]
    BY <1>5, <2>3
  <2> QED
    BY <1>4, <2>2, <2>3, <2>4, <2>5
<1>7. CASE q.op \in RowOps
  <2>1. o = <<Row("application", q.creator, "update"), Row("campaign", Brand, "key_share")>>
    BY <1>2, <1>7, Orders DEF MoveLocks, ApplicationRow, CampaignRow
  <2>2. /\ Len(o) = 2 /\ o[1].table = "application"
        /\ o[2].table = "campaign" /\ o[2].mode = "key_share"
    BY <1>1, <2>1
  <2>3. n \in {1, 2}
    BY <1>4, <2>2
  <2>4. Layer(q) = IF n = 2 THEN 4 ELSE 3
    BY <1>3, <1>7, OpSets DEF Layer
  <2>5. \A b \in HeldOf(q) : n = 2 /\ b = o[1]
    BY <1>5, <2>3
  <2> QED
    BY <1>4, <2>2, <2>3, <2>4, <2>5
<1>8. CASE q.op = "create_memo"
  <2>1. o = <<Row("application", q.creator, "update")>>
    BY <1>2, <1>8, Orders DEF ApplicationRow
  <2>2. Len(o) = 1 /\ o[1].table = "application"
    BY <1>1, <2>1
  <2>3. n = 1
    BY <1>4, <2>2
  <2>4. Layer(q) = 3
    BY <1>3, <1>8, <2>3 DEF Layer
  <2>5. HeldOf(q) = {}
    BY <1>5, <2>3
  <2> QED
    BY <1>4, <2>2, <2>3, <2>4, <2>5
<1>9. CASE q.op \in CampaignOps
  <2>1. PICK mode : o = <<Row("campaign", Brand, mode)>>
    BY <1>2, <1>9, Orders DEF StatusLocks, CampaignRow
  <2>2. Len(o) = 1 /\ o[1].table = "campaign"
    BY <1>1, <2>1
  <2>3. n = 1
    BY <1>4, <2>2
  <2>4. Layer(q) = 1
    BY <1>3, <1>9, <2>3, OpSets DEF Layer, RowOps
  <2>5. HeldOf(q) = {}
    BY <1>5, <2>3
  <2> QED
    BY <1>4, <2>2, <2>3, <2>4, <2>5
<1>10. CASE q.op = "erase_creator"
  <2>1. o = <<Row("creator", q.creator, "update"), Row("application", q.creator, "update")>>
    BY <1>2, <1>10, Orders DEF EraseCreatorLocks, ApplicationRow
  <2>2. Len(o) = 2 /\ o[1].table = "creator" /\ o[2].table = "application"
    BY <1>1, <2>1
  <2>3. n \in {1, 2}
    BY <1>4, <2>2
  <2>4. Layer(q) = IF n = 2 THEN 3 ELSE 2
    BY <1>3, <1>10, OpSets DEF Layer, RowOps
  <2>5. \A b \in HeldOf(q) : n = 2 /\ b = o[1]
    BY <1>5, <2>3
  <2> QED
    BY <1>4, <2>2, <2>3, <2>4, <2>5
<1>11. q.op \in Ops /\ q.op # "invite" /\ q.op # "erase_brand"
  BY DEF Request, Holders
<1> QED
  BY <1>6, <1>7, <1>8, <1>9, <1>10, <1>11, AllOps, OpSets DEF RowOps

\* Without a holder of the campaign in the circle each waits for one further
\* on, and the furthest waits for nobody.
LEMMA NoCircle == NegInv => OnlyCampaignHoldersDeadlock
<1> SUFFICES ASSUME NegInv, NEW S \in SUBSET Requests, Stuck(S),
                    \A r \in S : req[r].op \notin Holders
             PROVE  FALSE
  BY DEF OnlyCampaignHoldersDeadlock, Holders
<1> DEFINE L(v) == Layer(req[v])
<1>1. ASSUME NEW v \in S
      PROVE  \E w \in S : L(v) < L(w) /\ L(v) \in 0..4 /\ L(w) \in 0..4
  <2>1. PICK w \in S : WaitsFor(v, w)
    BY DEF Stuck
  <2>2. MoreLocks(v) /\ MoreLocks(w) /\ v \in Requests /\ w \in Requests
    BY <2>1 DEF Stuck, WaitsFor
  <2>3. PICK p \in Request : p = req[v] /\ Held(v) = HeldOf(p)
    BY <2>2, InFlight DEF NegInv, MoreLocks
  <2>4. PICK q \in Request : q = req[w] /\ Held(w) = HeldOf(q)
    BY <2>2, InFlight DEF NegInv, MoreLocks
  <2>5. p.op \notin Holders /\ q.op \notin Holders
    BY <2>3, <2>4
  <2>6. p.step <= Len(LockOrder(p)) /\ q.step <= Len(LockOrder(q))
    BY <2>2, <2>3, <2>4 DEF MoreLocks, Order
  <2>7. PICK lock : lock = NextLock(v) /\ lock = LockOrder(p)[p.step]
    BY <2>3 DEF NextLock, Order
  <2>8. PICK held \in HeldOf(q) : Conflict(lock, held)
    BY <2>1, <2>4, <2>7 DEF WaitsFor
  <2>9. lock.table = held.table /\ Strength[lock.mode] + Strength[held.mode] > 4
    BY <2>8 DEF Conflict
  <2>10. ~(lock.mode = "key_share" /\ held.mode = "key_share")
    <3>1. Strength["key_share"] = 1
      BY DEF Strength
    <3> QED
      BY <2>9, <3>1
  <2>11. PICK a \in 0..4 : a = Layer(p)
    BY <2>5, <2>6, <2>7, Waits
  <2>12. PICK b \in 0..4 : b = Layer(q)
    BY <2>5, <2>6, Waits
  <2>13. /\ a = 4 => lock.table = "campaign" /\ lock.mode = "key_share"
         /\ a = 3 => lock.table = "application"
         /\ a = 2 => lock.table = "creator"
         /\ a = 1 => lock.table = "campaign"
         /\ a = 0 => lock.table = "slot"
    BY <2>5, <2>6, <2>7, <2>11, Waits
  <2>14. /\ held.table = "slot" => b > 0
         /\ held.table = "campaign" => held.mode = "key_share" /\ b > 1
         /\ held.table = "application" => b = 4
         /\ held.table = "creator" => b > 2
    BY <2>5, <2>6, <2>12, Waits
  <2>15. a < b
    BY <2>9, <2>10, <2>13, <2>14
  <2> QED
    BY <2>3, <2>4, <2>11, <2>12, <2>15
<1> HIDE DEF L
<1>2. \A v \in S : L(v) # 4
  BY <1>1
<1>3. \A v \in S : L(v) # 3
  BY <1>1, <1>2
<1>4. \A v \in S : L(v) # 2
  BY <1>1, <1>2, <1>3
<1>5. \A v \in S : L(v) # 1
  BY <1>1, <1>2, <1>3, <1>4
<1>6. \A v \in S : L(v) # 0
  BY <1>1, <1>2, <1>3, <1>4, <1>5
<1>7. S = {}
  BY <1>1, <1>2, <1>3, <1>4, <1>5, <1>6
<1> QED
  BY <1>7 DEF Stuck

\* Requests wait in a circle only with an invitation or the erasure of a brand
\* among them, however many requests there are.
THEOREM OthersNeverDeadlock == Spec => []OnlyCampaignHoldersDeadlock
BY NoCircle, NegotiationHolds, PTL

-----------------------------------------------------------------------------
(* What no step may do.                                                       *)

\* Of one creator's rows: what was said stands.
Stands(c) ==
    /\ app[c].status \in Final => app'[c] = app[c]
    /\ memo[c] # NoMemo => memo'[c].fee = memo[c].fee
    /\ \A i \in DOMAIN offers[c] :
          /\ i \in DOMAIN offers'[c]
          /\ offers[c][i].outcome # "open" => offers'[c][i] = offers[c][i]
          /\ (offers[c][i].outcome = "open" /\ offers'[c][i].outcome = "accepted") =>
                \E r \in Requests :
                   /\ Running(r) /\ req'[r] = Idle
                   /\ req[r].side # offers[c][i].side

\* An invitation lands while its campaign is open and both its sides are there.
LandsOpen(c) ==
    (app[c] = NoRow /\ app'[c] # NoRow /\ app'[c].origin = "invited") =>
        campaign.status = "open" /\ {c, Brand} \cap gone = {}

LEMMA Untouched ==
    ASSUME NEW c, app'[c] = app[c], offers'[c] = offers[c], memo'[c] = memo[c]
    PROVE  Stands(c) /\ LandsOpen(c)
BY DEF Stands, LandsOpen

\* An empty place that is taken.
LEMMA TakingStands ==
    ASSUME NegInv, NEW r \in Requests, ApplyToCampaign(r) \/ InviteCreator(r),
           NEW d \in Creators
    PROVE  Stands(d) /\ LandsOpen(d)
<1>1. PICK p \in Request :
        /\ p = req[r] /\ FitsOp(p) /\ Told(p) /\ p.op \in {"apply", "invite"}
        /\ p.step > 1 /\ (p.op = "invite" => p.step > 3)
  <2>1. PICK ops : Commits(r, ops) /\ ops \subseteq {"apply", "invite"}
    BY DEF ApplyToCampaign, InviteCreator
  <2>2. /\ Running(r) /\ ~MoreLocks(r) /\ req[r].op \in {"apply", "invite"}
        /\ req[r] \in Request /\ FitsOp(req[r]) /\ Told(req[r])
    BY <2>1, Committing
  <2>3. req[r].op = "apply" => req[r].step > 1
    BY <2>2, Finished
  <2>4. req[r].op = "invite" => req[r].step > 3 /\ req[r].step > 1
    <3>1. req[r].op = "invite" => req[r].step > 3
      BY <2>2, Finished
    <3> QED
      BY <2>2, <3>1 DEF Request
  <2> QED
    BY <2>2, <2>3, <2>4
<1>2. p.step > 3 => p.step > 2
  BY DEF Request
<1>3. OnSlot(p, p.creator)
  BY <1>1 DEF OnSlot
<1>4. PICK c \in Creators : c = p.creator /\ app[c] = NoRow
  BY <1>1, <1>3, SlotIsEmpty
<1>5. \A e \in Creators \ {c} : app'[e] = app[e]
  BY <1>1, <1>4 DEF NegInv, TypeOK, ApplyToCampaign, InviteCreator
<1>6. offers' = offers /\ memo' = memo
  BY DEF ApplyToCampaign, InviteCreator
<1>7. CASE d # c
  BY <1>5, <1>6, <1>7, Untouched
<1>8. CASE d = c
  <2>1. app[c].status \notin Final
    BY <1>4 DEF NoRow, Final
  <2>2. Stands(d)
    BY <1>6, <1>8, <2>1 DEF Stands
  <2>3. CASE ApplyToCampaign(r)
    <3>1. app'[c].origin = "applied"
      BY <1>1, <1>4, <2>3 DEF ApplyToCampaign, NegInv, TypeOK
    <3> QED
      BY <1>8, <2>2, <3>1 DEF LandsOpen
  <2>4. CASE InviteCreator(r)
    <3>1. p.op = "invite"
      BY <1>1, <2>4 DEF InviteCreator, Commits
    <3>2. campaign.status = "open" /\ c \notin gone
      BY <1>1, <1>2, <1>4, <3>1 DEF Told
    <3>3. Brand \notin gone
      BY <3>2 DEF NegInv, WhoLeftIsLeftAlone
    <3> QED
      BY <1>8, <2>2, <3>2, <3>3 DEF LandsOpen
  <2> QED
    BY <2>3, <2>4
<1> QED
  BY <1>7, <1>8

\* A move ends a waiting application once, and accepts no offer.
LEMMA MovingStands ==
    ASSUME NegInv, NEW r \in Requests, MoveApplication(r), NEW d \in Creators
    PROVE  Stands(d) /\ LandsOpen(d)
<1>1. /\ Running(r) /\ ~MoreLocks(r) /\ req[r].op \in MoveOps
      /\ req[r] \in Request /\ FitsOp(req[r]) /\ Told(req[r])
  BY Committing DEF MoveApplication
<1>2. PICK p \in Request : p = req[r] /\ p.op \in RowOps /\ p.step > 1
  BY <1>1, Finished DEF RowOps
<1>3. PICK c \in Creators : c = p.creator /\ app[c] # NoRow /\ app[c].status \in Waiting
  BY <1>1, <1>2, RowIsThere
<1>4. /\ TellsOne(app[c].status, offers[c]) /\ FromDeal(app[c], offers[c], memo[c])
      /\ offers[c] \in Seq(Offer)
  BY EachRow
<1>5. memo[c] = NoMemo
  BY <1>3, <1>4 DEF FromDeal, Waiting
<1>6. PICK to : to = Move[p.op].to
  OBVIOUS
<1>7. /\ app' = [app EXCEPT ![c].status = to]
      /\ \/ offers' = [offers EXCEPT ![c] = CloseOpen(offers[c], p.side)]
         \/ offers' = offers
      /\ \/ memo' = [memo EXCEPT ![c] = [fee |-> RepeatFee(c), deal |-> "on"]]
         \/ memo' = memo
  BY <1>2, <1>3, <1>6 DEF MoveApplication
<1>8. \A e \in Creators \ {c} : app'[e] = app[e] /\ offers'[e] = offers[e] /\ memo'[e] = memo[e]
  BY <1>7 DEF NegInv, TypeOK
<1>9. CASE d # c
  BY <1>8, <1>9, Untouched
<1>10. CASE d = c
  <2>1. app[d].status \notin Final
    BY <1>3, <1>10 DEF Waiting, Final
  <2>2. PICK list : list = CloseOpen(offers[c], p.side)
    OBVIOUS
  <2>3. /\ DOMAIN list = DOMAIN offers[c]
        /\ \A i \in DOMAIN offers[c] :
             /\ offers[c][i].outcome # "open" => list[i] = offers[c][i]
             /\ list[i].outcome = "accepted" <=> offers[c][i].outcome = "accepted"
    BY <1>4, <2>2, Closing
  <2>4. offers'[c] = list \/ offers'[c] = offers[c]
    BY <1>7, <2>2 DEF NegInv, TypeOK
  <2>5. Stands(d)
    BY <1>5, <1>10, <2>1, <2>3, <2>4 DEF Stands
  <2> QED
    BY <1>3, <1>10, <2>5 DEF LandsOpen
<1> QED
  BY <1>9, <1>10

\* A counter only replaces the open offer.
LEMMA CounterStands ==
    ASSUME NegInv, NEW r \in Requests, MakeOffer(r), NEW d \in Creators
    PROVE  Stands(d) /\ LandsOpen(d)
<1>1. /\ Running(r) /\ ~MoreLocks(r) /\ req[r].op = "make_offer"
      /\ req[r] \in Request /\ FitsOp(req[r]) /\ Told(req[r])
  <2>1. Commits(r, {"make_offer"})
    BY DEF MakeOffer
  <2> QED
    BY <2>1, Committing
<1>2. PICK p \in Request : p = req[r] /\ p.op \in OfferOps /\ p.op \in RowOps /\ p.step > 1
  BY <1>1, Finished, OpSets DEF RowOps
<1>3. PICK c \in Creators : c = p.creator /\ app[c].status \in Waiting
  BY <1>1, <1>2, RowIsThere
<1>4. MayMake(offers[c], p.side) /\ p.side \in Sides
  BY <1>1, <1>2, <1>3 DEF Told, OfferStands, Request
<1>5. TellsOne(app[c].status, offers[c]) /\ offers[c] \in Seq(Offer)
  BY EachRow
<1>6. PICK list : list = Counter(offers[c], p.side)
  OBVIOUS
<1>7. \A i \in DOMAIN offers[c] :
        /\ i \in DOMAIN list
        /\ offers[c][i].outcome # "open" => list[i] = offers[c][i]
        /\ offers[c][i].outcome = "open" => list[i].outcome = "replaced"
  BY <1>3, <1>4, <1>5, <1>6, Countering
<1>8. app' = app /\ memo' = memo /\ offers' = [offers EXCEPT ![c] = list]
  BY <1>2, <1>3, <1>6 DEF MakeOffer, Counter
<1>9. offers'[c] = list /\ \A e \in Creators \ {c} : offers'[e] = offers[e]
  BY <1>8 DEF NegInv, TypeOK
<1>10. CASE d # c
  BY <1>8, <1>9, <1>10, Untouched
<1>11. CASE d = c
  <2>1. Stands(d)
    BY <1>7, <1>8, <1>9, <1>11 DEF Stands
  <2> QED
    BY <1>8, <2>1 DEF LandsOpen
<1> QED
  BY <1>10, <1>11

\* An offer is accepted by the side that did not make it.
LEMMA AnswerStands ==
    ASSUME NegInv, NEW r \in Requests, AnswerOffer(r), NEW d \in Creators
    PROVE  Stands(d) /\ LandsOpen(d)
<1>1. /\ Running(r) /\ ~MoreLocks(r) /\ req[r].op \in AnswerOps
      /\ req' = [req EXCEPT ![r] = Idle]
      /\ req[r] \in Request /\ FitsOp(req[r]) /\ Told(req[r])
  BY Committing DEF AnswerOffer
<1>2. PICK p \in Request :
        p = req[r] /\ p.op \in AnswerOps /\ p.op \in OfferOps /\ p.op \in RowOps /\ p.step > 1
  BY <1>1, Finished DEF RowOps, OfferOps
<1>3. PICK c \in Creators : c = p.creator
  BY <1>1, <1>2, RowIsThere
<1>4. PICK n \in DOMAIN offers[c] : n = p.nth
  BY <1>1, <1>2, <1>3 DEF Told
<1>5. OfferStands(p)
  BY <1>1, <1>2 DEF Told
<1>6. /\ offers[c][n].outcome = "open"
      /\ p.op = "accept_offer" => offers[c][n].side # p.side
  BY <1>2, <1>3, <1>4, <1>5 DEF OfferStands, MayAnswer, MayWithdraw, AnswerOps
<1>7. PICK said \in {"accepted", "declined", "withdrawn"} :
        said = OfferAnswer[p.op] /\ (said = "accepted" => p.op = "accept_offer")
  BY <1>2 DEF OfferAnswer, AnswerOps
<1>8. TellsOne(app[c].status, offers[c]) /\ offers[c] \in Seq(Offer)
  BY EachRow
<1>9. PICK list : list = Settle(offers[c], n, said)
  OBVIOUS
<1>10. /\ DOMAIN list = DOMAIN offers[c] /\ list[n].outcome = said
       /\ \A i \in DOMAIN offers[c] : i # n => list[i] = offers[c][i] /\ offers[c][i].outcome # "open"
  BY <1>6, <1>8, <1>9, Settling
<1>11. app' = app /\ memo' = memo /\ offers' = [offers EXCEPT ![c] = list]
  BY <1>2, <1>3, <1>4, <1>7, <1>9 DEF AnswerOffer, Settle
<1>12. offers'[c] = list /\ \A e \in Creators \ {c} : offers'[e] = offers[e]
  BY <1>11 DEF NegInv, TypeOK
<1>13. req'[r] = Idle
  BY <1>1 DEF NegInv, TypeOK
<1>14. CASE d # c
  BY <1>11, <1>12, <1>14, Untouched
<1>15. CASE d = c
  <2>1. said = "accepted" =>
          \E s \in Requests : Running(s) /\ req'[s] = Idle /\ req[s].side # offers[c][n].side
    BY <1>1, <1>2, <1>6, <1>7, <1>13
  <2>2. ASSUME NEW i \in DOMAIN offers[c]
        PROVE  /\ i \in DOMAIN offers'[c]
               /\ offers[c][i].outcome # "open" => offers'[c][i] = offers[c][i]
               /\ (offers[c][i].outcome = "open" /\ offers'[c][i].outcome = "accepted") =>
                     \E s \in Requests :
                        Running(s) /\ req'[s] = Idle /\ req[s].side # offers[c][i].side
    <3>1. CASE i # n
      BY <1>10, <1>12, <3>1
    <3>2. CASE i = n
      BY <1>6, <1>10, <1>12, <2>1, <3>2
    <3> QED
      BY <3>1, <3>2
  <2>3. Stands(d)
    BY <1>11, <1>15, <2>2 DEF Stands
  <2> QED
    BY <1>11, <2>3 DEF LandsOpen
<1> QED
  BY <1>14, <1>15

\* A draft is not drafted again, and a deal that ends, or is disputed, keeps its fee.
LEMMA DraftStands ==
    ASSUME NegInv, NEW d \in Creators,
           (\E r \in Requests : CreateMemo(r)) \/ (\E c \in Creators : DealMoves(c))
    PROVE  Stands(d) /\ LandsOpen(d)
<1>1. app' = app /\ offers' = offers /\ memo \in [Creators -> Memo \union {NoMemo}]
  BY DEF CreateMemo, DealMoves, NegInv, TypeOK
<1>2. memo[d] # NoMemo => memo'[d].fee = memo[d].fee
  <2>1. ASSUME NEW r \in Requests, CreateMemo(r)
        PROVE  memo[d] # NoMemo => memo'[d].fee = memo[d].fee
    <3>1. /\ Running(r) /\ ~MoreLocks(r) /\ req[r].op = "create_memo"
          /\ req[r] \in Request /\ FitsOp(req[r]) /\ Told(req[r]) /\ req[r].step > 1
      BY <2>1, Committing, Finished DEF CreateMemo
    <3>2. PICK c \in Creators : c = req[r].creator
      BY <3>1, RowIsThere
    <3>3. memo[c] = NoMemo
      BY <3>1, <3>2 DEF Told
    <3>4. \A e \in Creators \ {c} : memo'[e] = memo[e]
      BY <1>1, <2>1, <3>2 DEF CreateMemo
    <3> QED
      BY <3>3, <3>4
  <2>2. ASSUME NEW c \in Creators, DealMoves(c)
        PROVE  memo[d] # NoMemo => memo'[d].fee = memo[d].fee
    <3>1. memo[c] # NoMemo
      BY <2>2 DEF DealMoves
    <3>2. PICK to \in {"over", "disputed", "closed"} : memo' = [memo EXCEPT ![c].deal = to]
      BY <2>2 DEF DealMoves
    <3>3. memo[c] \in Memo
      BY <1>1, <3>1
    <3>4. memo'[c].fee = memo[c].fee
      BY <1>1, <3>2, <3>3 DEF Memo
    <3>5. \A e \in Creators \ {c} : memo'[e] = memo[e]
      BY <1>1, <3>2
    <3> QED
      BY <3>4, <3>5
  <2> QED
    BY <2>1, <2>2
<1> QED
  BY <1>1, <1>2 DEF Stands, LandsOpen

\* An erasure ends only what waits, and accepts nothing.
LEMMA ErasureStands ==
    ASSUME NegInv, NEW r \in Requests, EraseBrand(r) \/ EraseCreator(r), NEW d \in Creators
    PROVE  Stands(d) /\ LandsOpen(d)
<1>1. memo' = memo
  BY DEF EraseBrand, EraseCreator
<1>2. /\ DOMAIN BrandLeaving \subseteq Waiting
      /\ \A from \in DOMAIN BrandLeaving : BrandLeaving[from] \in Final
      /\ DOMAIN CreatorLeaving \subseteq Waiting
      /\ \A from \in DOMAIN CreatorLeaving : CreatorLeaving[from] \in Final
  BY DEF BrandLeaving, CreatorLeaving, Waiting, Final
<1>3. /\ DOMAIN offers'[d] = DOMAIN offers[d]
      /\ app[d].status \notin Waiting => app'[d] = app[d]
      /\ \A i \in DOMAIN offers[d] :
           /\ offers[d][i].outcome # "open" => offers'[d][i] = offers[d][i]
           /\ offers'[d][i].outcome = "accepted" <=> offers[d][i].outcome = "accepted"
  <2>1. CASE EraseBrand(r)
    <3>1. End(BrandLeaving, Creators)
      BY <2>1 DEF EraseBrand
    <3> QED
      BY <1>2, <3>1, EndingEach
  <2>2. CASE EraseCreator(r)
    <3>1. req[r] \in Request /\ FitsOp(req[r]) /\ req[r].op = "erase_creator"
      BY <2>2, Committing DEF EraseCreator
    <3>2. PICK c \in Creators : c = req[r].creator
      BY <3>1, OpSets DEF FitsOp
    <3>3. End(CreatorLeaving, {c}) /\ {c} \subseteq Creators
      BY <2>2, <3>2 DEF EraseCreator
    <3> QED
      BY <1>2, <3>3, EndingEach
  <2> QED
    BY <2>1, <2>2
<1>4. \A s \in Final : s \notin Waiting
  BY DEF Final, Waiting
<1>5. Stands(d)
  BY <1>1, <1>3, <1>4 DEF Stands
<1>6. NoRow.status \notin Waiting
  BY DEF NoRow, Waiting
<1> QED
  BY <1>3, <1>5, <1>6 DEF LandsOpen

LEMMA EveryStepStands ==
    ASSUME NegInv, Next, NEW d \in Creators
    PROVE  Stands(d) /\ LandsOpen(d)
<1>1. ASSUME NEW r \in Requests,
             \/ Begin(r) \/ Lock(r) \/ Refuse(r) \/ TimeOut(r)
             \/ ApplyToCampaign(r) \/ InviteCreator(r) \/ MoveApplication(r)
             \/ MakeOffer(r) \/ AnswerOffer(r) \/ CreateMemo(r)
             \/ ChangeStatus(r) \/ UpdateCampaign(r)
             \/ EraseBrand(r) \/ EraseCreator(r) \/ EraseHeld(r)
      PROVE  Stands(d) /\ LandsOpen(d)
  <2>1. CASE Begin(r) \/ Lock(r) \/ Refuse(r) \/ TimeOut(r) \/ EraseHeld(r)
    BY <2>1, Untouched DEF Begin, Lock, Refuse, TimeOut, EraseHeld
  <2>2. CASE ChangeStatus(r) \/ UpdateCampaign(r)
    BY <2>2, Untouched DEF ChangeStatus, UpdateCampaign
  <2>3. CASE ApplyToCampaign(r) \/ InviteCreator(r)
    BY <2>3, TakingStands
  <2>4. CASE MoveApplication(r)
    BY <2>4, MovingStands
  <2>5. CASE MakeOffer(r)
    BY <2>5, CounterStands
  <2>6. CASE AnswerOffer(r)
    BY <2>6, AnswerStands
  <2>7. CASE CreateMemo(r)
    BY <2>7, DraftStands
  <2>8. CASE EraseBrand(r) \/ EraseCreator(r)
    BY <2>8, ErasureStands
  <2> QED
    BY <1>1, <2>1, <2>2, <2>3, <2>4, <2>5, <2>6, <2>7, <2>8
<1>2. ASSUME NEW c \in Creators, FinishDeal(c) \/ OpenDispute(c) \/ CloseDispute(c)
      PROVE  Stands(d) /\ LandsOpen(d)
  BY <1>2, Dealing, DraftStands
<1> QED
  BY <1>1, <1>2 DEF Next

\* An ended offer, an ended application and a drafted fee never change, and
\* only the other side accepts an offer (offer_service.py, service.py).
THEOREM WhatWasSaidStands == Spec => OutcomesStand
<1> DEFINE A == \A c \in Creators : Stands(c)
<1>1. NegInv /\ [Next]_vars => [A]_vars
  BY EveryStepStands
<1> HIDE DEF A
<1>2. [][A]_vars => OutcomesStand
  BY PTL DEF OutcomesStand, A, Stands
<1> QED
  BY <1>1, <1>2, NegotiationHolds, PTL DEF Spec

\* An invitation that was checked while its campaign was open lands while it
\* still is (invitation_service.py).
THEOREM InvitationsLandWhileOpen == Spec => InvitedWhileOpen
<1> DEFINE A == \A c \in Creators : LandsOpen(c)
<1>1. NegInv /\ [Next]_vars => [A]_vars
  BY EveryStepStands
<1> HIDE DEF A
<1>2. [][A]_vars => InvitedWhileOpen
  BY PTL DEF InvitedWhileOpen, A, LandsOpen
<1> QED
  BY <1>1, <1>2, NegotiationHolds, PTL DEF Spec

=============================================================================
