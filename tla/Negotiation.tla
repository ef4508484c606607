----------------------------- MODULE Negotiation -----------------------------
(***************************************************************************)
(* How a deal comes about on one campaign: the campaign's status           *)
(* (campaigns/service.py), the application or invitation of each creator   *)
(* (service.py, invitation_service.py), the counter-offers on it           *)
(* (offer_service.py, offer_rules.py), the draft memo it leads to          *)
(* (deal_memo/service.py), and the erasure of a side that leaves           *)
(* (departure_service.py, me/account_deletion_service.py).                 *)
(*                                                                         *)
(* A request reads without a lock, takes its row locks one by one, checks  *)
(* what it read again under some of them, and writes when it commits.  The *)
(* locks of a request are the first ones of its order, so they need no     *)
(* variable of their own.  Suspensions, blocks and takedowns, which only   *)
(* refuse more, and a campaign's closing date are left out.                *)
(***************************************************************************)
EXTENDS Integers, Sequences, FiniteSets

CONSTANTS
    Requests,               \* what runs at once; each serves one request at a time
    NCreators,              \* the creators are numbered
    CampaignTypes,          \* the types a draft may be given
    MaxOffersPerSide,       \* MAX_OFFERS_PER_SIDE
    MaxWaitingInvitations,  \* MAX_WAITING_INVITATIONS
    Enabled                 \* bound: the operations requests ask for

ASSUME NCreatorsAssumption == NCreators \in Nat
ASSUME CampaignTypesAssumption ==
    CampaignTypes \subseteq {"paid", "barter", "commission", "local_business"}
ASSUME LimitsAssumption ==
    MaxOffersPerSide \in Nat /\ MaxWaitingInvitations \in Nat

Creators == 1..NCreators
Brand == 0
People == Creators \union {Brand}

-----------------------------------------------------------------------------
VARIABLES
    campaign,  \* the brand's campaign
    app,       \* the application row of each creator
    offers,    \* the offers on each application, oldest first
    memo,      \* the memo of each application
    gone,      \* who deleted their account and was erased
    req        \* the requests

vars == <<campaign, app, offers, memo, gone, req>>

Waiting == {"submitted", "shortlisted", "invited"}
Final == {"accepted", "rejected", "withdrawn", "declined"}
Campaign == [status : {"draft", "open", "closed", "cancelled"}, type : CampaignTypes]

NoRow == [status |-> "none"]
\* repeats: the earlier deal an invitation repeats, by what its memo says of a fee.
Application == [status : Waiting \union Final, origin : {"applied", "invited"},
                repeats : {"nothing", "deal_with_fee", "deal_without_fee"}]
Sides == {"brand", "creator"}
Offer == [side : Sides,
          outcome : {"open", "accepted", "declined", "replaced", "withdrawn"}]

NoMemo == [fee |-> "no_memo"]
\* Where the fee of a draft came from, and whether the deal has ended: if so,
\* whether a dispute about its payment can still be opened, is open, or neither.
Memo == [fee : {"none", "stated", "agreed", "earlier"},
         deal : {"on", "over", "disputed", "closed"}]

-----------------------------------------------------------------------------
(* Requests. *)

\* The moves of a campaign and of an application: who makes them, and to where.
CampaignMove == [publish |-> "open", close |-> "closed", cancel |-> "cancelled"]
AllowedTransitions ==
    [draft |-> {"open", "cancelled"}, open |-> {"closed", "cancelled"},
     closed |-> {}, cancelled |-> {}]
Move ==
    [shortlist           |-> [actor |-> "brand",   to |-> "shortlisted"],
     accept              |-> [actor |-> "brand",   to |-> "accepted"],
     reject              |-> [actor |-> "brand",   to |-> "rejected"],
     withdraw_invitation |-> [actor |-> "brand",   to |-> "withdrawn"],
     withdraw            |-> [actor |-> "creator", to |-> "withdrawn"],
     accept_invitation   |-> [actor |-> "creator", to |-> "accepted"],
     decline_invitation  |-> [actor |-> "creator", to |-> "declined"]]
ApplicationMoves ==
    [brand |->
       [submitted |-> {"shortlisted", "rejected"},
        shortlisted |-> {"accepted", "rejected"}, invited |-> {"withdrawn"}],
     creator |->
       [submitted |-> {"withdrawn"}, shortlisted |-> {"withdrawn"},
        invited |-> {"accepted", "declined"}]]

MoveOps == DOMAIN Move
AnswerOps == {"accept_offer", "decline_offer", "withdraw_offer"}
OfferOps == AnswerOps \union {"make_offer"}
ApplicationOps == MoveOps \union OfferOps \union {"create_memo"}
CampaignOps == DOMAIN CampaignMove \union {"patch"}
Ops == ApplicationOps \union CampaignOps
         \union {"apply", "invite", "erase_brand", "erase_creator"}

ASSUME EnabledAssumption == Enabled \subseteq Ops

Idle == [op |-> "idle"]
\* side: whose offer or answer; nth: which offer; with: what else the body says;
\* step: the next lock.
Request ==
    [op : Ops, creator : People, side : Sides,
     nth : 0..(2 * MaxOffersPerSide),
     with : {"nothing", "fee", "deal_with_fee", "deal_without_fee",
             "paid", "barter", "commission", "local_business"},
     step : 1..(NCreators + 3)]

\* The requests of each operation.
Asked(op) ==
    LET ask(creators, sides, nths, withs) ==
          [op : {op}, creator : creators, side : sides, nth : nths,
           with : withs, step : {1}]
        plain == {"nothing"}
    IN  CASE op = "apply" -> ask(Creators, {"creator"}, {0}, plain)
          [] op = "invite" ->
               ask(Creators, {"brand"}, {0},
                   {"nothing", "deal_with_fee", "deal_without_fee"})
          [] op \in MoveOps -> ask(Creators, {Move[op].actor}, {0}, plain)
          [] op = "make_offer" -> ask(Creators, Sides, {0}, plain)
          [] op \in AnswerOps -> ask(Creators, Sides, 1..(2 * MaxOffersPerSide), plain)
          [] op = "create_memo" -> ask(Creators, {"brand"}, {0}, {"nothing", "fee"})
          [] op = "patch" -> ask({Brand}, {"brand"}, {0}, CampaignTypes)
          [] op \in DOMAIN CampaignMove -> ask({Brand}, {"brand"}, {0}, plain)
          [] op = "erase_brand" -> ask({Brand}, {"brand"}, {0}, plain)
          [] op = "erase_creator" -> ask(Creators, {"creator"}, {0}, plain)

Running(r) == req[r] # Idle
Asker(q) == IF q.side = "brand" THEN Brand ELSE q.creator

-----------------------------------------------------------------------------
(* Row locks. *)

Row(table, of, mode) == [table |-> table, of |-> of, mode |-> mode]
ApplicationRow(c) == Row("application", c, "update")
CampaignRow(mode) == Row("campaign", Brand, mode)

\* An insert waits at the unique index of its slot, then shares what its
\* foreign keys point to.
ApplyLocks(c) ==
    <<Row("slot", c, "update"), CampaignRow("key_share"), Row("creator", c, "key_share")>>
\* Variant: the campaign is only kept from being deleted.
InviteLocksShared(c) ==
    <<CampaignRow("key_share"), Row("creator", c, "share"), Row("slot", c, "update")>>
InviteLocks(c) ==
    <<CampaignRow("update"), Row("creator", c, "share"), Row("slot", c, "update")>>
\* The notification of a move or an offer points to the campaign.
MoveLocks(c) == <<ApplicationRow(c), CampaignRow("key_share")>>
\* Variant: a status change locks the applications too.
StatusLocksAll(op) == <<CampaignRow("update")>> \o [c \in Creators |-> ApplicationRow(c)]
StatusLocks(op) == <<CampaignRow(IF op = "patch" THEN "no_key_update" ELSE "update")>>
\* An erasure locks the applications it finds; where there is none there is no
\* row to wait for, and none is added while the first lock is held.
EraseBrandLocks == <<CampaignRow("update")>> \o [c \in Creators |-> ApplicationRow(c)]
EraseCreatorLocks(c) == <<Row("creator", c, "update"), ApplicationRow(c)>>

\* The locks of an operation, in order.  Left out: the brand's row, which only
\* its erasure takes, the accounts, which everyone takes last, and the offers,
\* which are only locked under their application.
LockOrder(q) ==
    CASE q.op = "apply"                     -> ApplyLocks(q.creator)
      [] q.op = "invite"                    -> InviteLocks(q.creator)
      [] q.op \in MoveOps \union OfferOps   -> MoveLocks(q.creator)
      [] q.op = "create_memo"               -> <<ApplicationRow(q.creator)>>
      [] q.op \in CampaignOps               -> StatusLocks(q.op)
      [] q.op = "erase_brand"               -> EraseBrandLocks
      [] q.op = "erase_creator"             -> EraseCreatorLocks(q.creator)

Order(r) == LockOrder(req[r])
MoreLocks(r) == Running(r) /\ req[r].step <= Len(Order(r))
NextLock(r) == Order(r)[req[r].step]
Held(r) ==
    IF Running(r) THEN {Order(r)[i] : i \in 1..(req[r].step - 1)} ELSE {}

\* PostgreSQL's row locks, weakest first: two are held together if neither is
\* too strong for the other.
Strength == [key_share |-> 1, share |-> 2, no_key_update |-> 3, update |-> 4]
Conflict(a, b) ==
    /\ a.table = b.table /\ a.of = b.of
    /\ Strength[a.mode] + Strength[b.mode] > 4
WaitsFor(r, s) ==
    /\ r # s
    /\ MoreLocks(r)
    /\ \E lock \in Held(s) : Conflict(NextLock(r), lock)
Free(r) == \A s \in Requests : ~WaitsFor(r, s)

-----------------------------------------------------------------------------
(* The rules of a negotiation. *)

OpenOffers(c) == {i \in DOMAIN offers[c] : offers[c][i].outcome = "open"}
AgreedOffers(c) == {i \in DOMAIN offers[c] : offers[c][i].outcome = "accepted"}

\* refusal_to_make, refusal_to_answer, refusal_to_withdraw
MayMake(list, side) ==
    /\ \A i \in DOMAIN list : list[i].outcome # "accepted"
    /\ Cardinality({i \in DOMAIN list : list[i].side = side}) < MaxOffersPerSide
    /\ \A i \in DOMAIN list : ~(list[i].outcome = "open" /\ list[i].side = side)
\* Variant: whoever made the offer may answer it.
MayAnswerOwn(offer, side) == offer.outcome = "open"
MayAnswer(offer, side) == offer.outcome = "open" /\ offer.side # side
MayWithdraw(offer, side) == offer.outcome = "open" /\ offer.side = side

\* End the open offers of an application that is ending.
CloseOpen(list, actor) ==
    [i \in DOMAIN list |->
       IF list[i].outcome # "open" THEN list[i]
       ELSE [list[i] EXCEPT !.outcome =
               IF actor \in {list[i].side, "nobody"} THEN "withdrawn" ELSE "declined"]]

Negotiable(c) ==
    /\ app[c].status \in Waiting
    /\ campaign.status = "open" /\ Brand \notin gone
    /\ campaign.type # "barter"
    /\ c \notin gone

Fits(type, fee) ==
    /\ type = "barter" => fee = "none"
    /\ type \in {"paid", "local_business"} => fee # "none"
EarlierFee(repeats) == IF repeats = "deal_with_fee" THEN "earlier" ELSE "none"
\* Variant: a repeat starts from the earlier deal, whatever was agreed since.
RepeatFeeEarlier(c) == EarlierFee(app[c].repeats)
RepeatFee(c) ==
    IF AgreedOffers(c) # {} THEN "agreed" ELSE EarlierFee(app[c].repeats)
DraftFee(q) ==
    IF q.with = "fee" THEN "stated"
    ELSE IF AgreedOffers(q.creator) # {} THEN "agreed" ELSE "none"

\* The deals that hold the erasure of both their sides: one that has not ended,
\* and one that has, with an open dispute.
Unfinished(who) ==
    {c \in Creators :
       (who = Brand \/ who = c) /\ memo[c] # NoMemo /\ memo[c].deal \in {"on", "disputed"}}

-----------------------------------------------------------------------------
(* What a request reads first, without a lock, and what it checks under one. *)

ReadFirst(q) ==
    /\ Asker(q) \notin gone
    /\ q.op \in ApplicationOps => app[q.creator] # NoRow
    /\ q.op \in AnswerOps => q.nth \in DOMAIN offers[q.creator]
    /\ q.op = "apply" => campaign.status = "open" /\ Brand \notin gone
    /\ (q.op = "invite" /\ q.with # "nothing") => Fits(campaign.type, EarlierFee(q.with))
    \* a value that is already there is not written
    /\ q.op = "patch" => campaign.status = "draft" /\ q.with # campaign.type

\* Variant: the campaign is not read again.
PassesInviteStale(q) ==
    /\ q.step = 2 =>
         /\ q.creator \notin gone
         /\ Cardinality({c \in Creators : app[c].status = "invited"}) < MaxWaitingInvitations
    /\ q.step = 3 => app[q.creator] = NoRow
PassesInvite(q) ==
    /\ q.step = 1 => campaign.status = "open"
    /\ q.step = 2 =>
         /\ q.creator \notin gone
         /\ Cardinality({c \in Creators : app[c].status = "invited"}) < MaxWaitingInvitations
    /\ q.step = 3 => app[q.creator] = NoRow

\* Variant: a waiting offer does not stop the deal.
PassesMoveUnsettled(q) ==
    LET from == app[q.creator].status
        to   == Move[q.op].to
    IN  /\ from \in Waiting
        /\ to \in ApplicationMoves[Move[q.op].actor][from]
        /\ q.op = "accept_invitation" => campaign.status = "open" /\ Brand \notin gone
PassesMove(q) ==
    LET from == app[q.creator].status
        to   == Move[q.op].to
    IN  /\ from \in Waiting
        /\ to \in ApplicationMoves[Move[q.op].actor][from]
        /\ q.op = "accept_invitation" => campaign.status = "open" /\ Brand \notin gone
        /\ to = "accepted" => OpenOffers(q.creator) = {}

PassesOffer(q) ==
    LET list == offers[q.creator] IN
    /\ q.op \in {"make_offer", "accept_offer"} => Negotiable(q.creator)
    /\ q.op = "make_offer" => MayMake(list, q.side)
    /\ q.op \in {"accept_offer", "decline_offer"} => MayAnswer(list[q.nth], q.side)
    /\ q.op = "withdraw_offer" => MayWithdraw(list[q.nth], q.side)

\* Variant: the creator's deletion is not looked for.
PassesMemoGone(q) ==
    /\ app[q.creator].status = "accepted"
    /\ memo[q.creator] = NoMemo
    /\ Fits(campaign.type, DraftFee(q))
PassesMemo(q) ==
    /\ app[q.creator].status = "accepted"
    /\ q.creator \notin gone
    /\ memo[q.creator] = NoMemo
    /\ Fits(campaign.type, DraftFee(q))

\* What is checked as the next lock is granted.
Passes(q) ==
    /\ q.op = "invite" => PassesInvite(q)
    /\ q.op = "apply" /\ q.step = 1 => app[q.creator] = NoRow
    /\ q.op \in MoveOps /\ q.step = 1 => PassesMove(q)
    /\ q.op \in OfferOps /\ q.step = 1 => PassesOffer(q)
    /\ q.op = "create_memo" => PassesMemo(q)
    /\ q.op \in DOMAIN CampaignMove =>
          CampaignMove[q.op] \in AllowedTransitions[campaign.status]

-----------------------------------------------------------------------------
(* Steps every request takes. *)

Begin(r) ==
    /\ ~Running(r)
    /\ \E op \in Enabled : \E q \in Asked(op) :
          ReadFirst(q) /\ req' = [req EXCEPT ![r] = q]
    /\ UNCHANGED <<campaign, app, offers, memo, gone>>

Lock(r) ==
    /\ MoreLocks(r) /\ Free(r)
    /\ Passes(req[r])
    /\ req' = [req EXCEPT ![r].step = @ + 1]
    /\ UNCHANGED <<campaign, app, offers, memo, gone>>

\* A refused request is rolled back, with its locks.
Refuse(r) ==
    /\ MoreLocks(r) /\ Free(r)
    /\ ~Passes(req[r])
    /\ req' = [req EXCEPT ![r] = Idle]
    /\ UNCHANGED <<campaign, app, offers, memo, gone>>

\* A wait ended by PostgreSQL's deadlock check or its statement_timeout.
TimeOut(r) ==
    /\ MoreLocks(r) /\ ~Free(r)
    /\ req' = [req EXCEPT ![r] = Idle]
    /\ UNCHANGED <<campaign, app, offers, memo, gone>>

Commits(r, ops) ==
    /\ Running(r) /\ ~MoreLocks(r)
    /\ req[r].op \in ops
    /\ req' = [req EXCEPT ![r] = Idle]

-----------------------------------------------------------------------------
(* What each operation writes. *)

ApplyToCampaign(r) ==
    /\ Commits(r, {"apply"})
    /\ app' = [app EXCEPT ![req[r].creator] =
                 [status |-> "submitted", origin |-> "applied", repeats |-> "nothing"]]
    /\ UNCHANGED <<campaign, offers, memo, gone>>

InviteCreator(r) ==
    /\ Commits(r, {"invite"})
    /\ app' = [app EXCEPT ![req[r].creator] =
                 [status |-> "invited", origin |-> "invited", repeats |-> req[r].with]]
    /\ UNCHANGED <<campaign, offers, memo, gone>>

\* Saying no ends the open offer; a repeat's yes drafts its memo.
MoveApplication(r) ==
    LET c  == req[r].creator
        to == Move[req[r].op].to
    IN  /\ Commits(r, MoveOps)
        /\ app' = [app EXCEPT ![c].status = to]
        /\ offers' = IF to \in {"rejected", "withdrawn", "declined"}
                     THEN [offers EXCEPT ![c] = CloseOpen(@, req[r].side)] ELSE offers
        /\ memo' = IF req[r].op = "accept_invitation" /\ app[c].repeats # "nothing"
                   THEN [memo EXCEPT ![c] =
                           [fee |-> RepeatFee(c), deal |-> "on"]]
                   ELSE memo
        /\ UNCHANGED <<campaign, gone>>

\* A counter replaces the other side's open offer.
MakeOffer(r) ==
    LET c == req[r].creator IN
    /\ Commits(r, {"make_offer"})
    /\ offers' = [offers EXCEPT ![c] =
          Append([i \in DOMAIN @ |->
                    IF @[i].outcome = "open"
                    THEN [@[i] EXCEPT !.outcome = "replaced"] ELSE @[i]],
                 [side |-> req[r].side, outcome |-> "open"])]
    /\ UNCHANGED <<campaign, app, memo, gone>>

OfferAnswer ==
    [accept_offer |-> "accepted", decline_offer |-> "declined",
     withdraw_offer |-> "withdrawn"]
AnswerOffer(r) ==
    /\ Commits(r, AnswerOps)
    /\ offers' = [offers EXCEPT ![req[r].creator][req[r].nth].outcome =
                    OfferAnswer[req[r].op]]
    /\ UNCHANGED <<campaign, app, memo, gone>>

CreateMemo(r) ==
    /\ Commits(r, {"create_memo"})
    /\ memo' = [memo EXCEPT ![req[r].creator] =
                  [fee |-> DraftFee(req[r]), deal |-> "on"]]
    /\ UNCHANGED <<campaign, app, offers, gone>>

ChangeStatus(r) ==
    /\ Commits(r, DOMAIN CampaignMove)
    /\ campaign' = [campaign EXCEPT !.status = CampaignMove[req[r].op]]
    /\ UNCHANGED <<app, offers, memo, gone>>

\* A change of the whole draft, as it was read.
UpdateCampaign(r) ==
    /\ Commits(r, {"patch"})
    /\ campaign' = [campaign EXCEPT !.type = req[r].with]
    /\ UNCHANGED <<app, offers, memo, gone>>

BrandLeaving == [invited |-> "withdrawn"]
CreatorLeaving ==
    [submitted |-> "withdrawn", shortlisted |-> "withdrawn", invited |-> "declined"]
CampaignLeaving == [draft |-> "cancelled", open |-> "closed"]

\* End what never became a deal, on the applications of S.
End(moves, S) ==
    LET ending == {c \in S : app[c].status \in DOMAIN moves} IN
    /\ app' = [c \in Creators |->
                 IF c \in ending THEN [app[c] EXCEPT !.status = moves[@]] ELSE app[c]]
    /\ offers' = [c \in Creators |->
                    IF c \in ending THEN CloseOpen(offers[c], "nobody") ELSE offers[c]]

\* Held by an unfinished deal, or already erased: nothing happens.
Erases(who) == who \notin gone /\ Unfinished(who) = {}

EraseBrand(r) ==
    /\ Commits(r, {"erase_brand"})
    /\ Erases(Brand)
    /\ campaign' = IF campaign.status \in DOMAIN CampaignLeaving
                   THEN [campaign EXCEPT !.status = CampaignLeaving[@]] ELSE campaign
    /\ End(BrandLeaving, Creators)
    /\ gone' = gone \union {Brand}
    /\ UNCHANGED memo

EraseCreator(r) ==
    LET c == req[r].creator IN
    /\ Commits(r, {"erase_creator"})
    /\ Erases(c)
    /\ End(CreatorLeaving, {c})
    /\ gone' = gone \union {c}
    /\ UNCHANGED <<campaign, memo>>

EraseHeld(r) ==
    /\ Commits(r, {"erase_brand", "erase_creator"})
    /\ ~Erases(Asker(req[r]))
    /\ UNCHANGED <<campaign, app, offers, memo, gone>>

\* Where a deal goes, beside the requests: see DealMemo and PaymentRecord.
DealGoes(c, from, to) ==
    /\ memo[c] # NoMemo /\ memo[c].deal = from
    /\ memo' = [memo EXCEPT ![c].deal = to]
    /\ UNCHANGED <<campaign, app, offers, gone, req>>

\* The deal is declined, cancelled with nothing owed, or finished.  It has had a
\* dispute, has one, can still have one, or has no payment to dispute.
FinishDeal(c) == \E to \in {"over", "disputed", "closed"} : DealGoes(c, "on", to)

\* A dispute about the payment of a deal that has ended, the only one it can
\* have.  It takes no lock an erasure takes, and its account was read before:
\* either side may open it beside the erasure of one of them, or after it.
OpenDispute(c) == DealGoes(c, "over", "disputed")

\* Closed by a side, or unresolved for 30 days.
CloseDispute(c) == DealGoes(c, "disputed", "closed")

-----------------------------------------------------------------------------
Init ==
    /\ campaign \in [status : {"draft"}, type : CampaignTypes]
    /\ app = [c \in Creators |-> NoRow]
    /\ offers = [c \in Creators |-> <<>>]
    /\ memo = [c \in Creators |-> NoMemo]
    /\ gone = {}
    /\ req = [r \in Requests |-> Idle]

Next ==
    \/ \E r \in Requests :
          \/ Begin(r) \/ Lock(r) \/ Refuse(r) \/ TimeOut(r)
          \/ ApplyToCampaign(r) \/ InviteCreator(r) \/ MoveApplication(r)
          \/ MakeOffer(r) \/ AnswerOffer(r) \/ CreateMemo(r)
          \/ ChangeStatus(r) \/ UpdateCampaign(r)
          \/ EraseBrand(r) \/ EraseCreator(r) \/ EraseHeld(r)
    \/ \E c \in Creators : FinishDeal(c) \/ OpenDispute(c) \/ CloseDispute(c)

Spec == Init /\ [][Next]_vars

-----------------------------------------------------------------------------
(* What the code promises. *)

TypeOK ==
    /\ campaign \in Campaign
    /\ app \in [Creators -> Application \union {NoRow}]
    /\ offers \in [Creators -> Seq(Offer)]
    /\ memo \in [Creators -> Memo \union {NoMemo}]
    /\ gone \subseteq People
    /\ req \in [Requests -> Request \union {Idle}]

\* The offers of an application read as one negotiation, whoever offered,
\* answered, moved or left meanwhile: only the last is open, while the
\* application waits, or accepted; a replaced one is followed by the other
\* side's.
OffersTellOneNegotiation ==
    \A c \in Creators :
        /\ OpenOffers(c) # {} => app[c].status \in Waiting
        /\ \A i \in DOMAIN offers[c] :
              LET offer == offers[c][i] IN
              /\ offer.outcome \in {"open", "accepted"} => i = Len(offers[c])
              /\ offer.outcome = "replaced" =>
                    /\ i + 1 \in DOMAIN offers[c]
                    /\ offers[c][i + 1].side # offer.side

\* What is stored is well formed and is one negotiation (offer_service).
OneNegotiation == TypeOK /\ OffersTellOneNegotiation

\* What was said stands: an ended offer, an ended application and a drafted fee
\* never change, and a figure is only agreed by the side that did not name it.
OutcomesStand ==
    [][\A c \in Creators :
         /\ app[c].status \in Final => app'[c] = app[c]
         /\ memo[c] # NoMemo => memo'[c].fee = memo[c].fee
         /\ \A i \in DOMAIN offers[c] :
               /\ i \in DOMAIN offers'[c]
               /\ offers[c][i].outcome # "open" => offers'[c][i] = offers[c][i]
               /\ (offers[c][i].outcome = "open" /\ offers'[c][i].outcome = "accepted") =>
                     \E r \in Requests :
                        /\ Running(r) /\ req'[r] = Idle
                        /\ req[r].side # offers[c][i].side]_vars

\* A memo is drafted only for an accepted application, once the figure is
\* settled, and starts from the figure agreed there, if there is one, before
\* any earlier deal's.
MemoComesFromTheDeal ==
    \A c \in Creators : memo[c] # NoMemo =>
        /\ app[c].status = "accepted"
        /\ OpenOffers(c) = {}
        /\ memo[c].fee # "stated" => (memo[c].fee = "agreed" <=> AgreedOffers(c) # {})
        /\ memo[c].fee = "earlier" => app[c].repeats = "deal_with_fee"

\* The limit on waiting invitations holds when invitations are sent at once.
WaitingInvitationsAreFew ==
    Cardinality({c \in Creators : app[c].status = "invited"}) <= MaxWaitingInvitations

\* An invitation lands while its campaign is open and its creator is there.
InvitedWhileOpen ==
    [][\A c \in Creators :
         (app[c] = NoRow /\ app'[c] # NoRow /\ app'[c].origin = "invited") =>
            campaign.status = "open" /\ {c, Brand} \cap gone = {}]_vars

\* After an erasure nothing is left to answer: no waiting invitation of either
\* side, no open campaign, and of a creator no open offer and no deal that has
\* not ended.  A dispute about one that has may still be opened (OpenDispute).
WhoLeftIsLeftAlone ==
    /\ Brand \in gone =>
          /\ campaign.status \in {"closed", "cancelled"}
          /\ \A c \in Creators : app[c].status # "invited"
    /\ \A c \in gone \ {Brand} :
          /\ app[c].status # "invited" /\ OpenOffers(c) = {}
          /\ memo[c] # NoMemo => memo[c].deal # "on"

\* A set of requests each waiting for another of them.
Stuck(S) == S # {} /\ \A r \in S : \E s \in S : WaitsFor(r, s)

\* Only an invitation or the erasure of a brand goes on to other locks with the
\* campaign's in hand: requests wait in a circle only with one of them in it.
OnlyCampaignHoldersDeadlock ==
    \A S \in SUBSET Requests :
        Stuck(S) => \E r \in S : req[r].op \in {"invite", "erase_brand"}

(* What the documents say and the code does not keep. *)

\* "Stops new applications", of the close of a campaign.
ClosedCampaignTakesNoApplications ==
    [][\A c \in Creators :
         (app[c] = NoRow /\ app'[c] # NoRow) => campaign.status = "open"]_vars

\* "an invitation outlives none of them": the open campaign, its brand.
InvitationDoesNotOutliveTheCampaign ==
    [][\A c \in Creators :
         (app[c].status = "invited" /\ app'[c].status = "accepted") =>
            campaign.status = "open" /\ Brand \notin gone]_vars

\* "Once creators can apply, the deal on offer must not change under them."
OpenDealStands ==
    [][campaign.status = "open" => campaign'.type = campaign.type]_vars

\* "so no erasure and request lock in a circle"
NoErasureInACircle ==
    \A S \in SUBSET Requests :
        Stuck(S) => \A r \in S : req[r].op \notin {"erase_brand", "erase_creator"}

\* "a memo lands wholly before the erasure, and holds it, or after, and is refused"
MemoBeforeErasureOrRefused ==
    [][\A c \in Creators :
         (memo[c] = NoMemo /\ memo'[c] # NoMemo) => {c, Brand} \cap gone = {}]_vars

\* "nothing new can start with it", of a deleted account
NothingStartsWithWhoLeft ==
    [][\A c \in Creators :
         (app[c] = NoRow /\ app'[c] # NoRow) => {c, Brand} \cap gone = {}]_vars
=============================================================================
