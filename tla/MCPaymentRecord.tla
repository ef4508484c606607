---------------------------- MODULE MCPaymentRecord ----------------------------
(* PaymentRecord on a small instance.  Requests and deals are interchangeable,  *)
(* so the requests begin in the order of their numbers and the first names deal *)
(* 1 first: each behaviour is one of these under other names.  A third request  *)
(* joins two on their one deal, or two whose lists name both deals.  Only what  *)
(* begins is limited, never what has begun, so that fairness means the same.    *)
EXTENDS PaymentRecord

InTurn ==
    /\ \A r, s \in Requests : s < r /\ req'[r] # Unsent => req'[s] # Unsent
    /\ req'[1] # Unsent => req'[1].deals[1] = 1
    /\ \A r \in Requests : r > 2 /\ req'[r] # Unsent =>
          \/ \A s \in 1..r : req'[s].deals = <<1>>
          \/ \A s \in 1..2 : Len(req'[s].deals) = 2

MCNext == Next /\ InTurn
MCSpec == Init /\ [][MCNext]_vars /\ \A r \in Requests : WF_vars(Proceeds(r))
================================================================================
