---------------------------- MODULE PaymentPromise ----------------------------
(***************************************************************************)
(* What the shop promises about the money of an order that is paid through *)
(* a provider, whatever the order of pages, notifications, timeouts and    *)
(* cancellations: money that is taken is kept for an order that is made, or *)
(* owed to the customer until it is returned; an order that was given up   *)
(* never keeps a payment.  OnlinePayment implements it.                    *)
(***************************************************************************)
CONSTANT Order

VARIABLE money

Money == {"waiting", "kept", "given_up", "owed", "returned"}

Step ==
    {<<"waiting", "kept">>, <<"waiting", "given_up">>, <<"given_up", "owed">>,
     <<"kept", "owed">>, <<"kept", "returned">>, <<"owed", "returned">>}

Init == money = [o \in Order |-> "waiting"]

\* A table's bill moves several orders at once.
Next ==
    /\ money' \in [Order -> Money]
    /\ \A o \in Order : money'[o] = money[o] \/ <<money[o], money'[o]>> \in Step

Spec == Init /\ [][Next]_money

=============================================================================
