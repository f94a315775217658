------------------------------- MODULE MCOutbox -------------------------------
(* Small instances of Outbox. *)
EXTENDS OutboxInv, TLC

CONSTANTS a1, a2, s1, s2, b1, b2

\* One account with two sends, so that deliveries have an order.
OneAccount == (s1 :> a1) @@ (s2 :> a1)

\* Two accounts with a send each, so that two workers share one lock.
TwoAccounts == (s1 :> a1) @@ (s2 :> a2)
=============================================================================
