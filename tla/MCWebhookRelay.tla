--------------------------- MODULE MCWebhookRelay ---------------------------
(* Instances of WebhookRelay: two deliveries for one subscriber.           *)
EXTENDS WebhookRelay

CONSTANTS d1, d2, s1

OneSubscriber == [r \in Row |-> s1]
=============================================================================
