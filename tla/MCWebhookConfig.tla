-------------------------- MODULE MCWebhookConfig --------------------------
(* WebhookConfig on a shop with up to four kinds of webhooks at first.       *)
EXTENDS WebhookConfigProps, TLC

\* One of the old server, one right, a refund webhook of a custom topic, and
\* one that is not ours.
Shop == {[topic |-> "order.created", base |-> "there", path |-> "order-created"],
         [topic |-> "order.updated", base |-> "here", path |-> "order-updated"],
         [topic |-> "other", base |-> "there", path |-> "order-refunded"],
         [topic |-> "other", base |-> "there", path |-> "elsewhere"]}
Symmetry == Permutations(Callers)
=============================================================================
