------------------------- MODULE MCWebhookDispatch -------------------------
(* Instances of WebhookDispatch for TLC. *)
EXTENDS WebhookDispatch

CONSTANTS n1, n2, w1, w2

\* w2 still runs the build before n2's policy.
WithoutN2 == {<<w2, n2>>}
=============================================================================
