----------------------------- MODULE MCWebhookDLQ -----------------------------
(* A small instance of the dead-letter queue for TLC. *)
EXTENDS WebhookDLQ, TLC

\* The ids are uuids: no step tells one from another.
EventSymmetry == Permutations(Events)

=============================================================================
