----------------------------- MODULE BusParameters -----------------------------
(***************************************************************************)
(* The parameters that the event bus (src/araxys/webhooks/emitter.py) and  *)
(* the channel it implements have in common.                               *)
(***************************************************************************)
EXTENDS Integers

CONSTANTS
    Subscribers,    \* number of subscribed callbacks
    QueueSize,      \* WebhookConfig.queue_size
    MaxEvents       \* bound on the events emitted

ASSUME ChannelAssumption ==
    /\ Subscribers \in Nat \ {0}
    /\ QueueSize \in Nat \ {0}
    /\ MaxEvents \in Nat

=============================================================================
