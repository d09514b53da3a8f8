-------------------------------- MODULE MCBackground --------------------------------
(***************************************************************************)
(* What runs beside the requests, for TLC: pools, rotation, feeds, the     *)
(* audit log, webhook deliveries and the escalation to the WAF. The parts  *)
(* share no state that the models relate, so each behaviour exercises one  *)
(* of them.                                                                *)
(***************************************************************************)
EXTENDS RedisPools, SecretRotation, ThreatIntel, AuditLog, WebhookDelivery,
        WafEscalation, ShieldLifecycle

VARIABLE part

\* Only the part that is exercised chooses among its initial states.
MCInit ==
    /\ part \in {"pools", "rotation", "feeds", "audit", "delivery", "waf", "shield"}
    /\ PoolInit
    /\ part # "pools" => kind = "nodes" /\ health = "gone"
    /\ RotationInit
    /\ part # "rotation" =>
           /\ dsn = (CHOOSE s \in Secrets : TRUE)
           /\ redisUrl = dsn /\ secret = [t \in Targets |-> dsn]
    /\ ThreatInit
    /\ part # "feeds" => blocklist = {}
    /\ AuditInit
    /\ part # "audit" =>
           rotationSize = (CHOOSE n \in RotationSizes : TRUE) /\ asyncWrite
    /\ DeliveryInit
    /\ part # "delivery" =>
           hasDlq /\ retryMax = CHOOSE n \in RetryBudgets : TRUE
    /\ WafInit
    /\ ShieldInit
    /\ part # "shield" => features = {}

MCNext ==
    \/ /\ part = "pools" /\ PoolNext
       /\ UNCHANGED <<part, rotationVars, threatVars, auditVars, deliveryVars,
                      wafVars, shieldVars>>
    \/ /\ part = "rotation" /\ RotationNext
       /\ UNCHANGED <<part, poolVars, threatVars, auditVars, deliveryVars, wafVars,
                      shieldVars>>
    \/ /\ part = "feeds" /\ ThreatNext
       /\ UNCHANGED <<part, poolVars, rotationVars, auditVars, deliveryVars, wafVars,
                      shieldVars>>
    \/ /\ part = "audit" /\ AuditNext
       /\ UNCHANGED <<part, poolVars, rotationVars, threatVars, deliveryVars, wafVars,
                      shieldVars>>
    \/ /\ part = "delivery" /\ DeliveryNext
       /\ UNCHANGED <<part, poolVars, rotationVars, threatVars, auditVars, wafVars,
                      shieldVars>>
    \/ /\ part = "waf" /\ WafNext
       /\ UNCHANGED <<part, poolVars, rotationVars, threatVars, auditVars,
                      deliveryVars, shieldVars>>
    \/ /\ part = "shield" /\ ShieldNext
       /\ UNCHANGED <<part, poolVars, rotationVars, threatVars, auditVars,
                      deliveryVars, wafVars>>

MCSpec == MCInit /\ [][MCNext]_<<part, poolVars, rotationVars, threatVars, auditVars,
                                 deliveryVars, wafVars, shieldVars>>

\* The part that is exercised stays well typed.
MCTypeOK ==
    /\ part = "pools" => PoolTypeOK
    /\ part = "rotation" => RotationTypeOK
    /\ part = "feeds" => ThreatTypeOK
    /\ part = "audit" => AuditTypeOK
    /\ part = "delivery" => DeliveryTypeOK
    /\ part = "waf" => WafTypeOK
    /\ part = "shield" => ShieldTypeOK

=============================================================================
