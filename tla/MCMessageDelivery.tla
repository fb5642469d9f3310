-------------------------- MODULE MCMessageDelivery --------------------------
(* Instances of MessageDelivery for TLC.                                     *)
EXTENDS MessageDelivery

CONSTANTS m1, m2

AnyCall == {"none", "ack", "nack"}
NoCall == {"none"}
AckOrNone == {"none", "ack"}
AnyOutcome == {"ok", "err", "panic"}
OkOrErr == {"ok", "err"}

=============================================================================
