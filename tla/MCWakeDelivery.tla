--------------------------- MODULE MCWakeDelivery ---------------------------
(* Two routes of one recipient; the first also receives its heartbeats.    *)
EXTENDS WakeDelivery, TLC

CONSTANTS s1, s2

MCWants == s1 :> Events @@ s2 :> Messages
=============================================================================
