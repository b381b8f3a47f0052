---------------------------- MODULE MCWakeOutbox ----------------------------
(* One daemon and one poll; the two wakes read the same.                   *)
EXTENDS WakeOutbox, TLC

CONSTANTS wakeA, wakeB, digest

MCIdOf == wakeA :> digest @@ wakeB :> digest
=============================================================================
