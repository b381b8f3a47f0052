------------------------------ MODULE Handover ------------------------------
(***************************************************************************)
(* What the memory log, the wake delivery and the wake outbox promise in   *)
(* common, without files, queues, cursors, locks or retries: a thing that  *)
(* is accepted is owed until it is handed over, and it is handed over      *)
(* once and for all.  Each of the three implements this specification, up  *)
(* to the things it waives by name.                                        *)
(***************************************************************************)

CONSTANTS
    Items,      \* what is handed over: turns, wakes
    Before      \* those that were handed over before the beginning

VARIABLES
    phase,      \* where each item is: new, owed or handed
    waived      \* history: the items of which nothing is promised any more

handoverVars == <<phase, waived>>

HandoverInit ==
    /\ phase = [i \in Items |-> IF i \in Before THEN "handed" ELSE "new"]
    /\ waived = {}

Stay(i) == phase'[i] = phase[i]

\* From here on the item is owed to the other side.
Accept(i) == phase[i] = "new" /\ phase'[i] = "owed"

\* The item has arrived.  A producer that died before it was told has not
\* accepted it, and yet the item may arrive.
Hand(i) == phase[i] \in {"new", "owed"} /\ phase'[i] = "handed"

\* No item is lost, taken back or handed over again, unless it is waived.
HandoverNext ==
    /\ waived \subseteq waived'
    /\ \A i \in Items \ waived' : Stay(i) \/ Accept(i) \/ Hand(i)

HandoverSpec == HandoverInit /\ [][HandoverNext]_handoverVars
=============================================================================
