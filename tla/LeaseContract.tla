---------------------------- MODULE LeaseContract ----------------------------
(***************************************************************************)
(* What the lease files of the orchestrator promise to the processes that  *)
(* act under them, without files, guards, clocks or pids: who is named by  *)
(* the file, and who may rely on it.  A holder relies on the lease from    *)
(* the moment its acquisition returns until it lets go, dies or lets its   *)
(* own deadline pass.  FileLease and HeavyMaintenanceLease implement this  *)
(* specification, each up to the exposures it records.                     *)
(***************************************************************************)

CONSTANTS
    Holder,     \* the owner tokens
    Nobody      \* whom an absent file names

VARIABLES
    named,      \* whose token the lease file carries
    trusted,    \* the holders that act under an up-to-date lease
    broken      \* history: one of the recorded exposures has been used

contractVars == <<named, trusted, broken>>

ContractInit ==
    /\ named = Nobody
    /\ trusted = {}
    /\ broken = FALSE

\* An exclusive create makes a file that carries the token of h.
Name(h) ==
    /\ named = Nobody
    /\ named' = h
    /\ UNCHANGED trusted

\* An acquisition or a renewal returns: h acts under the lease naming it.
Trust(h) ==
    /\ named = h
    /\ trusted' = trusted \cup {h}
    /\ UNCHANGED named

\* h releases, dies or misses its deadline; the file is still there.
Cease(h) ==
    /\ h \in trusted
    /\ trusted' = trusted \ {h}
    /\ UNCHANGED named

\* The file is removed, by its own holder's release or by a recovery: by
\* then whom it names relies on it no longer.
Withdraw ==
    /\ named \notin trusted
    /\ named' = Nobody
    /\ UNCHANGED trusted

\* An exposure is used; the contract says nothing from here on.
Break == broken' = TRUE

Kept ==
    /\ ~broken
    /\ broken' = FALSE
    /\ Withdraw \/ \E h \in Holder : Name(h) \/ Trust(h) \/ Cease(h)

ContractNext == Kept \/ Break

ContractSpec == ContractInit /\ [][ContractNext]_contractVars
=============================================================================
