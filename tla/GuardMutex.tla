----------------------------- MODULE GuardMutex -----------------------------
(***************************************************************************)
(* What the lifecycle guard of ai/daemons/shared/lifecycleGuard.mjs        *)
(* promises to its callers, without its directories and files: a mutex     *)
(* whose ownership can be taken away, but only from an entry that is older *)
(* than guardStaleAfterMs.  LifecycleGuard implements this specification;  *)
(* the lease modules are built on its actions.                             *)
(***************************************************************************)

CONSTANTS
    Proc,       \* the entrants: calls that enter the guard
    NoOne,      \* the owner of a vacant guard
    Abandoned,  \* the owner of a guard whose entrant died inside
    Stalls      \* whether a live entrant may pause past guardStaleAfterMs

ASSUME GuardMutexAssumption ==
    /\ NoOne \notin Proc
    /\ Abandoned \notin Proc
    /\ NoOne # Abandoned
    /\ Stalls \in BOOLEAN

VARIABLES
    owner,      \* whose entry the guard carries
    inside,     \* the live entrants between their enter and their exit
    overdue     \* whether the carried entry is older than guardStaleAfterMs

guardVars == <<owner, inside, overdue>>

GuardTypeOK ==
    /\ owner \in Proc \cup {NoOne, Abandoned}
    /\ inside \in SUBSET Proc
    /\ overdue \in BOOLEAN

GuardInit ==
    /\ owner = NoOne
    /\ inside = {}
    /\ overdue = FALSE

\* enterLifecycleGuard succeeds.  The entry is as old as its staged owner
\* file, so a call that stalled after staging enters already overdue.
Enter(p) ==
    /\ owner = NoOne
    /\ p \notin inside
    /\ owner' = p
    /\ inside' = inside \cup {p}
    /\ overdue' \in (IF Stalls THEN BOOLEAN ELSE {FALSE})

\* verifyLifecycleGuardOwnership
Verified(p) == owner = p

\* exitLifecycleGuard: an evicted entrant leaves without touching the guard.
Leave(p) ==
    /\ p \in inside
    /\ inside' = inside \ {p}
    /\ IF owner = p
       THEN owner' = NoOne /\ overdue' = FALSE
       ELSE UNCHANGED <<owner, overdue>>

\* The process of an entrant dies; what it put in the guard stays.
Die(p) ==
    /\ p \in inside
    /\ inside' = inside \ {p}
    /\ owner' = IF owner = p THEN Abandoned ELSE owner
    /\ UNCHANGED overdue

\* guardStaleAfterMs passes since the carried entry was staged.
GrowOld ==
    /\ owner # NoOne
    /\ ~overdue
    /\ owner = Abandoned \/ Stalls
    /\ overdue' = TRUE
    /\ UNCHANGED <<owner, inside>>

\* A contender consumes an overdue entry.
Steal ==
    /\ owner # NoOne
    /\ overdue
    /\ owner' = NoOne
    /\ overdue' = FALSE
    /\ UNCHANGED inside

GuardNext ==
    \/ \E p \in Proc : Enter(p) \/ Leave(p) \/ Die(p)
    \/ GrowOld
    \/ Steal

GuardSpec == GuardInit /\ [][GuardNext]_guardVars
=============================================================================
