--------------------------- MODULE LifecycleGuard ---------------------------
(***************************************************************************)
(* ai/daemons/shared/lifecycleGuard.mjs, one file-system call per step:    *)
(* the directory mutex under every guarded lease transition.               *)
(*                                                                         *)
(* An entrant stages a private directory that holds one owner-<token> file *)
(* and renames it onto the guard name; POSIX rename replaces an absent or  *)
(* an empty directory and fails on a non-empty one.  A loser lists the     *)
(* guard, judges the age of exactly the names it saw, and if all of them   *)
(* are older than guardStaleAfterMs unlinks those names and removes the    *)
(* directory, then competes again.  Entrants die anywhere and pause        *)
(* anywhere.  The async and the sync functions take the same steps.        *)
(*                                                                         *)
(* A token stands for one crypto.randomUUID(): it is taken from the tokens *)
(* nobody remembers.  A file's age is the one bit the code tests: whether  *)
(* it has reached guardStaleAfterMs.                                       *)
(***************************************************************************)
EXTENDS Naturals, FiniteSets

CONSTANTS
    Entrant,      \* calls of enterLifecycleGuard, over all processes
    Token,        \* owner-file names
    NoToken,
    NoOne,        \* the owner of a vacant guard, and of one whose
    Abandoned,    \* entrant died: names for GuardMutex
    MaxAttempts,  \* GUARD_MAX_ATTEMPTS
    Stalls        \* whether a live entrant may pause past guardStaleAfterMs

ASSUME LifecycleGuardAssumption ==
    /\ NoToken \notin Token
    /\ NoOne \notin Entrant
    /\ Abandoned \notin Entrant
    /\ NoOne # Abandoned
    /\ MaxAttempts \in Nat \ {0}
    /\ Stalls \in BOOLEAN

VARIABLES
    dirExists,  \* the guard directory exists
    files,      \* the owner files in it
    dirOld,     \* its mtime has reached guardStaleAfterMs
    old,        \* the owner files whose mtime has reached guardStaleAfterMs
    pc,         \* the next step of each entrant
    token,      \* the owner file an entrant staged, entered with or left
    observed,   \* observedNames: what readdir returned
    attempt     \* attempts begun in the current call

vars == <<dirExists, files, dirOld, old, pc, token, observed, attempt>>

Labels == {"idle", "staged", "contended", "observed", "stealing", "retry",
           "inside", "proved", "done", "exiting", "dead"}

\* Between a successful enter and the unlink of exitLifecycleGuard.
Inside(p) == pc[p] \in {"inside", "proved", "done"}

TypeOK ==
    /\ dirExists \in BOOLEAN
    /\ files \in SUBSET Token
    /\ dirOld \in BOOLEAN
    /\ old \in SUBSET Token
    /\ pc \in [Entrant -> Labels]
    /\ token \in [Entrant -> Token \cup {NoToken}]
    /\ observed \in [Entrant -> SUBSET Token]
    /\ attempt \in [Entrant -> 0 .. MaxAttempts]

Init ==
    /\ dirExists = FALSE
    /\ files = {}
    /\ dirOld = FALSE
    /\ old = {}
    /\ pc = [p \in Entrant |-> "idle"]
    /\ token = [p \in Entrant |-> NoToken]
    /\ observed = [p \in Entrant |-> {}]
    /\ attempt = [p \in Entrant |-> 0]

-----------------------------------------------------------------------------
(***************************************************************************)
(* enterLifecycleGuard                                                     *)
(***************************************************************************)

Unremembered(t) ==
    /\ t \notin files
    /\ \A q \in Entrant : t # token[q] /\ t \notin observed[q]

\* Mutant of Stage: attempts are not bounded.
StageUnbounded(p) ==
    /\ pc[p] \in {"idle", "retry"}
    /\ \E t \in Token :
          /\ Unremembered(t)
          /\ token' = [token EXCEPT ![p] = t]
          /\ old' = old \ {t}
    /\ pc' = [pc EXCEPT ![p] = "staged"]
    /\ attempt' = [attempt EXCEPT ![p] = @ + 1]
    /\ UNCHANGED <<dirExists, files, dirOld, observed>>

\* mkdir of the staging directory and the write of its owner file: both are
\* private to the attempt, so they are one step.
Stage(p) ==
    /\ pc[p] \in {"idle", "retry"}
    /\ attempt[p] < MaxAttempts
    /\ \E t \in Token :
          /\ Unremembered(t)
          /\ token' = [token EXCEPT ![p] = t]
          /\ old' = old \ {t}
    /\ pc' = [pc EXCEPT ![p] = "staged"]
    /\ attempt' = [attempt EXCEPT ![p] = @ + 1]
    /\ UNCHANGED <<dirExists, files, dirOld, observed>>

\* rename(stagingPath, guardPath) onto an absent or empty directory.
Win(p) ==
    /\ pc[p] = "staged"
    /\ files = {}
    /\ dirExists' = TRUE
    /\ files' = {token[p]}
    /\ dirOld' = (token[p] \in old)
    /\ pc' = [pc EXCEPT ![p] = "inside"]
    /\ UNCHANGED <<old, token, observed, attempt>>

\* The rename fails ENOTEMPTY or EEXIST; the staging directory is removed.
Lose(p) ==
    /\ pc[p] = "staged"
    /\ files # {}
    /\ token' = [token EXCEPT ![p] = NoToken]
    /\ pc' = [pc EXCEPT ![p] = "contended"]
    /\ UNCHANGED <<dirExists, files, dirOld, old, observed, attempt>>

\* readdir(guardPath); ENOENT means vacated in between, so try again.
Observe(p) ==
    /\ pc[p] = "contended"
    /\ observed' = [observed EXCEPT ![p] = files]
    /\ pc' = [pc EXCEPT ![p] = IF dirExists THEN "observed" ELSE "retry"]
    /\ UNCHANGED <<dirExists, files, dirOld, old, token, attempt>>

\* Mutant of FullyStale: what was observed and is still there is stale.
FullyStaleAgeless(p) == dirExists /\ observed[p] \subseteq files

\* stat of every observed name, or of the directory when there was none:
\* stale only if all are still there and the newest has aged out.
FullyStale(p) ==
    IF observed[p] = {}
    THEN dirExists /\ dirOld
    ELSE observed[p] \subseteq files \cap old

Judge(p) ==
    /\ pc[p] = "observed"
    /\ IF FullyStale(p)
       THEN /\ pc' = [pc EXCEPT ![p] = "stealing"]
            /\ UNCHANGED observed
       ELSE /\ pc' = [pc EXCEPT ![p] = "retry"]
            /\ observed' = [observed EXCEPT ![p] = {}]
    /\ UNCHANGED <<dirExists, files, dirOld, old, token, attempt>>

\* Mutant of StealFile: the guard is emptied by its name, whoever is in it.
StealFileByPath(p) ==
    /\ pc[p] = "stealing"
    /\ observed[p] # {}
    /\ files' = {}
    /\ dirOld' = FALSE
    /\ observed' = [observed EXCEPT ![p] = {}]
    /\ UNCHANGED <<dirExists, old, pc, token, attempt>>

\* unlink of one observed name; ENOENT aborts the steal.
StealFile(p) ==
    /\ pc[p] = "stealing"
    /\ \E t \in observed[p] :
          IF t \in files
          THEN /\ files' = files \ {t}
               /\ dirOld' = FALSE
               /\ observed' = [observed EXCEPT ![p] = @ \ {t}]
               /\ UNCHANGED pc
          ELSE /\ pc' = [pc EXCEPT ![p] = "retry"]
               /\ observed' = [observed EXCEPT ![p] = {}]
               /\ UNCHANGED <<files, dirOld>>
    /\ UNCHANGED <<dirExists, old, token, attempt>>

\* Mutant of StealDirectory: the directory is removed with its content.
StealDirectoryRecursive(p) ==
    /\ pc[p] = "stealing"
    /\ observed[p] = {}
    /\ dirExists' = FALSE
    /\ files' = {}
    /\ pc' = [pc EXCEPT ![p] = "retry"]
    /\ UNCHANGED <<dirOld, old, token, observed, attempt>>

\* rmdir(guardPath): refused by the file system unless the directory is empty.
StealDirectory(p) ==
    /\ pc[p] = "stealing"
    /\ observed[p] = {}
    /\ dirExists' = (files # {})
    /\ pc' = [pc EXCEPT ![p] = "retry"]
    /\ UNCHANGED <<files, dirOld, old, token, observed, attempt>>

\* Mutant of GiveUp: the next call goes on counting.
GiveUpWithoutReset(p) ==
    /\ pc[p] = "retry"
    /\ attempt[p] = MaxAttempts
    /\ pc' = [pc EXCEPT ![p] = "idle"]
    /\ UNCHANGED <<dirExists, files, dirOld, old, token, observed, attempt>>

\* GUARD_MAX_ATTEMPTS are used up: enterLifecycleGuard returns null.
GiveUp(p) ==
    /\ pc[p] = "retry"
    /\ attempt[p] = MaxAttempts
    /\ pc' = [pc EXCEPT ![p] = "idle"]
    /\ attempt' = [attempt EXCEPT ![p] = 0]
    /\ UNCHANGED <<dirExists, files, dirOld, old, token, observed>>

-----------------------------------------------------------------------------
(***************************************************************************)
(* verifyLifecycleGuardOwnership, the mutation it licenses, and            *)
(* exitLifecycleGuard                                                      *)
(***************************************************************************)

\* stat of the own owner file: gone means evicted, and the caller defers.
Verify(p) ==
    /\ pc[p] = "inside"
    /\ pc' = [pc EXCEPT ![p] = IF token[p] \in files THEN "proved" ELSE "done"]
    /\ UNCHANGED <<dirExists, files, dirOld, old, token, observed, attempt>>

\* The system call on the lease path that follows a successful stat: each
\* guarded section makes one.
Mutate(p) ==
    /\ pc[p] = "proved"
    /\ pc' = [pc EXCEPT ![p] = "done"]
    /\ UNCHANGED <<dirExists, files, dirOld, old, token, observed, attempt>>

\* unlink of the own owner file; ENOENT when evicted is ignored.
ExitUnlink(p) ==
    /\ pc[p] \in {"inside", "done"}
    /\ files' = files \ {token[p]}
    /\ dirOld' = (dirOld /\ token[p] \notin files)
    /\ token' = [token EXCEPT ![p] = NoToken]
    /\ pc' = [pc EXCEPT ![p] = "exiting"]
    /\ UNCHANGED <<dirExists, old, observed, attempt>>

\* rmdir of the guard directory; ENOTEMPTY when a new entrant renamed onto it.
ExitRmdir(p) ==
    /\ pc[p] = "exiting"
    /\ dirExists' = (files # {})
    /\ pc' = [pc EXCEPT ![p] = "idle"]
    /\ attempt' = [attempt EXCEPT ![p] = 0]
    /\ UNCHANGED <<files, dirOld, old, token, observed>>

-----------------------------------------------------------------------------
(***************************************************************************)
(* The environment: crashes and the passage of time                        *)
(***************************************************************************)

Crash(p) ==
    /\ pc[p] \notin {"idle", "dead"}
    /\ pc' = [pc EXCEPT ![p] = "dead"]
    /\ token' = [token EXCEPT ![p] = NoToken]
    /\ observed' = [observed EXCEPT ![p] = {}]
    /\ attempt' = [attempt EXCEPT ![p] = 0]
    /\ UNCHANGED <<dirExists, files, dirOld, old>>

Restart(p) ==
    /\ pc[p] = "dead"
    /\ pc' = [pc EXCEPT ![p] = "idle"]
    /\ UNCHANGED <<dirExists, files, dirOld, old, token, observed, attempt>>

\* An owner file that no live entrant answers for.
Orphan(t) == t \in files /\ \A p \in Entrant : token[p] # t

\* A file reaches guardStaleAfterMs.  While a live entrant stands behind it
\* this takes a stall: a guarded section lasts microseconds.
GrowOld(t) ==
    /\ t \notin old
    /\ Orphan(t) \/ (Stalls /\ \E p \in Entrant : token[p] = t)
    /\ old' = old \cup {t}
    /\ UNCHANGED <<dirExists, files, dirOld, pc, token, observed, attempt>>

DirGrowOld ==
    /\ dirExists
    /\ ~dirOld
    /\ dirOld' = TRUE
    /\ UNCHANGED <<dirExists, files, old, pc, token, observed, attempt>>

-----------------------------------------------------------------------------
Contend(p) == Lose(p) \/ Observe(p) \/ Judge(p) \/ StealFile(p) \/ StealDirectory(p) \/ GiveUp(p)

Work(p) == Verify(p) \/ Mutate(p)

Exit(p) == ExitUnlink(p) \/ ExitRmdir(p)

Next ==
    \/ \E p \in Entrant : \/ Stage(p) \/ Win(p) \/ Contend(p)
                          \/ Work(p) \/ Exit(p)
                          \/ Crash(p) \/ Restart(p)
    \/ \E t \in Token : GrowOld(t)
    \/ DirGrowOld

Spec == Init /\ [][Next]_vars

(***************************************************************************)
(* Fairness.  Every step of a call is taken unless its process dies; an    *)
(* abandoned file does get old; and callers come back, as every daemon     *)
(* that pulses or polls its lease on a cadence does.  Crashes and stalls   *)
(* are unrestricted, except that some entrant eventually stops crashing:   *)
(* with every caller dying in every call nobody could reclaim anything.    *)
(***************************************************************************)
Fairness ==
    /\ \A p \in Entrant : /\ WF_vars(Stage(p))
                         /\ WF_vars(Win(p) \/ Contend(p))
                         /\ WF_vars(Work(p) \/ Exit(p))
                         /\ WF_vars(Restart(p))
    /\ \A t \in Token : WF_vars(GrowOld(t) /\ Orphan(t))
    /\ \E p \in Entrant : <>[][~Crash(p)]_vars

FairSpec == Spec /\ Fairness

-----------------------------------------------------------------------------
(***************************************************************************)
(* Properties                                                              *)
(***************************************************************************)

\* The guard directory never carries two owners: each rename that succeeds
\* found it absent or empty, whatever steals and exits it raced with.
OneOwner == \A s, t \in files : s = t

\* Two entrants are in the critical section together only if one of them
\* stalled past guardStaleAfterMs ("Live transitions cannot be evicted or
\* replaced").  With Stalls = FALSE this is plain mutual exclusion.
OverlapNeedsStall ==
    \A p, q \in Entrant :
        (Inside(p) /\ Inside(q) /\ p # q) => (token[p] \in old \/ token[q] \in old)

\* An owner file disappears only by its own entrant's exit or because it was
\* stale: no steal and no late exit consumes a replacement guard.
OnlyStaleFilesAreStolen ==
    [][\A t \in files \ files' :
          t \in old \/ \E p \in Entrant : token[p] = t /\ ExitUnlink(p)]_vars

\* A guard whose entrant died is reclaimed as long as callers keep coming.
AbandonedIsReclaimed ==
    \A t \in Token : Orphan(t) ~> t \notin files

(***************************************************************************)
(* The mutex this implements                                               *)
(***************************************************************************)
GuardOwner ==
    IF files = {} THEN NoOne
    ELSE IF \E p \in Entrant : token[p] \in files
         THEN CHOOSE p \in Entrant : token[p] \in files
         ELSE Abandoned

Mutex == INSTANCE GuardMutex WITH
    Proc <- Entrant,
    owner <- GuardOwner,
    inside <- {p \in Entrant : Inside(p)},
    overdue <- (files \cap old # {})

\* The directory protocol is the abstract mutex: every file-system call is
\* one of its steps or invisible to it.
ImplementsMutex == Mutex!GuardSpec
=============================================================================
