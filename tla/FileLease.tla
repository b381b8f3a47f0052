------------------------------ MODULE FileLease ------------------------------
(***************************************************************************)
(* ai/daemons/shared/fileLease.mjs: the single-owner file lease under the  *)
(* orchestrator's authority (authorityLease.mjs: liveness by age, corrupt  *)
(* state refuses) and under the drain loops (drainLock.mjs: liveness by    *)
(* pid, corrupt state is reclaimed), on top of the lifecycle guard.        *)
(*                                                                         *)
(* A process is one acquisition with its owner token; its name is reused   *)
(* for a new process and token once the lease file has forgotten it.  Time *)
(* is kept as ages that stop counting at Ttl, the only threshold.          *)
(***************************************************************************)
EXTENDS GuardMutex, Naturals

CONSTANTS
    OnCorrupt,   \* "refuse" or "reclaim"
    Liveness,    \* "age" or "pid"
    Ttl,         \* AUTHORITY_LEASE_TTL_MS, in clock units
    TornWrites   \* whether a file can be seen between its open and its write

ASSUME FileLeaseAssumption ==
    /\ OnCorrupt \in {"refuse", "reclaim"}
    /\ Liveness \in {"age", "pid"}
    /\ Ttl \in Nat \ {0}
    /\ TornWrites \in BOOLEAN

VARIABLES
    lease,      \* the lease file
    pc,         \* the next step of each process
    attempt,    \* passes begun of the loop in acquireFileLease
    age,        \* time since the process took its own timestamp: startedAt
                \* of its claim, lastPulse of its last pulse
    reused,     \* dead processes whose pid an unrelated process has now
    exposures   \* history: the ways a live lease has been taken away

vars == <<guardVars, lease, pc, attempt, age, reused, exposures>>

Missing == [kind |-> "missing"]

\* The descriptor; `by` is its owner token and its pid, `age` that of lastPulse.
Descriptor(p, a) == [kind |-> "lease", by |-> p, age |-> a]

\* A file p has opened and not yet written.
Corrupt(p) == [kind |-> "corrupt", by |-> p]

Ages == 0 .. Ttl

LeaseFiles == {Missing} \cup {Corrupt(p) : p \in Proc}
              \cup {Descriptor(p, a) : p \in Proc, a \in Ages}

Labels == {"off", "refused", "failed", "dead",
           "create", "writing", "claim", "inspect", "verify", "unlink",
           "retry", "refusing", "failing", "holding",
           "pulse", "pulseInspect", "pulseVerify", "pulseOpen",
           "pulseWrite", "pulsed", "losing", "lost",
           "release", "releaseInspect", "releaseVerify",
           "releaseUnlink", "released"}

TypeOK ==
    /\ GuardTypeOK
    /\ lease \in LeaseFiles
    /\ pc \in [Proc -> Labels]
    /\ attempt \in [Proc -> 0 .. 2]
    /\ age \in [Proc -> Ages]
    /\ reused \in SUBSET Proc
    /\ exposures \subseteq {"evicted in the gap", "half-written lease", "absent read as corrupt"}

Init ==
    /\ GuardInit
    /\ lease = Missing
    /\ pc = [p \in Proc |-> "off"]
    /\ attempt = [p \in Proc |-> 0]
    /\ age = [p \in Proc |-> 0]
    /\ reused = {}
    /\ exposures = {}

Running(p) == pc[p] \notin {"off", "refused", "failed", "lost", "dead"}

\* readFileLeaseHolder returns a descriptor, not null.
Readable == lease.kind = "lease"

\* readFileLeaseHolder returns p's own descriptor.
Own(p) == Readable /\ lease.by = p

\* Mutant of HeldFresh: a live process of another user reads as dead.
HeldFreshIfSignalled ==
    IF Liveness = "age" THEN lease.age < Ttl ELSE lease.by \in reused

\* isHeldFresh: classifyAuthorityLease is not 'stale', or
\* isDrainLockHolderFresh.
HeldFresh ==
    IF Liveness = "age" THEN lease.age < Ttl
    ELSE Running(lease.by) \/ lease.by \in reused

-----------------------------------------------------------------------------
(***************************************************************************)
(* acquireFileLease                                                        *)
(***************************************************************************)

Goto(p, label) == pc' = [pc EXCEPT ![p] = label]

\* A process boots and takes startedAt.
Boot(p) ==
    /\ ~Running(p)
    /\ lease # Missing => lease.by # p
    /\ Goto(p, "create")
    /\ attempt' = [attempt EXCEPT ![p] = 0]
    /\ age' = [age EXCEPT ![p] = 0]
    /\ reused' = reused \ {p}
    /\ UNCHANGED <<guardVars, lease, exposures>>

\* Mutant of Create: as many passes as it takes.
CreateUnbounded(p) ==
    /\ pc[p] = "create"
    /\ attempt' = [attempt EXCEPT ![p] = @ + 1]
    /\ \/ /\ lease = Missing
          /\ lease' = IF TornWrites THEN Corrupt(p) ELSE Descriptor(p, age[p])
          /\ Goto(p, "writing")
       \/ /\ lease # Missing
          /\ Goto(p, "claim")
          /\ UNCHANGED lease
    /\ UNCHANGED <<guardVars, age, reused, exposures>>

\* The exclusive create of one pass: a new name, or EEXIST and the claim.
Create(p) ==
    /\ pc[p] = "create"
    /\ attempt[p] < 2
    /\ attempt' = [attempt EXCEPT ![p] = @ + 1]
    /\ \/ /\ lease = Missing
          /\ lease' = IF TornWrites THEN Corrupt(p) ELSE Descriptor(p, age[p])
          /\ Goto(p, "writing")
       \/ /\ lease # Missing
          /\ Goto(p, "claim")
          /\ UNCHANGED lease
    /\ UNCHANGED <<guardVars, age, reused, exposures>>

\* Both passes lost: the held-error.
OutOfPasses(p) ==
    /\ pc[p] = "create"
    /\ attempt[p] = 2
    /\ Goto(p, "refused")
    /\ UNCHANGED <<guardVars, lease, attempt, age, reused, exposures>>

\* The content reaches the file that was opened, unless its name is gone.
FinishWrite(p) ==
    /\ pc[p] = "writing"
    /\ lease' = IF lease = Corrupt(p) THEN Descriptor(p, age[p]) ELSE lease
    /\ Goto(p, "holding")
    /\ UNCHANGED <<guardVars, attempt, age, reused, exposures>>

\* The process writing the content of this file is running.
BeingWritten == lease.kind = "corrupt" /\ pc[lease.by] \in {"writing", "pulseWrite"}

\* Mutants of ClaimInspect: what cannot be judged is always reclaimed, is
\* always refused; another's lease is refused at any age.
ClaimInspectReclaiming(p) ==
    /\ pc[p] = "inspect"
    /\ Goto(p, IF Readable /\ lease.by # p /\ HeldFresh THEN "refusing" ELSE "verify")
    /\ UNCHANGED <<guardVars, lease, attempt, age, reused, exposures>>

ClaimInspectRefusing(p) ==
    /\ pc[p] = "inspect"
    /\ Goto(p, IF (Readable /\ lease.by # p /\ HeldFresh) \/ ~Readable THEN "refusing" ELSE "verify")
    /\ UNCHANGED <<guardVars, lease, attempt, age, reused, exposures>>

ClaimInspectAgeless(p) ==
    /\ pc[p] = "inspect"
    /\ Goto(p, IF lease # Missing /\ lease.by # p THEN "refusing" ELSE "verify")
    /\ UNCHANGED <<guardVars, lease, attempt, age, reused, exposures>>

\* The inspection inside the guard.  A file that is gone reads like a
\* corrupt one.  History: does the reclaim go on although there is nothing
\* to reclaim, or the file is still being written?
ClaimInspect(p) ==
    /\ pc[p] = "inspect"
    /\ Goto(p, IF (Readable /\ lease.by # p /\ HeldFresh) \/ (~Readable /\ OnCorrupt = "refuse")
               THEN "refusing" ELSE "verify")
    /\ exposures' = IF OnCorrupt = "reclaim" /\ (BeingWritten \/ lease = Missing)
                    THEN exposures \cup {IF BeingWritten THEN "half-written lease"
                                         ELSE "absent read as corrupt"}
                    ELSE exposures
    /\ UNCHANGED <<guardVars, lease, attempt, age, reused>>

\* Evicted: on to the next pass.
ClaimVerify(p) ==
    /\ pc[p] = "verify"
    /\ Goto(p, IF Verified(p) THEN "unlink" ELSE "retry")
    /\ UNCHANGED <<guardVars, lease, attempt, age, reused, exposures>>

\* History: a lease is touched by a process the guard has already evicted.
Expose(p) ==
    exposures' = IF Verified(p) THEN exposures ELSE exposures \cup {"evicted in the gap"}

\* unlinkSync; its ENOENT propagates out of acquireFileLease.
ClaimUnlink(p) ==
    /\ pc[p] = "unlink"
    /\ lease' = Missing
    /\ Goto(p, IF lease = Missing THEN "failing" ELSE "retry")
    /\ Expose(p)
    /\ UNCHANGED <<guardVars, attempt, age, reused>>

-----------------------------------------------------------------------------
(***************************************************************************)
(* pulse and release of the handle                                         *)
(***************************************************************************)

\* The orchestrator pulses before each sweep; the drain loops never do.
BeginPulse(p) ==
    /\ Liveness = "age"
    /\ pc[p] = "holding"
    /\ Goto(p, "pulse")
    /\ UNCHANGED <<guardVars, lease, attempt, age, reused, exposures>>

\* Mutant of PulseInspect: the owner token is not compared.
PulseInspectAnyHolder(p) ==
    /\ pc[p] = "pulseInspect"
    /\ Goto(p, IF Readable THEN "pulseVerify" ELSE "losing")
    /\ UNCHANGED <<guardVars, lease, attempt, age, reused, exposures>>

PulseInspect(p) ==
    /\ pc[p] = "pulseInspect"
    /\ Goto(p, IF Own(p) THEN "pulseVerify" ELSE "losing")
    /\ UNCHANGED <<guardVars, lease, attempt, age, reused, exposures>>

PulseVerify(p) ==
    /\ pc[p] = "pulseVerify"
    /\ Goto(p, IF Verified(p) THEN "pulseOpen" ELSE "losing")
    /\ UNCHANGED <<guardVars, lease, attempt, age, reused, exposures>>

\* writeFileSync without a flag: open and truncate, whatever has the name ...
PulseOpen(p) ==
    /\ pc[p] = "pulseOpen"
    /\ age' = [age EXCEPT ![p] = 0]
    /\ lease' = IF TornWrites THEN Corrupt(p) ELSE Descriptor(p, 0)
    /\ Goto(p, "pulseWrite")
    /\ Expose(p)
    /\ UNCHANGED <<guardVars, attempt, reused>>

\* ... then write.
PulseWrite(p) ==
    /\ pc[p] = "pulseWrite"
    /\ lease' = IF lease = Corrupt(p) THEN Descriptor(p, age[p]) ELSE lease
    /\ Goto(p, "pulsed")
    /\ UNCHANGED <<guardVars, attempt, age, reused, exposures>>

BeginRelease(p) ==
    /\ pc[p] = "holding"
    /\ Goto(p, "release")
    /\ UNCHANGED <<guardVars, lease, attempt, age, reused, exposures>>

ReleaseInspect(p) ==
    /\ pc[p] = "releaseInspect"
    /\ Goto(p, IF Own(p) THEN "releaseVerify" ELSE "released")
    /\ UNCHANGED <<guardVars, lease, attempt, age, reused, exposures>>

ReleaseVerify(p) ==
    /\ pc[p] = "releaseVerify"
    /\ Goto(p, IF Verified(p) THEN "releaseUnlink" ELSE "released")
    /\ UNCHANGED <<guardVars, lease, attempt, age, reused, exposures>>

\* An ENOENT here is swallowed.
ReleaseUnlink(p) ==
    /\ pc[p] = "releaseUnlink"
    /\ lease' = Missing
    /\ Goto(p, "released")
    /\ Expose(p)
    /\ UNCHANGED <<guardVars, attempt, age, reused>>

-----------------------------------------------------------------------------
(***************************************************************************)
(* Into the guard and out of it                                            *)
(***************************************************************************)

\* What each guarded section starts with, what it makes of a guard it could
\* not enter, and what follows its exit.
InsideOf == [claim |-> "inspect", pulse |-> "pulseInspect", release |-> "releaseInspect"]

Contended == [claim |-> "refused", pulse |-> "holding", release |-> "off"]

OutsideOf == [retry |-> "create", refusing |-> "refused", failing |-> "failed",
              pulsed |-> "holding", losing |-> "lost", released |-> "off"]

EnterGuard(p) ==
    /\ pc[p] \in DOMAIN InsideOf
    /\ Enter(p)
    /\ Goto(p, InsideOf[pc[p]])
    /\ UNCHANGED <<lease, attempt, age, reused, exposures>>

\* enterLifecycleGuardSync returned null.
GuardContended(p) ==
    /\ pc[p] \in DOMAIN Contended
    /\ owner # NoOne
    /\ Goto(p, Contended[pc[p]])
    /\ UNCHANGED <<guardVars, lease, attempt, age, reused, exposures>>

LeaveGuard(p) ==
    /\ pc[p] \in DOMAIN OutsideOf
    /\ Leave(p)
    /\ Goto(p, OutsideOf[pc[p]])
    /\ UNCHANGED <<lease, attempt, age, reused, exposures>>

-----------------------------------------------------------------------------
(***************************************************************************)
(* The environment                                                         *)
(***************************************************************************)

\* A process dies; an unrelated process may get its pid.
Crash(p) ==
    /\ Running(p)
    /\ Goto(p, "dead")
    /\ IF p \in inside THEN Die(p) ELSE UNCHANGED guardVars
    /\ reused' \in (IF Liveness = "pid" THEN {reused, reused \cup {p}} ELSE {reused})
    /\ UNCHANGED <<lease, attempt, age, exposures>>

PidFreed ==
    /\ \E p \in reused : reused' = reused \ {p}
    /\ UNCHANGED <<guardVars, lease, pc, attempt, age, exposures>>

Older(a) == IF a < Ttl THEN a + 1 ELSE Ttl

Tick ==
    /\ Liveness = "age"
    /\ age' = [p \in Proc |-> IF Running(p) THEN Older(age[p]) ELSE age[p]]
    /\ lease' = IF Readable THEN [lease EXCEPT !.age = Older(@)] ELSE lease
    /\ UNCHANGED <<guardVars, pc, attempt, reused, exposures>>

GuardAges ==
    /\ GrowOld \/ Steal
    /\ UNCHANGED <<lease, pc, attempt, age, reused, exposures>>

-----------------------------------------------------------------------------
Claim(p) == Create(p) \/ OutOfPasses(p) \/ FinishWrite(p)
            \/ ClaimInspect(p) \/ ClaimVerify(p) \/ ClaimUnlink(p)

Pulse(p) == BeginPulse(p) \/ PulseInspect(p) \/ PulseVerify(p) \/ PulseOpen(p) \/ PulseWrite(p)

Release(p) == BeginRelease(p) \/ ReleaseInspect(p) \/ ReleaseVerify(p) \/ ReleaseUnlink(p)

Next ==
    \/ \E p \in Proc : \/ Boot(p) \/ Crash(p)
                       \/ Claim(p) \/ Pulse(p) \/ Release(p)
                       \/ EnterGuard(p) \/ GuardContended(p) \/ LeaveGuard(p)
    \/ PidFreed
    \/ Tick
    \/ GuardAges

Spec == Init /\ [][Next]_vars

(***************************************************************************)
(* Fairness.  A call that has begun goes on unless its process dies, an    *)
(* abandoned guard is reclaimed, time passes, and the poll cadence pulses  *)
(* again and again.  Contention for the guard and stalls inside it are     *)
(* transient: a section takes microseconds, an entry is given up after a   *)
(* second and grows old after ten.  Some process, supervised, claims again *)
(* and again unless it owns the lease, and in the end does not crash; a    *)
(* pid does not stay reused for ever.  Otherwise processes hold, release   *)
(* and crash as they like.                                                 *)
(***************************************************************************)
Step(p) == Claim(p) \/ PulseInspect(p) \/ PulseVerify(p) \/ PulseOpen(p) \/ PulseWrite(p)
           \/ ReleaseInspect(p) \/ ReleaseVerify(p) \/ ReleaseUnlink(p)
           \/ EnterGuard(p) \/ GuardContended(p) \/ LeaveGuard(p)

Returning(p) == []<>(pc[p] = "create" \/ (Running(p) /\ Own(p))) /\ <>[][~Crash(p)]_vars

Fairness ==
    /\ \A p \in Proc : /\ WF_vars(Step(p)) /\ SF_vars(EnterGuard(p))
                       /\ WF_vars(BeginPulse(p))
                       /\ <>[][~GuardContended(p)]_vars
    /\ \E p \in Proc : Returning(p)
    /\ WF_vars(GuardAges) /\ <>[](overdue => owner = Abandoned)
    /\ WF_vars(Tick)
    /\ WF_vars(PidFreed)

FairSpec == Spec /\ Fairness

-----------------------------------------------------------------------------
(***************************************************************************)
(* Properties                                                              *)
(***************************************************************************)

\* p believes to hold the lease: it acts for its role or drains its WAL.
Holding(p) ==
    pc[p] \in {"holding", "pulse", "pulseInspect", "pulseVerify", "pulseOpen",
               "pulseWrite", "pulsed"}

\* Its own timestamp is too old to claim the lease by age.
OutOfDate(p) == Liveness = "age" /\ age[p] >= Ttl

Overlap == \E p, q \in Proc : p # q /\ Holding(p) /\ Holding(q) /\ ~OutOfDate(p) /\ ~OutOfDate(q)

\* One live orchestrator per role.  Two holders overlap only if one has not
\* pulsed for a Ttl or an evicted process acted in the gap; what cannot be
\* judged refuses, so neither half-written nor absent files are an opening.
SoleAuthority == Overlap => "evicted in the gap" \in exposures

\* One drain loop per WAL, unless one of the three openings of the reclaim
\* has been used.
SoleDrainUnlessExposed == Overlap => exposures # {}

\* The lease of a holder that is running and up to date changes in its own
\* steps only: no late pulse, late release or reclaim of another process
\* touches it.
FreshLeaseIsKept ==
    [][\A p \in Proc :
          (Own(p) /\ Holding(p) /\ HeldFresh /\ ~Own(p)')
          => PulseOpen(p) \/ exposures' # {}]_vars

\* A displaced holder: its lease is gone or another's.
Displaced(p) == Holding(p) /\ ~(lease # Missing /\ lease.by = p)

\* A displaced orchestrator stops at one of its next pulses, whatever its
\* successors do meanwhile; only a pulse in the gap could overwrite them.
DisplacedStops ==
    \A p \in Proc : Displaced(p) ~> ~Holding(p) \/ "evicted in the gap" \in exposures

\* The lease of a dead holder does not keep its successors out for ever:
\* somebody reclaims it.
DeadHolderIsSucceeded == \A p \in Proc : (pc[p] = "dead" /\ Own(p)) ~> ~Own(p)

LeftBehind(p) == pc[p] = "dead" /\ lease # Missing /\ lease.by = p

\* Under the reclaim policy not even a half-written lock keeps them out:
\* whatever a dead host left behind is cleared away.
DeadFileIsReclaimed == \A p \in Proc : LeftBehind(p) ~> ~LeftBehind(p)

-----------------------------------------------------------------------------
(***************************************************************************)
(* The contract of the lease.  The file names whoever opened it last; a    *)
(* process that holds it and is up to date relies on it.                   *)
(***************************************************************************)

Named == IF lease = Missing THEN NoOne ELSE lease.by

Trusted == {p \in Proc : Holding(p) /\ ~OutOfDate(p)}

Contract == INSTANCE LeaseContract WITH
    Holder <- Proc,
    Nobody <- NoOne,
    named <- Named,
    trusted <- Trusted,
    broken <- (exposures # {})

\* Until an exposure is used, the file passes from holder to holder only
\* through its removal, nobody relies on a lease that does not name it, and
\* no claim, late pulse or late release removes the file of a process that
\* does.
ImplementsContract == Contract!ContractSpec
=============================================================================
