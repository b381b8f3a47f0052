----------------------- MODULE HeavyMaintenanceLease -----------------------
(***************************************************************************)
(* ai/daemons/orchestrator/services/heavyMaintenanceLeasePrimitives.mjs:   *)
(* the one lease file under which every substrate-heavy maintenance job of *)
(* a host runs, on top of the lifecycle guard.                             *)
(*                                                                         *)
(* A process is one incarnation: it starts with a pid and a boot id, works *)
(* through any number of acquisitions and dies for good.  Each call of the *)
(* primitives is split at its file-system calls, since other processes run *)
(* in between (and, in the async variants, other calls).  `now` is read    *)
(* once when a call begins, as the default parameter is.                   *)
(*                                                                         *)
(* Creating the lease with the wx flag is two steps when TornWrites: the   *)
(* file exists, empty, before its content is written.                      *)
(***************************************************************************)
EXTENDS GuardMutex, Naturals, FiniteSets

CONSTANTS
    Pid, NoPid,
    Token, NoToken,
    NoProc,
    Renewers,    \* the processes whose task renews and fences (tenant repo sync)
    StaleAfter,  \* staleAfterMs, in clock units
    MaxClock,    \* bound on the clock
    MaxBoot,     \* bound on container recreations
    TornWrites   \* whether a wx create can be observed half-written

ASSUME LeaseAssumption ==
    /\ NoToken \notin Token
    /\ NoPid \notin Pid
    /\ NoProc \notin Proc
    /\ Renewers \subseteq Proc
    /\ StaleAfter \in Nat \ {0}
    /\ MaxClock \in Nat
    /\ MaxBoot \in Nat
    /\ TornWrites \in BOOLEAN

VARIABLES
    clock,
    lease,      \* the lease file
    pc,         \* the next step of each process
    call,       \* its current call: which transition, `now`, what follows it
    token,      \* the token it acquires, holds or inherited
    deadline,   \* expiresAt of the lease it believes to hold
    pid,
    bootId,     \* os.hostname() of each process
    parent,     \* who spawned it with an inherited token
    exposures   \* history: the ways an unexpired lease has been taken away

identity == <<pid, bootId, parent>>
vars == <<guardVars, clock, lease, pc, call, token, deadline, identity, exposures>>

Missing == [kind |-> "missing"]

\* buildLeasePayload; pid and bootId are those of the process `by`.
Payload(p, t, expiresAt) ==
    [kind |-> "lease", by |-> p, token |-> t, expiresAt |-> expiresAt]

\* The file between its exclusive create and the write of its content.
HalfWritten(p, t) == [kind |-> "malformed", by |-> p, token |-> t]

LeaseFiles ==
    {Missing}
    \cup {Payload(p, t, e) : p \in Proc, t \in Token, e \in 0 .. MaxClock + StaleAfter}
    \cup {HalfWritten(p, t) : p \in Proc, t \in Token}

Calls == [op   : {"none", "acquire", "renew", "release", "inherit"},
          now  : 0 .. MaxClock,
          next : {"idle", "holding", "fenced", "lost"}]

NoCall == [op |-> "none", now |-> 0, next |-> "idle"]

Labels == {"unborn", "idle", "create", "writing", "inspect", "enter", "inspectInside",
           "verify", "mutate", "recreate", "leave", "holding", "fenced", "lost",
           "inherit", "inherited", "dead"}

TypeOK ==
    /\ GuardTypeOK
    /\ clock \in 0 .. MaxClock
    /\ lease \in LeaseFiles
    /\ pc \in [Proc -> Labels]
    /\ call \in [Proc -> Calls]
    /\ token \in [Proc -> Token \cup {NoToken}]
    /\ deadline \in [Proc -> 0 .. MaxClock + StaleAfter]
    /\ pid \in [Proc -> Pid \cup {NoPid}]
    /\ bootId \in [Proc -> 0 .. MaxBoot]
    /\ parent \in [Proc -> Proc \cup {NoProc}]
    /\ exposures \subseteq {"evicted in the gap", "half-written lease"}

Init ==
    /\ GuardInit
    /\ clock = 0
    /\ lease = Missing
    /\ pc = [p \in Proc |-> "unborn"]
    /\ call = [p \in Proc |-> NoCall]
    /\ token = [p \in Proc |-> NoToken]
    /\ deadline = [p \in Proc |-> 0]
    /\ pid = [p \in Proc |-> NoPid]
    /\ bootId = [p \in Proc |-> 0]
    /\ parent = [p \in Proc |-> NoProc]
    /\ exposures = {}

Alive(p) == pc[p] \notin {"unborn", "dead"}

LivePids == {pid[q] : q \in {r \in Proc : Alive(r)}}

-----------------------------------------------------------------------------
(***************************************************************************)
(* isLeaseStale and inspectHeavyMaintenanceLease, as process p evaluates   *)
(* them at time `at`                                                       *)
(***************************************************************************)

\* The lease was written in another boot.
OtherBoot(p) == bootId[lease.by] # bootId[p]

\* It carries p's own pid but was acquired before p started.
EarlierEpoch(p) == pid[lease.by] = pid[p] /\ lease.by # p

HolderDead == pid[lease.by] \notin LivePids

Expired(at) == at >= lease.expiresAt

\* Mutants of IsLeaseStale: without the epoch, without the deadline.
IsLeaseStaleAnyEpoch(p, at) == OtherBoot(p) \/ HolderDead \/ Expired(at)

IsLeaseStaleIfDead(p, at) == OtherBoot(p) \/ EarlierEpoch(p) \/ HolderDead

IsLeaseStale(p, at) == OtherBoot(p) \/ EarlierEpoch(p) \/ HolderDead \/ Expired(at)

\* status 'active'; 'missing', 'malformed' and 'stale' are not.
Active(p, at) == lease.kind = "lease" /\ ~IsLeaseStale(p, at)

\* Mutant of IsOwner: the token is not compared.
IsOwnerOfAny(p) == lease.kind = "lease"

\* current.lease && current.lease.token === token
IsOwner(p) == lease.kind = "lease" /\ lease.token = token[p]

-----------------------------------------------------------------------------
(***************************************************************************)
(* The course of a call                                                    *)
(***************************************************************************)

Goto(p, label) == pc' = [pc EXCEPT ![p] = label]

\* A call begins and reads the clock.  A renewal runs beside its task and
\* leaves it in the state it is in.
Begin(p, op, label) ==
    /\ call' = [call EXCEPT ![p] = [op |-> op, now |-> clock,
                                    next |-> IF op = "renew" THEN pc[p] ELSE "idle"]]
    /\ Goto(p, label)

\* The call is over and leaves its caller in state `label`; outside a
\* holding there is no token and no deadline to remember.
End(p, label) ==
    /\ call' = [call EXCEPT ![p] = NoCall]
    /\ Goto(p, label)
    /\ IF label \in {"idle", "dead"}
       THEN /\ token' = [token EXCEPT ![p] = NoToken]
            /\ deadline' = [deadline EXCEPT ![p] = 0]
       ELSE UNCHANGED <<token, deadline>>

\* The guarded section is done; exitLifecycleGuard runs in its finally.
LeaveWith(p, label) ==
    /\ call' = [call EXCEPT ![p].next = label]
    /\ Goto(p, "leave")

\* What a transition that did not happen leaves its caller with.  A renewal
\* that fails or throws latches leaseLost; a release that throws is logged.
Defeat(p) == IF call[p].op = "renew" THEN "lost" ELSE "idle"

-----------------------------------------------------------------------------
(***************************************************************************)
(* Processes and time                                                      *)
(***************************************************************************)

\* A process gets a pid no live process has.
Born(p) ==
    /\ pc[p] = "unborn"
    /\ \E n \in Pid \ LivePids : pid' = [pid EXCEPT ![p] = n]

\* The boot it starts in: the latest so far or, once everything in that
\* container is gone, one with another hostname.
Start(p) ==
    /\ Born(p)
    /\ Goto(p, "idle")
    /\ \E b \in 0 .. MaxBoot :
          /\ \A q \in Proc : bootId[q] <= b
          /\ \/ \E q \in Proc : bootId[q] = b
             \/ (\E q \in Proc : bootId[q] + 1 = b) /\ \A q \in Proc : ~Alive(q)
          /\ bootId' = [bootId EXCEPT ![p] = b]
    /\ UNCHANGED <<guardVars, clock, lease, call, token, deadline, parent, exposures>>

Children(p) == {c \in Proc : parent[c] = p /\ Alive(c)}

\* acquireLeaseAndExecute hands its token to the child that runs the task.
Spawn(p, c) ==
    /\ pc[p] = "holding"
    /\ Children(p) = {}
    /\ Born(c)
    /\ Begin(c, "inherit", "inherit")
    /\ bootId' = [bootId EXCEPT ![c] = bootId[p]]
    /\ token' = [token EXCEPT ![c] = token[p]]
    /\ parent' = [parent EXCEPT ![c] = p]
    /\ UNCHANGED <<guardVars, clock, lease, deadline, exposures>>

Crash(p) ==
    /\ Alive(p)
    /\ End(p, "dead")
    /\ IF p \in inside THEN Die(p) ELSE UNCHANGED guardVars
    /\ UNCHANGED <<clock, lease, identity, exposures>>

Tick ==
    /\ clock < MaxClock
    /\ clock' = clock + 1
    /\ UNCHANGED <<guardVars, lease, pc, call, token, deadline, identity, exposures>>

GuardAges ==
    /\ GrowOld \/ Steal
    /\ UNCHANGED <<clock, lease, pc, call, token, deadline, identity, exposures>>

-----------------------------------------------------------------------------
(***************************************************************************)
(* acquireHeavyMaintenanceLease: the plain path                            *)
(***************************************************************************)

Unremembered(t) ==
    /\ \A q \in Proc : token[q] # t
    /\ lease.kind # "missing" => lease.token # t

BeginAcquire(p) ==
    /\ pc[p] = "idle"
    /\ \E t \in Token : Unremembered(t) /\ token' = [token EXCEPT ![p] = t]
    /\ Begin(p, "acquire", "create")
    /\ UNCHANGED <<guardVars, clock, lease, deadline, identity, exposures>>

\* The payload p built when its call began.
OwnPayload(p) == Payload(p, token[p], call[p].now + StaleAfter)

\* writeLeaseFile with flag wx.  The name is new, or the call fails EEXIST.
ExclusiveCreate(p) ==
    /\ lease = Missing
    /\ lease' = IF TornWrites THEN HalfWritten(p, token[p]) ELSE OwnPayload(p)
    /\ Goto(p, "writing")

Create(p) ==
    /\ pc[p] = "create"
    /\ \/ ExclusiveCreate(p)
       \/ lease # Missing /\ Goto(p, "inspect") /\ UNCHANGED lease
    /\ UNCHANGED <<guardVars, clock, call, token, deadline, identity, exposures>>

\* The content reaches the file that was created, which may have lost its
\* name in the meantime; the call returns acquired either way.
FinishWrite(p) ==
    /\ pc[p] = "writing"
    /\ lease' = IF lease = HalfWritten(p, token[p]) THEN OwnPayload(p) ELSE lease
    /\ deadline' = [deadline EXCEPT ![p] = call[p].now + StaleAfter]
    /\ IF p \in inside
       THEN LeaveWith(p, "holding")
       ELSE Goto(p, "holding") /\ call' = [call EXCEPT ![p] = NoCall]
    /\ UNCHANGED <<guardVars, clock, token, identity, exposures>>

\* The observation outside the guard only admits to the recovery.
Inspect(p) ==
    /\ pc[p] = "inspect"
    /\ IF Active(p, call[p].now)
       THEN End(p, "idle")
       ELSE Goto(p, "enter") /\ UNCHANGED <<call, token, deadline>>
    /\ UNCHANGED <<guardVars, clock, lease, identity, exposures>>

-----------------------------------------------------------------------------
(***************************************************************************)
(* The guarded transitions: recovery of a stale or malformed lease,        *)
(* renewHeavyMaintenanceLease and releaseHeavyMaintenanceLease             *)
(***************************************************************************)

\* The renewal timer.  It goes on after a fence has latched leaseLost, but
\* not after a renewal has.
BeginRenew(p) ==
    /\ p \in Renewers
    /\ pc[p] \in {"holding", "fenced"}
    /\ Begin(p, "renew", "enter")
    /\ UNCHANGED <<guardVars, clock, lease, token, deadline, identity, exposures>>

\* withHeavyMaintenanceLease releases in its finally, once the task, and the
\* child it runs in, have settled.
BeginRelease(p) ==
    /\ pc[p] \in {"holding", "fenced", "lost"}
    /\ Children(p) = {}
    /\ Begin(p, "release", "enter")
    /\ UNCHANGED <<guardVars, clock, lease, token, deadline, identity, exposures>>

EnterGuard(p) ==
    /\ pc[p] = "enter"
    /\ Enter(p)
    /\ Goto(p, "inspectInside")
    /\ UNCHANGED <<clock, lease, call, token, deadline, identity, exposures>>

\* enterLifecycleGuard returned null: the last rename found the guard taken.
GuardContended(p) ==
    /\ pc[p] = "enter"
    /\ owner # NoOne
    /\ End(p, Defeat(p))
    /\ UNCHANGED <<guardVars, clock, lease, identity, exposures>>

\* A live process is writing the content of this file right now.
BeingWritten == lease.kind = "malformed" /\ pc[lease.by] = "writing"

\* Mutant of InspectInside: the recovery trusts what it saw outside.
InspectOnlyOutside(p) ==
    /\ pc[p] = "inspectInside"
    /\ IF call[p].op = "acquire" \/ IsOwner(p)
       THEN Goto(p, "verify") /\ UNCHANGED call
       ELSE LeaveWith(p, Defeat(p))
    /\ UNCHANGED <<guardVars, clock, lease, token, deadline, identity, exposures>>

\* The fresh inspection every mutation is based on.  History: does it take
\* a lease that is being written for an abandoned one?
InspectInside(p) ==
    /\ pc[p] = "inspectInside"
    /\ IF call[p].op = "acquire"
       THEN \/ Active(p, call[p].now) /\ LeaveWith(p, "idle")
            \/ lease = Missing /\ Goto(p, "recreate") /\ UNCHANGED call
            \/ lease # Missing /\ ~Active(p, call[p].now) /\ Goto(p, "verify") /\ UNCHANGED call
       ELSE \/ IsOwner(p) /\ Goto(p, "verify") /\ UNCHANGED call
            \/ ~IsOwner(p) /\ LeaveWith(p, Defeat(p))
    /\ exposures' = IF call[p].op = "acquire" /\ BeingWritten
                    THEN exposures \cup {"half-written lease"} ELSE exposures
    /\ UNCHANGED <<guardVars, clock, lease, token, deadline, identity>>

\* verifyLifecycleGuardOwnership: an evicted holder defers.
Verify(p) ==
    /\ pc[p] = "verify"
    /\ IF Verified(p)
       THEN Goto(p, "mutate") /\ UNCHANGED call
       ELSE LeaveWith(p, Defeat(p))
    /\ UNCHANGED <<guardVars, clock, lease, token, deadline, identity, exposures>>

\* The system call: the unlink of what was inspected, ...
Unlink(p) ==
    /\ call[p].op = "acquire"
    /\ lease' = Missing
    /\ Goto(p, "recreate")
    /\ UNCHANGED <<call, deadline>>

\* Mutant of Rewrite: each renewal is added to the deadline before it.
RewriteCumulative(p) ==
    /\ call[p].op = "renew"
    /\ lease' = Payload(p, token[p], deadline[p] + StaleAfter)
    /\ deadline' = [deadline EXCEPT ![p] = @ + StaleAfter]
    /\ LeaveWith(p, call[p].next)

\* ... the atomic rewrite with a new deadline, ...
Rewrite(p) ==
    /\ call[p].op = "renew"
    /\ lease' = OwnPayload(p)
    /\ deadline' = [deadline EXCEPT ![p] = call[p].now + StaleAfter]
    /\ LeaveWith(p, call[p].next)

\* ... or the removal.
Remove(p) ==
    /\ call[p].op = "release"
    /\ lease' = Missing
    /\ LeaveWith(p, "idle")
    /\ UNCHANGED deadline

\* History: was the guard already lost when the call was made?
Mutate(p) ==
    /\ pc[p] = "mutate"
    /\ Unlink(p) \/ Rewrite(p) \/ Remove(p)
    /\ exposures' = IF Verified(p) THEN exposures
                    ELSE exposures \cup {"evicted in the gap"}
    /\ UNCHANGED <<guardVars, clock, token, identity>>

\* The recoverer's own exclusive create: an outside winner is deferred to.
Recreate(p) ==
    /\ pc[p] = "recreate"
    /\ \/ ExclusiveCreate(p) /\ UNCHANGED call
       \/ lease # Missing /\ LeaveWith(p, "idle") /\ UNCHANGED lease
    /\ UNCHANGED <<guardVars, clock, token, deadline, identity, exposures>>

LeaveGuard(p) ==
    /\ pc[p] = "leave"
    /\ Leave(p)
    /\ End(p, call[p].next)
    /\ UNCHANGED <<clock, lease, identity, exposures>>

-----------------------------------------------------------------------------
(***************************************************************************)
(* What a task does with the lease                                         *)
(***************************************************************************)

\* leaseGuard, the work fence of the tenant sync, run before each protected
\* step, also while a renewal is in flight: it latches leaseLost unless the
\* lease is active and ours.
Fence(p) ==
    /\ p \in Renewers
    /\ ~(Active(p, clock) /\ IsOwner(p))
    /\ \/ pc[p] = "holding" /\ Goto(p, "fenced") /\ UNCHANGED call
       \/ /\ call[p].op = "renew"
          /\ call[p].next = "holding"
          /\ call' = [call EXCEPT ![p].next = "fenced"]
          /\ UNCHANGED pc
    /\ UNCHANGED <<guardVars, clock, lease, token, deadline, identity, exposures>>

\* withHeavyMaintenanceLease in a child: run under the parent's lease if it
\* is still active, otherwise acquire like anybody else.
Inherit(p) ==
    /\ pc[p] = "inherit"
    /\ IF Active(p, call[p].now) /\ IsOwner(p)
       THEN /\ Goto(p, "inherited")
            /\ call' = [call EXCEPT ![p] = NoCall]
            /\ deadline' = [deadline EXCEPT ![p] = lease.expiresAt]
            /\ UNCHANGED token
       ELSE End(p, "idle")
    /\ UNCHANGED <<guardVars, clock, lease, identity, exposures>>

\* The child settles: its process ends without touching the lease.
FinishInherited(p) ==
    /\ pc[p] = "inherited"
    /\ End(p, "dead")
    /\ UNCHANGED <<guardVars, clock, lease, identity, exposures>>

-----------------------------------------------------------------------------
Acquire(p) == BeginAcquire(p) \/ Create(p) \/ FinishWrite(p) \/ Inspect(p)

Guarded(p) == EnterGuard(p) \/ GuardContended(p) \/ InspectInside(p) \/ Verify(p)
              \/ Mutate(p) \/ Recreate(p) \/ LeaveGuard(p)

Next ==
    \/ \E p \in Proc : \/ Start(p) \/ Crash(p) \/ Acquire(p) \/ Guarded(p)
                       \/ BeginRenew(p) \/ BeginRelease(p) \/ Fence(p)
                       \/ Inherit(p) \/ FinishInherited(p)
                       \/ \E c \in Proc : Spawn(p, c)
    \/ Tick
    \/ GuardAges

Spec == Init /\ [][Next]_vars

(***************************************************************************)
(* Fairness.  A call that has begun goes on unless its process dies, and   *)
(* an abandoned guard is reclaimed.  Time need not pass; tasks may hold,   *)
(* hang, renew or die as they like.  Some process keeps coming back for    *)
(* the lease, as the orchestrator's poll does.                             *)
(***************************************************************************)
Step(p) == Create(p) \/ FinishWrite(p) \/ Inspect(p) \/ Guarded(p) \/ Inherit(p)

Returning(p) == <>[]Alive(p) /\ []<>(pc[p] = "idle") /\ WF_vars(BeginAcquire(p))

Fairness ==
    /\ \A p \in Proc : WF_vars(Step(p))
    /\ \E p \in Proc : Returning(p)
    /\ WF_vars(GuardAges)

FairSpec == Spec /\ Fairness

-----------------------------------------------------------------------------
(***************************************************************************)
(* Properties                                                              *)
(***************************************************************************)

\* A task runs under the lease: from the acquisition or the inheritance to
\* the release or the end of the child, renewals included.  A task whose
\* renewal failed still finishes the step it is in.
Working(p) ==
    \/ pc[p] \in {"holding", "fenced", "lost", "inherited"}
    \/ call[p].op = "renew"

\* The process that spawned an inheriting task is gone; nobody answers for
\* the pid in the lease any more.
Orphaned(p) == pc[p] = "inherited" /\ ~Alive(parent[p])

\* One heavy-maintenance task at a time.  Two tasks that are not parent and
\* child overlap only after a deadline passed unrenewed, after the parent
\* of one died, or through one of the two exposures of the file protocol.
ExclusiveWork ==
    \A p, q \in Proc :
        (/\ p # q /\ parent[p] # q /\ parent[q] # p
         /\ Working(p) /\ Working(q))
        => \/ clock >= deadline[p] \/ clock >= deadline[q]
           \/ Orphaned(p) \/ Orphaned(q)
           \/ exposures # {}

\* Whose unexpired lease the file is: its token, while its process lives.
HeldBy(p) ==
    /\ pc[p] \in {"holding", "fenced", "lost"} \/ call[p].op = "renew"
    /\ lease.kind = "lease"
    /\ lease.by = p
    /\ lease.token = token[p]
    /\ clock < lease.expiresAt

LeaseOf(t) == lease # Missing /\ lease.token = t

\* Recovery, a late release and a late renewal leave the lease of a live,
\* unexpired holder alone: only its own steps replace or remove it, unless
\* an exposure is being used.
LiveLeaseIsKept ==
    [][\A p \in Proc :
          HeldBy(p) /\ lease' # lease => Mutate(p) \/ exposures # {} \/ exposures' # {}]_vars

\* The lease of a dead process is recovered without waiting for its
\* deadline, its payload written or not, also when the new process has the
\* dead one's pid, in the same boot or another.
DeadLeaseIsRecovered ==
    \A t \in Token : (LeaseOf(t) /\ ~Alive(lease.by)) ~> ~LeaseOf(t)

Lapsed(t) == LeaseOf(t) /\ lease.kind = "lease" /\ Expired(clock)

\* A deadline that has passed unblocks the lease, even if its process hangs,
\* could not release it or has left its pid to an unrelated live process.
LapsedLeaseIsRecovered == \A t \in Token : Lapsed(t) ~> ~Lapsed(t)

-----------------------------------------------------------------------------
(***************************************************************************)
(* The contract of the lease, token by token.  A token is relied on while  *)
(* a task works under it, its own or its parent's, before the deadline the *)
(* task knows of; a task whose parent has died is on its own.              *)
(***************************************************************************)

Named == IF lease = Missing THEN NoToken ELSE lease.token

Relies(p) == Working(p) /\ clock < deadline[p] /\ ~Orphaned(p)

Trusted == {t \in Token : \E p \in Proc : token[p] = t /\ Relies(p)}

Contract == INSTANCE LeaseContract WITH
    Holder <- Token,
    Nobody <- NoToken,
    named <- Named,
    trusted <- Trusted,
    broken <- (exposures # {})

\* Until an exposure is used, the file passes from token to token only
\* through its removal, no task relies on a token that the file does not
\* carry, and no recovery, late release or late renewal removes a token
\* that a task relies on.
ImplementsContract == Contract!ContractSpec
=============================================================================
