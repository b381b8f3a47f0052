# Verification of neo-agent-brain: leases, the memory log, elections, wakes

TLA+ models, TLC runs and TLAPS proofs for the concurrent core of the agent
brain's daemons, in five parts:

* the **lease kernel**: the file-system mutex and the two file leases on which
  every daemon relies to be the only one doing its job;
* the **memory log**: the write-ahead log between `add_memory` and the content
  store, its drain, its pruning, and the purge of a session;
* the **generation election**: the record that decides which embedding
  generation the vector plane serves, and the two-rename swaps it admits;
* the **wake delivery**: how a change-log entry becomes one prompt at a seat;
* the **wake outbox**: the file between the wake daemon and the polls of a seat
  that is prompted by reading, with its strict lock.

    tlc -workers 2 -config LifecycleGuard.cfg LifecycleGuard
    tlc -workers 2 -config WakeDelivery.cfg MCWakeDelivery
    tlapm HeavyMaintenanceLease_proofs.tla

`PROJECT.json` lists every run with its question, the source lines behind every
definition, the hazards, the findings, the theorems, and for every property a
mutant of the code that violates it.

## Inventory

The repository is a set of Node.js daemons and MCP servers that share a plane
root on disk: JSONL write-ahead logs, SQLite graphs, ChromaDB collections, JSON
state files. Processes interact through those files, never through memory, and
run on a host and in containers at the same time. What makes the code hard is
the same everywhere: a check, an `await` or another process's step, then an act.

| component | state | operations | hard behaviour | what makes it correct |
|---|---|---|---|---|
| **Lifecycle guard** `daemons/shared/lifecycleGuard.mjs` | a directory holding one `owner-<token>` file | enter (stage, rename, observe, judge, steal), verify, exit | steals race exits and new entrants; crash inside; stalled holders | one owner; steals touch stale entries only; overlap needs a stall; abandoned guards are reclaimed |
| **Heavy-maintenance lease** `orchestrator/services/heavyMaintenanceLeasePrimitives.mjs` | one JSON lease file per host (and one for tenant sync) | acquire, guarded recovery, renew, release, inherit | plain creates outside the guard race recovery; pid reuse; restarts as pid 1; expiry | one heavy task at a time; a live lease is left alone; a dead or lapsed one is recovered |
| **File lease** `daemons/shared/fileLease.mjs`, with the authority lease and the drain locks | one descriptor per role or WAL | claim (two passes), pulse, release | pulse vs. reclaim, late release, blind pids, corrupt files | one authority per role; one drain loop per WAL; displaced holders stop; dead ones are succeeded |
| Lease callers: backpressure service, tenant sync, orchestrator | task state, `leaseLost` latches, timers | admit, spawn with an inherited token, renew, fence, pulse, stop | renewal beside the work, release that fails, orphaned children | work stops at the next fence after a loss |
| **Waiter ledger and fairness** `orchestrator/scheduling/picker.mjs` and `pipeline.mjs`, `MaintenanceBackpressureService.mjs`, `heavyMaintenanceWaiterLedger.mjs` | streaks of deferral, a file per deferred task | poll (defer, select, promote, admit), register, clear, list, yield | entries out of date, waiters that are no candidates, a yield that spends the poll, compatible-pair bypass | no poll is wasted when the ledger is current; every due task runs in the end |
| Memory WAL and embed drain | JSONL segments, marker sidecars, retry map | append (best-effort lock), select, embed, verify, compensate, mark, prune | purge during an embed, crash before the marker, cool-down starvation, unlocked appends | every accepted turn is embedded or purged, never resurrected; pruning loses nothing |
| Message WAL and message drain | segments, projection and embed markers | accept, project, retry, retract, prune | the same, with two independent consumers | as above, for both projections |
| Vector generation election | election record with epoch, quiesce lease, receipts | declare, validate, commit, renew, promote, roll back, accept | promotes of an old epoch, crash between renames | one visible generation per collection; rollback restores it |
| Wake delivery `daemons/wake/daemon.mjs` | cursor, coalescing queues, retry store, claims and watermarks, and three files of them | poll, flush, attempt, retry, persist, take over | a flush during an attempt, merges into a retry, unknown outcomes, succession | no accepted wake is lost, none is prompted twice |
| Wake outbox `wake/consumeWakeOutbox.mjs`, `wake/outboxLock.mjs`, the pull-bridge adapters | outbox JSONL, ack ledger, dead letters, lock file | append, poll (surface, acknowledge, dead-letter), compact, reclaim | append during compact, reclaim race, cut-short writes, reused pids, a rotation during a poll | an accepted wake is shown once or dead-lettered, to its own seat |
| Wake receiver, other adapters, subscription service | subscriptions, terminal sessions | deliver, subscribe | outcomes nobody can observe | an outcome is reported as it was |
| Scheduling, task state, supervision | task records, cadences, child processes | collect, pick, dispatch, restart with back-off | one dispatch per poll, crash loops | no due task starves; restarts are bounded |
| Recovery actuators, health controllers | action ledgers, cool-downs, circuits | diagnose, act, record | two actors healing the same thing | bounded, recorded actions |
| Bounded retry gate | in-memory counters | admit, settle | late settlements | at most the budget in flight |
| Native edge graph | SQLite, cache, change log | CRUD, search, synthesis | cache staleness across processes | cache agrees with the log |
| Memory-core services, knowledge base, fleet, MCP servers, integrations, scripts | their stores | request handlers | mostly I/O and prompts | not protocol |

## Plan

Done, in this order, the most widely relied upon first:

1. **Lease kernel**: `GuardMutex`, `LifecycleGuard`, `LeaseContract`,
   `HeavyMaintenanceLease` and `FileLease`, with their proofs.
2. **Memory log**: `MemoryWal`, with its proofs.
3. **Generation election**: `GenerationElection`, with its proofs.
4. **Wake delivery**: `WakeDelivery`, with its proofs.
5. **Wake outbox**: `WakeOutbox`, with its proofs.
6. **Maintenance fairness**: `MaintenanceFairness`, with its proofs.

`Handover` is the abstract specification of 2, 4 and 5.

Left:

7. **What is left of the locks**: `walAppendLock.mjs`, which reclaims as the outbox
   lock does and moreover gives up into an unlocked write; `holdFileLease`; the
   composition of `FileLease`'s exposures with `MemoryWal` (what does a second
   drain loop break?).
8. **Message log**: the drain of `MemoryWal` with two consumers.
9. **Retry gate, supervision, recovery actuators**, as far as they are
   protocols; the cooperative yield of a running task and compatible pairs.

Bounds planned for 7 to 9: two or three processes, one crash per incarnation,
one run with safety and liveness together per part, a violation run only for a
disagreement with what the repository says.

## Modules

| module | models |
|---|---|
| `GuardMutex` | what the guard promises: an owner, who is inside, whether the entry is overdue |
| `LifecycleGuard` | `lifecycleGuard.mjs`, one file-system call per step |
| `LifecycleGuard_proofs` | its theorems |
| `LeaseContract` | what a lease file promises: whom it names, and who may rely on it |
| `HeavyMaintenanceLease_proofs` | the theorems of the heavy-maintenance lease |
| `HeavyMaintenanceLease` | `heavyMaintenanceLeasePrimitives.mjs` and its callers' use of it, on `GuardMutex`'s actions |
| `FileLease` | `fileLease.mjs` under the policies of `authorityLease.mjs` and `drainLock.mjs`, on the same actions |
| `FileLease_proofs` | the theorems of the file leases |
| `Handover` | what the log, the wake daemon and the outbox promise: no item is lost, taken back or handed over again |
| `MemoryWal` | `memoryWalStore.mjs` with its users: `addMemory`, `drainCycle.mjs`, `purgeSession`, the pruning passes of both processes |
| `MemoryWal_proofs` | its theorems |
| `GenerationElection` | `generationElectionStore.mjs` and the swaps: `electionGatedPromote.mjs`, the shadow swap of `VectorService.mjs` |
| `GenerationElection_proofs` | its theorems |
| `WakeDelivery` | the delivery half of `wake/daemon.mjs` with `wokenWatermark.mjs` |
| `WakeDelivery_proofs` | its theorems |
| `WakeOutbox` | `outboxLock.mjs`, `consumeWakeOutbox.mjs`, and the pull-bridge adapters of `daemon.mjs` and `localWakeAdapters.mjs` |
| `WakeOutbox_proofs` | its theorems |
| `MaintenanceFairness` | one poll of the heavy lanes: `picker.mjs`, `pipeline.mjs`, the admission of `MaintenanceBackpressureService.mjs`, the waiter ledger |
| `MaintenanceFairness_proofs` | its theorems |
| `MCHeavyMaintenanceLease` | symmetry and the exploration constraint for TLC |
| `MCGenerationElection`, `MCWakeDelivery`, `MCWakeOutbox` | which shadow belongs to which collection; what each route lets through; the id of each wake |

### LifecycleGuard

The guard directory is `dirExists`, `files` (owner files in it), `dirOld` and
`old` (what has reached `guardStaleAfterMs`). An entrant is a call; its `pc`
names the next system call: *staged* before the rename, *contended* before the
readdir, *observed* before the stats, *stealing* before the unlinks and the
rmdir, *inside*, *proved* between the ownership check and the mutation it
licenses, *done*, *exiting*. `mkdir` and the write of the private owner file
are one step (nobody else can see them). The stats of one observation are one
step: the newest mtime is what they compute, and a name that goes away in
between makes the loop give up, the same as if it had gone before. A token is a
`randomUUID`, taken from those nobody remembers. The async and sync functions
take the same steps.

A guarded section is one mutation. The acquisition's recovery makes two system
calls in its section; the second is an exclusive create that needs no guard,
and `HeavyMaintenanceLease` has it as a step of its own.

Errors other than the codes the functions test (a full disk, no permission)
are not modelled: they propagate out of the call, which is a crash of the call.

### GuardMutex

The same guard without its files. `Enter` needs a vacant guard; `Steal` needs
an overdue one; `Verified` is `owner = p`. `Leave` of an evicted entrant leaves
the guard alone. The lease modules use these actions and inherit their
overlap: with `Stalls`, a holder may be evicted between its check and its
system call. `LifecycleGuard` is shown to implement it, by TLC on an instance
and by proof in general, so the lease models stand on the code of the guard.

### LeaseContract

What both leases promise, without files, guards, clocks or pids. `named` is the
holder the file carries, `trusted` are the holders that act under an up-to-date
lease, `broken` says that one of the recorded exposures has been used. A file names
a holder only where it named nobody; a holder is trusted only while it is named;
the file is removed only when whom it names is trusted no longer. So at most one
holder is trusted, and no claim, recovery, late release or late renewal takes the
file from under it, until `Break`, after which nothing is promised.

| contract | `FileLease` | `HeavyMaintenanceLease` |
|---|---|---|
| `named` | the process that opened the file last | the token in the file |
| `trusted` | processes that hold it and are not `OutOfDate` | tokens some task works under, its own or its parent's, before the deadline it knows and with its parent alive (`Relies`) |
| `broken` | `exposures # {}` | `exposures # {}` |

`LeaseContract` stands in the place of two properties on single steps (a fresh,
respectively live, lease is kept), which speak of the file alone and remain
theorems. The contract says more: it also follows who acts under a file.

### HeavyMaintenanceLease

A process is an *incarnation*: it is started with a pid that no live process
has and the boot id of its container, makes any number of calls and dies for
good. `lease` is the file: missing, malformed (created and not yet written) or
a payload. A call in progress is `call` (which transition, the `now` it read
when it began, the state it will leave its caller in) and `pc`. `token` and
`deadline` are the holder's own memory of its acquisition.

Guarded sections share their steps: `EnterGuard`, `InspectInside`, `Verify`,
`Mutate` (unlink, rewrite or removal, by the kind of call), `Recreate`,
`LeaveGuard`. `GuardContended` is the null of an exhausted entry: a held answer
for an acquisition, a thrown error for renew and release, which the renewal
timer turns into `leaseLost` and the backpressure service logs. Renewal keeps
the rest of the payload and is atomic (`writeFileAtomic` renames). A renewal
runs beside its task, so the fence can latch `leaseLost` while one is in
flight; after that the timer still renews, as in the code.

`Spawn` hands the token to a child in the environment; `Inherit` is the child's
check; an invalid token falls through to an ordinary acquisition.

`exposures` is a history variable. It records that a step used one of the two
gaps of the protocol, so that properties can say *unless* precisely:
`evicted in the gap` (the guard was stolen between the ownership check and the
system call; the code names this one itself) and `half-written lease` (an
inspection took a file that a live process is writing for an abandoned one).

Simplifications: `isPidAlive` is exact, the two `unlink`s of a path are one
operation whatever they find, `unreadable` (an I/O error) is not produced.

### FileLease

One process is one claim. Constants choose the consumer: `OnCorrupt` and
`Liveness` are `refuse`/`age` for the authority lease, `reclaim`/`pid` for the
drain locks. Ages stop counting at `Ttl`, the only value they are compared
with. `reused` is the set of dead processes whose pid belongs to somebody else.
The boot and epoch checks of the drain lock make a dead predecessor stale at
once; in the model such a holder is simply not in `reused`.

A claim is at most two passes of *exclusive create, then guarded inspection,
verification and unlink*. A pulse truncates and rewrites in place (two steps
when `TornWrites`); it enters, inspects, verifies. A lost lease stops the
process, as `pulseAuthorityLease` stops the orchestrator. `exposures` is as
above, with `absent read as corrupt` for a reclaim that goes on although there
is nothing left to reclaim.

Not modelled: the wait of `acquireAuthorityLeaseSurvivingSelfSuccession`
(it is a later `Boot`), clocks that disagree (`age < 0` is *invalid* and
refused), `holdFileLease`.

### MemoryWal

A turn is a record; its segment is the UTC day its timestamp names (`seg`),
which `BeginAppend` takes and `FinishAppend` writes under, since the append lock
may be waited for, or given up, across midnight. A segment is three files:
records (`disk`), embed markers (`marks`), graph markers (`gmarks`). Both readers
of a log, the drain and a pruning pass, read records first and markers later, and
are two steps each. `row` is the content store.

One cycle of `drainWalOnce` is `drain`: select a batch of what is not cooling
down, embed (a batch, its retries and its per-record adds end in *some added,
others failed*), verify the vectors, read the log again, compensate for what was
tombstoned meanwhile, mark one by one, prune. Cool-downs are counted in cycles.
`purge` is one `purgeSession`: tombstone, list, delete. `DaemonRestart` and
`ServerRestart` end either process between any two steps; what was in memory is
gone.

`exposed` collects the records for which one of the windows was open that the
code leaves open, so that the properties can speak of all others: markers
removed before their records (a pruning pass unlinks the files in parallel), a
row added for a record tombstoned meanwhile when nobody will compare the two
again (a lost answer, an unverifiable row, a cycle interrupted before its second
reading), a compensating delete or a tombstone pass that failed.

Not modelled: the append lock itself (the code writes unlocked when it fails, so
nothing may rest on it), the cache of reconciled segments, the archive of turns,
the seam for restores, a second drain loop.

### Handover

What the memory log, the wake daemon and the wake outbox promise in common,
without files, queues, cursors, locks or retries. An item is *new*, *owed* from its
acceptance on, and *handed* once it has arrived: no step loses it, takes it back or
hands it over again, except for items that are `waived`, of which nothing is
promised from then on. Each module says in which phase its items are; a state
that fits none is *lost* or *again*, which the contract does not know.

| | `MemoryWal` | `WakeDelivery` | `WakeOutbox` |
|---|---|---|---|
| items | turns | events of the log with a subscription that wants them | wakes |
| owed | pending in the log | ahead of the cursor, in a queue, an attempt or the retry store | reported as queued, and in the outbox |
| handed | searchable, and pending no more | prompted, on any route if it is a message; read or given up by name | shown, or dead-lettered for another owner |
| waived | `exposed`, or condemned by a purge | an outcome was unknown, a daemon began without knowing of a prompt, or the event perished with the memory of a daemon that ended | `clobbered`, equal texts, no receipt, an append to a torn line |

`ImplementsHandover` stands in the runs in place of `AcceptedIsKept`
(`MemoryWal`, `WakeOutbox`) and `NothingIsLost` (`WakeDelivery`), which say where an
item is in each state and remain theorems. The contract says more: where it may
go from there. A turn that was embedded does not become pending again when its
segment loses its marker file before its records, a wake is not forgotten once it
was settled, and neither comes back under a merge, a retry or a restart. What a
restart takes from the wake daemon is waived, and only that: what the new daemon
will read again is still owed.
`WakeDelivery` and `WakeOutbox` are two legs of one way: for a subscription of the
pull bridge, a landing of the first is the acceptance of the second.

### GenerationElection

`rec` is the election record with its status, epoch, quiesce window, receipts and
completions; one step per mutation, since `serializeMutation` runs it inside the
guard and compares the epoch. `place` says under which kind of name a collection
is, `gen` with which generation its vectors were made. `job[k]` is the swap of
collection `k`: *built* under a captured view, *admitted* by the fence, *aside*
after the first rename, *cleared* by the second fence, *landed* after the second
rename, before its completion is reported. Promote and un-park of
`electionGatedPromote.mjs`, the reconcile of a restart, and the knowledge base's
own swap (one fence only, a resume marker) share these steps. Any of them may
fail, be refused, or die between any two.

`unproven` collects the collections that were given a shadow of another
generation than the view that was fenced: the resumed knowledge-base build
(finding 1), and a reconcile, which admits the interrupted shadow under the view
of the restarted process (`electionGatedPromote.mjs:245-246`). A knowledge-base
swap that dies between its renames leaves the canonical name unserved until
somebody reconciles it.

Assumptions on the callers: the swaps of one collection are serialized (the
heavy-maintenance lease; the runner is sequential); a build embeds with the
generation its view names; names are unique per attempt; the runner promotes
shadows of the elected generation only, un-parks over a collection of another
generation only, and records *nothing to un-park* when no swap is past its fence;
`reconcile` is called with the names of the promote that was interrupted.

### WakeDelivery

One daemon and one recipient; recipients share nothing but the chain that
serializes adapters. `log` is the `GraphLog`; a message may be in it twice, after a
projection replay. `Poll` moves entries into the `queue` of each subscription that
wants them and advances `cursor`. A flush filters (read, watermark, claims, age),
then delivers nothing, merges into a pending retry, or takes out a direct attempt.
An attempt is awaited, so its outcome (`Resolve`: delivered, skipped, failed,
unknown) is a step of its own and everything may happen in between. `pending`,
`held` and `tries` are the retry store; its loop is awaited by the poll loop
(`~Retrying`). `claims`, `mark` and the cursor are memory, `saved` and `savedCursor`
their files, whose writes may fail.

`Restart` is the end of a daemon, by a crash or a signal, and the start of the next.
A `successor` loads the woken state before it ends its predecessor
(`initConfigDerivedState` runs before `enforceSingleton`), and the cursor after;
`TakeOver` is where it begins. Both are `Begins`: queue, retry store and attempts
are gone, for none of them is in a file, while the cursor file is past an event as
soon as it is queued (`wake/daemon.mjs:614-615`). So what the daemon had in hand is
lost, unless the new one reads it again: it `Returns` where it lies past the saved
cursor, because a cursor write had failed, and neither a claim nor a watermark
holds it back. The model does not count this loss as a handover.

The history variables name what the code gives up: `excused` (retry cap, refusal,
bench, a pulse beside something actionable) and `doubtful` (unknown outcomes); and
what a daemon that ends takes with it: `forgotten` (prompted, but a later daemon
does not know: the write failed, or came after the successor had loaded) and
`perished` (in its memory only, and not read again). `ImplementsHandover` waives
the last three, `EveryWakeIsSettled` excepts `perished`.

What the model shows beside its properties: the retry loop never looks at
`deliveryInFlight`, and need not, since a direct attempt exists only where the
store has no entry (`OneDeliveryOwner`, proved); the branches for events merged
into an entry while its retry is awaited (`mergedDuringAwait`) are unreachable,
since a flush leaves a subscription with an attempt in flight alone; a signal
whose retries always end unknown is offered again without bound, since unknown
attempts are not counted.

Abstractions: deferral (heavy delta, refractory, unread participation) is a flush
that has not happened; a landing of an orphaned attempt is part of the unknown
outcome; the cursor file exists. The outbox is `WakeOutbox`. Not modelled: the
receiver, adapters, the subscription service, a graph restore (what
`clampWatermark` is for), an exception in the middle of a batch's evaluation.

### WakeOutbox

The route `kimi-pull-bridge` types nothing into a terminal: an attempt appends a
line to a file (`Deliver` to `Returned`), and the seat polls it (`Poll` to `Over`). One
file-system call is one step; `pc` names the next one. `lock` is the lock file,
the process it names and whether the descriptor has been written, which the
exclusive create and the write do separately. `outbox` is its lines, `acks` and
`ackTail` the receipts and what follows the last whole one, `dead` the
dead-letter file, `owner` the seat the wake envelope names, which `Rotate`
replaces. A line holds a wake and the owner it is for; its id is a digest of the
subscription and of the text (`IdOf`), which two wakes may share.

A contender whose create fails reads the holder, probes its pid, reads again and
unlinks by name. `seen` holds those whose first reading is still what the file
says. `Boot` may give a new process the pid of a dead owner (`twin`): the probe
then says that the owner lives, and the release of the new process unlinks a file
it did not create. A poll judges lines by the owner it had validated before it
waited for the lock (`auth`); it surfaces, acknowledges one by one, keeps what
does not parse, and writes the rest back in place.

`Crash` and `WriteFails` end a call anywhere, and `CutShort` says what the write
that was under way may leave: nothing, a part without its line end, or all of it.
The next append continues such a line. `Fault("lateReturn")` is an append that
outlasts the bound of its attempt: nobody is told (`accepted` is not set), the
outcome is unknown, and the wake may be delivered again (`Deliver`).

History variables: `accepted` (the daemon was told), `surfaced` (how often shown,
up to two), `doubtful` (shown, with no receipt or a garbled one), `garbled`
(appended to a line that was not ended), `overtaken` (owners who came while a poll
was under way), `clobbered` (a reclaim has unlinked the file of a successor).

Abstractions: the texts of two lock files differ (they hold a pid and a time);
a read and the parsing of what it returned are one step; what follows a cut in
the outbox is a line without an entry. Not modelled: the checks of paths, modes
and of the root, the liveness probes of an envelope's owner and the process tree
(a `Poll` has passed them), a process with several calls in flight.

### MaintenanceFairness

The orchestrator polls its registry; a poll defers, selects and dispatches at most
one task, synchronously, so a poll is one step: `PollBehind` (a heavy task runs,
every other due one is deferred: `recordPickerDeferrals`), `PollNothing`, and
`PollPicks` (`selectByPriority` and then `acquireLeaseAndExecute`). `Winners` is the
selection, `Promoted` its fairness promotion; `ShedOff`, `Abstain`, `FindHeld` and
`Admit` are the ways the admission can end, in the order of the code. Both read
the ledger with `WaitersToYieldTo`, the promotion among the candidates only, the
admission among all waiters.

State: `due` and `running` (task state and descriptors), `lease` (its holder),
`since` (the beginning of each streak of deferral), `entry` (the file of each
waiter: rank, beginning, age), `starved` (the beginnings beyond
`fairnessYieldAfterMs`), `critical`, `shed`. A task in `LateStart` waits for a lease
of its own between its admission and `markStarted` (`Begin`, or `SkipOwnLease`), as
the repository sync does. An `Actuator` registers as a waiter and is no
candidate: the provider warm-up (`ActuatorChecks`). `Restart` drops what is in
memory: the run, the shed window, the actuator's streak.

Abstractions. Dates are renamed to 1, 2, ... in their order after each step
(`Settle`): the rule only compares them with each other and with the starvation
bound. The streaks opened by one poll share a date, so ties do occur. Entries age
in polls (the code: ten minutes). The most overdue task by
`(now - lastRunAt) / cadenceMs` is any task, with `passed` as the bound: a ratio grows
while a task waits and falls to zero when it runs, so the others cannot pass it
without end. A task that goes first whatever waits (priority zero, bootstrap-critical)
does not come due before those who wait have had their turn (`ComeDue`): a
backup is daily, and the bootstrap class is given up after the first clean slice
(`awaitsFirstIngest`). The lanes that are not heavy are a poll that goes
elsewhere. `Restart` finds the lease of the dead process free, which is
`DeadLeaseIsRecovered` of `HeavyMaintenanceLease`.

Three things the model shows beside its properties. A waiter that is no candidate
(its work was withdrawn, or it is the actuator) makes the admission abstain until
its entry is stale: the poll is spent, which is why `NoPollIsWasted` is about
ledgers whose waiters are all due. The streak of the actuator is never ended, since
nobody calls `clearDeferralLogState` for it, so after its first deferral it counts as
deferred since then, whatever ran in between, although the
measure is called the *"unbroken deferral
streak"* (`configBase.mjs:1875`). And a task in `LateStart` that is
polled before it has its own lease is deferred by its own heavy-maintenance
lease, and registers as a waiter of itself, after the admission has cleared its entry
so that a *"stale self-entry must not make OTHER acquirers yield to work that is
already running"* (`MaintenanceBackpressureService.mjs:1110-1112`).

Not modelled: compatible pairs (the default list is empty), the cooperative yield of
a running task (it may finish at any time), unreadable ledger entries and failing
writes (the code goes on without fairness), dependencies of the golden path.

## Runs

| run | question | bounds | result |
|---|---|---|---|
| `guard` | is the guard a mutex with identity-safe steals, are abandoned guards reclaimed, does it implement `GuardMutex`? | 2 entrants that call again and again, 3 tokens, 2 attempts, crashes, stalls | holds |
| `heavy_safety` | is heavy work exclusive; does the lease implement `LeaseContract`? | 3 incarnations, 2 pids, 2 boots, 3 tokens, leases and clock of 2 units, renewals, evictions, torn writes | holds |
| `heavy_recovery` | does liveness alone recover any crash; do deadlines free what liveness cannot? | 2 incarnations, 2 pids, 2 boots, one time unit, torn writes | holds |
| `authority` | is there one authority per role; does the lease implement `LeaseContract`; do displaced holders stop; are dead ones succeeded? | 2 claimants that boot again and again, evictions, torn writes, `Ttl` 1 | holds |
| `drain` | is there one drain loop outside the named openings; is a dead host's lock reclaimed? | 2 claimants likewise, evictions, torn writes, pid reuse | holds |
| `fairness` | do selection and admission agree; does every due task run in the end? | a priority-zero task, one with a lease of its own, an ordinary one, an actuator; one trouble of 7 kinds, entries stale after a poll | holds |
| `wal` | does the log implement `Handover`; is a turn kept until it is projected; does a purged one stay gone; does the drain reach every turn? | 3 turns (one of an earlier day, two of a purged session, one nobody can embed), 3 days, one fault of any of 8 kinds | holds |
| `election` | do canonical names serve what the record declares; can every outage be ended; is the generation to fall back on kept? | 2 collections, 3 shadows, 2 generations, 4 epochs; deaths and refusals at every step, unbounded | holds |
| `election_resume` | is a build of an old view fenced out? | the same | **violated** |
| `wake` | is each wake prompted once; does the daemon implement `Handover`; is each wake settled in the end? | 2 routes, a message and a heartbeat, 2 attempts, any two faults of 9 kinds; what `perished` is excepted | holds |
| `wake_unknown` | does the next flush re-include an attempt of unknown outcome? | the same, one fault | **violated** |
| `outbox` | do appends and compactions exclude each other; does the outbox implement `Handover`; is each wake shown once, to its own seat; is every line read in the end? | 1 daemon, 1 poll that runs again and again, 2 wakes of the same text, 2 owners, one crash, failing write or late return | holds |

**Why the bounds suffice.** The protocols have no counters apart from attempts
and deadlines. A race on the guard needs an owner, a stale thief and a
successor; two entrants are enough, since a call that has returned is followed
by another and the owner that left may be the successor. The same holds of the
claimants of `FileLease`. An incarnation of `HeavyMaintenanceLease` dies for
good, so its safety run has three: a holder, a recoverer and an outside winner
or a child. Two attempts exercise retry and exhaustion (the code has 100). One
or two clock units order a call's `now`, a deadline and the present in every
way they can stand to each other; `heavy_safety` has two, so that a renewal
moves a deadline before it passes. The number of tokens leaves one free whenever
a fresh one is drawn. For the safety of the guard and of the heavy-maintenance
lease the bounds do not matter in the end: the theorems below hold for any.

In `wal` the three turns differ in everything the code distinguishes: the day of
their segment, the session, whether they embed. With a batch of one the cool-down
and the selection order decide who is next; a retention of one makes the segment
of the first day prunable. The faults are single because each window is opened
by one of them alone, and the theorems do not bound them.

In `election` the knowledge base has two shadows, so that an old one is resumed
or interrupted beside a new one; four epochs are a commit, a rollback and a
second commit after the baseline. `wake` has two routes because one message
through two subscriptions is where claims differ from watermarks, and a
heartbeat because signals have no claims. Two faults let a replay meet a lost
write, a restart or an unknown outcome. It is the longest run, with 420,000
states.

In `outbox` one daemon and one poll are each other's contender, and their crash is
each other's dead holder; two wakes of one text are where ids fall short of
wakes, two owners are a rotation. What takes a second contender, a reclaim that
meets another reclaim (`clobbered`), needs two polls; that instance has 6.7
million states, in which the safety properties hold as well, and is not a run
because of its length. The theorems cover any number of either.

In `fairness` the four parties differ in everything the rule distinguishes: rank,
candidacy, the moment a run begins. One trouble is enough to make an entry or a
class out of date. An entry lives for one poll, which is enough to be read when it
is no longer true; instances with entries of two polls (136,000 states), with two
troubles (244,000 states), and of two tasks without the backup with both (71,000)
hold as well and are left out for their length.

**`BeforeExposure`.** `heavy_safety` does not explore what follows a used
exposure, because every property of that run is stated *unless exposed*. The
states in which the exposure happens are themselves checked. The other runs are
unconstrained.

**Deadlock** is off where the system may stop: in `HeavyMaintenanceLease`, when all
incarnations are over, in `MemoryWal`, `GenerationElection` and
`WakeDelivery`, when the bounded inputs and faults are used up, and in
`WakeOutbox`, when a lock that nobody may reclaim stays and all wakes are queued.

**Symmetry** is used in `heavy_safety`, which checks no liveness.

## Fairness

*Guard*: each started call continues unless its process dies; callers return,
as pulses and polls do; abandoned files age. Some entrant is eventually spared
from crashing: if each caller died in each call, nobody could reclaim.

*Leases*: the same for calls, plus weak fairness of the guard's ageing and
steal, which the run `guard` justifies. Some process keeps coming back and is
alive, as the supervised daemons are.

For the heavy-maintenance lease time need not pass, so recovery by liveness owes
nothing to a deadline; a holder may hold, hang or renew as it likes.

For `FileLease` time passes, the poll loop pulses again and again (the
orchestrator does before each sweep), and a pid does not stay reused for ever.
Contention for the guard and stalls inside it are transient: a section takes
microseconds, an entry spins for up to a hundred attempts and grows old after
ten seconds, so a process is not turned away for ever (strong fairness of
`EnterGuard`, finitely many `GuardContended`). A refusal without a live holder is
therefore possible, but not for ever.

*Memory log*: the drain loop alone is fair (`WF_vars(DrainStep)`): it re-arms its
timer after every cycle and its host is supervised. Appends, projections and
purges need not finish.

*Wake delivery*: the poll loop and the flush timers re-arm themselves for ever,
one adapter attempt is bounded by `attemptTimeoutSeconds`, and a predecessor
that was told to end ends (SIGTERM, then SIGKILL): weak fairness of `Poll`,
`Flush`, `Retry`, `Resolve` and `TakeOver`. Which outcome an attempt has is
nobody's choice: success is not assumed.

*Wake outbox*: a call that has begun goes on, and the seat polls again and again,
as its plugin does (weak fairness of `Proceed` and `Poll`). A poll is not for ever
the one that gives up: a section takes milliseconds, an acquisition tries for
ten seconds (strong fairness of its `Create` and `ReadHolder`). Nothing is assumed of
the daemon's luck.

*Maintenance*: the poll re-arms its timer in every outcome (weak fairness of
`Poll`), a run settles or its watchdog ends it (`Finish`), the own lease of a lane is
got or refused (`Begin`), a command line releases its lease or it lapses
(`OutsideLeaves`), a shed window is a duration (`CloseShedWindow`). Nothing is assumed of
`Starve`, `ComeDue` or the actuator.

*Election*: safety only. Its steps are an operator's.

The `\E p : Returning(p)` conjuncts are assumptions on the environment, as weak
as we found them to be: one returning process is enough.

## What holds, and what does not

* The guard is a mutex up to stalls longer than `guardStaleAfterMs`, and its
  documented residual bound is exact: overlap always involves an entry that
  has outlived the threshold.
* Heavy tasks overlap only past an unrenewed deadline, under an orphaned child,
  or through one of the two exposures.
* The authority lease admits a second authority only after a missed TTL or an
  eviction in the gap: refusing corrupt state closes the other openings.

* An accepted turn is kept until it is embedded and projected, whatever is pruned,
  purged or interrupted, except through a window `exposed` names.
* A canonical collection serves what the record declares, and no sequence of
  deaths leaves a name that cannot be served again.
* As long as the wake daemon lives, no wake is lost between log, queue, attempt and
  retry store. A daemon that ends takes queue, attempts and retry store with it; the
  next one loses nothing more: it reads again what lies past the saved cursor and
  is in no claim and below no watermark. Messages are prompted once except where an outcome was unknown or a daemon began from a state
  that did not know of the prompt.
* A heavy task that is due runs, or is due no more, whatever other tasks, stale
  entries, shed windows and outside holders do, as long as those come to an end.
* A wake reported as queued for a polled seat is in the outbox, shown or
  dead-lettered, and it is shown once, up to the exceptions listed below.

Disagreements between the code and what its comments say, each with its run:

1. `election_resume`: a commit that lands in the middle of a knowledge-base build
   *"fences this writer out instead of letting a corpus built under the old view
   advertise into the new generation"*. It does once; the shadow is preserved, the
   next embed resumes it by a fingerprint of the chunk ids alone, captures the new
   view and passes the fence with the old vectors.
2. `wake_unknown`: after an unknown outcome *"the next natural flush re-includes
   anything still unread"*. A digest is built from the queue, which was emptied
   before the attempt, and the claim taken before it is kept: no later flush has
   the message.

And these, which have no run of their own because a property already excepts
them by name:

* *"Mutual exclusion is now drain-lock enforced"* (`memory-core/Server.mjs:337-340`).
  `acquireFileLease` reads a lock that is gone as a corrupt one
  (`fileLease.mjs:146-160`); under `reclaim` a claimant whose create failed, and who
  then finds the lock released, goes on to the unlink (`:340`), although a third
  host may have created its own lock in the meantime: two drain loops, without a
  crash, a stall or a torn write. `HeavyMaintenanceLease` tells *missing* from
  *malformed* in the same place and does not have this opening.
  (`absent read as corrupt` in `SoleDrainUnlessExposed`.)
* *"an exclusive `wx` create is already atomic"*: the name is, the content is not. A
  reader in between sees a malformed heavy-maintenance lease and recovers it
  (`exposures`: half-written lease).
* The unlink of a reclaim may throw a raw `ENOENT`, which is not the held-error
  the memory server catches (`failing` in `FileLease`).
* A drain cycle interrupted between its add and its second reading does not
  compensate, although the daemon's exit path says that it is safe to stop there
  (`embed/daemon.mjs:194-195`; `exposed`).
* The event loop of ADR 0002 flushes the queue and then advances its cursor
  (`learn/agentos/decisions/0002-phase3-wake-substrate-standards-alignment.md:732-741`),
  and `learn/agentos/tooling/WakeSubstrateIncidentProtocol.md:90` calls the saved one
  the *"last-acknowledged GraphLog ID"*. The daemon saves it when events have only been
  queued in memory (`wake/daemon.mjs:614-615`) and exits at once on SIGTERM
  (`:507-516`): wakes that are queued or waiting for a retry are lost at every restart
  and at every succession (`perished`).
* *"unread claims remain durable across daemon restart"* (`wake/daemon.mjs:216`):
  not those persisted after the successor has loaded the file
  (`wake/daemon.mjs:2863-2881`; `forgotten`).
* *"a dead predecessor stops pulsing, so its lease goes stale"*
  (`orchestrator/daemon.mjs:387-388`): one that dies inside a write leaves a lease
  without an age, which `fileLease.mjs:263` refuses for ever
  (`DeadHolderIsSucceeded` excepts corrupt files).
* *"a racing successor's fresh lock file is never clobbered"*
  (`outboxLock.mjs:10-11`): between the second reading and the unlink it can be
  (`clobbered`).
* The id of a wake is called a *"content digest of the logical wake"*
  (`wake/daemon.mjs:1566-1568`), but the digest's text counts messages and does not
  name them: of two wakes with equal texts the poll drops the second as a duplicate
  (`Namesake`).
* An append after a line that a crash cut short is glued to it, and neither is
  parsed any more (`garbled`). A poll that waited for the lock across a rotation
  dead-letters the new seat's wakes (`overtaken`). A half-written lock, or one whose
  pid is in use again, stays until somebody removes it (`Jammed`), as the code
  says for the first of the two.

## Proofs

Each `*_proofs` module proves its theorems for any values of the constants that
satisfy the named assumption of the model (`LifecycleGuardAssumption`,
`GuardMutexAssumption`, `LeaseAssumption`, `FileLeaseAssumption`,
`MemoryWalAssumption`, `ElectionAssumption`, `WakeAssumption`,
`WakeOutboxAssumption`, `FairnessAssumption` and `OnePriorityZero`), which TLC
evaluates in the runs. No bound of a run is assumed.

The leases are proved in three storeys. `LifecycleGuard` implements `GuardMutex`; the
two lease modules are composed of the mutex's own actions, so that they use it only
as it allows by construction; and they implement `LeaseContract` (`ContractIsKept`
in each). So the contract rests
on the file-system calls of the guard and not on an idea of it.

The three stores of items are proved in two: their safety invariants, and on those
the refinement of `Handover` (`HandoverIsKept` in each). The invariants say in which
phase an item is, so that *lost* and *again* are out; the rest is that histories
only grow, and that what has left a store does not come back to it.

### The lifecycle guard

`LifecycleGuard_proofs` proves, for any sets of entrants and tokens and any
`MaxAttempts`:

* `TypeCorrect`: `Spec => []TypeOK`;
* `GuardHasOneOwner`: `Spec => []OneOwner`, on which the rest stands;
* `MutualExclusion`: the safety invariant of the run;
* `StealsAreIdentitySafe`: the action property of the run.

It also proves `Refinement`: `Spec => Mutex!GuardSpec`.

**The inductive invariant.** One owner alone is inductive, since a rename only
succeeds on an empty directory. Mutual exclusion is not: it has to know where
an entrant's file went. The strengthening adds that the tokens of different
entrants differ (`TokensDiffer`), that an entrant has one exactly from staging
to its exit (`TokenKept`), that a staged file is in no guard yet
(`StagedIsPrivate`), that an entrant inside has its file in the guard or has a
stale one, having been evicted (`EvictedIsOld`), and that a thief about to
unlink has judged each observed file stale (`StolenIsOld`). Freshness of tokens
(`Unremembered`) is what lets an old observation never match a new file. The
refinement rests on the same invariant: each action is a step of the mutex or
leaves owner, inside and overdue as they are.

### The heavy-maintenance lease

`HeavyMaintenanceLease_proofs` proves, for any sets of processes, pids and
tokens, any number of boots and any durations, with or without stalls and torn
writes:

* `TypeCorrect`: `Spec => []TypeOK`;
* `OneTaskAtATime`: `Spec => []ExclusiveWork`;
* `LiveLeaseStays`: `Spec => LiveLeaseIsKept`;
* `ContractIsKept`: `Spec => ImplementsContract`, the refinement of `LeaseContract`.

**The inductive invariant** has three layers, each inductive given the layers
before it.

1. `Control` says where a process is in its call: inside the guard exactly
   between its enter and its leave, with a token exactly while it acquires,
   holds or inherits, never with a clock reading of the future. It is what typing
   needs.
2. `Population` and `Family` say what identifies a process: live processes share
   the latest boot and have different pids, so a lease judged stale by boot,
   epoch or pid has a dead writer; a token is shared by a parent and its
   inheriting child only; the token in the file is that of its writer.
3. `DeadlinesMatch` and `InheritedDeadline` tie a holder's memory to the file;
   `SectionIsSound` says that what the fresh inspection found is still true when
   its result is used, as long as the guard is owned; `LeaseIsPinned` that the
   file is the lease of whoever believes to hold an unexpired one, or is writing
   one.

`ExclusiveWork` alone is not inductive: it does not say what the file holds, nor
what a guarded section in flight is about to do to it. With the third layer it
follows at once: two unrelated workers would have the same file as their lease,
hence the same token. `LiveLeaseIsKept` follows from `SectionIsSound`: whoever
mutates has found the lease recoverable, which a live and unexpired one is not,
or its own. The assumption `exposures = {}` is used exactly where the code has its
two gaps: in `SectionIsSound` when a file being written is inspected, and in
`LiveLeaseSteps` when the mutation is made by an evicted owner.

**The refinement.** `RelianceIsAnswered`: whoever relies on a token relies on that of
a live process with an unexpired lease (its own, or that of the parent whose token
it inherited), and the file is that lease. So every trusted token is the one
named. `NameSteps` then says what a step does to the name: it stays; or it passes
from nobody to a token nobody relies on (the creator has not returned yet:
`CreatorWaits`); or from a token nobody relies on to nobody. What changes at an
unchanged name is reliance, one token at a time, and only a tick of the clock may
end it for all.

### The lease contract

Stated once and proved of two protocols, the contract has a consequence of its own:
`ContractExcludes` (in `FileLease_proofs`) proves that whatever implements it has no
two holders that act at once until an exposure is used. It needs nothing of the
protocol.

### The file lease

`FileLease_proofs` proves, under either liveness and either policy for corrupt
files:

* `TypeCorrect`: `Spec => []TypeOK`;
* `OneDrainLoop`: `Spec => []SoleDrainUnlessExposed`;
* `OneAuthority`: `Spec => []SoleAuthority`, where corrupt files are refused;
* `FreshLeaseStays`: `Spec => FreshLeaseIsKept`;
* `ContractIsKept`: `Spec => ImplementsContract`.

`Control` is typing, who is inside the guard, what a file says of its writer
(`WriterMatches`), and that the refuse policy never mistakes a file (`Judged`). On
it stand, until an exposure, `SectionsAreSound` (a lease found condemned stays
condemned while the guard is owned: `CondemnedStays`) and `HoldersArePinned` (an
up-to-date holder's lease is the file). Two overlapping holders would have to be
pinned to one file. The refinement needs no more: a trusted process is pinned
(`NamedIsTrusted`), and where the file goes or changes its writer, nobody was
(`MissingTrustsNobody`, `NameSteps`).

### The memory log

`MemoryWal_proofs` proves `TypeCorrect`, the safety invariants of the run
(`UnprojectedTurnsAreKept`, `PurgedTurnsStayGone`), `AcceptedTurnsAreKept`
(`AcceptedIsKept`, which no run checks) and `HandoverIsKept`. The invariant is built
up as

1. `Calendar`: appends and passes belong to today or yesterday, hence no append
   can reach a segment that is being removed, and a pass has read a removable
   segment completely;
2. `Markers`: a marked record that is not exposed or purged is in the content
   store with its vector; so are those in a segment being removed; a record the
   drain has read and not marked is still pending;
3. `Kept` and `Purges`: the properties, with what a purge's delete in flight
   will cover (`DeleteIsComplete`).

`AcceptedIsKept` alone is not inductive: it does not say that a marker, or a
removal, comes after the vector.

`HandoverIsKept` needs `NotPendingAgain` beside it: a turn becomes pending by an
append or, when its marker file is removed before its records file, by a pruning
pass, and in the second case it is exposed. `HandoverSuffices` closes the circle:
an implementation of the contract, whatever it does, keeps accepted turns in the
sense of `AcceptedIsKept`, so nothing was lost by checking the one instead of the
other.

### The generation election

`GenerationElection_proofs` proves `TypeCorrect`, `DeclaredServed`
(`ServedIsDeclared`) and `OutageEnds` (`OutageIsRecoverable`). The invariant `KeyInv`
speaks of one collection at a time, so that a framing lemma (`FrameKeeps`)
settles every other collection of a step: at most one collection serves a name
(`NamesOK`), a swap holds collections of its own key (`HandsOK`) under a view that
is not ahead of the record (`ViewOK`), which are where its program counter says
(`PlacesOK`); an interruption leaves something parked (`OutageOK`); what is served,
about to be served or about to be restored is declared (`DeclaredOK`). The last
one is what a second commit cannot break: a rename that was admitted before it is
refused by the second fence or restores a collection that is still declared.

`FallbackIsKept` (`PriorIsKept`) is a second layer on that invariant. A *keeper* of
a generation is a collection of it that is served, or lies where a reconcile
looks. `FallbackOK`: the prior generation has a keeper, and so has the elected one
once its promote is recorded, for at the next commit it becomes the prior one.
`UnparkOK`: a running un-park restores the very generation the rollback elected,
and the record blocks a promote until then. `KeepersStay` shows that every step
but one leaves a keeper a keeper: only an un-park shelves a collection, and that
one is of the generation that was rolled back. A generation that nothing proved
when it was elected (`unproven`) is outside the claim.

### The wake delivery

`WakeDelivery_proofs` proves `TypeCorrect`, `OneAtATime` (`OneDeliveryOwner`),
`NothingLost` (`NothingIsLost`) and `WatermarkIsBehind`: no watermark covers a
queued event that was not offered (`MarkIsBehind`); no run checks these two.
`Control` adds
`Owners`: one retry at a time, a direct attempt only where nothing is pending.
`Kept` adds that a queue agrees with the log, that what the cursor has passed is
queued or has been offered (`Passed`), and that every watermark and claim covers
offered events only, in memory, in an attempt, in the file and in the hands of a
successor (`AllEarned`). That a queue holds the first entry of each of its events
(`BatchIsQueued`) needs a smallest index, from `WellFoundedInduction`.

A second layer proves `OncePrompted` (`OnePrompt`). A copy of an event is in
the retry store, in an attempt, or at the seat. `Single`: each subscription has at
most one copy of an event, and a copy is *known*, a message to the claims or the
read set, a signal to the watermark or to the attempt that carries it. `Apart`: a
message has one route. What a flush offers is not known before (`FreshIsUnknown`)
and is known after, so that no step makes a second copy; merges, retries and
refusals only move one. Deliveries of unknown outcome and what a successor
forgot are excepted, as in the property.

`HandoverIsKept` joins the two: what is not waived is prompted for once and, if the
log has it, is ahead of the cursor, queued, in hand or settled (`WhereItIs`); the log
keeps its entries (`EntriesStay`), and what is settled stays so (`SettledStays`). Most
lemmas are about the steps of a daemon that `Lives`. Where one begins, an argument of
its own shows that what it will not come to again is settled or has perished
(`BeginsAccounts`), so that `NothingLost` and `HandoverIsKept` except `perished` and
nothing else of a restart.

### The wake outbox

`WakeOutbox_proofs` proves, for any sets of daemons, polls, wakes and ids, any
number of rotations and of faults, `TypeCorrect`, `NoTwoInside` (`OneInside`),
`AcceptedWakesAreKept` (`AcceptedIsKept`, which no run checks), `WakesAreShownOnce`
(`ShownOnce`), `DeadLettersAreForeign` (`LettersAreForeign`) and, from
`AcceptedIsKept` and `ShownOnce`, `HandoverIsKept`. The invariant is in layers:

1. `LockIsOwn` and the `Roles` of processes: until a reclaim clobbers, whoever is
   inside is who the lock file names. `OneInside` needs no more; the twin of a dead
   owner cannot be inside, because the file it would release is in the way.
2. `Settled`: an id is settled when a poll has shown it or says that it was
   acknowledged. What a poll knows, what the ledger says and what is in a poll's
   hands is settled (`IdsAreShown`, `HandledIsSettled`).
3. `TrustedIsKept`: an accepted entry, or one whose append is done and whose call
   has not returned, is in the outbox; or it is among the lines a compaction has
   still to handle or will write back; or it is settled. Only a lone loud
   call (`LoudIsAlone`) touches the outbox, which is why `OneInside` comes first.
4. `ShownIsKnown`: what was shown is in the ledger or known to the poll at
   work, unless doubtful.
5. `OwnersArePast`: no entry and no poll is ahead of the envelope.

`AcceptedIsKept` alone is not inductive: it says nothing of a poll that holds the
lines in memory while its rewrite truncates the file.

### Maintenance fairness

`MaintenanceFairness_proofs` proves, for any heavy tasks and actuators, any
staleness of entries and any amount of trouble:

* `TypeCorrect`: `Spec => []TypeOK`;
* `LedgerIsHonest`: an entry is never later than the streak of the party that wrote
  it, so nobody seems to have waited for less than it has;
* `PollsAreSpentWell`: `Spec => NoPollIsWasted`.

`Settle` renames the dates in use after each step to their places in order, which
is how a run of unbounded length has finitely many states. The lemmas on it
(`UsedFinite`, `PlaceOfDate`, `PlacesInOrder`, `SettleAgrees`) show that a place is at
most twice the number of parties, that no streak stays no streak, that a date in
use keeps a date, and that the order is kept: the renaming loses nothing the rules
look at. The inductive invariant is `Honest`: `TypeOK` with `Agree`, the agreement
of entries and streaks. `TypeOK` alone is not inductive in what matters: it allows
an entry without a date, which the renaming would turn into no streak.

`PollsAreSpentWell` relates two functions that are written apart, the promotion of
the picker and the yield of the admission: whom the first promotes has nobody to
yield to in the second (`PromotedMayGo`), as long as every waiter is due and entries
say what holds. A task of priority zero is not promoted at all, so it must never
yield: that is so because there is one (`OnePriorityZero`, `pipeline.mjs:17`); with
two of them, the later one would be selected, yield to the earlier one and waste
the poll.

**Only model-checked** are the liveness properties, since TLAPS proves neither
ENABLED nor leads-to under fairness here: `AbandonedIsReclaimed`,
`DeadLeaseIsRecovered`, `LapsedLeaseIsRecovered`, `DisplacedStops`,
`DeadHolderIsSucceeded`, `DeadFileIsReclaimed`, `EveryTurnIsEmbedded`,
`EveryWakeIsSettled`, `EveryEntryIsRead`, `EveryDueTaskRuns`. Every safety
invariant, action property and refinement that a passing run checks is a theorem.
No recursion is used.

## Not modelled

The components marked `not_modelled` in `PROJECT.json`, with the reason. Inside
the modelled ones: what their sections above name, and logging, error wording,
paths, JSON layout, permissions and I/O errors other than those the code tests
for.
