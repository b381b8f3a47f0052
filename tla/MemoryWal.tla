------------------------------ MODULE MemoryWal ------------------------------
(***************************************************************************)
(* The add_memory write-ahead log (helpers/memoryWalStore.mjs) with its    *)
(* four users: addMemory appends, the embed drain (embed/drainCycle.mjs)   *)
(* moves records into the content store, purgeSession tombstones and       *)
(* deletes a session, and both processes prune reconciled day segments.    *)
(*                                                                         *)
(* The server and the drain daemon share nothing but the files and the     *)
(* content store.  The drain and the pruning passes read a log in two      *)
(* steps, records first and markers later.                                 *)
(*                                                                         *)
(* `exposed` collects the records for which a window was open that the     *)
(* code leaves open, so that the properties can speak of all the others:   *)
(*   - markers removed before the records they belong to (PruneRemove),    *)
(*   - a row that is added, or left, for a record tombstoned meanwhile     *)
(*     when nothing compares the two any more (OutOfSight below),          *)
(*   - a compensating delete or a tombstone pass that failed.              *)
(***************************************************************************)
EXTENDS Naturals, FiniteSets

CONSTANTS
    Records,        \* the turns, each with its document and metadata
    Earlier,        \* those of an earlier day: embedded, not yet projected
    Purgeable,      \* those of the session somebody purges
    Poison,         \* those whose document no embedder accepts
    MaxDay,         \* bound: the UTC days that pass
    RetentionLimit, \* memoryWal.retentionLimit
    BatchSize,      \* memoryWal.batchSize
    BackoffBase,    \* memoryWal.backoffBaseMs, in clock units
    PollInterval,   \* memoryWal.pollIntervalMs, in clock units
    MaxCooling,     \* MAX_RECORD_COOLDOWN_MS, in cycles of the drain
    MaxFailures,    \* bound: where the failure count of a record saturates
    Faults,         \* the kinds of fault that may happen
    MaxFaults       \* bound: how many of them

FaultKinds == {"interrupted", "embedFails", "answerLost", "noVector",
               "unverifiable", "deleteFails", "tombstonesFail", "markerFails"}

ASSUME MemoryWalAssumption ==
    /\ IsFiniteSet(Records)
    /\ Earlier \subseteq Records
    /\ Purgeable \subseteq Records
    /\ Poison \subseteq Records \ Earlier
    /\ MaxDay \in Nat
    /\ RetentionLimit \in Nat \ {0}
    /\ BatchSize \in Nat \ {0}
    /\ BackoffBase \in Nat
    /\ PollInterval \in Nat \ {0}
    /\ MaxCooling \in Nat
    /\ MaxFailures \in Nat \ {0}
    /\ Faults \subseteq FaultKinds
    /\ MaxFaults \in Nat

VARIABLES
    day,       \* the UTC day
    seg,       \* the segment key of each record, 0 before add_memory
    written,   \* history: the records whose append has returned
    disk,      \* the records in a wal-<day>.jsonl
    marks,     \* those with an entry in the segment's .embedded.jsonl
    gmarks,    \* those with an entry in the segment's .graph.jsonl
    projected, \* those with a node in the Native Edge Graph
    row,       \* the content store's row of each record
    drain,     \* the cycle of drainWalOnce
    failures,  \* retryState: failed embeds of each record ...
    cooling,   \* ... and the cycles it still sits out
    prune,     \* the pass of pruneReconciledWalSegments in each process
    purge,     \* purgeSession
    condemned, \* history: the records purgeSession set out to delete
    exposed,   \* history: the records a known window was open for
    faults     \* how many faults have happened

walVars == <<disk, marks, gmarks>>
drainVars == <<drain, failures, cooling>>
vars == <<day, seg, written, walVars, projected, row, drainVars, prune, purge,
          condemned, exposed, faults>>

Days == 1 .. MaxDay
Pruners == {"server", "daemon"}
Files == {"records", "embed", "graph"}

Idle == [pc |-> "idle", recs |-> {}, batch |-> {}, todo |-> {}]
NoPass == [pc |-> "idle", active |-> 0, recs |-> {}, todo |-> {}]
NoPurge == [pc |-> "idle", todo |-> {}]

\* The cycles of the drain and the pruning passes.
Drains == [pc    : {"idle", "select", "embed", "verify", "reread", "decide", "compensate",
                    "mark"},
           recs  : SUBSET written,
           batch : SUBSET written,
           todo  : SUBSET written]
Passes == [pc     : {"idle", "judge", "remove"},
           active : Nat,
           recs   : SUBSET written,
           todo   : SUBSET (Nat \X Files)]

TypeOK ==
    /\ day \in Nat
    /\ seg \in [Records -> Nat]
    /\ written \in SUBSET Records
    /\ disk \in SUBSET written
    /\ marks \in SUBSET written
    /\ gmarks \in SUBSET projected
    /\ projected \in SUBSET written
    /\ row \in [Records -> {"absent", "vector", "bare"}]
    /\ drain \in Drains
    /\ drain.todo \subseteq drain.batch
    /\ failures \in [Records -> 0 .. MaxFailures]
    /\ cooling \in [Records -> 0 .. MaxCooling]
    /\ prune \in [Pruners -> Passes]
    /\ purge \in [pc   : {"idle", "tombstone", "delete", "done", "failed"},
                  todo : SUBSET (written \cap Purgeable)]
    /\ condemned \in SUBSET (written \cap Purgeable)
    /\ exposed \in SUBSET written
    /\ faults \in Nat

Init ==
    /\ day = 2
    /\ seg = [r \in Records |-> IF r \in Earlier THEN 1 ELSE 0]
    /\ written = Earlier
    /\ disk = Earlier /\ marks = Earlier
    /\ gmarks = {} /\ projected = {}
    /\ row = [r \in Records |-> IF r \in Earlier THEN "vector" ELSE "absent"]
    /\ drain = Idle
    /\ failures = [r \in Records |-> 0]
    /\ cooling = [r \in Records |-> 0]
    /\ prune = [p \in Pruners |-> NoPass]
    /\ purge = NoPurge
    /\ condemned = {} /\ exposed = {}
    /\ faults = 0

\* The environment does harm of one kind, or none.
Fault(kind) ==
    /\ kind \in Faults
    /\ faults < MaxFaults
    /\ faults' = faults + 1

NoFault == faults' = faults

\* readPendingWalRecords, given what it read of the records files.
PendingOf(recs) == recs \ marks

InSegment(s) == {r \in Records : seg[r] = s}

Pending(r) == r \in disk \ marks

\* The rows of these records are in the content store, or may be, and the
\* drain forgets about them until it sees them pending again.
OutOfSight(recs) == {r \in recs : ~Pending(r)}

\* A pruning pass begins: it lists the segments and reads their records.
\* `on` is what the records files hold.
NewPass(active, on) == [pc |-> "judge", active |-> active, recs |-> on, todo |-> {}]

\* The rows S are deleted from the content store.
Without(S) == [r \in Records |-> IF r \in S THEN "absent" ELSE row[r]]

-----------------------------------------------------------------------------
(***************************************************************************)
(* addMemory and the days                                                  *)
(***************************************************************************)

\* The append waits for its lock at most five seconds, and no pruning pass
\* takes a day: neither is still there on the second day after its own.
Tick ==
    /\ day < MaxDay
    /\ \A r \in Records \ written : seg[r] \in {0, day}
    /\ \A p \in Pruners : prune[p].active \in {0, day}
    /\ day' = day + 1
    /\ UNCHANGED <<seg, written, walVars, projected, row, drainVars, prune, purge,
                   condemned, exposed, faults>>

\* appendWalMemory takes the segment key from the record's timestamp ...
BeginAppend(r) ==
    /\ seg[r] = 0
    /\ seg' = [seg EXCEPT ![r] = day]
    /\ UNCHANGED <<day, written, walVars, projected, row, drainVars, prune, purge,
                   condemned, exposed, faults>>

\* ... and writes the line once it has the lock, or without it.  addMemory
\* then starts a detached pruning pass (bound: one at a time).
FinishAppend(r) ==
    /\ seg[r] # 0 /\ r \notin written
    /\ written' = written \cup {r}
    /\ disk' = disk \cup {r}
    /\ prune' = IF prune["server"].pc = "idle"
                THEN [prune EXCEPT !["server"] = NewPass(seg[r], disk')]
                ELSE prune
    /\ UNCHANGED <<day, seg, marks, gmarks, projected, row, drainVars, purge,
                   condemned, exposed, faults>>

\* Mutant of Project: the marker first, the node after it.
ProjectMarkerFirst(r) ==
    /\ r \in disk \ gmarks
    /\ gmarks' = gmarks \cup {r}
    /\ \/ projected' = projected \cup {r} /\ NoFault
       \/ projected' = projected /\ Fault("markerFails")
    /\ UNCHANGED <<day, seg, written, disk, marks, row, drainVars, prune, purge,
                   condemned, exposed>>

\* _projectMemoryToGraph: the node first, the marker after it.
Project(r) ==
    /\ r \in disk \ gmarks
    /\ projected' = projected \cup {r}
    /\ \/ gmarks' = gmarks \cup {r} /\ NoFault
       \/ gmarks' = gmarks /\ Fault("markerFails")
    /\ UNCHANGED <<day, seg, written, disk, marks, row, drainVars, prune, purge,
                   condemned, exposed>>

-----------------------------------------------------------------------------
(***************************************************************************)
(* pruneReconciledWalSegments                                              *)
(***************************************************************************)

\* Mutant of BeyondRetention: one segment too many goes.
BeyondRetentionLessOne(keys) ==
    {s \in keys : Cardinality({t \in keys : t > s}) + 1 >= RetentionLimit}

\* Of the segments in keys, all but the newest RetentionLimit.
BeyondRetention(keys) ==
    {s \in keys : Cardinality({t \in keys : t > s}) >= RetentionLimit}

\* Mutant of Reconciled: the embed markers alone.
ReconciledEmbedded(recs, s) == \A r \in recs : seg[r] = s => r \in marks

\* Every record read from segment s is marked in both streams.
Reconciled(recs, s) == \A r \in recs : seg[r] = s => r \in marks \cap gmarks

\* The markers are read after the records of their segment.
PruneJudge(p) ==
    LET recs == prune[p].recs
        keys == {seg[r] : r \in recs} \ {prune[p].active}
        toRemove == BeyondRetention({s \in keys : Reconciled(recs, s)})
    IN /\ prune[p].pc = "judge"
       /\ prune' = [prune EXCEPT ![p] =
             IF Cardinality(keys) > RetentionLimit /\ toRemove # {}
             THEN [pc |-> "remove", active |-> @.active, recs |-> {}, todo |-> toRemove \X Files]
             ELSE NoPass]
       /\ UNCHANGED <<day, seg, written, walVars, projected, row, drainVars, purge,
                      condemned, exposed, faults>>

\* A reader between its two reads, or one that comes before the records file
\* goes too, takes marked records for pending ones once the markers are gone.
TakenForPending(s) ==
    {r \in marks : /\ seg[r] = s
                   /\ \/ r \in disk
                      \/ drain.pc \in {"select", "decide"} /\ r \in drain.recs}

\* The files of all the segments are removed in parallel, in any order.
PruneRemove(p) ==
    /\ prune[p].pc = "remove"
    /\ \E f \in prune[p].todo :
          /\ disk' = IF f[2] = "records" THEN disk \ InSegment(f[1]) ELSE disk
          /\ marks' = IF f[2] = "embed" THEN marks \ InSegment(f[1]) ELSE marks
          /\ gmarks' = IF f[2] = "graph" THEN gmarks \ InSegment(f[1]) ELSE gmarks
          /\ exposed' = IF f[2] = "embed" THEN exposed \cup TakenForPending(f[1])
                        ELSE exposed
          /\ prune' = [prune EXCEPT ![p] =
                IF prune[p].todo = {f} THEN NoPass
                ELSE [pc |-> "remove", active |-> prune[p].active, recs |-> {},
                      todo |-> prune[p].todo \ {f}]]
    /\ UNCHANGED <<day, seg, written, projected, row, drainVars, purge,
                   condemned, faults>>

PruneStep(p) == PruneJudge(p) \/ PruneRemove(p)

-----------------------------------------------------------------------------
(***************************************************************************)
(* drainWalOnce, called by the drain loop again and again                  *)
(***************************************************************************)

\* Mutant of CoolCycles: a cooldown that does not outlast the poll interval.
CoolCyclesConstant(n) == BackoffBase \div PollInterval

\* The cycles a record is skipped after its n-th failure: those that start
\* before getBackoffDelayMs(backoffBaseMs, n) has passed.
CoolCycles(n) ==
    LET cycles == (BackoffBase * 2^n) \div PollInterval
    IN IF cycles \in 0 .. MaxCooling THEN cycles ELSE MaxCooling

\* store.readPending: the records files ...
DrainRead ==
    /\ drain.pc = "idle"
    /\ prune["daemon"].pc = "idle"
    /\ drain' = [drain EXCEPT !.pc = "select", !.recs = disk]
    /\ UNCHANGED <<day, seg, written, walVars, projected, row, failures, cooling, prune,
                   purge, condemned, exposed, faults>>

\* ... and the markers, then a batch of what is not cooling down, newest
\* segments first.
DrainSelect ==
    LET drainable == {r \in PendingOf(drain.recs) : cooling[r] = 0}
    IN /\ drain.pc = "select"
       /\ \E batch \in SUBSET drainable :
             /\ Cardinality(batch) = BatchSize \/ batch = drainable
             /\ Cardinality(batch) <= BatchSize
             /\ \A r \in batch, q \in drainable \ batch : seg[q] <= seg[r]
             /\ drain' = [pc |-> IF batch = {} THEN "mark" ELSE "embed",
                          recs |-> {}, batch |-> batch, todo |-> {}]
       /\ cooling' = [r \in Records |-> IF cooling[r] > 0 THEN cooling[r] - 1 ELSE 0]
       /\ UNCHANGED <<day, seg, written, walVars, projected, row, failures, prune, purge,
                      condemned, exposed, faults>>

\* embedBatch.  Whole batch, retries and per-record adds end in some records
\* added and the others failed; contention or a spent budget fails them all.
\* `add` leaves an existing row alone.
DrainEmbed ==
    /\ drain.pc = "embed"
    /\ \E added \in SUBSET (drain.batch \ Poison) :
       \E lost \in SUBSET ((drain.batch \ Poison) \ added) : \E bare \in SUBSET added :
          /\ \/ lost = {} /\ bare = {} /\ added = drain.batch \ Poison /\ NoFault
             \/ lost = {} /\ bare = {} /\ added # drain.batch \ Poison /\ Fault("embedFails")
             \/ lost # {} /\ bare = {} /\ Fault("answerLost")
             \/ lost = {} /\ bare # {} /\ added = drain.batch \ Poison /\ Fault("noVector")
          /\ row' = [r \in Records |->
                       IF row[r] # "absent" \/ r \notin added \cup lost THEN row[r]
                       ELSE IF r \in bare THEN "bare" ELSE "vector"]
          /\ exposed' = exposed \cup OutOfSight(lost)
          /\ drain' = [drain EXCEPT !.pc = "verify", !.todo = added]
    /\ UNCHANGED <<day, seg, written, walVars, projected, failures, cooling, prune, purge,
                   condemned>>

Failed(r) == IF failures[r] < MaxFailures THEN failures[r] + 1 ELSE failures[r]

\* verifyEmbeddedVectors, and the cooldown of all that did not make it.  Rows
\* read back without a vector are deleted, rows not read back are left alone.
DrainVerify ==
    /\ drain.pc = "verify"
    /\ \E unverifiable \in SUBSET drain.todo : \E undeleted \in SUBSET drain.todo :
       LET embedded == {r \in drain.todo \ unverifiable : row[r] = "vector"}
           metadataOnly == drain.todo \ (unverifiable \cup embedded)
           failed == drain.batch \ embedded
       IN /\ \/ unverifiable = {} /\ undeleted = {} /\ NoFault
             \/ unverifiable # {} /\ undeleted = {} /\ Fault("unverifiable")
             \/ unverifiable = {} /\ undeleted = metadataOnly /\ undeleted # {}
                /\ Fault("deleteFails")
          /\ row' = Without(metadataOnly \ undeleted)
          /\ exposed' = exposed \cup OutOfSight(unverifiable \cup undeleted)
          /\ failures' = [r \in Records |-> IF r \in failed THEN Failed(r) ELSE failures[r]]
          /\ cooling' = [r \in Records |->
                           IF r \in failed THEN CoolCycles(Failed(r)) ELSE cooling[r]]
          /\ drain' = [drain EXCEPT !.pc = IF embedded = {} THEN "mark" ELSE "reread",
                                    !.batch = embedded, !.todo = {}]
    /\ UNCHANGED <<day, seg, written, walVars, projected, prune, purge, condemned>>

\* The pending records are read once more, for exactly the embedded ids.
DrainReread ==
    /\ drain.pc = "reread"
    /\ drain' = [drain EXCEPT !.pc = "decide", !.recs = disk]
    /\ UNCHANGED <<day, seg, written, walVars, projected, row, failures, cooling, prune,
                   purge, condemned, exposed, faults>>

\* Mutant of DrainDecide: all that was embedded is marked.
DrainDecideTrusting ==
    /\ drain.pc = "decide"
    /\ drain' = [drain EXCEPT !.pc = "mark", !.recs = {}, !.todo = drain.batch]
    /\ UNCHANGED <<day, seg, written, walVars, projected, row, failures, cooling, prune,
                   purge, condemned, exposed, faults>>

\* What vanished from them counts as tombstoned.
DrainDecide ==
    LET stillPending == PendingOf(drain.recs) \cap drain.batch
    IN /\ drain.pc = "decide"
       /\ drain' = [drain EXCEPT
             !.pc = IF stillPending = drain.batch THEN "mark" ELSE "compensate",
             !.recs = {}, !.todo = stillPending]
       /\ UNCHANGED <<day, seg, written, walVars, projected, row, failures, cooling, prune,
                      purge, condemned, exposed, faults>>

\* The compensating delete; its failure is logged and no more.
DrainCompensate ==
    LET tombstoned == drain.batch \ drain.todo
    IN /\ drain.pc = "compensate"
       /\ \/ row' = Without(tombstoned) /\ NoFault /\ exposed' = exposed
          \/ /\ Fault("deleteFails")
             /\ exposed' = exposed \cup tombstoned
             /\ row' = row
       /\ failures' = [r \in Records |-> IF r \in tombstoned THEN 0 ELSE failures[r]]
       /\ cooling' = [r \in Records |-> IF r \in tombstoned THEN 0 ELSE cooling[r]]
       /\ drain' = [drain EXCEPT !.pc = "mark", !.batch = drain.todo]
       /\ UNCHANGED <<day, seg, written, walVars, projected, prune, purge, condemned>>

\* One marker after the other; a failed append ends the cycle.
DrainMark ==
    /\ drain.pc = "mark"
    /\ \E r \in drain.todo :
          /\ failures' = [failures EXCEPT ![r] = 0]
          /\ cooling' = [cooling EXCEPT ![r] = 0]
          /\ \/ /\ marks' = marks \cup {r} /\ NoFault
                /\ drain' = [drain EXCEPT !.batch = @ \ {r}, !.todo = @ \ {r}]
             \/ /\ drain' = Idle /\ Fault("markerFails")
                /\ marks' = marks
    /\ UNCHANGED <<day, seg, written, disk, gmarks, projected, row, prune, purge,
                   condemned, exposed>>

\* The cycle ends with a pruning pass, which the next one waits for.
DrainPrune ==
    /\ drain.pc = "mark"
    /\ drain.todo = {}
    /\ drain' = Idle
    /\ prune' = [prune EXCEPT !["daemon"] = NewPass(day, disk)]
    /\ UNCHANGED <<day, seg, written, walVars, projected, row, failures, cooling, purge,
                   condemned, exposed, faults>>

DrainStep ==
    \/ DrainRead \/ DrainSelect \/ DrainEmbed \/ DrainVerify \/ DrainReread \/ DrainDecide
    \/ DrainCompensate \/ DrainMark \/ DrainPrune \/ PruneStep("daemon")

\* What the drain has added and not yet compared with the tombstones.
InFlight ==
    CASE drain.pc = "verify" -> drain.todo
      [] drain.pc \in {"reread", "decide"} -> drain.batch
      [] drain.pc = "compensate" -> drain.batch \ drain.todo
      [] OTHER -> {}

\* The daemon is stopped, at any point of a cycle, and started again:
\* retryState is in memory.
DaemonRestart ==
    /\ Fault("interrupted")
    /\ exposed' = exposed \cup OutOfSight(InFlight)
    /\ drain' = Idle
    /\ failures' = [r \in Records |-> 0]
    /\ cooling' = [r \in Records |-> 0]
    /\ prune' = [prune EXCEPT !["daemon"] = NoPass]
    /\ UNCHANGED <<day, seg, written, walVars, projected, row, purge, condemned>>

-----------------------------------------------------------------------------
(***************************************************************************)
(* purgeSession                                                            *)
(***************************************************************************)

\* In one step: a marker that arrives between the two reads belongs to a row
\* that PurgeGet finds.
PurgeRead ==
    /\ purge.pc = "idle"
    /\ written \cap Purgeable # {}
    /\ purge' = [pc |-> "tombstone", todo |-> PendingOf(disk) \cap Purgeable]
    /\ condemned' = written \cap Purgeable
    /\ UNCHANGED <<day, seg, written, walVars, projected, row, drainVars, prune,
                   exposed, faults>>

\* A failing tombstone pass is logged, and the rest of it skipped.
PurgeTombstone ==
    /\ purge.pc = "tombstone"
    /\ \E r \in purge.todo :
          \/ /\ marks' = marks \cup {r} /\ NoFault
             /\ purge' = [purge EXCEPT !.todo = @ \ {r}]
             /\ exposed' = exposed
          \/ /\ purge' = [purge EXCEPT !.todo = {}] /\ Fault("tombstonesFail")
             /\ exposed' = exposed \cup purge.todo
             /\ marks' = marks
    /\ UNCHANGED <<day, seg, written, disk, gmarks, projected, row, drainVars, prune,
                   condemned>>

\* memoryCollection.get, after the tombstones: the ids of the session's rows.
PurgeGet ==
    /\ purge.pc = "tombstone"
    /\ purge.todo = {}
    /\ purge' = [pc |-> "delete", todo |-> {r \in Purgeable \cap written : row[r] # "absent"}]
    /\ UNCHANGED <<day, seg, written, walVars, projected, row, drainVars, prune,
                   condemned, exposed, faults>>

\* The delete of those ids; a failure is answered with an error.
PurgeDelete ==
    /\ purge.pc = "delete"
    /\ \/ /\ row' = Without(purge.todo) /\ NoFault
          /\ purge' = [pc |-> "done", todo |-> {}]
       \/ /\ Fault("deleteFails")
          /\ purge' = [pc |-> "failed", todo |-> {}]
          /\ row' = row
    /\ UNCHANGED <<day, seg, written, walVars, projected, drainVars, prune,
                   condemned, exposed>>

PurgeStep == PurgeRead \/ PurgeTombstone \/ PurgeGet \/ PurgeDelete

\* The server goes down: its appends that had not returned, its pruning pass
\* and its purge with it.  A record not accepted is a new call to addMemory.
ServerRestart ==
    /\ Fault("interrupted")
    /\ seg' = [r \in Records |-> IF r \in written THEN seg[r] ELSE 0]
    /\ prune' = [prune EXCEPT !["server"] = NoPass]
    /\ purge' = IF purge.pc \in {"idle", "done"} THEN purge
                ELSE [pc |-> "failed", todo |-> {}]
    /\ UNCHANGED <<day, written, walVars, projected, row, drainVars, condemned, exposed>>

-----------------------------------------------------------------------------
Next ==
    \/ Tick
    \/ \E r \in Records : BeginAppend(r) \/ FinishAppend(r) \/ Project(r)
    \/ PruneStep("server")
    \/ DrainStep
    \/ DaemonRestart
    \/ PurgeStep
    \/ ServerRestart

Spec == Init /\ [][Next]_vars

\* The drain loop re-arms its timer after every cycle and the host restarts
\* it: nothing else is fair.
FairSpec == Spec /\ WF_vars(DrainStep)

-----------------------------------------------------------------------------
(***************************************************************************)
(* Properties                                                              *)
(***************************************************************************)

PurgeBegun(r) == r \in Purgeable /\ purge.pc # "idle"

\* "Once this returns, the turn survives": an accepted turn nobody purges is
\* in the log and pending, or in the content store with its vector.
AcceptedIsKept ==
    \A r \in written \ exposed :
        PurgeBegun(r) \/ Pending(r) \/ row[r] = "vector"

\* The graph projection is derived from the log: a turn without a node is
\* still in the log and pending for the graph.
KeptUntilProjected ==
    \A r \in written \ projected : r \in disk \ gmarks

\* Once purgeSession has answered, a turn it deleted is in the content store
\* only until the drain that added it again has looked at the tombstones.
PurgedStaysGone ==
    purge.pc = "done" =>
        \A r \in condemned \ exposed : row[r] = "absent" \/ r \in InFlight

\* A turn that no record at the head of the log may starve: one that can be
\* embedded becomes searchable, or is purged.
EveryTurnIsEmbedded ==
    \A r \in Records \ (Poison \cup Earlier) :
        r \in written ~> (~Pending(r) /\ row[r] = "vector") \/ PurgeBegun(r) \/ r \in exposed

-----------------------------------------------------------------------------
(***************************************************************************)
(* The handover.  A turn is owed to the content store while it is pending  *)
(* in the log, and handed over when it is searchable and pending no more.  *)
(***************************************************************************)

PhaseOf(r) ==
    IF r \notin written THEN "new"
    ELSE IF Pending(r) THEN "owed"
    ELSE IF row[r] = "vector" THEN "handed" ELSE "lost"

Waived == exposed \cup {r \in Purgeable : PurgeBegun(r)}

Store == INSTANCE Handover WITH
    Items <- Records,
    Before <- Earlier,
    phase <- [r \in Records |-> PhaseOf(r)],
    waived <- Waived

\* An accepted turn nobody purges is pending or searchable, and once it is
\* searchable it stays so and is pending no more, whatever is pruned,
\* retried, compensated or interrupted.
ImplementsHandover == Store!HandoverSpec
=============================================================================
