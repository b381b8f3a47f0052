------------------------- MODULE MaintenanceFairness -------------------------
(***************************************************************************)
(* Which heavy maintenance task runs next: the registry poll of the        *)
(* orchestrator (scheduling/pipeline.mjs and picker.mjs), the admission of *)
(* the task it picks (MaintenanceBackpressureService.mjs), and the ledger  *)
(* of waiters both read (heavyMaintenanceWaiterLedger.mjs).                *)
(*                                                                         *)
(* A poll is synchronous: one step, at one instant.  Time is counted in    *)
(* polls where it ages a ledger entry; where it orders the beginnings of   *)
(* deferral streaks only their order is kept, and how many of them lie     *)
(* beyond the starvation bound.  Of the lanes only the heavy ones are      *)
(* modelled; another one may take a poll.                                  *)
(***************************************************************************)
EXTENDS Naturals, FiniteSets

CONSTANTS
    Task,          \* the heavy maintenance tasks
    PriorityZero,  \* those that protect data
    Bootstrap,     \* those that may be bootstrap-critical
    LateStart,     \* those that wait for a lease of their own before they run
    Actuator,      \* what registers as a waiter and is never a candidate
    NoTask,        \* nothing runs, nobody holds the lease
    Outside,       \* a holder of the lease in another process
    NoEntry,       \* no file in the ledger
    StalePolls,    \* polls after which an entry is stale
    MaxPasses,     \* bound: how often staleness lets others pass a task
    Troubles,      \* the kinds of trouble that may happen
    MaxTrouble     \* bound: how much of it

TroubleKinds == {"outside", "shed", "class", "withdrawn", "slot", "restart", "skip"}

ASSUME FairnessAssumption ==
    /\ IsFiniteSet(Task) /\ IsFiniteSet(Actuator)
    /\ Task \cap Actuator = {}
    /\ PriorityZero \subseteq Task /\ Bootstrap \subseteq Task /\ LateStart \subseteq Task
    /\ PriorityZero \cap Bootstrap = {}
    /\ NoTask \notin Task /\ Outside \notin Task \cup {NoTask}
    /\ StalePolls \in Nat \ {0} /\ MaxPasses \in Nat /\ MaxTrouble \in Nat
    /\ Troubles \subseteq TroubleKinds
    /\ NoEntry \notin [rank : 0 .. 2, since : Nat, age : Nat]

\* PRIORITY_ZERO_TASKS has one member.
ASSUME OnePriorityZero == \A t, u \in PriorityZero : t = u

Party == Task \cup Actuator

VARIABLES
    due,       \* the tasks their descriptors report as due
    running,   \* the task whose state says that it runs
    lease,     \* the holder of the heavy-maintenance lease
    since,     \* when the streak of each party began; 0: it has none
    starved,   \* streaks that began no later than this are past the bound
    entry,     \* the ledger: the file of each party
    passed,    \* how often each task was due while another one was started;
               \* where staleness decides, that is, not of priority zero
    critical,  \* the tasks that are bootstrap-critical now
    shed,      \* a shed window is open
    trouble    \* how much trouble there has been

vars == <<due, running, lease, since, starved, entry, passed, critical, shed, trouble>>

\* 2 * |Party| dates exist at most, and one more opens in a step.
Dates == 0 .. 2 * Cardinality(Party)

Entries == [rank : 0 .. 2, since : Dates, age : 0 .. StalePolls - 1]

TypeOK ==
    /\ due \subseteq Task
    /\ running \in Task \cup {NoTask}
    /\ lease \in Task \cup {NoTask, Outside}
    /\ running # NoTask => lease = running
    /\ since \in [Party -> Dates]
    /\ starved \in Dates
    /\ entry \in [Party -> Entries \cup {NoEntry}]
    /\ passed \in [Task -> 0 .. MaxPasses]
    /\ critical \subseteq Bootstrap
    /\ shed \in BOOLEAN
    /\ trouble \in 0 .. MaxTrouble

Init ==
    /\ due = {}
    /\ running = NoTask
    /\ lease = NoTask
    /\ since = [p \in Party |-> 0]
    /\ starved = 0
    /\ entry = [p \in Party |-> NoEntry]
    /\ passed = [t \in Task |-> 0]
    /\ critical = Bootstrap
    /\ shed = FALSE
    /\ trouble = 0

-----------------------------------------------------------------------------
(* The ledger, and the fairness rule that is read from it.                 *)

Waiters == {p \in Party : entry[p] # NoEntry}

\* fairnessRank, of a party as it is now; an entry holds it as it was.
Rank(p) ==
    CASE p \in PriorityZero -> 2
      [] p \in critical -> 1
      [] OTHER -> 0

\* Must t let the registered waiter w go first?  Rank comes before age.
Qualifies(w, t) ==
    /\ w # t
    /\ \/ entry[w].rank > Rank(t)
       \/ /\ entry[w].rank = Rank(t)
          /\ entry[w].since <= starved
          /\ since[t] = 0 \/ entry[w].since < since[t]

Outranks(w, v) ==
    \/ entry[w].rank > entry[v].rank
    \/ entry[w].rank = entry[v].rank /\ entry[w].since < entry[v].since

\* findWaiterToYieldTo: the highest rank, in it the oldest; of two that began
\* at once, the one whose file is read first.
WaitersToYieldTo(t, among) ==
    LET qualified == {w \in among : Qualifies(w, t)}
    IN  {w \in qualified : \A v \in qualified : ~Outranks(v, w)}

\* Mutant of Aged: a waiter is believed for ever.
AgedNever(e) == e

\* An entry nobody has written since the last poll; a stale one is as good
\* as gone, since the next registration replaces it.
Aged(e) ==
    IF e = NoEntry \/ e.age + 1 = StalePolls THEN NoEntry
    ELSE [e EXCEPT !.age = @ + 1]

\* Renames the dates that are still in use to 1, 2, ...
Settle(streaks, ledger) ==
    LET used == {streaks[p] : p \in Party}
                \cup {ledger[p].since : p \in {q \in Party : ledger[q] # NoEntry}}
        place(d) == Cardinality({u \in used \ {0} : u <= d})
    IN  /\ since' = [p \in Party |-> place(streaks[p])]
        /\ entry' = [p \in Party |-> IF ledger[p] = NoEntry THEN NoEntry
                                     ELSE [ledger[p] EXCEPT !.since = place(@)]]
        /\ starved' = place(starved)

\* markDeferred: a streak is opened once.
Streaks(deferred) ==
    [p \in Party |-> IF p \in deferred /\ since[p] = 0 THEN Cardinality(Party) * 2 + 1 ELSE since[p]]

\* registerWaiterSync, with the beginning of the streak and the class of now.
Ledger(registered) ==
    [p \in Party |-> IF p \in registered
                     THEN [rank |-> Rank(p), since |-> Streaks(registered)[p], age |-> 0]
                     ELSE entry[p]]

\* A poll also ages what it does not write.
PolledLedger(registered) ==
    [p \in Party |-> IF p \in registered THEN Ledger(registered)[p] ELSE Aged(entry[p])]

\* markStarted: a task that starts is no longer deferred.
Started(t) ==
    /\ running' = t
    /\ due' = due \ {t}
    /\ passed' = [u \in Task |-> IF u = t THEN 0
                                 ELSE IF u \in due \ PriorityZero /\ passed[u] < MaxPasses THEN passed[u] + 1
                                 ELSE passed[u]]

Suffer(kind) ==
    /\ kind \in Troubles
    /\ trouble < MaxTrouble
    /\ trouble' = trouble + 1

-----------------------------------------------------------------------------
(* The poll.                                                               *)

\* A heavy task runs: every other one that is due is deferred.
PollBehind ==
    /\ running # NoTask
    /\ UNCHANGED <<due, running, lease, passed, critical, shed, trouble>>
    /\ Settle(Streaks(due \ {running}), PolledLedger(due \ {running}))

PollNothing ==
    /\ running = NoTask
    /\ due = {}
    /\ UNCHANGED <<due, running, lease, passed, critical, shed, trouble>>
    /\ Settle(since, PolledLedger({}))

\* A lane that is not heavy and comes first in the registry takes the poll;
\* or the lease primitive fails, which is neither a run nor a deferral.
PollElsewhere ==
    /\ Suffer("slot")
    /\ running = NoTask
    /\ due # {}
    /\ UNCHANGED <<due, running, lease, passed, critical, shed>>
    /\ Settle(since, PolledLedger({}))

\* The most overdue task by (now - lastRunAt) / cadenceMs: whichever that is,
\* no task is passed without end by others that run.
MostOverdue ==
    LET patient == {t \in due : passed[t] = MaxPasses}
    IN  IF patient = {} THEN due ELSE patient

\* Mutant of Promoted: fairness is left to the admission.
PromotedNobody(t) == {t}

\* The promotion: a candidate the representative would abstain for.
Promoted(t) ==
    LET ahead == WaitersToYieldTo(t, Waiters \cap due)
    IN  IF ahead = {} THEN {t} ELSE ahead

\* selectByPriority
Winners ==
    IF due \cap PriorityZero # {} THEN due \cap PriorityZero
    ELSE LET representatives == IF due \cap critical # {} THEN due \cap critical ELSE MostOverdue
         IN  UNION {Promoted(t) : t \in representatives}

\* The gate of acquireLeaseAndExecute: in a shed window all is deferred, and
\* that is policy, no competition: nobody registers.
ShedOff(t) ==
    /\ shed
    /\ UNCHANGED <<due, running, lease, passed>>
    /\ Settle(Streaks({t}), PolledLedger({}))

Abstain(t) ==
    /\ ~shed
    /\ WaitersToYieldTo(t, Waiters) # {}
    /\ UNCHANGED <<due, running, lease, passed>>
    /\ Settle(Streaks({t}), PolledLedger({t}))

FindHeld(t) ==
    /\ ~shed
    /\ WaitersToYieldTo(t, Waiters) = {}
    /\ lease # NoTask
    /\ UNCHANGED <<due, running, lease, passed>>
    /\ Settle(Streaks({t}), PolledLedger({t}))

\* Admitted: its entry is cleared; its streak ends when it starts.
Admit(t) ==
    /\ ~shed
    /\ WaitersToYieldTo(t, Waiters) = {}
    /\ lease = NoTask
    /\ lease' = t
    /\ IF t \in LateStart
       THEN /\ Settle(since, [PolledLedger({}) EXCEPT ![t] = NoEntry])
            /\ UNCHANGED <<due, running, passed>>
       ELSE /\ Settle([since EXCEPT ![t] = 0], [PolledLedger({}) EXCEPT ![t] = NoEntry])
            /\ Started(t)

PollPicks ==
    /\ running = NoTask
    /\ UNCHANGED <<critical, shed, trouble>>
    /\ \E t \in Winners : ShedOff(t) \/ Abstain(t) \/ FindHeld(t) \/ Admit(t)

Poll == PollBehind \/ PollNothing \/ PollPicks

-----------------------------------------------------------------------------
(* What happens between polls.                                             *)

\* Tasks that go first whatever waits do not come due so often that they
\* leave no room: their cadence is a day, or the first slices of a corpus.
ComeDue(t) ==
    /\ t \notin due
    /\ t \in PriorityZero \cup critical => \A u \in due : passed[u] < MaxPasses
    /\ due' = due \cup {t}
    /\ UNCHANGED <<running, lease, since, starved, entry, passed, critical, shed, trouble>>

\* The lane has its own lease, and starts.
Begin(t) ==
    /\ lease = t
    /\ running = NoTask
    /\ Started(t)
    /\ Settle([since EXCEPT ![t] = 0], entry)
    /\ UNCHANGED <<lease, critical, shed, trouble>>

\* Its own lease is held elsewhere: markSkipped, and nothing ran.
SkipOwnLease(t) ==
    /\ Suffer("skip")
    /\ lease = t
    /\ running = NoTask
    /\ lease' = NoTask
    /\ UNCHANGED <<due, running, since, starved, entry, passed, critical, shed>>

\* Completed, skipped or failed; the lease is released when the run settles.
Finish ==
    /\ running # NoTask
    /\ running' = NoTask
    /\ lease' = NoTask
    /\ UNCHANGED <<due, since, starved, entry, passed, critical, shed, trouble>>

\* isProviderWarmStillAdmitted: it waits while the heavy lane is in use,
\* and is no waiter once it is let in.  Its streak is never ended.
ActuatorChecks(a) ==
    /\ IF running # NoTask \/ lease # NoTask
       THEN Settle(Streaks({a}), Ledger({a}))
       ELSE Settle(since, [entry EXCEPT ![a] = NoEntry])
    /\ UNCHANGED <<due, running, lease, passed, critical, shed, trouble>>

\* Another streak passes fairnessYieldAfterMs.
Starve ==
    /\ \E p \in Party : since[p] > starved \/ (entry[p] # NoEntry /\ entry[p].since > starved)
    /\ starved' = starved + 1
    /\ UNCHANGED <<due, running, lease, since, entry, passed, critical, shed, trouble>>

\* A command line takes the lease, which no fairness rule keeps it from.
OutsideTakes ==
    /\ Suffer("outside")
    /\ lease = NoTask
    /\ lease' = Outside
    /\ UNCHANGED <<due, running, since, starved, entry, passed, critical, shed>>

OutsideLeaves ==
    /\ lease = Outside
    /\ lease' = NoTask
    /\ UNCHANGED <<due, running, since, starved, entry, passed, critical, shed, trouble>>

OpenShedWindow ==
    /\ Suffer("shed")
    /\ ~shed
    /\ shed' = TRUE
    /\ UNCHANGED <<due, running, lease, since, starved, entry, passed, critical>>

CloseShedWindow ==
    /\ shed
    /\ shed' = FALSE
    /\ UNCHANGED <<due, running, lease, since, starved, entry, passed, critical, trouble>>

\* The class is read afresh each time; a registered entry keeps the old one.
ChangeClass(t) ==
    /\ Suffer("class")
    /\ critical' = IF t \in critical THEN critical \ {t} ELSE critical \cup {t}
    /\ UNCHANGED <<due, running, lease, since, starved, entry, passed, shed>>

\* The work is gone before the task ran; streak and entry are not touched.
Withdraw(t) ==
    /\ Suffer("withdrawn")
    /\ t \in due
    /\ due' = due \ {t}
    /\ UNCHANGED <<running, lease, since, starved, entry, passed, critical, shed>>

\* Mutant of Restart: the interrupted run is read back as running.
RestartRunning ==
    /\ Suffer("restart")
    /\ running' = running
    /\ lease' = IF lease = Outside THEN Outside ELSE NoTask
    /\ Settle([p \in Party |-> IF p \in Task THEN since[p] ELSE 0], entry)
    /\ shed' = FALSE
    /\ UNCHANGED <<due, passed, critical>>

\* A run is interrupted and the lease of the dead holder is free to take;
\* the streaks of tasks are in the state file, those of others are not.
Restart ==
    /\ Suffer("restart")
    /\ running' = NoTask
    /\ lease' = IF lease = Outside THEN Outside ELSE NoTask
    /\ Settle([p \in Party |-> IF p \in Task THEN since[p] ELSE 0], entry)
    /\ shed' = FALSE
    /\ UNCHANGED <<due, passed, critical>>

Next ==
    \/ Poll
    \/ PollElsewhere
    \/ \E t \in Task : ComeDue(t) \/ Begin(t) \/ SkipOwnLease(t) \/ Withdraw(t)
    \/ Finish
    \/ \E a \in Actuator : ActuatorChecks(a)
    \/ Starve
    \/ OutsideTakes \/ OutsideLeaves
    \/ OpenShedWindow \/ CloseShedWindow
    \/ \E t \in Bootstrap : ChangeClass(t)
    \/ Restart

Spec == Init /\ [][Next]_vars

\* The poll timer is armed again by every poll, a run settles or is ended by
\* its watchdog, a lease ends by release or by age, a window by the clock.
FairSpec ==
    /\ Spec
    /\ WF_vars(Poll)
    /\ WF_vars(Finish)
    /\ \A t \in LateStart : WF_vars(Begin(t))
    /\ WF_vars(OutsideLeaves)
    /\ WF_vars(CloseShedWindow)

-----------------------------------------------------------------------------
(* Properties.                                                             *)

\* An entry tells what is so: the class and the streak its task has now.
IsCurrent(t) ==
    entry[t] # NoEntry => entry[t].rank = Rank(t) /\ entry[t].since = since[t]

\* The selection and the admission agree: when the lane is free, everybody
\* who waits is a candidate, and the ledger is not out of date, a poll starts
\* somebody; it is not spent on a winner that stands back.
NoPollIsWasted ==
    [][ /\ running = NoTask /\ lease = NoTask /\ ~shed
        /\ due # {}
        /\ Waiters \subseteq due
        /\ \A t \in due : IsCurrent(t)
        /\ PollPicks
        => lease' # NoTask ]_vars

\* The deferred do not wait for each other for ever: a task that is due runs,
\* or is no longer due.
EveryDueTaskRuns == \A t \in Task : t \in due ~> t \notin due
=============================================================================
