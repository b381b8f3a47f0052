---------------------------- MODULE WakeDelivery ----------------------------
(***************************************************************************)
(* The delivery half of the wake daemon (ai/daemons/wake/daemon.mjs) for   *)
(* one recipient: the poll loop that moves GraphLog entries into the       *)
(* coalescing queues of the recipient's subscriptions, the flush of a      *)
(* queue, the bounded attempt of an adapter, the retry store, the three    *)
(* files a daemon leaves to its successor, and the succession itself.      *)
(* Identities share nothing but the chain that serializes their adapters,  *)
(* so one recipient stands for all of them.                                *)
(*                                                                         *)
(* A digest is the set of its events.  Timers are abstract: a queue whose  *)
(* flush is deferred (unread participation, heavy delta, refractory, an    *)
(* attempt in flight) re-arms its timer and stays as it is, so deferring   *)
(* is not an action, and what is due is a matter of fairness.              *)
(*                                                                         *)
(* History variables: landings counts what reached the seat.  The others   *)
(* collect what the code gives up, so that the properties can speak of all *)
(* the rest:                                                               *)
(*   excused    events dropped on purpose (retry cap, refusal, bench, a    *)
(*              pulse beside something actionable),                        *)
(*   doubtful   events of an attempt that timed out on a transport nobody  *)
(*              can abort,                                                 *)
(*   forgotten  events that landed, but a successor does not know,         *)
(*   perished   events that were only in the memory of a daemon that       *)
(*              ended: nobody gives them up, they are lost.                *)
(***************************************************************************)
EXTENDS Naturals, Sequences, FiniteSets

CONSTANTS
    Subs,           \* the recipient's active subscriptions
    Messages,       \* messages sent to the recipient
    Signals,        \* tasks, permissions and heartbeats: not in a mailbox
    Pulses,         \* the heartbeats among them
    Wants,          \* what each subscription's trigger and filters let through
    MaxRetries,     \* MAX_DELIVERY_RETRIES
    Faults,         \* the kinds of fault that may happen
    MaxFaults       \* bound: how many of them

Events == Messages \cup Signals

FaultKinds == {"replay", "bench", "age", "unreadable", "cursorFails",
               "stateFails", "unknown", "restart", "succession"}

ASSUME WakeAssumption ==
    /\ Messages \cap Signals = {}
    /\ Pulses \subseteq Signals
    /\ Wants \in [Subs -> SUBSET Events]
    /\ MaxRetries \in Nat \ {0}
    /\ Faults \subseteq FaultKinds
    /\ MaxFaults \in Nat

VARIABLES
    log,           \* GraphLog: its entries in order; log_id is the position
    read,          \* the messages the recipient has read
    aged,          \* the messages past the canonical age horizon
    benched,       \* does the identity node record a non-active status?
    participation, \* what the daemon knows of it
    cursor,        \* lastSyncId
    savedCursor,   \* STATE_FILE
    queue,         \* coalesceState: the queued events with their log ids
    attempts,      \* the adapter attempts that are unresolved
    pending,       \* the keys of pendingDeliveryRetries
    held,          \* the events of each entry
    tries,         \* the failed attempts of each entry
    claims,        \* wokenMessageIdsByIdentity
    mark,          \* wokenWatermark
    saved,         \* WOKEN_WATERMARK_FILE
    successor,     \* what a starting daemon has loaded of it, if there is one
    landings,      \* history: how often each event has reached the seat
    excused, doubtful, forgotten, perished,  \* history, see above
    faults         \* how many faults there have been

mailbox == <<log, read, aged, benched>>
cursors == <<cursor, savedCursor>>
store   == <<pending, held, tries>>
woken   == <<claims, mark, saved>>
ended   == <<forgotten, perished>>
history == <<landings, excused, doubtful, ended>>
vars    == <<mailbox, participation, cursors, queue, attempts, store, woken,
             successor, history, faults>>

Woken == [claims : SUBSET Messages, mark : [Subs -> 0..Len(log)]]

Item(e, i) == [ev |-> e, pos |-> i]
Attempt(s, k, es, up) == [sub |-> s, kind |-> k, events |-> es, upTo |-> up]

Init ==
    /\ log = <<>>
    /\ read = {} /\ aged = {}
    /\ benched = FALSE /\ participation = "unread"
    /\ cursor = 0 /\ savedCursor = 0
    /\ queue = [s \in Subs |-> {}]
    /\ attempts = {}
    /\ pending = {}
    /\ held = [s \in Subs |-> {}]
    /\ tries = [s \in Subs |-> 0]
    /\ claims = {}
    /\ mark = [s \in Subs |-> 0]
    /\ saved = [claims |-> {}, mark |-> [s \in Subs |-> 0]]
    /\ successor = {}
    /\ landings = [s \in Subs |-> [e \in Events |-> 0]]
    /\ excused = {} /\ doubtful = {} /\ forgotten = {} /\ perished = {}
    /\ faults = 0

Fault(kind) == kind \in Faults /\ faults < MaxFaults /\ faults' = faults + 1

BothFaults(k, l) ==
    {k, l} \subseteq Faults /\ faults + 1 < MaxFaults /\ faults' = faults + 2

-----------------------------------------------------------------------------
(* What the rest of the system does.                                       *)

Entries == {log[i] : i \in 1..Len(log)}

Emit(e) ==
    /\ e \notin Entries
    /\ log' = Append(log, e)
    /\ UNCHANGED <<read, aged, benched, participation, cursors, queue,
                   attempts, store, woken, successor, history, faults>>

\* A projection replay emits a message under a later log id.
EmitAgain(m) ==
    /\ m \in Entries
    /\ Fault("replay")
    /\ log' = Append(log, m)
    /\ UNCHANGED <<read, aged, benched, participation, cursors, queue,
                   attempts, store, woken, successor, history>>

Read(m) ==
    /\ m \in Entries \ read
    /\ read' = read \cup {m}
    /\ UNCHANGED <<log, aged, benched, participation, cursors, queue,
                   attempts, store, woken, successor, history, faults>>

Age(m) ==
    /\ m \in Entries \ aged
    /\ Fault("age")
    /\ aged' = aged \cup {m}
    /\ UNCHANGED <<log, read, benched, participation, cursors, queue,
                   attempts, store, woken, successor, history>>

SetBench ==
    /\ Fault("bench")
    /\ benched' = ~benched
    /\ UNCHANGED <<log, read, aged, participation, cursors, queue,
                   attempts, store, woken, successor, history>>

-----------------------------------------------------------------------------
(* The poll loop.                                                          *)

InFlight == {a.sub : a \in attempts}
Retrying == \E a \in attempts : a.kind = "retry"

\* Only the first entry of an event that is not queued yet is pushed.
Arrivals(s) ==
    {Item(log[i], i) : i \in
        {i \in cursor + 1..Len(log) :
            /\ log[i] \in Wants[s] \ read
            /\ \A q \in queue[s] : q.ev # log[i]
            /\ \A j \in cursor + 1..i - 1 : log[j] # log[i]}}

Poll ==
    /\ ~Retrying
    /\ IF benched
       THEN /\ participation' = "benched"
            /\ queue' = queue
            /\ excused' = excused \cup
                   {p \in Subs \X Events : p[2] \in Wants[p[1]] /\
                       \E i \in cursor + 1..Len(log) : log[i] = p[2]}
       ELSE /\ participation' = "eligible"
            /\ queue' = [s \in Subs |-> queue[s] \cup Arrivals(s)]
            /\ excused' = excused
    /\ cursor' = Len(log)
    /\ IF cursor < Len(log)
       THEN \/ savedCursor' = cursor' /\ UNCHANGED faults
            \/ Fault("cursorFails") /\ UNCHANGED savedCursor
       ELSE UNCHANGED <<savedCursor, faults>>
    /\ UNCHANGED <<mailbox, attempts, store, woken, successor, landings,
                   doubtful, ended>>

PollUnreadable ==
    /\ ~Retrying
    /\ Fault("unreadable")
    /\ participation' = "unread"
    /\ UNCHANGED <<mailbox, cursors, queue, attempts, store, woken, successor,
                   history>>

-----------------------------------------------------------------------------
(* Persisting what has been woken, without the claims of read messages.    *)

Saves(c, m) ==
    /\ claims' = c \ read
    /\ mark' = m
    /\ saved' = [claims |-> c \ read, mark |-> m]

\* The file could not be written: memory goes on without it.
SaveFails(c, m) ==
    /\ claims' = c \ read
    /\ mark' = m
    /\ saved' = saved

Persists(c, m) ==
    \/ Saves(c, m) /\ UNCHANGED faults
    \/ SaveFails(c, m) /\ Fault("stateFails")

Advanced(s, k) == [mark EXCEPT ![s] = IF k > mark[s] THEN k ELSE mark[s]]

\* maxLogId
IsLast(k, items) ==
    /\ \A i \in items : i.pos <= k
    /\ \E i \in items : i.pos = k

-----------------------------------------------------------------------------
(* Flushing the queue of a subscription.                                   *)

Survivors(s) == {i \in queue[s] : i.ev \notin read /\ i.pos > mark[s]}

Named(items) == {i.ev : i \in items}

\* Mutant of Unclaimed: the positional watermark alone, no claims.
UnclaimedAll(s) == Named(Survivors(s)) \cap Messages

Unclaimed(s) == (Named(Survivors(s)) \cap Messages) \ claims

\* A pulse is left out of a digest that carries anything else.
Actionable(s) ==
    (Unclaimed(s) \ aged) \cup ((Named(Survivors(s)) \cap Signals) \ Pulses)

Digest(s) ==
    IF Actionable(s) # {} THEN Actionable(s)
                          ELSE Named(Survivors(s)) \cap Pulses

Spared(s) == (Named(Survivors(s)) \cap Pulses) \ Digest(s)

FlushBenched(s) ==
    /\ queue[s] # {}
    /\ participation = "benched"
    /\ queue' = [queue EXCEPT ![s] = {}]
    /\ excused' = excused \cup ({s} \X Named(queue[s]))
    /\ UNCHANGED <<mailbox, participation, cursors, attempts, store, woken,
                   successor, landings, doubtful, ended, faults>>

\* Mutant of Takes: the flush does not look at deliveryInFlight.
TakesInFlight(s) ==
    /\ queue[s] # {}
    /\ participation = "eligible"
    /\ queue' = [queue EXCEPT ![s] = {}]

\* The queue is due, and no attempt of the subscription is in flight.
Takes(s) ==
    /\ queue[s] # {}
    /\ participation = "eligible"
    /\ s \notin InFlight
    /\ queue' = [queue EXCEPT ![s] = {}]

\* What survives the filters is consumed, offered or not.
Consumes(s) ==
    \E k \in 1..Len(log) :
        /\ IsLast(k, Survivors(s))
        /\ Persists(claims \cup Unclaimed(s), Advanced(s, k))

FlushNothing(s) ==
    /\ Takes(s)
    /\ Digest(s) = {}
    /\ IF Survivors(s) = {}
       THEN UNCHANGED <<woken, faults>>
       ELSE Consumes(s)
    /\ UNCHANGED <<mailbox, participation, cursors, attempts, store, successor,
                   history>>

\* Merge, don't stack: the seat has not seen the pending digest.
FlushMerge(s) ==
    /\ Takes(s)
    /\ Digest(s) # {}
    /\ s \in pending
    /\ held' = [held EXCEPT ![s] = held[s] \cup Digest(s)]
    /\ Consumes(s)
    /\ excused' = excused \cup ({s} \X Spared(s))
    /\ UNCHANGED <<mailbox, participation, cursors, attempts, pending, tries,
                   successor, landings, doubtful, ended>>

\* The claims are in memory before the adapter is awaited, the watermark and
\* the file follow when it has answered.
FlushOut(s) ==
    /\ Takes(s)
    /\ Digest(s) # {}
    /\ s \notin pending
    /\ claims' = claims \cup Unclaimed(s)
    /\ \E k \in 1..Len(log) :
           /\ IsLast(k, Survivors(s))
           /\ attempts' = attempts \cup {Attempt(s, "direct", Digest(s), k)}
    /\ excused' = excused \cup ({s} \X Spared(s))
    /\ UNCHANGED <<mailbox, participation, cursors, store, mark, saved,
                   successor, landings, doubtful, ended, faults>>

-----------------------------------------------------------------------------
(* What a direct attempt ends with.                                        *)

Landed(a) == [landings EXCEPT ![a.sub] = [e \in Events |->
    IF e \in a.events /\ landings[a.sub][e] < 2
    THEN landings[a.sub][e] + 1 ELSE landings[a.sub][e]]]

Ends(a, kind) ==
    /\ a.kind = kind
    /\ attempts' = attempts \ {a}
    /\ UNCHANGED <<mailbox, participation, cursors, queue, successor,
                   ended>>

Consumed(a) == Persists(claims, Advanced(a.sub, a.upTo))

DirectDelivered(a) ==
    /\ Ends(a, "direct")
    /\ Consumed(a)
    /\ landings' = Landed(a)
    /\ UNCHANGED <<store, excused, doubtful>>

DirectSkipped(a) ==
    /\ Ends(a, "direct")
    /\ Consumed(a)
    /\ excused' = excused \cup ({a.sub} \X a.events)
    /\ UNCHANGED <<store, landings, doubtful>>

DirectFailed(a) ==
    /\ Ends(a, "direct")
    /\ Consumed(a)
    /\ IF participation = "benched"
       THEN /\ excused' = excused \cup ({a.sub} \X a.events)
            /\ UNCHANGED store
       ELSE /\ pending' = pending \cup {a.sub}
            /\ held' = [held EXCEPT ![a.sub] = held[a.sub] \cup a.events]
            /\ tries' = [tries EXCEPT ![a.sub] =
                             IF a.sub \in pending THEN tries[a.sub] ELSE 0]
            /\ UNCHANGED excused
    /\ UNCHANGED <<landings, doubtful>>

\* Whether the attempt has landed is not known; the watermark stays.
DirectUnknown(a) ==
    /\ Ends(a, "direct")
    /\ landings' \in {landings, Landed(a)}
    /\ doubtful' = doubtful \cup ({a.sub} \X a.events)
    /\ IF a.events \cap Messages = {}
       THEN Fault("unknown") /\ UNCHANGED woken
       ELSE \/ Fault("unknown") /\ Saves(claims, mark)
            \/ BothFaults("unknown", "stateFails") /\ SaveFails(claims, mark)
    /\ UNCHANGED <<store, excused>>

-----------------------------------------------------------------------------
(* The retry store, once per poll cycle, one entry after the other.        *)

Due(s) == s \in pending /\ ~Retrying

Removed(s) ==
    /\ pending' = pending \ {s}
    /\ held' = [held EXCEPT ![s] = {}]
    /\ tries' = [tries EXCEPT ![s] = 0]

Live(s) == held[s] \ (read \cup aged)

RetryBenched(s) ==
    /\ Due(s)
    /\ participation = "benched"
    /\ Removed(s)
    /\ excused' = excused \cup ({s} \X held[s])
    /\ UNCHANGED <<mailbox, participation, cursors, queue, attempts, woken,
                   successor, landings, doubtful, ended, faults>>

RetryDrop(s) ==
    /\ Due(s)
    /\ participation = "eligible"
    /\ Live(s) = {}
    /\ Removed(s)
    /\ UNCHANGED <<mailbox, participation, cursors, queue, attempts, woken,
                   successor, history, faults>>

\* Snapshot and swap: the entry stays, empty, while its events are offered.
RetryOut(s) ==
    /\ Due(s)
    /\ participation = "eligible"
    /\ Live(s) # {}
    /\ attempts' = attempts \cup {Attempt(s, "retry", Live(s), 0)}
    /\ held' = [held EXCEPT ![s] = {}]
    /\ UNCHANGED <<mailbox, participation, cursors, queue, pending, tries,
                   woken, successor, history, faults>>

\* Events merged meanwhile start a cycle of their own.
Retires(s) ==
    IF held[s] # {} THEN /\ tries' = [tries EXCEPT ![s] = 0]
                         /\ UNCHANGED <<pending, held>>
                    ELSE Removed(s)

RetryDelivered(a) ==
    /\ Ends(a, "retry")
    /\ landings' = Landed(a)
    /\ Retires(a.sub)
    /\ UNCHANGED <<woken, excused, doubtful, faults>>

RetrySkipped(a) ==
    /\ Ends(a, "retry")
    /\ excused' = excused \cup ({a.sub} \X a.events)
    /\ Retires(a.sub)
    /\ UNCHANGED <<woken, landings, doubtful, faults>>

\* Mutant of RetryFailed: the cap is compared with the count before it.
RetryFailedOnceMore(a) ==
    /\ Ends(a, "retry")
    /\ IF tries[a.sub] >= MaxRetries
       THEN /\ Removed(a.sub)
            /\ excused' = excused \cup
                   ({a.sub} \X (a.events \cup held[a.sub]))
       ELSE /\ held' = [held EXCEPT ![a.sub] = held[a.sub] \cup a.events]
            /\ tries' = [tries EXCEPT ![a.sub] = tries[a.sub] + 1]
            /\ UNCHANGED <<pending, excused>>
    /\ UNCHANGED <<woken, landings, doubtful, faults>>

\* Mutant of RetryFailed: not counted, as an unknown outcome is not.
RetryFailedUncounted(a) ==
    /\ Ends(a, "retry")
    /\ held' = [held EXCEPT ![a.sub] = held[a.sub] \cup a.events]
    /\ UNCHANGED <<pending, tries, woken, excused, landings, doubtful, faults>>

RetryFailed(a) ==
    /\ Ends(a, "retry")
    /\ IF tries[a.sub] + 1 >= MaxRetries
       THEN /\ Removed(a.sub)
            /\ excused' = excused \cup
                   ({a.sub} \X (a.events \cup held[a.sub]))
       ELSE /\ held' = [held EXCEPT ![a.sub] = held[a.sub] \cup a.events]
            /\ tries' = [tries EXCEPT ![a.sub] = tries[a.sub] + 1]
            /\ UNCHANGED <<pending, excused>>
    /\ UNCHANGED <<woken, landings, doubtful, faults>>

\* The snapshot is offered again and the attempt is not counted.
RetryUnknown(a) ==
    /\ Ends(a, "retry")
    /\ Fault("unknown")
    /\ landings' \in {landings, Landed(a)}
    /\ doubtful' = doubtful \cup ({a.sub} \X a.events)
    /\ held' = [held EXCEPT ![a.sub] = held[a.sub] \cup a.events]
    /\ UNCHANGED <<pending, tries, woken, excused>>

-----------------------------------------------------------------------------
(* A daemon ends and another one takes its place.  A daemon that finds     *)
(* another one running has loaded the woken state before it ends it; the   *)
(* cursor it reads afterwards.                                             *)

\* Does a daemon that starts from w know that s has offered e?
Knows(w, s, e) ==
    IF e \in Messages THEN e \in w.claims
    ELSE \E i \in 1..Len(log) : log[i] = e /\ i <= w.mark[s]

Carries(digests, s, e) == \E a \in digests : a.sub = s /\ e \in a.events

InHand(s, e) == e \in held[s] \/ Carries(attempts, s, e)

Waiting(s, e) == e \in Named(queue[s]) \/ InHand(s, e)

\* For a message one of the recipient's routes is enough.
Through(s, e) ==
    {r \in Subs : e \in Wants[r] /\ (e \in Messages \/ r = s)}

Settled(s, e) ==
    \/ e \in read \cup aged
    \/ landings[s][e] > 0
    \/ <<s, e>> \in excused \cup doubtful

\* Will a daemon that starts from w, and whoever starts from the files after
\* it, come to e again?  It must lie past the saved cursor, and past every
\* watermark and outside the claims, or it is filtered out.
Returns(w, s, e) ==
    \A v \in {w, saved} :
        /\ e \notin v.claims
        /\ \A i \in 1..Len(log) : log[i] = e =>
               i > savedCursor /\ \A t \in Through(s, e) : i > v.mark[t]

\* Mutant of Resumes: a daemon starts at the tip of the log, as it does
\* without a cursor file.
ResumesAtTip == cursor' = Len(log) /\ UNCHANGED savedCursor

\* getLastSyncId
Resumes == cursor' = savedCursor /\ UNCHANGED savedCursor

\* Queue, retry store and attempts end with the daemon: nothing of them is in
\* a file, while the cursor is saved when an event has only been queued.
Begins(w, landed) ==
    /\ UNCHANGED <<mailbox, excused, doubtful>>
    /\ claims' = w.claims
    /\ mark' = w.mark
    /\ UNCHANGED saved
    /\ Resumes
    /\ participation' = "unread"
    /\ queue' = [s \in Subs |-> {}]
    /\ attempts' = {}
    /\ pending' = {}
    /\ held' = [s \in Subs |-> {}]
    /\ tries' = [s \in Subs |-> 0]
    /\ landings' = [s \in Subs |-> [e \in Events |->
           IF Carries(landed, s, e) /\ landings[s][e] < 2
           THEN landings[s][e] + 1 ELSE landings[s][e]]]
    /\ forgotten' = forgotten \cup
           {p \in Subs \X Events :
               landings'[p[1]][p[2]] > 0 /\ ~Knows(w, p[1], p[2])}
    /\ perished' = perished \cup
           {p \in Subs \X Events :
               /\ Waiting(p[1], p[2])
               /\ ~Returns(w, p[1], p[2])
               /\ \A r \in Through(p[1], p[2]) : ~Settled(r, p[2])'}

Restart ==
    /\ successor = {}
    /\ Fault("restart")
    /\ \E landed \in SUBSET attempts : Begins(saved, landed)
    /\ UNCHANGED successor

StartSuccessor ==
    /\ successor = {}
    /\ Fault("succession")
    /\ successor' = {saved}
    /\ UNCHANGED <<mailbox, participation, cursors, queue, attempts, store,
                   woken, history>>

TakeOver ==
    /\ \E w \in successor : \E landed \in SUBSET attempts : Begins(w, landed)
    /\ successor' = {}
    /\ UNCHANGED faults

-----------------------------------------------------------------------------
External ==
    \/ \E e \in Events : Emit(e)
    \/ \E m \in Messages : EmitAgain(m) \/ Read(m) \/ Age(m)
    \/ SetBench

Flush(s) == FlushBenched(s) \/ FlushNothing(s) \/ FlushMerge(s) \/ FlushOut(s)

Retry(s) == RetryBenched(s) \/ RetryDrop(s) \/ RetryOut(s)

Resolve(a) ==
    \/ DirectDelivered(a) \/ DirectSkipped(a) \/ DirectFailed(a)
    \/ DirectUnknown(a)
    \/ RetryDelivered(a) \/ RetrySkipped(a) \/ RetryFailed(a)
    \/ RetryUnknown(a)

Succession == Restart \/ StartSuccessor \/ TakeOver

Next ==
    \/ External
    \/ Poll \/ PollUnreadable
    \/ \E s \in Subs : Flush(s) \/ Retry(s)
    \/ \E a \in attempts : Resolve(a)
    \/ Succession

Spec == Init /\ [][Next]_vars

\* The poll loop and the flush timers go on for ever, an attempt is bounded by
\* attemptTimeoutSeconds, a predecessor that is told to end ends.
FairSpec ==
    /\ Spec
    /\ WF_vars(Poll)
    /\ \A s \in Subs : WF_vars(Flush(s)) /\ WF_vars(Retry(s))
    /\ WF_vars(\E a \in attempts : Resolve(a))
    /\ WF_vars(TakeOver)

-----------------------------------------------------------------------------
\* The state of the daemon and of its files is well formed.
TypeOK ==
    /\ log \in Seq(Events)
    /\ read \subseteq Messages /\ aged \subseteq Messages
    /\ benched \in BOOLEAN
    /\ participation \in {"unread", "eligible", "benched"}
    /\ cursor \in 0..Len(log) /\ savedCursor \in 0..cursor
    /\ queue \in [Subs -> SUBSET [ev : Events, pos : 1..Len(log)]]
    /\ \A a \in attempts :
           /\ a \in [sub : Subs, kind : {"direct", "retry"},
                     events : SUBSET Events, upTo : 0..Len(log)]
           /\ a.events # {}
           /\ a.kind = "retry" => a.sub \in pending
    /\ pending \subseteq Subs
    /\ held \in [Subs -> SUBSET Events]
    /\ tries \in [Subs -> 0..MaxRetries - 1]
    /\ \A s \in Subs \ pending : held[s] = {}
    /\ claims \subseteq Messages
    /\ mark \in [Subs -> 0..Len(log)]
    /\ saved \in Woken
    /\ successor \subseteq Woken
    /\ landings \in [Subs -> [Events -> 0..2]]
    /\ excused \subseteq Subs \X Events
    /\ doubtful \subseteq Subs \X Events
    /\ forgotten \subseteq Subs \X Events
    /\ perished \subseteq Subs \X Events
    /\ faults \in 0..MaxFaults

\* "One delivery owner per subscription" (daemon.mjs:911): a direct attempt
\* and a retry of one subscription are never unresolved together, although the
\* retry loop does not look at deliveryInFlight.
OneDeliveryOwner ==
    \A a, b \in attempts : a.sub = b.sub => a = b

Reached(e) == {s \in Subs : landings[s][e] > 0}

\* One physical prompt: whatever routes, replays, retries and restarts there
\* are, a message reaches the seat once, by one route, and a signal once by
\* each, except when an attempt ended unknown or a daemon was started from a
\* state that did not know of the first prompt.
OnePrompt ==
    /\ \A s \in Subs : \A e \in Events :
           \/ landings[s][e] <= 1
           \/ <<s, e>> \in doubtful \cup forgotten
    /\ \A m \in Messages : \A s, t \in Reached(m) :
           \/ s = t
           \/ \E r \in Reached(m) : <<r, m>> \in doubtful \cup forgotten

\* What has left the queues of the routes: handled, or in the daemon's hands,
\* or lost with a daemon.
Handled(r, e) == Settled(r, e) \/ InHand(r, e) \/ <<r, e>> \in perished

Offered(s, e) == \E r \in Through(s, e) : Handled(r, e)

\* As long as a daemon lives it loses no wake on the way: an event the cursor
\* has passed waits in the queue of every subscription that wants it, or is in
\* an attempt, in the retry store or settled by one of the ways the code names,
\* unless it perished with the memory of an earlier daemon; and what a daemon
\* that begins does read again does not count as passed.
NothingIsLost ==
    \A s \in Subs : \A i \in 1..cursor :
        log[i] \in Wants[s] =>
            log[i] \in Named(queue[s]) \/ Offered(s, log[i])

\* A watermark covers nothing that is still to be offered for the first time:
\* what the queue of a subscription holds below it was offered before.
MarkIsBehind ==
    \A s \in Subs : \A i \in queue[s] :
        i.pos <= mark[s] => Offered(s, i.ev)

AllSettled ==
    \A e \in Entries : \A s \in Subs :
        e \in Wants[s] => \E r \in Through(s, e) :
            Settled(r, e) \/ <<r, e>> \in perished

\* Every event that was emitted is eventually prompted, read, or given up by
\* name, unless it perished with the memory of a daemon.  What is settled stays
\* so and there are finitely many events, so this is the same as leading to it
\* event by event.
EveryWakeIsSettled == []<>AllSettled

\* daemon.mjs:2111-2115: after an attempt of unknown outcome "the next natural
\* flush re-includes anything still unread".
NextFlushReincludes ==
    [][\A a \in attempts' \ attempts : a.kind = "direct" =>
          \A m \in Messages \ (read \cup aged) :
              /\ <<a.sub, m>> \in doubtful \ (excused \cup perished)
              /\ landings[a.sub][m] = 0
              => m \in a.events]_vars

-----------------------------------------------------------------------------
(* The handover.  A wake is an event of the log and a subscription that    *)
(* wants it.  It is owed while the cursor has not passed it, or a queue,   *)
(* an attempt or the retry store has it; it is handed over when the seat   *)
(* has been prompted, on any route if it is a message, or has no need, or  *)
(* the daemon has given it up by name.  What perishes with a daemon is     *)
(* neither: it is waived.                                                  *)

Wanted == {p \in Subs \X Events : p[2] \in Wants[p[1]]}

Again(s, e) ==
    \/ landings[s][e] > 1
    \/ e \in Messages /\ \E r, t \in Reached(e) : r # t

Ahead(e) == \E i \in cursor + 1..Len(log) : log[i] = e

PhaseOf(s, e) ==
    IF Again(s, e) THEN "again"
    ELSE IF \E r \in Through(s, e) : Settled(r, e) THEN "handed"
    ELSE IF e \notin Entries THEN "new"
    ELSE IF \/ Ahead(e) \/ e \in Named(queue[s])
            \/ \E r \in Through(s, e) : InHand(r, e) THEN "owed"
    ELSE "lost"

Waived ==
    {p \in Wanted : \E r \in Subs :
        /\ p[2] \in Messages \/ r = p[1]
        /\ <<r, p[2]>> \in doubtful \cup forgotten \cup perished}

Seat == INSTANCE Handover WITH
    Items <- Wanted,
    Before <- {},
    phase <- [p \in Wanted |-> PhaseOf(p[1], p[2])],
    waived <- Waived

\* From the log to the seat no wake is lost as long as the daemon lives, in no
\* poll, queue, merge, attempt or retry, and none that a restarted daemon or a
\* successor reads again is lost in the restart; and the seat is prompted for
\* none of them again, but for unknown outcomes and what a new daemon does not
\* know.  What was queued, attempted or waiting for a retry when a daemon ended,
\* and lies behind the saved cursor, a watermark or a claim, is lost
\* (daemon.mjs:614-615, perished) and waived.
ImplementsHandover == Seat!HandoverSpec
=============================================================================
