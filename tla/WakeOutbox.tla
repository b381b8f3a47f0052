----------------------------- MODULE WakeOutbox -----------------------------
(***************************************************************************)
(* The outbox of the route kimi-pull-bridge: the wake daemon appends a     *)
(* line per wake (deliverViaKimiPullBridge in wake/daemon.mjs, likewise    *)
(* deliverKimiPullBridge in wake/localWakeAdapters.mjs), the polls of the  *)
(* seat consume and compact it (wake/consumeWakeOutbox.mjs), and both do   *)
(* so under the strict lock of wake/outboxLock.mjs.                        *)
(*                                                                         *)
(* One file-system call is one step.  A process makes one call at a time;  *)
(* its name is used again for the next one.  The text of a lock file is    *)
(* the process it names: one of these, or one that is gone; no two texts   *)
(* of one file are the same.  A write that is cut short leaves a part.     *)
(***************************************************************************)
EXTENDS Naturals, Sequences

CONSTANTS
    Writers,    \* the processes that deliver wakes
    Consumers,  \* the polls of the seat
    Wakes,      \* logical wakes: a subscription and the events it reports
    Ids,        \* wakeId: a digest of the subscription and of the text
    IdOf,       \* the wakeId of each wake
    MaxOwner,   \* bound: the owners the wake envelope names in turn
    None,       \* nothing
    Gone,       \* a process that is no more
    Torn,       \* the beginning of a line of the ack ledger
    Faults,     \* the kinds of fault that may happen
    MaxFaults   \* bound: how many of them

FaultKinds == {"crash", "writeFails", "lateReturn"}

Procs == Writers \cup Consumers

ASSUME WakeOutboxAssumption ==
    /\ Writers \cap Consumers = {}
    /\ IdOf \in [Wakes -> Ids]
    /\ Torn \notin Ids /\ None \notin Ids \cup {Torn}
    /\ None \notin [wake : Wakes, owner : 1 .. MaxOwner]
    /\ None \notin Procs /\ Gone \notin Procs /\ None # Gone
    /\ MaxOwner \in Nat \ {0}
    /\ Faults \subseteq FaultKinds
    /\ MaxFaults \in Nat

Owners == 1 .. MaxOwner

\* What a line holds: {wakeId, agentIdentity, sessionId, processEpoch,
\* pidStartedAt}; the last four together name the owner.
Entries == [wake : Wakes, owner : Owners]

\* A line of the outbox; it does not parse (None), or is not yet ended.
Lines == [entry : Entries \cup {None}, ended : BOOLEAN]

VARIABLES
    lock,      \* the lock file: whose, and whether it has been written
    twin,      \* the live process that has the pid of a lock file's dead owner
    seen,      \* the processes that have read the dead owner's file that is there
    outbox,    \* the outbox, line by line
    acks,      \* the ids on the ended lines of the ack ledger ...
    ackTail,   \* ... and what follows the last of them
    dead,      \* the entries in the dead-letter file
    owner,     \* the owner the wake envelope names
    pc,        \* the next step of each process
    entry,     \* what a writer appends
    auth,      \* the owner a consumer has validated
    todo,      \* the lines it has read and not yet handled
    kept,      \* those it will write back
    known,     \* ackedIds
    accepted,  \* history: the entries a writer was told are queued
    surfaced,  \* history: how often each wake was shown to the seat
    doubtful,  \* history: ids shown whose receipt was not written, or lost
    garbled,   \* history: entries appended to a line that was not ended
    overtaken, \* history: owners who took over while a poll was under way
    clobbered, \* history: a reclaim removed the lock of a successor
    faults     \* how many faults have happened

lockVars == <<lock, twin, seen>>
ledgers == <<acks, ackTail, dead>>
workVars == <<entry, auth, todo, kept, known>>
history == <<accepted, surfaced, doubtful, garbled, overtaken, clobbered>>
vars == <<lockVars, outbox, ledgers, owner, pc, workVars, history, faults>>

Free == [by |-> None, whole |-> FALSE]

Labels == {"off", "idle", "try", "recheck", "reclaim", "create",
           "append", "load", "line", "ack", "release", "unlock"}

TypeOK ==
    /\ lock \in [by : Procs \cup {None, Gone}, whole : BOOLEAN]
    /\ twin \in Procs \cup {None}
    /\ seen \in SUBSET Procs
    /\ outbox \in Seq(Lines)
    /\ acks \in SUBSET Ids
    /\ ackTail \in Ids \cup {None, Torn}
    /\ dead \in SUBSET Entries
    /\ owner \in Owners
    /\ pc \in [Procs -> Labels]
    /\ entry \in [Procs -> Entries \cup {None}]
    /\ auth \in [Procs -> Owners]
    /\ todo \in [Procs -> Seq(Lines)]
    /\ kept \in [Procs -> Seq(Lines)]
    /\ known \in [Procs -> SUBSET Ids]
    /\ accepted \in SUBSET Entries
    /\ surfaced \in [Wakes -> 0 .. 2]
    /\ doubtful \in SUBSET Ids
    /\ garbled \in SUBSET Entries
    /\ overtaken \in SUBSET Owners
    /\ clobbered \in BOOLEAN
    /\ faults \in Nat

Init ==
    /\ lock = Free /\ twin = None /\ seen = {}
    /\ outbox = <<>>
    /\ acks = {} /\ ackTail = None /\ dead = {}
    /\ owner = 1
    /\ pc = [p \in Procs |-> "off"]
    /\ entry = [p \in Procs |-> None]
    /\ auth = [p \in Procs |-> 1]
    /\ todo = [p \in Procs |-> <<>>] /\ kept = [p \in Procs |-> <<>>]
    /\ known = [p \in Procs |-> {}]
    /\ accepted = {}
    /\ surfaced = [w \in Wakes |-> 0]
    /\ doubtful = {} /\ garbled = {} /\ overtaken = {}
    /\ clobbered = FALSE
    /\ faults = 0

\* The environment does harm of one kind.
Fault(kind) == kind \in Faults /\ faults < MaxFaults /\ faults' = faults + 1

Goto(p, label) == pc' = [pc EXCEPT ![p] = label]

\* defaultIsAlive, of the process a whole lock file names: a dead one whose pid was
\* given out again reads as alive.
HolderIsAlive == lock.by # Gone \/ twin # None

\* A new process may have the pid of a dead one.
Boot(p) ==
    \/ twin' = twin
    \/ lock.by = Gone /\ twin = None /\ twin' = p

\* The process of p ends: a lock file of its own is now one of a dead owner.
Exit(p) ==
    /\ twin' = IF twin = p THEN None ELSE twin
    /\ lock' = IF lock.by = p THEN [lock EXCEPT !.by = Gone] ELSE lock

\* The lock file is unlinked, whosever it is; what has been read of it is old.
Unlink == lock' = Free /\ twin' = None /\ seen' = {}

\* A call that is over leaves nothing behind.
Forget(p) ==
    /\ entry' = [entry EXCEPT ![p] = None]
    /\ auth' = [auth EXCEPT ![p] = 1]
    /\ todo' = [todo EXCEPT ![p] = <<>>]
    /\ kept' = [kept EXCEPT ![p] = <<>>]
    /\ known' = [known EXCEPT ![p] = {}]

-----------------------------------------------------------------------------
(***************************************************************************)
(* Calls                                                                   *)
(***************************************************************************)

StartWriter(p) ==
    /\ p \in Writers /\ pc[p] = "off"
    /\ Boot(p) /\ Goto(p, "idle")
    /\ UNCHANGED <<lock, seen, outbox, ledgers, owner, workVars, history, faults>>

\* deliverViaKimiPullBridge up to the lock: the envelope names a live owner.  A
\* wake whose attempt threw, or was given up before it answered, is delivered
\* again, under the same id.
Deliver(p, w) ==
    /\ p \in Writers /\ pc[p] = "idle"
    /\ \A e \in accepted : e.wake # w
    /\ entry' = [entry EXCEPT ![p] = [wake |-> w, owner |-> owner]]
    /\ Goto(p, "try")
    /\ UNCHANGED <<lockVars, outbox, ledgers, owner, auth, todo, kept, known,
                   history, faults>>

\* Mutant of Poll: a poll that takes its owner as it comes.
PollUnvalidated(p) ==
    /\ p \in Consumers /\ pc[p] = "off"
    /\ Boot(p) /\ Goto(p, "try")
    /\ auth' \in {[auth EXCEPT ![p] = o] : o \in 1 .. owner}
    /\ UNCHANGED <<lock, seen, outbox, ledgers, owner, entry, todo, kept, known,
                   history, faults>>

\* consumeWakeOutbox up to the lock: the envelope's owner is alive, and the poll
\* runs in its process tree.
Poll(p) ==
    /\ p \in Consumers /\ pc[p] = "off"
    /\ Boot(p) /\ Goto(p, "try")
    /\ auth' = [auth EXCEPT ![p] = owner]
    /\ UNCHANGED <<lock, seen, outbox, ledgers, owner, entry, todo, kept, known,
                   history, faults>>

\* A rotated seat writes a fresh envelope.
Rotate ==
    /\ owner < MaxOwner
    /\ owner' = owner + 1
    /\ overtaken' = IF \E p \in Consumers : pc[p] # "off"
                    THEN overtaken \cup {owner'} ELSE overtaken
    /\ UNCHANGED <<lockVars, outbox, ledgers, pc, workVars, accepted, surfaced,
                   doubtful, garbled, clobbered, faults>>

\* The call is over.
Over(p) ==
    /\ Goto(p, IF p \in Consumers THEN "off" ELSE "idle")
    /\ Forget(p)

\* A poll's process ends with it, a writer's goes on.
Leave(p) ==
    /\ Over(p)
    /\ IF p \in Consumers THEN Exit(p) ELSE UNCHANGED <<lock, twin>>

-----------------------------------------------------------------------------
(***************************************************************************)
(* withOutboxLock                                                          *)
(***************************************************************************)

\* Mutant of GiveUp: the call falls through to its write, as in the memory log.
GiveUpUnlocked(p) ==
    /\ pc[p] = "try"
    /\ IF p \in Writers THEN Goto(p, "append") /\ UNCHANGED <<workVars, lock, twin>>
       ELSE Leave(p)
    /\ UNCHANGED <<seen, outbox, ledgers, owner, history, faults>>

\* now() >= deadline: the call throws, its caller tries again later.
GiveUp(p) ==
    /\ pc[p] = "try"
    /\ Leave(p)
    /\ UNCHANGED <<seen, outbox, ledgers, owner, history, faults>>

\* The exclusive create.
Create(p) ==
    /\ pc[p] = "try" /\ lock = Free
    /\ lock' = [by |-> p, whole |-> FALSE]
    /\ Goto(p, "create")
    /\ UNCHANGED <<twin, seen, outbox, ledgers, owner, workVars, history, faults>>

\* Mutant of ReadHolder: a live holder is reclaimed too, as with a TTL.
ReadHolderByAge(p) ==
    /\ pc[p] = "try" /\ lock.whole
    /\ seen' = seen \cup {p}
    /\ Goto(p, "recheck")
    /\ UNCHANGED <<lock, twin, outbox, ledgers, owner, workVars, history, faults>>

\* EEXIST, and the file names a dead owner.  What does not parse is not reclaimed,
\* nor is a holder that is alive: then the call sleeps and tries again.
ReadHolder(p) ==
    /\ pc[p] = "try" /\ lock.whole /\ ~ HolderIsAlive
    /\ seen' = seen \cup {p}
    /\ Goto(p, "recheck")
    /\ UNCHANGED <<lock, twin, outbox, ledgers, owner, workVars, history, faults>>

\* Mutant of Recheck: the comparison the wrong way round.
RecheckSwapped(p) ==
    /\ pc[p] = "recheck"
    /\ Goto(p, IF p \in seen THEN "try" ELSE "reclaim")
    /\ UNCHANGED <<lockVars, outbox, ledgers, owner, workVars, history, faults>>

\* current === raw.
Recheck(p) ==
    /\ pc[p] = "recheck"
    /\ Goto(p, IF p \in seen THEN "reclaim" ELSE "try")
    /\ UNCHANGED <<lockVars, outbox, ledgers, owner, workVars, history, faults>>

\* The unlink is by name: it removes what is there by now.
Reclaim(p) ==
    /\ pc[p] = "reclaim"
    /\ Unlink
    /\ clobbered' = (clobbered \/ (lock # Free /\ p \notin seen))
    /\ Goto(p, "try")
    /\ UNCHANGED <<outbox, ledgers, owner, workVars, accepted, surfaced, doubtful, garbled,
                   overtaken, faults>>

\* writeFile writes the descriptor it has created the file for; whoever has
\* removed the file meanwhile is not told.
WriteDescriptor(p) ==
    /\ pc[p] = "create"
    /\ lock' = IF lock.by = p THEN [lock EXCEPT !.whole = TRUE] ELSE lock
    /\ Goto(p, IF p \in Writers THEN "append" ELSE "load")
    /\ UNCHANGED <<twin, seen, outbox, ledgers, owner, workVars, history, faults>>

\* The attempt has returned: the wake is queued.  Nothing is, if it threw.  An
\* attempt that returns after its bound is an unknown outcome: nobody is told.
Returned(p) ==
    \/ /\ accepted' = IF entry[p] = None THEN accepted ELSE accepted \cup {entry[p]}
       /\ UNCHANGED faults
    \/ entry[p] # None /\ Fault("lateReturn") /\ UNCHANGED accepted

\* The release reads the lock first, and compares the pid ...
Release(p) ==
    /\ pc[p] = "release"
    /\ IF lock.whole /\ p \in {lock.by, twin}
       THEN /\ Goto(p, "unlock")
            /\ UNCHANGED <<lock, twin, workVars, accepted, faults>>
       ELSE Leave(p) /\ Returned(p)
    /\ UNCHANGED <<seen, outbox, ledgers, owner, surfaced, doubtful, garbled, overtaken,
                   clobbered>>

\* ... and then unlinks it.
Unlock(p) ==
    /\ pc[p] = "unlock"
    /\ Unlink
    /\ Over(p) /\ Returned(p)
    /\ UNCHANGED <<outbox, ledgers, owner, surfaced, doubtful, garbled, overtaken,
                   clobbered>>

-----------------------------------------------------------------------------
(***************************************************************************)
(* The outbox                                                              *)
(***************************************************************************)

Open == outbox # <<>> /\ ~ outbox[Len(outbox)].ended
Front == SubSeq(outbox, 1, Len(outbox) - 1)

\* The outbox after the entry e, or None for a part of it, has been appended: to
\* the last line, when that one is not ended, which then no longer parses.
With(e, ended) ==
    IF Open THEN Append(Front, [entry |-> None, ended |-> ended])
            ELSE Append(outbox, [entry |-> e, ended |-> ended])

\* The entries that appending e makes unreadable.
Garbles(e) == IF Open THEN ({outbox[Len(outbox)].entry} \cup {e}) \ {None} ELSE {}

AppendEntry(p) ==
    /\ pc[p] = "append"
    /\ outbox' = With(entry[p], TRUE)
    /\ garbled' = garbled \cup Garbles(entry[p])
    /\ Goto(p, "release")
    /\ UNCHANGED <<lockVars, ledgers, owner, workVars, accepted, surfaced, doubtful,
                   overtaken, clobbered, faults>>

\* What the ack ledger says; a line that does not parse is passed over.
Acked == acks \cup ({ackTail} \cap Ids)

\* Mutant of Load: without the ack ledger.
LoadUnaware(p) ==
    /\ pc[p] = "load"
    /\ todo' = [todo EXCEPT ![p] = outbox]
    /\ known' = [known EXCEPT ![p] = {}]
    /\ Goto(p, "line")
    /\ UNCHANGED <<lockVars, outbox, ledgers, owner, entry, auth, kept, history, faults>>

\* Mutant of Load: whatever the ledger ends with counts as a receipt.
LoadVerbatim(p) ==
    /\ pc[p] = "load"
    /\ todo' = [todo EXCEPT ![p] = outbox]
    /\ known' = [known EXCEPT ![p] = acks \cup ({ackTail} \ {None})]
    /\ Goto(p, "line")
    /\ UNCHANGED <<lockVars, outbox, ledgers, owner, entry, auth, kept, history, faults>>

Load(p) ==
    /\ pc[p] = "load"
    /\ todo' = [todo EXCEPT ![p] = outbox]
    /\ known' = [known EXCEPT ![p] = Acked]
    /\ Goto(p, "line")
    /\ UNCHANGED <<lockVars, outbox, ledgers, owner, entry, auth, kept, history, faults>>

Line(p) == Head(todo[p])

\* A line that does not parse is kept for the next pass.
KeepLine(p) ==
    /\ pc[p] = "line" /\ todo[p] # <<>> /\ Line(p).entry = None
    /\ kept' = [kept EXCEPT ![p] = Append(@, [Line(p) EXCEPT !.ended = TRUE])]
    /\ todo' = [todo EXCEPT ![p] = Tail(@)]
    /\ UNCHANGED <<lockVars, outbox, ledgers, owner, pc, entry, auth, known, history,
                   faults>>

\* The line at hand holds another owner's entry, or one of the validated owner.
Foreign(p) ==
    /\ pc[p] = "line" /\ todo[p] # <<>> /\ Line(p).entry # None
    /\ Line(p).entry.owner # auth[p]

Readable(p) ==
    /\ pc[p] = "line" /\ todo[p] # <<>> /\ Line(p).entry # None
    /\ Line(p).entry.owner = auth[p]

DeadLetter(p) ==
    /\ Foreign(p)
    /\ dead' = dead \cup {Line(p).entry}
    /\ todo' = [todo EXCEPT ![p] = Tail(@)]
    /\ UNCHANGED <<lockVars, outbox, acks, ackTail, owner, pc, entry, auth, kept,
                   known, history, faults>>

DropDuplicate(p) ==
    /\ Readable(p)
    /\ IdOf[Line(p).entry.wake] \in known[p]
    /\ todo' = [todo EXCEPT ![p] = Tail(@)]
    /\ UNCHANGED <<lockVars, outbox, ledgers, owner, pc, entry, auth, kept, known,
                   history, faults>>

\* logger.log: from here to its receipt an entry is shown and not acknowledged.
Surface(p) ==
    /\ Readable(p)
    /\ LET w == Line(p).entry.wake
       IN  /\ IdOf[w] \notin known[p]
           /\ known' = [known EXCEPT ![p] = @ \cup {IdOf[w]}]
           /\ surfaced' = [surfaced EXCEPT ![w] = IF @ < 2 THEN @ + 1 ELSE @]
    /\ Goto(p, "ack")
    /\ UNCHANGED <<lockVars, outbox, ledgers, owner, entry, auth, todo, kept, accepted,
                   doubtful, garbled, overtaken, clobbered, faults>>

\* The receipt is appended: to the last line, when that one is not ended.
Acknowledge(p) ==
    /\ pc[p] = "ack"
    /\ LET i == IdOf[Line(p).entry.wake]
       IN  /\ acks' = IF ackTail = None THEN acks \cup {i} ELSE acks
           /\ doubtful' = IF ackTail = None THEN doubtful
                          ELSE doubtful \cup {i} \cup ({ackTail} \cap Ids)
    /\ ackTail' = None
    /\ todo' = [todo EXCEPT ![p] = Tail(@)]
    /\ Goto(p, "line")
    /\ UNCHANGED <<lockVars, outbox, dead, owner, entry, auth, kept, known, accepted,
                   surfaced, garbled, overtaken, clobbered, faults>>

\* The compaction writes what it has kept, in place.
Rewrite(p) ==
    /\ pc[p] = "line" /\ todo[p] = <<>>
    /\ outbox' = kept[p]
    /\ Goto(p, "release")
    /\ UNCHANGED <<lockVars, ledgers, owner, workVars, history, faults>>

-----------------------------------------------------------------------------
(***************************************************************************)
(* Faults                                                                  *)
(***************************************************************************)

\* What a call that ends here leaves of what it was writing.
CutShort(p) ==
    \/ /\ pc[p] = "append"
       /\ \E e \in {None, entry[p]} :
            /\ outbox' = With(e, FALSE)
            /\ garbled' = garbled \cup Garbles(e)
       /\ UNCHANGED <<acks, ackTail, doubtful>>
    \/ /\ pc[p] = "line" /\ todo[p] = <<>>
       /\ \E i \in 0 .. Len(kept[p]) :
            outbox' = IF i = 0 THEN <<>>
                      ELSE Append(SubSeq(kept[p], 1, i - 1), [entry |-> None, ended |-> FALSE])
       /\ UNCHANGED <<acks, ackTail, doubtful, garbled>>
    \/ /\ pc[p] = "ack"
       /\ \E t \in {Torn, IdOf[Line(p).entry.wake]} :
            /\ ackTail' = IF ackTail = None THEN t ELSE Torn
            /\ doubtful' = doubtful \cup ({ackTail} \cap Ids)
                           \cup (IF ackTail' = Torn THEN {IdOf[Line(p).entry.wake]} ELSE {})
       /\ UNCHANGED <<outbox, acks, garbled>>
    \/ /\ doubtful' = IF pc[p] = "ack" THEN doubtful \cup {IdOf[Line(p).entry.wake]}
                                      ELSE doubtful
       /\ UNCHANGED <<outbox, acks, ackTail, garbled>>

\* A process may die anywhere; its lock file stays.
Crash(p) ==
    /\ Fault("crash")
    /\ pc[p] # "off"
    /\ CutShort(p)
    /\ Goto(p, "off")
    /\ Exit(p)
    /\ seen' = seen \ {p}
    /\ Forget(p)
    /\ UNCHANGED <<dead, owner, accepted, surfaced, overtaken, clobbered>>

\* A write throws: inside the section the call still releases the lock.
WriteFails(p) ==
    /\ Fault("writeFails")
    /\ \/ pc[p] \in {"append", "ack"}
       \/ Foreign(p)
       \/ pc[p] = "line" /\ todo[p] = <<>>
    /\ CutShort(p)
    /\ Goto(p, "release")
    /\ entry' = [entry EXCEPT ![p] = None]
    /\ UNCHANGED <<lockVars, dead, owner, auth, todo, kept, known, accepted, surfaced,
                   overtaken, clobbered>>

\* The write of the descriptor throws: the file it has created stays.
DescriptorFails(p) ==
    /\ Fault("writeFails")
    /\ pc[p] = "create"
    /\ Leave(p)
    /\ UNCHANGED <<seen, outbox, ledgers, owner, history>>

-----------------------------------------------------------------------------
\* The rest of a call.
Proceed(p) ==
    \/ WriteDescriptor(p) \/ Recheck(p) \/ Reclaim(p)
    \/ Release(p) \/ Unlock(p)
    \/ AppendEntry(p)
    \/ Load(p) \/ KeepLine(p) \/ DeadLetter(p) \/ DropDuplicate(p)
    \/ Surface(p) \/ Acknowledge(p) \/ Rewrite(p)

Next ==
    \/ \E p \in Procs :
        \/ StartWriter(p) \/ Poll(p) \/ GiveUp(p) \/ Create(p) \/ ReadHolder(p) \/ Proceed(p)
        \/ Crash(p) \/ WriteFails(p) \/ DescriptorFails(p)
        \/ \E w \in Wakes : Deliver(p, w)
    \/ Rotate

Spec == Init /\ [][Next]_vars

\* A call that has begun goes on, a seat polls again and again, and its polls are
\* not for ever the ones to give up: a section takes milliseconds, an
\* acquisition tries for ten seconds.
Fairness ==
    /\ \A p \in Procs : WF_vars(Proceed(p))
    /\ \A p \in Consumers : WF_vars(Poll(p)) /\ SF_vars(Create(p)) /\ SF_vars(ReadHolder(p))

FairSpec == Spec /\ Fairness

-----------------------------------------------------------------------------
(***************************************************************************)
(* Properties                                                              *)
(***************************************************************************)

Inside(p) == pc[p] \in {"append", "load", "line", "ack"}

\* Appends and compactions do not interleave (wake/daemon.mjs:1569-1574), however
\* processes die, locks are reclaimed and pids come back - unless a reclaim has
\* removed the lock of a successor between its second read and its unlink
\* (outboxLock.mjs:98-104).
OneInside == \A p, q \in Procs : p # q /\ Inside(p) /\ Inside(q) => clobbered

Queued(e) == \E i \in 1 .. Len(outbox) : outbox[i].entry = e

\* Another wake of the same text has been shown.
Namesake(w) == \E v \in Wakes : v # w /\ IdOf[v] = IdOf[w] /\ surfaced[v] > 0

\* An entry that was reported as queued (wake/daemon.mjs:1703) is in the outbox, or
\* was shown or dead-lettered by a poll; or the text of its wake equals that of
\* one shown before; or it was appended to a line that a write cut short had not
\* ended; or two calls have met inside.
AcceptedIsKept ==
    \A e \in accepted :
        \/ Queued(e) \/ surfaced[e.wake] > 0 \/ e \in dead
        \/ Namesake(e.wake) \/ e \in garbled \/ clobbered

\* A wake is shown once, however often it is appended and however polls end,
\* unless one ended between showing it and the receipt, or the receipt was
\* appended to a line that was not ended (consumeWakeOutbox.mjs:213-219).
ShownOnce == \A w \in Wakes : surfaced[w] > 1 => IdOf[w] \in doubtful \/ clobbered

\* A poll that was under way when the seat rotated judges by the owner it had
\* validated before it waited for the lock; no other dead-letters an entry of
\* the seat's present owner (consumeWakeOutbox.mjs:136-156, 190-203).
LettersAreForeign ==
    \A e \in dead : e.owner = owner => owner \in overtaken

\* A lock file nobody will remove: it was never written, and its call is over; or
\* the pid of its dead owner is in use.
Jammed ==
    /\ lock # Free
    /\ \/ ~ lock.whole /\ (lock.by = Gone \/ pc[lock.by] # "create")
       \/ lock.by = Gone /\ twin # None

\* Every entry is read in the end, or the lock is left half-written, or under a pid
\* that is in use again, and stays for people to remove (outboxLock.mjs:86-89).
EveryEntryIsRead == \A e \in Entries : Queued(e) ~> (~ Queued(e) \/ Jammed)

-----------------------------------------------------------------------------
(***************************************************************************)
(* The handover.  A wake is owed to the seat while an entry of it that was *)
(* reported as queued is in the outbox; it is handed over when a poll has  *)
(* shown it or, for another owner, dead-lettered it.                       *)
(***************************************************************************)

PhaseOf(w) ==
    IF surfaced[w] > 1 THEN "again"
    ELSE IF surfaced[w] = 1 \/ \E e \in dead : e.wake = w THEN "handed"
    ELSE IF \A e \in accepted : e.wake # w THEN "new"
    ELSE IF \E e \in accepted : e.wake = w /\ Queued(e) THEN "owed" ELSE "lost"

Waived ==
    {w \in Wakes : \/ clobbered \/ Namesake(w) \/ IdOf[w] \in doubtful
                   \/ \E e \in garbled : e.wake = w}

Seat == INSTANCE Handover WITH
    Items <- Wakes,
    Before <- {},
    phase <- [w \in Wakes |-> PhaseOf(w)],
    waived <- Waived

\* A wake that was reported as queued is in the outbox until a poll has shown
\* or dead-lettered it, and is not shown again, but for equal texts, receipts
\* that were not written, lines that were not ended and the reclaim gap.
ImplementsHandover == Seat!HandoverSpec
=============================================================================
