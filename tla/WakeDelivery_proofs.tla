------------------------ MODULE WakeDelivery_proofs ------------------------
(***************************************************************************)
(* What is proved of WakeDelivery, for any subscriptions, messages,        *)
(* signals, filters and retry cap, and any kind and number of faults.  The *)
(* invariant has two layers: Control, who delivers for a subscription, and *)
(* Kept, which says that what the cursor has passed is either queued or    *)
(* has been offered, and that every watermark and claim, in memory, in the *)
(* file and in the hands of a successor, covers offered events only.       *)
(* Prompts, further down, counts the copies of an event; the refinement of *)
(* the abstract handover follows from these.                               *)
(***************************************************************************)
EXTENDS WakeDelivery, WellFoundedInduction, TLAPS

USE DEF mailbox, cursors, store, woken, ended, history

\* Who delivers: one retry at a time, and a direct attempt only where the retry
\* store has no entry.  The flush leaves a pending subscription alone, and the
\* retry loop an attempt that has not answered, because it has no entry yet.
Owners ==
    /\ OneDeliveryOwner
    /\ \A a, b \in attempts : a.kind = "retry" /\ b.kind = "retry" => a = b
    /\ \A a \in attempts : a.kind = "direct" => a.sub \notin pending

Control == TypeOK /\ Owners

LEMMA InitControl == Init => Control
<1> SUFFICES ASSUME Init PROVE Control
  OBVIOUS
<1> USE DEF Init
<1>1. log \in Seq(Events) /\ Len(log) = 0
  OBVIOUS
<1>2. saved \in Woken
  BY <1>1 DEF Woken
<1>3. tries \in [Subs -> 0..MaxRetries - 1] /\ faults \in 0..MaxFaults
  BY WakeAssumption
<1>4. /\ mark \in [Subs -> 0..Len(log)]
      /\ landings \in [Subs -> [Events -> 0..2]]
      /\ cursor \in 0..Len(log) /\ savedCursor \in 0..cursor
  BY <1>1
<1>5. TypeOK
  BY <1>1, <1>2, <1>3, <1>4 DEF TypeOK
<1> QED BY <1>5 DEF Control, Owners, OneDeliveryOwner

\* The log is appended to, nothing else changes.
LEMMA LogGrows ==
    ASSUME Control, NEW e \in Events, log' = Append(log, e), faults' \in 0..MaxFaults,
           UNCHANGED <<read, aged, benched, participation, cursors, queue,
                   attempts, store, woken, successor, history>>
    PROVE  Control'
<1> USE DEF Control, TypeOK
<1>1. /\ Len(log) \in Nat
      /\ log' \in Seq(Events)
      /\ Len(log') = Len(log) + 1
  OBVIOUS
<1>2. 0..Len(log) \subseteq 0..Len(log') /\ 1..Len(log) \subseteq 1..Len(log')
  BY <1>1
<1>3. Woken \subseteq Woken'
  BY <1>2 DEF Woken
<1>4. [ev : Events, pos : 1..Len(log)] \subseteq [ev : Events, pos : 1..Len(log')]
  BY <1>2
<1>5. queue' \in [Subs -> SUBSET [ev : Events, pos : 1..Len(log')]]
  BY <1>4
<1>6. \A a \in attempts : a \in [sub : Subs, kind : {"direct", "retry"},
                                 events : SUBSET Events, upTo : 0..Len(log')]
  BY <1>2
<1>7. cursor' \in 0..Len(log') /\ mark' \in [Subs -> 0..Len(log')]
  BY <1>2
<1>8. TypeOK'
  BY <1>1, <1>3, <1>5, <1>6, <1>7
<1> QED BY <1>8 DEF Owners, OneDeliveryOwner

LEMMA NoTries == 0 \in 0..MaxRetries - 1
BY WakeAssumption

LEMMA FaultsAreBounded ==
    ASSUME TypeOK, NEW k, Fault(k) PROVE faults' \in 0..MaxFaults
BY WakeAssumption DEF TypeOK, Fault

LEMMA BothAreBounded ==
    ASSUME TypeOK, NEW k, NEW l, BothFaults(k, l) PROVE faults' \in 0..MaxFaults
BY WakeAssumption DEF TypeOK, BothFaults

LEMMA ExternalControl ==
    ASSUME Control, External PROVE Control'
<1>1. CASE \E e \in Events : Emit(e)
  BY <1>1, LogGrows DEF Emit, Control, TypeOK
<1>2. CASE \E m \in Messages : EmitAgain(m)
  BY <1>2, LogGrows, FaultsAreBounded DEF EmitAgain, Events, Control
<1>3. CASE \E m \in Messages : Read(m)
  BY <1>3 DEF Read, Control, TypeOK, Owners, OneDeliveryOwner, Woken
<1>4. CASE \E m \in Messages : Age(m)
  BY <1>4, FaultsAreBounded DEF Age, Control, TypeOK, Owners, OneDeliveryOwner, Woken
<1>5. CASE SetBench
  <2>1. benched' \in BOOLEAN
    BY <1>5 DEF SetBench
  <2> QED BY <1>5, <2>1, FaultsAreBounded DEF SetBench, Control, TypeOK, Owners, OneDeliveryOwner, Woken
<1> QED BY <1>1, <1>2, <1>3, <1>4, <1>5 DEF External

LEMMA PollControl ==
    ASSUME Control, Poll PROVE Control'
<1> USE DEF Control, TypeOK
<1>1. faults' \in 0..MaxFaults
  BY FaultsAreBounded DEF Poll
<1>2. cursor' \in 0..Len(log') /\ savedCursor' \in 0..cursor'
  BY DEF Poll
<1>3. \A s \in Subs : Arrivals(s) \subseteq [ev : Events, pos : 1..Len(log)]
  BY DEF Arrivals, Item
<1>4. queue' \in [Subs -> SUBSET [ev : Events, pos : 1..Len(log)]]
  BY <1>3 DEF Poll
<1>5. excused' \subseteq Subs \X Events
  BY DEF Poll
<1>6. participation' \in {"unread", "eligible", "benched"}
  BY DEF Poll
<1> QED BY <1>1, <1>2, <1>4, <1>5, <1>6 DEF Poll, Owners, OneDeliveryOwner, Woken

LEMMA PollUnreadableControl ==
    ASSUME Control, PollUnreadable PROVE Control'
BY FaultsAreBounded DEF Control, TypeOK, PollUnreadable, Owners, OneDeliveryOwner, Woken

-----------------------------------------------------------------------------
LEMMA PersistsTyped ==
    ASSUME TypeOK, NEW c \in SUBSET Messages, NEW m \in [Subs -> 0..Len(log)],
           Persists(c, m), UNCHANGED mailbox
    PROVE  /\ claims' \subseteq Messages
           /\ mark' \in [Subs -> 0..Len(log')]
           /\ saved' \in Woken'
           /\ faults' \in 0..MaxFaults
<1>1. Woken' = Woken /\ Len(log') = Len(log)
  BY DEF Woken
<1>2. faults' \in 0..MaxFaults
  BY FaultsAreBounded DEF TypeOK, Persists
<1>3. [claims |-> c \ read, mark |-> m] \in Woken
  BY DEF Woken
<1>4. saved' \in Woken
  BY <1>3 DEF TypeOK, Persists, Saves, SaveFails
<1> QED BY <1>1, <1>2, <1>4 DEF Persists, Saves, SaveFails

LEMMA AdvancedTyped ==
    ASSUME TypeOK, NEW s \in Subs, NEW k \in 0..Len(log)
    PROVE  Advanced(s, k) \in [Subs -> 0..Len(log)]
BY DEF TypeOK, Advanced

LEMMA FlushTyped ==
    ASSUME TypeOK, NEW s \in Subs
    PROVE  /\ Survivors(s) \subseteq queue[s]
           /\ Named(queue[s]) \subseteq Events
           /\ Named(Survivors(s)) \subseteq Named(queue[s])
           /\ Unclaimed(s) \subseteq Messages
           /\ Digest(s) \subseteq Named(Survivors(s))
           /\ Spared(s) \subseteq Named(Survivors(s))
<1>1. Survivors(s) \subseteq queue[s] /\ queue[s] \subseteq [ev : Events, pos : 1..Len(log)]
  BY DEF TypeOK, Survivors
<1>2. Named(queue[s]) \subseteq Events /\ Named(Survivors(s)) \subseteq Named(queue[s])
  BY <1>1 DEF Named
<1> QED BY <1>1, <1>2 DEF Unclaimed, Digest, Actionable, Spared

LEMMA ConsumesTyped ==
    ASSUME TypeOK, NEW s \in Subs, Consumes(s), UNCHANGED mailbox
    PROVE  /\ claims' \subseteq Messages
           /\ mark' \in [Subs -> 0..Len(log')]
           /\ saved' \in Woken'
           /\ faults' \in 0..MaxFaults
<1>1. PICK k \in 1..Len(log) : Persists(claims \cup Unclaimed(s), Advanced(s, k))
  BY DEF Consumes
<1>2. Advanced(s, k) \in [Subs -> 0..Len(log)]
  <2>1. k \in 0..Len(log)
    BY DEF TypeOK
  <2> QED BY <2>1, AdvancedTyped
<1>3. claims \cup Unclaimed(s) \in SUBSET Messages
  BY FlushTyped DEF TypeOK
<1> QED BY <1>1, <1>2, <1>3, PersistsTyped

LEMMA FlushControl ==
    ASSUME Control, NEW s \in Subs, Flush(s) PROVE Control'
<1> USE DEF Control
<1>1. CASE FlushBenched(s)
  <2>1. excused' \subseteq Subs \X Events
    BY <1>1, FlushTyped DEF FlushBenched, TypeOK
  <2>2. queue' \in [Subs -> SUBSET [ev : Events, pos : 1..Len(log)]]
    BY <1>1 DEF FlushBenched, TypeOK
  <2> QED BY <1>1, <2>1, <2>2 DEF FlushBenched, TypeOK, Owners, OneDeliveryOwner, Woken
<1>2. ASSUME Takes(s)
      PROVE  queue' \in [Subs -> SUBSET [ev : Events, pos : 1..Len(log)]]
  BY <1>2 DEF Takes, TypeOK
<1>3. CASE FlushNothing(s)
  <2>1. /\ claims' \subseteq Messages
        /\ mark' \in [Subs -> 0..Len(log')]
        /\ saved' \in Woken'
        /\ faults' \in 0..MaxFaults
    <3>1. CASE Survivors(s) = {}
      BY <1>3, <3>1 DEF FlushNothing, TypeOK, Woken
    <3>2. CASE Survivors(s) # {}
      BY <1>3, <3>2, ConsumesTyped DEF FlushNothing
    <3> QED BY <3>1, <3>2
  <2> QED BY <1>3, <1>2, <2>1 DEF FlushNothing, TypeOK, Owners, OneDeliveryOwner, Woken
<1>4. CASE FlushMerge(s)
  <2>1. /\ claims' \subseteq Messages
        /\ mark' \in [Subs -> 0..Len(log')]
        /\ saved' \in Woken'
        /\ faults' \in 0..MaxFaults
    BY <1>4, ConsumesTyped DEF FlushMerge
  <2>2. held' \in [Subs -> SUBSET Events] /\ \A r \in Subs \ pending : held'[r] = {}
    BY <1>4, FlushTyped DEF FlushMerge, TypeOK
  <2>3. excused' \subseteq Subs \X Events
    BY <1>4, FlushTyped DEF FlushMerge, TypeOK
  <2> QED BY <1>4, <1>2, <2>1, <2>2, <2>3 DEF FlushMerge, TypeOK, Owners, OneDeliveryOwner, Woken
<1>5. CASE FlushOut(s)
  <2>1. PICK k \in 1..Len(log) : attempts' = attempts \cup {Attempt(s, "direct", Digest(s), k)}
    BY <1>5 DEF FlushOut
  <2>2. /\ Attempt(s, "direct", Digest(s), k) \in
              [sub : Subs, kind : {"direct", "retry"},
               events : SUBSET Events, upTo : 0..Len(log)]
        /\ Digest(s) # {}
    <3>1. PICK d : d = Digest(s)
      OBVIOUS
    <3>2. d \subseteq Events /\ d # {}
      BY <1>5, <3>1, FlushTyped DEF FlushOut
    <3>3. k \in 0..Len(log)
      BY DEF TypeOK
    <3> QED BY <3>1, <3>2, <3>3 DEF Attempt
  <2>3. excused' \subseteq Subs \X Events
    BY <1>5, FlushTyped DEF FlushOut, TypeOK
  <2>4. claims' \subseteq Messages
    BY <1>5, FlushTyped DEF FlushOut, TypeOK
  <2>5. TypeOK'
    BY <1>5, <1>2, <2>1, <2>2, <2>3, <2>4 DEF FlushOut, TypeOK, Woken, Attempt
  <2>6. \A a \in attempts : a.sub # s
    BY <1>5 DEF FlushOut, Takes, InFlight
  <2>7. Owners'
    BY <1>5, <2>1, <2>6 DEF FlushOut, Owners, OneDeliveryOwner, Attempt
  <2> QED BY <2>5, <2>7
<1> QED BY <1>1, <1>3, <1>4, <1>5 DEF Flush

-----------------------------------------------------------------------------
LEMMA LandedTyped ==
    ASSUME TypeOK, NEW a \in attempts
    PROVE  Landed(a) \in [Subs -> [Events -> 0..2]]
<1>1. a.sub \in Subs /\ landings \in [Subs -> [Events -> 0..2]]
  BY DEF TypeOK
<1>2. [e \in Events |->
          IF e \in a.events /\ landings[a.sub][e] < 2
          THEN landings[a.sub][e] + 1 ELSE landings[a.sub][e]] \in [Events -> 0..2]
  BY <1>1
<1> QED BY <1>1, <1>2 DEF Landed

LEMMA ConsumedTyped ==
    ASSUME TypeOK, NEW a \in attempts, Consumed(a), UNCHANGED mailbox
    PROVE  /\ claims' \subseteq Messages
           /\ mark' \in [Subs -> 0..Len(log')]
           /\ saved' \in Woken'
           /\ faults' \in 0..MaxFaults
<1>1. a.sub \in Subs /\ a.upTo \in 0..Len(log)
  BY DEF TypeOK
<1>2. Advanced(a.sub, a.upTo) \in [Subs -> 0..Len(log)]
  BY <1>1, AdvancedTyped
<1>3. claims \in SUBSET Messages
  BY DEF TypeOK
<1> QED BY <1>2, <1>3, PersistsTyped DEF Consumed

\* With its attempt the owner of a subscription goes.
LEMMA AttemptEnds ==
    ASSUME Control, NEW a \in attempts, NEW k, Ends(a, k)
    PROVE  /\ OneDeliveryOwner'
           /\ \A b, c \in attempts' : b.kind = "retry" /\ c.kind = "retry" => b = c
           /\ \A b \in attempts' :
                  /\ b \in [sub : Subs, kind : {"direct", "retry"},
                            events : SUBSET Events, upTo : 0..Len(log')]
                  /\ b.events # {}
                  /\ b.sub # a.sub
                  /\ b.kind = "retry" => b.sub \in pending
                  /\ b.kind = "direct" => b.sub \notin pending
BY DEF Control, TypeOK, Owners, OneDeliveryOwner, Ends

LEMMA DirectControl ==
    ASSUME Control, NEW a \in attempts,
           DirectDelivered(a) \/ DirectSkipped(a) \/ DirectFailed(a) \/ DirectUnknown(a)
    PROVE  Control'
<1> USE DEF Control
<1>1. Ends(a, "direct") /\ UNCHANGED mailbox
  BY DEF DirectDelivered, DirectSkipped, DirectFailed, DirectUnknown, Ends
<1>2. a.sub \in Subs /\ a.events \subseteq Events /\ a.sub \notin pending
  BY <1>1 DEF TypeOK, Owners, Ends
<1>3. ({a.sub} \X a.events) \subseteq Subs \X Events
  BY <1>2
<1>4. ASSUME Consumed(a)
      PROVE  /\ claims' \subseteq Messages
             /\ mark' \in [Subs -> 0..Len(log')]
             /\ saved' \in Woken'
             /\ faults' \in 0..MaxFaults
  BY <1>1, <1>4, ConsumedTyped
<1>5. CASE DirectDelivered(a)
  BY <1>1, <1>4, <1>5, LandedTyped, AttemptEnds DEF DirectDelivered, Ends, TypeOK, Owners, Woken
<1>6. CASE DirectSkipped(a)
  BY <1>1, <1>3, <1>4, <1>6, AttemptEnds DEF DirectSkipped, Ends, TypeOK, Owners, Woken
<1>7. CASE DirectFailed(a)
  <2>1. /\ excused' \subseteq Subs \X Events
        /\ pending' \subseteq pending \cup {a.sub}
        /\ pending \subseteq pending'
        /\ held' \in [Subs -> SUBSET Events]
        /\ \A s \in Subs \ pending' : held'[s] = {}
        /\ tries' \in [Subs -> 0..MaxRetries - 1]
    <3>1. CASE participation = "benched"
      BY <1>2, <1>3, <1>7, <3>1 DEF DirectFailed, TypeOK
    <3>2. CASE participation # "benched"
      <4>1. /\ pending' = pending \cup {a.sub}
            /\ held' = [held EXCEPT ![a.sub] = held[a.sub] \cup a.events]
            /\ tries' = [tries EXCEPT ![a.sub] = 0]
            /\ excused' = excused
        BY <1>2, <1>7, <3>2 DEF DirectFailed
      <4> QED BY <1>2, <4>1, NoTries DEF TypeOK
    <3> QED BY <3>1, <3>2
  <2> QED BY <1>1, <1>2, <1>4, <1>7, <2>1, AttemptEnds DEF DirectFailed, Ends, TypeOK, Owners, Woken
<1>8. CASE DirectUnknown(a)
  <2>1. /\ claims' \subseteq Messages
        /\ mark' \in [Subs -> 0..Len(log')]
        /\ saved' \in Woken'
    <3>1. CASE UNCHANGED woken
      BY <1>1, <3>1 DEF TypeOK, Woken
    <3>2. CASE Saves(claims, mark)
      BY <1>1, <3>2 DEF Saves, TypeOK, Woken
    <3>3. CASE SaveFails(claims, mark)
      BY <1>1, <3>3 DEF SaveFails, TypeOK, Woken
    <3> QED BY <1>8, <3>1, <3>2, <3>3 DEF DirectUnknown
  <2>2. faults' \in 0..MaxFaults
    BY <1>8, FaultsAreBounded, BothAreBounded DEF DirectUnknown
  <2>3. landings' \in [Subs -> [Events -> 0..2]] /\ doubtful' \subseteq Subs \X Events
    BY <1>3, <1>8, LandedTyped DEF DirectUnknown, TypeOK
  <2> QED BY <1>1, <1>8, <2>1, <2>2, <2>3, AttemptEnds DEF DirectUnknown, Ends, TypeOK, Owners, Woken
<1> QED BY <1>5, <1>6, <1>7, <1>8

LEMMA RemovedTyped ==
    ASSUME TypeOK, NEW s \in Subs, Removed(s)
    PROVE  /\ pending' = pending \ {s}
           /\ held' \in [Subs -> SUBSET Events]
           /\ \A r \in Subs \ pending' : held'[r] = {}
           /\ tries' \in [Subs -> 0..MaxRetries - 1]
BY WakeAssumption DEF TypeOK, Removed

LEMMA RetiresTyped ==
    ASSUME TypeOK, NEW s \in Subs, Retires(s)
    PROVE  /\ pending \ {s} \subseteq pending' /\ pending' \subseteq pending
           /\ held' \in [Subs -> SUBSET Events]
           /\ \A r \in Subs \ pending' : held'[r] = {}
           /\ tries' \in [Subs -> 0..MaxRetries - 1]
<1>1. CASE held[s] # {}
  <2>1. /\ tries' = [tries EXCEPT ![s] = 0]
        /\ pending' = pending /\ held' = held
    BY <1>1 DEF Retires
  <2> QED BY <2>1, NoTries DEF TypeOK
<1>2. CASE held[s] = {}
  <2>1. Removed(s)
    BY <1>2 DEF Retires
  <2> QED BY <2>1, RemovedTyped DEF TypeOK
<1> QED BY <1>1, <1>2

LEMMA RetryControl ==
    ASSUME Control, NEW s \in Subs, Retry(s) PROVE Control'
<1> USE DEF Control
<1>1. s \in pending /\ \A a \in attempts : a.kind # "retry"
  BY DEF Retry, RetryBenched, RetryDrop, RetryOut, Due, Retrying
<1>2. \A a \in attempts : a.kind = "direct" /\ a.sub # s
  BY <1>1 DEF TypeOK, Owners
<1>3. CASE RetryBenched(s)
  <2>1. excused' \subseteq Subs \X Events
    BY <1>3 DEF RetryBenched, TypeOK
  <2> QED BY <1>2, <1>3, <2>1, RemovedTyped DEF RetryBenched, TypeOK, Owners, OneDeliveryOwner, Woken
<1>4. CASE RetryDrop(s)
  BY <1>2, <1>4, RemovedTyped DEF RetryDrop, TypeOK, Owners, OneDeliveryOwner, Woken
<1>5. CASE RetryOut(s)
  <2>1. /\ Attempt(s, "retry", Live(s), 0) \in
              [sub : Subs, kind : {"direct", "retry"},
               events : SUBSET Events, upTo : 0..Len(log)]
        /\ Live(s) # {}
    BY <1>5 DEF RetryOut, Attempt, Live, TypeOK
  <2>2. held' \in [Subs -> SUBSET Events] /\ \A r \in Subs \ pending : held'[r] = {}
    BY <1>5 DEF RetryOut, TypeOK
  <2>3. \A a \in attempts' :
           /\ a \in [sub : Subs, kind : {"direct", "retry"},
                     events : SUBSET Events, upTo : 0..Len(log')]
           /\ a.events # {}
           /\ a.kind = "retry" => a.sub \in pending'
    BY <1>1, <1>5, <2>1 DEF RetryOut, TypeOK, Attempt
  <2>4. TypeOK'
    BY <1>5, <2>2, <2>3 DEF RetryOut, TypeOK, Woken
  <2>5. Owners'
    BY <1>1, <1>2, <1>5 DEF RetryOut, Owners, OneDeliveryOwner, Attempt
  <2> QED BY <2>4, <2>5
<1> QED BY <1>3, <1>4, <1>5 DEF Retry

LEMMA RetryEndsControl ==
    ASSUME Control, NEW a \in attempts,
           RetryDelivered(a) \/ RetrySkipped(a) \/ RetryFailed(a) \/ RetryUnknown(a)
    PROVE  Control'
<1> USE DEF Control
<1>1. Ends(a, "retry")
  BY DEF RetryDelivered, RetrySkipped, RetryFailed, RetryUnknown
<1>2. a.sub \in pending /\ a.sub \in Subs /\ a.events \subseteq Events
  BY <1>1 DEF TypeOK, Ends
<1>3. ({a.sub} \X a.events) \subseteq Subs \X Events
  BY <1>2
<1>4. CASE RetryDelivered(a)
  BY <1>1, <1>2, <1>4, LandedTyped, RetiresTyped, AttemptEnds DEF RetryDelivered, Ends, TypeOK, Owners, Woken
<1>5. CASE RetrySkipped(a)
  BY <1>1, <1>2, <1>3, <1>5, RetiresTyped, AttemptEnds DEF RetrySkipped, Ends, TypeOK, Owners, Woken
<1>6. CASE RetryFailed(a)
  <2>1. /\ pending \ {a.sub} \subseteq pending' /\ pending' \subseteq pending
        /\ held' \in [Subs -> SUBSET Events]
        /\ \A r \in Subs \ pending' : held'[r] = {}
        /\ tries' \in [Subs -> 0..MaxRetries - 1]
        /\ excused' \subseteq Subs \X Events
    <3>1. CASE tries[a.sub] + 1 >= MaxRetries
      <4>1. /\ Removed(a.sub)
            /\ excused' = excused \cup ({a.sub} \X (a.events \cup held[a.sub]))
        BY <1>6, <3>1 DEF RetryFailed
      <4>2. held[a.sub] \subseteq Events
        BY <1>2 DEF TypeOK
      <4>3. excused' \subseteq Subs \X Events
        BY <1>2, <4>1, <4>2 DEF TypeOK
      <4>4. /\ pending' = pending \ {a.sub}
            /\ held' \in [Subs -> SUBSET Events]
            /\ \A r \in Subs \ pending' : held'[r] = {}
            /\ tries' \in [Subs -> 0..MaxRetries - 1]
        BY <1>2, <4>1, RemovedTyped
      <4> QED BY <4>3, <4>4
    <3>2. CASE ~(tries[a.sub] + 1 >= MaxRetries)
      <4>1. /\ held' = [held EXCEPT ![a.sub] = held[a.sub] \cup a.events]
            /\ tries' = [tries EXCEPT ![a.sub] = tries[a.sub] + 1]
            /\ pending' = pending /\ excused' = excused
        BY <1>6, <3>2 DEF RetryFailed
      <4>2. tries[a.sub] + 1 \in 0..MaxRetries - 1
        BY <1>2, <3>2, WakeAssumption DEF TypeOK
      <4>3. held' \in [Subs -> SUBSET Events] /\ tries' \in [Subs -> 0..MaxRetries - 1]
        BY <1>2, <4>1, <4>2 DEF TypeOK
      <4>4. \A r \in Subs \ pending' : held'[r] = {}
        BY <1>2, <4>1 DEF TypeOK
      <4> QED BY <4>1, <4>3, <4>4 DEF TypeOK
    <3> QED BY <3>1, <3>2
  <2> QED BY <1>1, <1>6, <2>1, AttemptEnds DEF RetryFailed, Ends, TypeOK, Owners, Woken
<1>7. CASE RetryUnknown(a)
  <2>1. held' \in [Subs -> SUBSET Events] /\ \A r \in Subs \ pending : held'[r] = {}
    BY <1>2, <1>7 DEF RetryUnknown, TypeOK
  <2>2. landings' \in [Subs -> [Events -> 0..2]] /\ doubtful' \subseteq Subs \X Events
    BY ZenonT(40), <1>3, <1>7, LandedTyped DEF RetryUnknown, TypeOK
  <2>3. faults' \in 0..MaxFaults
    BY <1>7, FaultsAreBounded DEF RetryUnknown
  <2> QED BY <1>1, <1>7, <2>1, <2>2, <2>3, AttemptEnds DEF RetryUnknown, Ends, TypeOK, Owners, Woken
<1> QED BY <1>4, <1>5, <1>6, <1>7

LEMMA BeginsControl ==
    ASSUME Control, NEW w \in Woken, NEW landed \in SUBSET attempts, Begins(w, landed),
           successor' \subseteq Woken, faults' \in 0..MaxFaults
    PROVE  Control'
<1> USE DEF Control
<1>1. w.claims \subseteq Messages /\ w.mark \in [Subs -> 0..Len(log)]
  BY DEF Woken
<1>2. landings' \in [Subs -> [Events -> 0..2]]
  BY DEF Begins, TypeOK
<1>3. perished' \subseteq Subs \X Events /\ forgotten' \subseteq Subs \X Events
  BY DEF Begins, TypeOK
<1>4. tries' \in [Subs -> 0..MaxRetries - 1]
  BY WakeAssumption DEF Begins
<1>5. /\ Len(log') = Len(log) /\ Woken' = Woken
      /\ saved' \in Woken
  BY DEF Begins, TypeOK, Woken
<1>6. /\ cursor' \in 0..Len(log') /\ savedCursor' \in 0..cursor'
  BY <1>5 DEF Begins, Resumes, TypeOK
<1>7. /\ queue' \in [Subs -> SUBSET [ev : Events, pos : 1..Len(log')]]
      /\ mark' \in [Subs -> 0..Len(log')]
      /\ claims' \subseteq Messages
      /\ held' \in [Subs -> SUBSET Events]
      /\ \A s \in Subs : held'[s] = {}
      /\ pending' \subseteq Subs /\ attempts' = {}
  BY <1>1, <1>5 DEF Begins
<1>8. UNCHANGED <<log, read, aged, benched, excused, doubtful>> /\ participation' = "unread"
  BY DEF Begins
<1>9. TypeOK'
  BY <1>2, <1>3, <1>4, <1>5, <1>6, <1>7, <1>8 DEF TypeOK
<1> QED BY <1>9 DEF Begins, Owners, OneDeliveryOwner

LEMMA SuccessionControl ==
    ASSUME Control, Succession PROVE Control'
<1> USE DEF Control
<1>1. saved \in Woken /\ successor \subseteq Woken
  BY DEF TypeOK
<1>2. CASE Restart
  BY <1>1, <1>2, BeginsControl, FaultsAreBounded DEF Restart
<1>3. CASE StartSuccessor
  BY <1>1, <1>3, FaultsAreBounded DEF StartSuccessor, TypeOK, Owners, OneDeliveryOwner, Woken
<1>4. CASE TakeOver
  <2>1. faults' \in 0..MaxFaults /\ successor' \subseteq Woken
    BY <1>4 DEF TakeOver, TypeOK
  <2>2. PICK w \in successor : \E landed \in SUBSET attempts : Begins(w, landed)
    BY <1>4 DEF TakeOver
  <2> QED BY <1>1, <2>1, <2>2, BeginsControl
<1> QED BY <1>2, <1>3, <1>4 DEF Succession

LEMMA NextControl == Control /\ [Next]_vars => Control'
<1> SUFFICES ASSUME Control, [Next]_vars PROVE Control'
  OBVIOUS
<1>1. CASE UNCHANGED vars
  BY <1>1 DEF vars, Control, TypeOK, Owners, OneDeliveryOwner, Woken
<1>2. CASE Next
  BY <1>2, ExternalControl, PollControl, PollUnreadableControl, FlushControl,
     RetryControl, DirectControl, RetryEndsControl, SuccessionControl
     DEF Next, Resolve
<1> QED BY <1>1, <1>2

\* What the daemon and its files hold is well formed in every reachable state.
THEOREM TypeCorrect == Spec => []TypeOK
<1>1. Control => TypeOK
  BY DEF Control
<1> QED BY <1>1, InitControl, NextControl, PTL DEF Spec

\* A flush and the retry loop never deliver for one subscription together
\* (daemon.mjs:911), although only the flush looks at deliveryInFlight.
THEOREM OneAtATime == Spec => []OneDeliveryOwner
<1>1. Control => OneDeliveryOwner
  BY DEF Control, Owners
<1> QED BY <1>1, InitControl, NextControl, PTL DEF Spec

-----------------------------------------------------------------------------
\* GraphLog is only appended to.
LEMMA LogIsKept ==
    ASSUME Control, [Next]_vars
    PROVE  \A i \in 1..Len(log) : log'[i] = log[i]
<1> USE DEF Control, TypeOK
<1>1. CASE UNCHANGED vars
  BY <1>1 DEF vars
<1>2. CASE External
  <2>1. ASSUME NEW e \in Events, log' = Append(log, e)
        PROVE  \A i \in 1..Len(log) : log'[i] = log[i]
    BY <2>1
  <2> QED BY <1>2, <2>1 DEF External, Emit, EmitAgain, Read, Age, SetBench, Events
<1>3. CASE Poll \/ PollUnreadable
  BY <1>3 DEF Poll, PollUnreadable
<1>4. CASE \E s \in Subs : Flush(s) \/ Retry(s)
  BY <1>4 DEF Flush, FlushBenched, FlushNothing, FlushMerge, FlushOut,
              Retry, RetryBenched, RetryDrop, RetryOut
<1>5. CASE \E a \in attempts : Resolve(a)
  BY <1>5 DEF Resolve, DirectDelivered, DirectSkipped, DirectFailed, DirectUnknown,
              RetryDelivered, RetrySkipped, RetryFailed, RetryUnknown, Ends
<1>6. CASE Succession
  BY <1>6 DEF Succession, Restart, StartSuccessor, TakeOver, Begins
<1> QED BY <1>1, <1>2, <1>3, <1>4, <1>5, <1>6 DEF Next

\* What has reached the seat has reached it.
LEMMA LandedGrows ==
    ASSUME TypeOK, NEW a \in attempts, NEW s \in Subs, NEW e \in Events
    PROVE  /\ landings[s][e] > 0 => Landed(a)[s][e] > 0
           /\ a.sub = s /\ e \in a.events => Landed(a)[s][e] > 0
<1>1. a.sub \in Subs /\ landings \in [Subs -> [Events -> 0..2]]
  BY DEF TypeOK
<1>2. landings[s][e] \in 0..2
  BY <1>1
<1>3. CASE a.sub = s
  BY <1>1, <1>2, <1>3 DEF Landed
<1>4. CASE a.sub # s
  BY <1>1, <1>2, <1>4 DEF Landed
<1> QED BY <1>3, <1>4

\* A daemon goes on: what it has in memory is there after the step.
Lives ==
    \/ External \/ Poll \/ PollUnreadable \/ StartSuccessor
    \/ \E s \in Subs : Flush(s) \/ Retry(s)
    \/ \E a \in attempts : Resolve(a)
    \/ UNCHANGED vars

\* What has left the queues is not dropped without a name while a daemon lives.
LEMMA HandledStays ==
    ASSUME Control, Lives, NEW r \in Subs, NEW e \in Events, Handled(r, e)
    PROVE  Handled(r, e)'
<1> USE DEF Handled, InHand, Settled, Carries
<1> TypeOK
  BY DEF Control
<1>1. CASE UNCHANGED vars
  BY <1>1 DEF vars
<1>2. CASE External
  BY <1>2 DEF External, Emit, EmitAgain, Read, Age, SetBench
<1>3. CASE Poll \/ PollUnreadable
  BY <1>3 DEF Poll, PollUnreadable
<1>4. CASE \E s \in Subs : Flush(s)
  <2>1. PICK s \in Subs : Flush(s)
    BY <1>4
  <2>2. /\ UNCHANGED <<read, aged, landings, doubtful, perished>>
        /\ excused \subseteq excused'
        /\ attempts \subseteq attempts'
    BY <2>1 DEF Flush, FlushBenched, FlushNothing, FlushMerge, FlushOut
  <2>3. held[r] \subseteq held'[r]
    <3>1. CASE FlushMerge(s)
      BY <3>1 DEF FlushMerge, TypeOK
    <3>2. CASE ~FlushMerge(s)
      BY <2>1, <3>2 DEF Flush, FlushBenched, FlushNothing, FlushOut
    <3> QED BY <3>1, <3>2
  <2> QED BY <2>2, <2>3
<1>5. CASE \E s \in Subs : Retry(s)
  <2>1. PICK s \in Subs : Retry(s)
    BY <1>5
  <2>2. /\ UNCHANGED <<read, aged, landings, doubtful, perished>>
        /\ excused \subseteq excused'
        /\ attempts \subseteq attempts'
    BY <2>1 DEF Retry, RetryBenched, RetryDrop, RetryOut
  <2>3. CASE e \in held[r] /\ r # s
    <3>1. held'[r] = held[r]
      BY <2>1, <2>3 DEF Retry, RetryBenched, RetryDrop, RetryOut, Removed, TypeOK
    <3> QED BY <2>3, <3>1
  <2>4. CASE e \in held[r] /\ r = s
    <3>1. CASE RetryBenched(s)
      BY <2>4, <3>1 DEF RetryBenched
    <3>2. CASE RetryDrop(s)
      BY <2>4, <3>2 DEF RetryDrop, Live
    <3>3. CASE RetryOut(s)
      <4>1. CASE e \in read \cup aged
        BY <2>2, <4>1
      <4>2. CASE e \in Live(s)
        <5> DEFINE a == Attempt(s, "retry", Live(s), 0)
        <5>1. a \in attempts' /\ a.sub = s /\ a.events = Live(s)
          BY <3>3 DEF RetryOut, Attempt
        <5> HIDE DEF a
        <5> QED BY <2>4, <4>2, <5>1
      <4> QED BY <2>4, <4>1, <4>2 DEF Live
    <3> QED BY <2>1, <3>1, <3>2, <3>3 DEF Retry
  <2> QED BY <2>2, <2>3, <2>4
<1>6. CASE \E a \in attempts : Resolve(a)
  <2>1. PICK a \in attempts : Resolve(a)
    BY <1>6
  <2>2. /\ UNCHANGED <<read, aged, perished>> /\ attempts' = attempts \ {a}
    BY <2>1 DEF Resolve, DirectDelivered, DirectSkipped, DirectFailed, DirectUnknown,
              RetryDelivered, RetrySkipped, RetryFailed, RetryUnknown, Ends
  <2>3. excused \subseteq excused' /\ doubtful \subseteq doubtful'
    BY <2>1 DEF Resolve, DirectDelivered, DirectSkipped, DirectFailed, DirectUnknown,
              RetryDelivered, RetrySkipped, RetryFailed, RetryUnknown
  <2>4. landings' = landings \/ landings' = Landed(a)
    BY <2>1 DEF Resolve, DirectDelivered, DirectSkipped, DirectFailed, DirectUnknown,
              RetryDelivered, RetrySkipped, RetryFailed, RetryUnknown
  <2>5. CASE Settled(r, e) \/ <<r, e>> \in perished
    BY <2>2, <2>3, <2>4, <2>5, LandedGrows
  <2>6. CASE e \in held[r]
    <3>1. a.sub \in Subs
      BY DEF TypeOK
    <3>2. CASE held[r] \subseteq held'[r]
      BY <2>6, <3>2
    <3>3. CASE ~(held[r] \subseteq held'[r])
      <4>1. RetryFailed(a) /\ a.sub = r /\ ~(tries[r] + 1 < MaxRetries)
        <5>1. ASSUME Retires(a.sub) PROVE held[r] \subseteq held'[r]
          <6>1. CASE held[a.sub] # {}
            BY <5>1, <6>1 DEF Retires
          <6>2. CASE held[a.sub] = {}
            BY <3>1, <5>1, <6>2 DEF Retires, Removed, TypeOK
          <6> QED BY <6>1, <6>2
        <5>2. CASE DirectDelivered(a) \/ DirectSkipped(a) \/ DirectUnknown(a)
          BY <3>3, <5>2 DEF DirectDelivered, DirectSkipped, DirectUnknown
        <5>3. CASE DirectFailed(a)
          BY <3>1, <3>3, <5>3 DEF DirectFailed, TypeOK
        <5>4. CASE RetryDelivered(a) \/ RetrySkipped(a)
          BY <3>3, <5>1, <5>4 DEF RetryDelivered, RetrySkipped
        <5>5. CASE RetryUnknown(a)
          BY <3>1, <3>3, <5>5 DEF RetryUnknown, TypeOK
        <5>6. CASE RetryFailed(a)
          BY <3>1, <3>3, <5>6, WakeAssumption DEF RetryFailed, Removed, TypeOK
        <5> QED BY <2>1, <5>2, <5>3, <5>4, <5>5, <5>6 DEF Resolve
      <4>2. tries[r] + 1 >= MaxRetries
        BY <4>1, WakeAssumption DEF TypeOK
      <4>3. <<r, e>> \in excused'
        BY <2>6, <4>1, <4>2 DEF RetryFailed
      <4> QED BY <4>3
    <3> QED BY <3>2, <3>3
  <2>7. CASE Carries(attempts, r, e)
    <3>1. PICK b \in attempts : b.sub = r /\ e \in b.events
      BY <2>7
    <3>2. CASE b # a
      BY <2>2, <3>1, <3>2
    <3>3. CASE b = a
      <4>1. CASE DirectDelivered(a) \/ RetryDelivered(a)
        BY <3>1, <3>3, <4>1, LandedGrows DEF DirectDelivered, RetryDelivered
      <4>2. CASE DirectSkipped(a) \/ RetrySkipped(a)
        BY <3>1, <3>3, <4>2 DEF DirectSkipped, RetrySkipped
      <4>3. CASE DirectUnknown(a) \/ RetryUnknown(a)
        BY <3>1, <3>3, <4>3 DEF DirectUnknown, RetryUnknown
      <4>4. CASE DirectFailed(a)
        BY <3>1, <3>3, <4>4 DEF DirectFailed, TypeOK
      <4>5. CASE RetryFailed(a)
        BY <3>1, <3>3, <4>5 DEF RetryFailed, TypeOK
      <4> QED BY <2>1, <4>1, <4>2, <4>3, <4>4, <4>5 DEF Resolve
    <3> QED BY <3>2, <3>3
  <2> QED BY <2>5, <2>6, <2>7
<1>7. CASE StartSuccessor
  BY <1>7 DEF StartSuccessor
<1> QED BY <1>1, <1>2, <1>3, <1>4, <1>5, <1>6, <1>7 DEF Lives

LEMMA OfferedStays ==
    ASSUME Control, [Next]_vars, Lives, NEW s \in Subs, NEW e \in Events, Offered(s, e)
    PROVE  Offered(s, e)'
BY HandledStays DEF Offered, Through

-----------------------------------------------------------------------------
QueueMatchesLog ==
    \A s \in Subs : \A q \in queue[s] :
        q.pos <= cursor /\ log[q.pos] = q.ev /\ q.ev \in Wants[s]

\* All that s wants of the first k entries has left the queues.
Below(s, k) == \A i \in 1..k : \A e \in Wants[s] : log[i] = e => Offered(s, e)

ClaimsEarned(c) == \A m \in c : \A s \in Subs : m \in Wants[s] => Offered(s, m)

Earned(w) == ClaimsEarned(w.claims) /\ \A s \in Subs : Below(s, w.mark[s])

\* Watermarks and claims, in memory and in the files, cover only such events.
AllEarned ==
    /\ ClaimsEarned(claims)
    /\ \A s \in Subs : Below(s, mark[s])
    /\ \A a \in attempts : Below(a.sub, a.upTo)
    /\ Earned(saved)
    /\ \A w \in successor : Earned(w)

\* NothingIsLost, event by event.
Passed ==
    \A s \in Subs : \A i \in 1..cursor : \A e \in Wants[s] :
        log[i] = e => e \in Named(queue[s]) \/ Offered(s, e)

Kept == Control /\ QueueMatchesLog /\ Passed /\ AllEarned

LEMMA InitKept == Init => Kept
<1> SUFFICES ASSUME Init PROVE Kept
  OBVIOUS
<1> QED BY InitControl DEF Init, Kept, QueueMatchesLog, Passed, AllEarned,
           Earned, ClaimsEarned, Below

LEMMA WantsTyped == \A s \in Subs : Wants[s] \subseteq Events
BY WakeAssumption

LEMMA BelowStays ==
    ASSUME Control, [Next]_vars, Lives, NEW s \in Subs, NEW k \in 0..Len(log), Below(s, k)
    PROVE  Below(s, k)'
<1> SUFFICES ASSUME NEW i \in 1..k, NEW e \in Wants[s], log'[i] = e
             PROVE  Offered(s, e)'
  BY DEF Below
<1>1. Len(log) \in Nat
  BY DEF Control, TypeOK
<1>2. i \in 1..Len(log)
  BY <1>1
<1>3. log'[i] = log[i]
  BY <1>2, LogIsKept
<1>4. Offered(s, e)
  BY <1>3 DEF Below
<1> QED BY <1>4, WantsTyped, OfferedStays

LEMMA ClaimsStay ==
    ASSUME Control, [Next]_vars, Lives, NEW c \in SUBSET Messages, ClaimsEarned(c)
    PROVE  ClaimsEarned(c)'
BY OfferedStays, WantsTyped DEF ClaimsEarned

LEMMA EarnedStays ==
    ASSUME Control, [Next]_vars, Lives, NEW w \in Woken, Earned(w)
    PROVE  Earned(w)'
<1>1. w.claims \in SUBSET Messages /\ w.mark \in [Subs -> 0..Len(log)]
  BY DEF Woken
<1>2. ClaimsEarned(w.claims)'
  BY <1>1, ClaimsStay DEF Earned
<1>3. \A s \in Subs : Below(s, w.mark[s])'
  BY <1>1, BelowStays DEF Earned
<1> QED BY <1>2, <1>3 DEF Earned, ClaimsEarned, Below

\* A message that left the queues is so for every route.
LEMMA MessagesAreShared ==
    ASSUME NEW s \in Subs, NEW t \in Subs, NEW m \in Messages,
           m \in Wants[s], m \in Wants[t], Offered(s, m)
    PROVE  Offered(t, m)
BY DEF Offered, Through

\* What a flush takes out of the queue of s.
LEMMA FlushOffers ==
    ASSUME Kept, NEW s \in Subs, Flush(s), NEW e \in Named(queue[s])
    PROVE  Offered(s, e)'
<1> Control /\ [Next]_vars /\ Lives
  BY DEF Kept, Next, Lives
<1>1. PICK q \in queue[s] : q.ev = e
  BY DEF Named
<1>2. e \in Events /\ e \in Wants[s] /\ s \in Through(s, e)
  BY <1>1 DEF Kept, QueueMatchesLog, Control, TypeOK, Through
<1>3. q.pos \in 1..Len(log) /\ log[q.pos] = e
  BY <1>1 DEF Kept, QueueMatchesLog, Control, TypeOK
<1>4. ASSUME Handled(s, e)' PROVE Offered(s, e)'
  BY <1>2, <1>4 DEF Offered, Through
<1>5. CASE FlushBenched(s)
  BY <1>2, <1>4, <1>5 DEF FlushBenched, Handled, Settled
<1>6. CASE ~FlushBenched(s)
  <2>1. /\ UNCHANGED <<read, aged>>
        /\ FlushNothing(s) \/ FlushMerge(s) \/ FlushOut(s)
    BY <1>6 DEF Flush, FlushNothing, FlushMerge, FlushOut
  <2>2. CASE e \in read \cup aged
    BY <1>4, <2>1, <2>2 DEF Handled, Settled
  <2>3. CASE q.pos <= mark[s]
    <3>1. Offered(s, e)
      <4>1. Below(s, mark[s])
        BY DEF Kept, AllEarned
      <4>2. q.pos \in 1..mark[s]
        BY <1>3, <2>3 DEF Control, TypeOK
      <4> QED BY <1>2, <1>3, <4>1, <4>2 DEF Below
    <3> QED BY <1>2, <3>1, OfferedStays
  <2>4. CASE e \in claims
    <3>1. Offered(s, e)
      BY <1>2, <2>4 DEF Kept, AllEarned, ClaimsEarned
    <3> QED BY <1>2, <3>1, OfferedStays
  <2>5. CASE e \notin read \cup aged \cup claims /\ ~(q.pos <= mark[s])
    <3>1. e \in Named(Survivors(s))
      <4>1. q.pos > mark[s]
        BY <1>3, <2>5 DEF Control, TypeOK
      <4> QED BY <1>1, <2>5, <4>1 DEF Survivors, Named
    <3>2. e \in Digest(s) \cup Spared(s)
      BY <1>2, <2>5, <3>1 DEF Digest, Spared, Actionable, Unclaimed, Events
    <3>3. CASE FlushNothing(s)
      <4>1. Actionable(s) = {} /\ Named(Survivors(s)) \cap Pulses = {}
        BY <3>3 DEF FlushNothing, Digest
      <4> QED BY <3>2, <3>3, <4>1 DEF FlushNothing, Spared
    <3>4. CASE FlushMerge(s)
      BY <1>2, <1>4, <3>2, <3>4 DEF FlushMerge, Handled, InHand, Settled, Control, TypeOK
    <3>5. CASE FlushOut(s)
      <4>1. CASE e \in Spared(s)
        BY <1>2, <1>4, <3>5, <4>1 DEF FlushOut, Handled, Settled
      <4>2. CASE e \in Digest(s)
        <5>1. PICK k \in 1..Len(log) : attempts' = attempts \cup {Attempt(s, "direct", Digest(s), k)}
          BY <3>5 DEF FlushOut
        <5> DEFINE a == Attempt(s, "direct", Digest(s), k)
        <5>2. a \in attempts' /\ a.sub = s /\ a.events = Digest(s)
          BY <5>1 DEF Attempt
        <5> HIDE DEF a
        <5> QED BY <1>4, <4>2, <5>2 DEF Handled, InHand, Carries
      <4> QED BY <3>2, <4>1, <4>2
    <3> QED BY <2>1, <3>3, <3>4, <3>5
  <2> QED BY <2>2, <2>3, <2>4, <2>5
<1> QED BY <1>5, <1>6

\* After a flush of s nothing that s wants waits below the cursor.
LEMMA FlushEmpties ==
    ASSUME Kept, NEW s \in Subs, Flush(s), NEW k \in 0..cursor
    PROVE  Below(s, k)'
<1> Control /\ [Next]_vars /\ Lives
  BY DEF Kept, Next, Lives
<1>1. log' = log
  BY DEF Flush, FlushBenched, FlushNothing, FlushMerge, FlushOut
<1> SUFFICES ASSUME NEW i \in 1..k, NEW e \in Wants[s], log[i] = e
             PROVE  Offered(s, e)'
  BY <1>1 DEF Below
<1>2. i \in 1..cursor
  BY DEF Control, TypeOK
<1>3. CASE e \in Named(queue[s])
  BY <1>3, FlushOffers
<1>4. CASE Offered(s, e)
  BY <1>4, WantsTyped, OfferedStays
<1> QED BY <1>2, <1>3, <1>4 DEF Kept, Passed

LEMMA FlushClaimsEarned ==
    ASSUME Kept, NEW s \in Subs, Flush(s)
    PROVE  \A m \in claims \cup Unclaimed(s) : \A t \in Subs :
               m \in Wants[t] => Offered(t, m)'
<1> Control /\ [Next]_vars /\ Lives
  BY DEF Kept, Next, Lives
<1> SUFFICES ASSUME NEW m \in claims \cup Unclaimed(s), NEW t \in Subs, m \in Wants[t]
             PROVE  Offered(t, m)'
  OBVIOUS
<1>1. m \in Messages
  BY FlushTyped DEF Control, TypeOK
<1>2. CASE m \in claims
  BY <1>1, <1>2, OfferedStays DEF Kept, AllEarned, ClaimsEarned, Events
<1>3. CASE m \in Unclaimed(s)
  <2>1. m \in Named(queue[s])
    BY <1>3, FlushTyped DEF Unclaimed, Control
  <2>2. Offered(s, m)'
    BY <2>1, FlushOffers
  <2>3. PICK r \in Through(s, m) : Handled(r, m)'
    BY <2>2 DEF Offered, Through
  <2>4. r \in Through(t, m)
    BY <1>1 DEF Through
  <2> QED BY <2>3, <2>4 DEF Offered, Through
<1> QED BY <1>2, <1>3

-----------------------------------------------------------------------------
\* What is persisted is earned when the claims and the watermarks are.
LEMMA PersistsEarned ==
    ASSUME Control, [Next]_vars, Lives, Earned(saved),
           NEW c \in SUBSET Messages, NEW f \in [Subs -> 0..Len(log)],
           Persists(c, f),
           \A m \in c : \A s \in Subs : m \in Wants[s] => Offered(s, m)',
           \A s \in Subs : Below(s, f[s])'
    PROVE  /\ ClaimsEarned(claims)'
           /\ \A s \in Subs : Below(s, mark[s])'
           /\ Earned(saved)'
<1>1. PICK d \in SUBSET Messages : d = c \ read
  OBVIOUS
<1>2. PICK v : v = [claims |-> d, mark |-> f]
  OBVIOUS
<1>3. PICK w : w = saved
  OBVIOUS
<1>4. claims' = d /\ mark' = f /\ (saved' = v \/ saved' = w)
  BY <1>1, <1>2, <1>3 DEF Persists, Saves, SaveFails
<1>5. ClaimsEarned(d)'
  BY <1>1 DEF ClaimsEarned
<1>6. ClaimsEarned(claims)' /\ \A s \in Subs : Below(s, mark[s])'
  BY <1>4, <1>5 DEF ClaimsEarned, Below
<1>7. Earned(w)'
  BY <1>3, EarnedStays DEF Control, TypeOK
<1>8. Earned(v)'
  <2>1. v.claims = d /\ v.mark = f
    BY <1>2
  <2> QED BY <1>5, <2>1 DEF Earned, ClaimsEarned, Below
<1>9. Earned(saved)'
  <2>1. CASE saved' = v
    BY <1>8, <2>1 DEF Earned, ClaimsEarned, Below
  <2>2. CASE saved' = w
    BY <1>7, <2>2 DEF Earned, ClaimsEarned, Below
  <2> QED BY <1>4, <2>1, <2>2
<1> QED BY <1>6, <1>9

WokenEarned ==
    /\ ClaimsEarned(claims)
    /\ \A s \in Subs : Below(s, mark[s])
    /\ Earned(saved)

LEMMA WokenStays ==
    ASSUME Kept, [Next]_vars, Lives, UNCHANGED woken
    PROVE  WokenEarned'
<1> USE DEF Kept
<1>1. PICK w : w = saved
  OBVIOUS
<1>2. PICK c : c = claims
  OBVIOUS
<1>3. PICK f : f = mark
  OBVIOUS
<1>4. Earned(w)' /\ ClaimsEarned(c)'
  BY <1>1, <1>2, EarnedStays, ClaimsStay DEF AllEarned, Control, TypeOK
<1>5. \A s \in Subs : Below(s, f[s])'
  BY <1>3, BelowStays DEF AllEarned, Control, TypeOK
<1>6. saved' = w /\ claims' = c /\ mark' = f
  BY <1>1, <1>2, <1>3
<1>7. Earned(saved)'
  BY <1>4, <1>6 DEF Earned, ClaimsEarned, Below
<1> QED BY <1>4, <1>5, <1>6, <1>7 DEF WokenEarned, ClaimsEarned, Below

\* The attempts that go on and the successor that waits keep what they know.
LEMMA AllStay ==
    ASSUME Kept, [Next]_vars, Lives, WokenEarned', successor' \subseteq successor,
           \A a \in attempts' \ attempts : Below(a.sub, a.upTo)'
    PROVE  AllEarned'
<1> USE DEF Kept
<1>1. ASSUME NEW w \in successor PROVE Earned(w)'
  BY EarnedStays DEF AllEarned, Control, TypeOK
<1>2. ASSUME NEW a \in attempts PROVE Below(a.sub, a.upTo)'
  BY BelowStays DEF AllEarned, Control, TypeOK
<1> QED BY <1>1, <1>2 DEF AllEarned, WokenEarned

LEMMA QueueStays ==
    ASSUME Kept, [Next]_vars, cursor' = cursor,
           \A s \in Subs : queue'[s] \subseteq queue[s]
    PROVE  QueueMatchesLog'
<1> SUFFICES ASSUME NEW s \in Subs, NEW q \in queue'[s]
             PROVE  q.pos <= cursor /\ log'[q.pos] = q.ev /\ q.ev \in Wants[s]
  BY DEF QueueMatchesLog
<1>1. q \in queue[s]
  OBVIOUS
<1>2. q.pos \in 1..Len(log)
  BY <1>1 DEF Kept, Control, TypeOK
<1>3. log'[q.pos] = log[q.pos]
  BY <1>2, LogIsKept DEF Kept
<1> QED BY <1>1, <1>3 DEF Kept, QueueMatchesLog

LEMMA PassedStays ==
    ASSUME Kept, [Next]_vars, Lives, cursor' = cursor,
           \A s \in Subs : queue'[s] = queue[s] \/
               \A e \in Named(queue[s]) : Offered(s, e)'
    PROVE  Passed'
<1> USE DEF Kept
<1> SUFFICES ASSUME NEW s \in Subs, NEW i \in 1..cursor, NEW e \in Wants[s], log'[i] = e
             PROVE  e \in Named(queue'[s]) \/ Offered(s, e)'
  BY DEF Passed, Named
<1>1. log[i] = e
  <2>1. i \in 1..Len(log)
    BY DEF Control, TypeOK
  <2> QED BY <2>1, LogIsKept
<1>2. CASE Offered(s, e)
  BY <1>2, WantsTyped, OfferedStays
<1>3. CASE e \in Named(queue[s])
  BY <1>3 DEF Named
<1> QED BY <1>1, <1>2, <1>3 DEF Passed

LEMMA ExternalKept ==
    ASSUME Kept, External PROVE Kept'
<1>1. [Next]_vars /\ Lives
  BY DEF Next, Lives
<1>2. UNCHANGED <<cursors, queue, attempts, store, woken, successor>>
  BY DEF External, Emit, EmitAgain, Read, Age, SetBench
<1>3. Control'
  BY ExternalControl DEF Kept
<1>4. QueueMatchesLog' /\ Passed'
  BY <1>1, <1>2, QueueStays, PassedStays
<1>5. AllEarned'
  BY <1>1, <1>2, WokenStays, AllStay
<1> QED BY <1>3, <1>4, <1>5 DEF Kept

-----------------------------------------------------------------------------
\* The batch of a poll.
LEMMA SmallestIn ==
    ASSUME NEW T \in SUBSET Nat, T # {}
    PROVE  \E n \in T : \A m \in T : n <= m
<1> DEFINE R == OpToRel(<, Nat)
<1>1. IsWellFoundedOn(R, Nat)
  BY NatLessThanWellFounded
<1>2. \A x, y \in Nat : x < y => <<x, y>> \in R
  BY DEF OpToRel
<1> HIDE DEF R
<1>3. PICK n \in T : \A m \in T : ~(<<m, n>> \in R)
  BY <1>1, WFMin
<1>4. \A m \in T : ~(m < n)
  BY <1>2, <1>3
<1> QED BY <1>4

\* What s wants of the batch is queued, once, unless it has been read.
LEMMA BatchIsQueued ==
    ASSUME Control, NEW s \in Subs, NEW i \in cursor + 1..Len(log),
           log[i] \in Wants[s] \ read
    PROVE  log[i] \in Named(queue[s] \cup Arrivals(s))
<1> DEFINE e == log[i]
           T == {j \in cursor + 1..Len(log) : log[j] = e}
<1>1. cursor \in Nat /\ Len(log) \in Nat
  BY DEF Control, TypeOK
<1>2. PICK n \in T : \A m \in T : n <= m
  <2>1. T \in SUBSET Nat /\ T # {}
    BY <1>1
  <2> HIDE DEF T
  <2> QED BY <2>1, SmallestIn
<1>3. CASE \E q \in queue[s] : q.ev = e
  BY <1>3 DEF Named
<1>4. CASE \A q \in queue[s] : q.ev # e
  <2>1. \A j \in cursor + 1..n - 1 : log[j] # e
    BY <1>1, <1>2
  <2>2. Item(log[n], n) \in Arrivals(s)
    BY <1>2, <1>4, <2>1 DEF Arrivals
  <2>3. Item(log[n], n).ev = e
    BY <1>2 DEF Item
  <2> QED BY <2>2, <2>3 DEF Named
<1> QED BY <1>3, <1>4

LEMMA PollKept ==
    ASSUME Kept, Poll PROVE Kept'
<1>1. [Next]_vars /\ Lives
  BY DEF Next, Lives
<1>2. /\ UNCHANGED <<attempts, store, woken, successor, log, read>>
      /\ cursor' = Len(log)
  BY DEF Poll
<1>3. Control'
  BY PollControl DEF Kept
<1>4. AllEarned'
  BY <1>1, <1>2, WokenStays, AllStay
<1>5. QueueMatchesLog'
  <2> SUFFICES ASSUME NEW s \in Subs, NEW q \in queue'[s]
               PROVE  q.pos <= Len(log) /\ log[q.pos] = q.ev /\ q.ev \in Wants[s]
    BY <1>2 DEF QueueMatchesLog
  <2>1. CASE q \in queue[s]
    BY <2>1 DEF Kept, QueueMatchesLog, Control, TypeOK
  <2>2. CASE q \in Arrivals(s)
    BY <2>2 DEF Arrivals, Item, Kept, Control, TypeOK
  <2> QED BY <2>1, <2>2 DEF Poll, Kept, Control, TypeOK
<1>6. Passed'
  <2> SUFFICES ASSUME NEW s \in Subs, NEW i \in 1..Len(log), NEW e \in Wants[s],
                      log[i] = e
               PROVE  e \in Named(queue'[s]) \/ Offered(s, e)'
    BY <1>2 DEF Passed, Named
  <2>1. queue[s] \subseteq queue'[s]
    BY DEF Poll, Kept, Control, TypeOK
  <2>2. e \in Events /\ s \in Through(s, e)
    BY WantsTyped DEF Through
  <2>3. ASSUME Handled(s, e)' PROVE Offered(s, e)'
    BY <2>2, <2>3 DEF Offered, Through
  <2>4. CASE i \in 1..cursor
    <3>1. CASE Offered(s, e)
      BY <1>1, <2>2, <3>1, OfferedStays DEF Kept
    <3>2. CASE e \in Named(queue[s])
      BY <2>1, <3>2 DEF Named
    <3> QED BY <2>4, <3>1, <3>2 DEF Kept, Passed
  <2>5. CASE i \in cursor + 1..Len(log)
    <3>1. CASE e \in read
      BY <1>2, <2>3, <3>1 DEF Handled, Settled
    <3>2. CASE benched
      <4>1. <<s, e>> \in excused'
        BY <2>2, <2>5, <3>2 DEF Poll
      <4> QED BY <2>3, <4>1 DEF Handled, Settled
    <3>3. CASE e \notin read /\ ~benched
      <4>1. queue'[s] = queue[s] \cup Arrivals(s)
        BY <3>3 DEF Poll
      <4>2. e \in Named(queue[s] \cup Arrivals(s))
        BY <2>5, <3>3, BatchIsQueued DEF Kept
      <4> QED BY <4>1, <4>2 DEF Named
    <3> QED BY <3>1, <3>2, <3>3
  <2> QED BY <2>4, <2>5 DEF Kept, Control, TypeOK
<1> QED BY <1>3, <1>4, <1>5, <1>6 DEF Kept

LEMMA PollUnreadableKept ==
    ASSUME Kept, PollUnreadable PROVE Kept'
<1>1. [Next]_vars /\ Lives
  BY DEF Next, Lives
<1>2. UNCHANGED <<mailbox, cursors, queue, attempts, store, woken, successor>>
  BY DEF PollUnreadable
<1> QED BY <1>1, <1>2, PollUnreadableControl, QueueStays, PassedStays, WokenStays,
           AllStay DEF Kept

-----------------------------------------------------------------------------
\* A flush of s: its queue empties, what is persisted covers what was offered.
LEMMA ConsumesEarned ==
    ASSUME Kept, NEW s \in Subs, Flush(s), Consumes(s)
    PROVE  WokenEarned'
<1> Control /\ [Next]_vars /\ Lives
  BY DEF Kept, Next, Lives
<1>1. PICK k \in 1..Len(log) :
          /\ IsLast(k, Survivors(s))
          /\ Persists(claims \cup Unclaimed(s), Advanced(s, k))
  BY DEF Consumes
<1>2. PICK c : c = claims \cup Unclaimed(s)
  OBVIOUS
<1>3. PICK f : f = Advanced(s, k)
  OBVIOUS
<1>4. k \in 0..Len(log)
  BY DEF Control, TypeOK
<1>5. c \in SUBSET Messages /\ f \in [Subs -> 0..Len(log)]
  BY <1>2, <1>3, <1>4, FlushTyped, AdvancedTyped DEF Control, TypeOK
<1>6. \A m \in c : \A t \in Subs : m \in Wants[t] => Offered(t, m)'
  BY <1>2, FlushClaimsEarned
<1>7. \A t \in Subs : Below(t, f[t])'
  <2>1. ASSUME NEW t \in Subs, f[t] = mark[t] PROVE Below(t, f[t])'
    BY <1>5, <2>1, BelowStays DEF Kept, AllEarned
  <2>2. CASE f[s] = k
    <3>1. PICK i \in Survivors(s) : i.pos = k
      BY <1>1 DEF IsLast
    <3>2. k \in 0..cursor
      <4>1. i \in queue[s]
        BY FlushTyped DEF Control
      <4>2. i.pos <= cursor
        BY <4>1 DEF Kept, QueueMatchesLog
      <4> QED BY <1>4, <3>1, <4>2 DEF Control, TypeOK
    <3>3. Below(s, k)'
      BY <3>2, FlushEmpties
    <3>4. \A t \in Subs \ {s} : f[t] = mark[t]
      BY <1>3 DEF Advanced, Control, TypeOK
    <3> QED BY <2>1, <2>2, <3>3, <3>4
  <2>3. f[s] = k \/ f[s] = mark[s]
    BY <1>3 DEF Advanced, Control, TypeOK
  <2>4. \A t \in Subs \ {s} : f[t] = mark[t]
    BY <1>3 DEF Advanced, Control, TypeOK
  <2> QED BY <2>1, <2>2, <2>3, <2>4
<1>8. Persists(c, f)
  BY <1>1, <1>2, <1>3
<1>9. Earned(saved)
  BY DEF Kept, AllEarned
<1> QED BY <1>5, <1>6, <1>7, <1>8, <1>9, PersistsEarned DEF WokenEarned

\* The claims an adapter is called with are in memory only.
LEMMA FlushOutEarned ==
    ASSUME Kept, NEW s \in Subs, FlushOut(s)
    PROVE  /\ WokenEarned'
           /\ \A a \in attempts' \ attempts : Below(a.sub, a.upTo)'
<1> Control /\ [Next]_vars /\ Flush(s) /\ Lives
  BY DEF Kept, Next, Flush, Lives
<1>1. /\ claims' = claims \cup Unclaimed(s)
      /\ UNCHANGED <<mark, saved>>
  BY DEF FlushOut
<1>2. ClaimsEarned(claims)'
  BY <1>1, FlushClaimsEarned DEF ClaimsEarned
<1>3. PICK f : f = mark
  OBVIOUS
<1>4. PICK w : w = saved
  OBVIOUS
<1>5. \A t \in Subs : Below(t, f[t])'
  BY <1>3, BelowStays DEF Kept, AllEarned, Control, TypeOK
<1>6. Earned(w)'
  BY <1>4, EarnedStays DEF Kept, AllEarned, Control, TypeOK
<1>7. WokenEarned'
  BY <1>1, <1>2, <1>3, <1>4, <1>5, <1>6 DEF WokenEarned, Below, Earned, ClaimsEarned
<1>8. PICK k \in 1..Len(log) :
          /\ IsLast(k, Survivors(s))
          /\ attempts' = attempts \cup {Attempt(s, "direct", Digest(s), k)}
  BY DEF FlushOut
<1>9. k \in 0..cursor
  <2>1. PICK i \in Survivors(s) : i.pos = k
    BY <1>8 DEF IsLast
  <2>2. i \in queue[s]
    BY <2>1 DEF Survivors
  <2>3. k <= cursor
    BY <2>1, <2>2 DEF Kept, QueueMatchesLog
  <2>4. cursor \in Nat /\ Len(log) \in Nat
    BY DEF Control, TypeOK
  <2> QED BY <2>3, <2>4
<1>10. Below(s, k)'
  BY <1>9, FlushEmpties
<1>11. \A a \in attempts' \ attempts : a.sub = s /\ a.upTo = k
  BY <1>8 DEF Attempt
<1> QED BY <1>7, <1>10, <1>11

LEMMA FlushKept ==
    ASSUME Kept, NEW s \in Subs, Flush(s) PROVE Kept'
<1>1. [Next]_vars /\ Lives
  BY DEF Next, Lives
<1>2. Control'
  BY FlushControl DEF Kept
<1>3. cursor' = cursor /\ queue' = [queue EXCEPT ![s] = {}] /\ successor' = successor
  BY DEF Flush, FlushBenched, FlushNothing, FlushMerge, FlushOut, Takes
<1>4. QueueMatchesLog'
  <2>1. \A t \in Subs : queue'[t] \subseteq queue[t]
    BY <1>3 DEF Kept, Control, TypeOK
  <2> QED BY <1>1, <1>3, <2>1, QueueStays
<1>5. Passed'
  <2>1. \A e \in Named(queue[s]) : Offered(s, e)'
    BY FlushOffers
  <2>2. \A t \in Subs \ {s} : queue'[t] = queue[t]
    BY <1>3 DEF Kept, Control, TypeOK
  <2> QED BY <1>1, <1>3, <2>1, <2>2, PassedStays
<1>6. WokenEarned' /\ \A a \in attempts' \ attempts : Below(a.sub, a.upTo)'
  <2>1. CASE FlushOut(s)
    BY <2>1, FlushOutEarned
  <2>2. CASE Consumes(s) /\ attempts' = attempts
    BY <2>2, ConsumesEarned
  <2>3. CASE UNCHANGED woken /\ attempts' = attempts
    BY <1>1, <2>3, WokenStays
  <2> QED BY <2>1, <2>2, <2>3 DEF Flush, FlushBenched, FlushNothing, FlushMerge
<1>7. AllEarned'
  BY <1>1, <1>3, <1>6, AllStay
<1> QED BY <1>2, <1>4, <1>5, <1>7 DEF Kept

LEMMA RetryKept ==
    ASSUME Kept, NEW s \in Subs, Retry(s) PROVE Kept'
<1>1. [Next]_vars /\ Lives
  BY DEF Next, Lives
<1>2. Control'
  BY RetryControl DEF Kept
<1>3. UNCHANGED <<cursors, queue, woken, successor>>
  BY DEF Retry, RetryBenched, RetryDrop, RetryOut
<1>4. \A a \in attempts' \ attempts : a.upTo = 0
  BY DEF Retry, RetryBenched, RetryDrop, RetryOut, Attempt
<1>5. \A a \in attempts' \ attempts : Below(a.sub, a.upTo)'
  BY <1>4 DEF Below
<1> QED BY <1>1, <1>2, <1>3, <1>5, QueueStays, PassedStays, WokenStays, AllStay DEF Kept

-----------------------------------------------------------------------------
\* A direct attempt moves the watermark to the last event it consumed.
LEMMA ConsumedEarned ==
    ASSUME Kept, NEW a \in attempts, Consumed(a), [Next]_vars, Lives
    PROVE  WokenEarned'
<1> USE DEF Kept
<1>1. PICK c : c = claims
  OBVIOUS
<1>2. PICK f : f = Advanced(a.sub, a.upTo)
  OBVIOUS
<1>3. a.sub \in Subs /\ a.upTo \in 0..Len(log)
  BY DEF Control, TypeOK
<1>4. c \in SUBSET Messages /\ f \in [Subs -> 0..Len(log)]
  BY <1>1, <1>2, <1>3, AdvancedTyped DEF Control, TypeOK
<1>5. \A m \in c : \A t \in Subs : m \in Wants[t] => Offered(t, m)'
  BY <1>1, OfferedStays DEF AllEarned, ClaimsEarned, Control, TypeOK, Events
<1>6. ASSUME NEW t \in Subs PROVE Below(t, f[t])'
  <2>1. CASE f[t] = mark[t]
    BY <1>4, <2>1, BelowStays DEF AllEarned
  <2>2. CASE t = a.sub /\ f[t] = a.upTo
    BY <1>3, <2>2, BelowStays DEF AllEarned
  <2> QED BY <1>2, <2>1, <2>2 DEF Advanced, Control, TypeOK
<1>7. Persists(c, f)
  BY <1>1, <1>2 DEF Consumed
<1> QED BY <1>4, <1>5, <1>6, <1>7, PersistsEarned DEF WokenEarned, AllEarned

\* An attempt whose outcome is unknown leaves the watermark where it is.
LEMMA UnknownEarned ==
    ASSUME Kept, [Next]_vars, Lives, Saves(claims, mark) \/ SaveFails(claims, mark)
    PROVE  WokenEarned'
<1> USE DEF Kept
<1>1. PICK d \in SUBSET Messages : d = claims \ read
  BY DEF Control, TypeOK
<1>2. PICK f \in [Subs -> 0..Len(log)] : f = mark
  BY DEF Control, TypeOK
<1>3. PICK w \in Woken : w = saved
  BY DEF Control, TypeOK
<1>4. ClaimsEarned(d)'
  BY <1>1, ClaimsStay DEF AllEarned, ClaimsEarned
<1>5. \A s \in Subs : Below(s, f[s])'
  BY <1>2, BelowStays DEF AllEarned
<1>6. Earned(w)'
  BY <1>3, EarnedStays DEF AllEarned
<1>7. claims' = d /\ mark' = f /\ (saved' = w \/ (saved'.claims = d /\ saved'.mark = f))
  BY <1>1, <1>2, <1>3 DEF Saves, SaveFails
<1>8. ClaimsEarned(claims)' /\ \A s \in Subs : Below(s, mark[s])'
  BY <1>4, <1>5, <1>7 DEF ClaimsEarned, Below
<1>9. Earned(saved)'
  BY <1>4, <1>5, <1>6, <1>7 DEF Earned, ClaimsEarned, Below
<1> QED BY <1>8, <1>9 DEF WokenEarned

LEMMA ResolveKept ==
    ASSUME Kept, NEW a \in attempts, Resolve(a) PROVE Kept'
<1>1. [Next]_vars /\ Lives
  BY DEF Next, Lives
<1>2. Control'
  BY DirectControl, RetryEndsControl DEF Kept, Resolve
<1>3. UNCHANGED <<cursors, queue, successor>> /\ attempts' \subseteq attempts
  BY DEF Resolve, DirectDelivered, DirectSkipped, DirectFailed, DirectUnknown,
         RetryDelivered, RetrySkipped, RetryFailed, RetryUnknown, Ends
<1>4. WokenEarned'
  <2>1. CASE DirectDelivered(a) \/ DirectSkipped(a) \/ DirectFailed(a)
    BY <1>1, <2>1, ConsumedEarned DEF DirectDelivered, DirectSkipped, DirectFailed
  <2>2. CASE DirectUnknown(a)
    BY <1>1, <2>2, UnknownEarned, WokenStays DEF DirectUnknown
  <2>3. CASE RetryDelivered(a) \/ RetrySkipped(a) \/ RetryFailed(a) \/ RetryUnknown(a)
    BY <1>1, <2>3, WokenStays
       DEF RetryDelivered, RetrySkipped, RetryFailed, RetryUnknown
  <2> QED BY <2>1, <2>2, <2>3 DEF Resolve
<1> QED BY <1>1, <1>2, <1>3, <1>4, QueueStays, PassedStays, AllStay DEF Kept

-----------------------------------------------------------------------------
LEMMA SettledAtBegin ==
    ASSUME TypeOK, NEW w, NEW landed \in SUBSET attempts, Begins(w, landed),
           NEW r \in Subs, NEW e \in Events, Settled(r, e)
    PROVE  Settled(r, e)'
<1>1. UNCHANGED <<read, aged, excused, doubtful>>
  BY DEF Begins
<1>2. landings[r][e] \in 0..2
  BY DEF TypeOK
<1>3. landings'[r][e] = IF Carries(landed, r, e) /\ landings[r][e] < 2
                        THEN landings[r][e] + 1 ELSE landings[r][e]
  BY DEF Begins
<1>4. landings[r][e] > 0 => landings'[r][e] > 0
  BY <1>2, <1>3
<1> QED BY <1>1, <1>4 DEF Settled

LEMMA SameRoutes ==
    ASSUME NEW s \in Subs, NEW e \in Wants[s], NEW r \in Through(s, e)
    PROVE  Through(r, e) = Through(s, e)
BY DEF Through

\* What a daemon that begins will not come to again is settled or has perished.
LEMMA BeginsAccounts ==
    ASSUME Control, NEW w, NEW landed \in SUBSET attempts, Begins(w, landed),
           NEW s \in Subs, NEW e \in Wants[s], ~Returns(w, s, e),
           e \in Named(queue[s]) \/ Offered(s, e)
    PROVE  Offered(s, e)'
<1>1. e \in Events /\ s \in Through(s, e)
  BY WantsTyped DEF Through
<1>2. Offered(s, e)' <=> \E r \in Through(s, e) : Handled(r, e)'
  BY DEF Offered, Through
<1>3. CASE \E r \in Through(s, e) : Settled(r, e)'
  BY <1>2, <1>3 DEF Handled
<1>4. CASE \A r \in Through(s, e) : ~Settled(r, e)'
  <2>1. PICK r \in Through(s, e) : Waiting(r, e) \/ <<r, e>> \in perished \/ Settled(r, e)
    BY <1>1 DEF Offered, Handled, Waiting
  <2>2. r \in Subs
    BY DEF Through
  <2>3. CASE Settled(r, e)
    BY <1>1, <1>4, <2>2, <2>3, SettledAtBegin DEF Control
  <2>4. CASE <<r, e>> \in perished
    BY <1>2, <2>4 DEF Begins, Handled
  <2>5. CASE Waiting(r, e)
    <3>1. Through(r, e) = Through(s, e)
      BY SameRoutes
    <3>2. ~Returns(w, r, e)
      BY <3>1 DEF Returns
    <3>3. <<r, e>> \in perished'
      BY <1>1, <1>4, <2>2, <2>5, <3>1, <3>2 DEF Begins
    <3> QED BY <1>2, <3>3 DEF Handled
  <2> QED BY <2>1, <2>3, <2>4, <2>5
<1> QED BY <1>3, <1>4

\* A daemon starts from what the files say: what they know of had been offered.
LEMMA BeginsEarned ==
    ASSUME Kept, NEW w, NEW landed \in SUBSET attempts, Begins(w, landed), Earned(w),
           NEW v \in {w, saved}, v \in Woken
    PROVE  Earned(v)'
<1> USE DEF Kept
<1>1. Earned(v) /\ log' = log
  BY DEF AllEarned, Begins
<1>2. ASSUME NEW m \in v.claims, NEW s \in Subs, m \in Wants[s]
      PROVE  Offered(s, m)'
  <2>1. Offered(s, m)
    BY <1>1, <1>2 DEF Earned, ClaimsEarned
  <2>2. ~Returns(w, s, m)
    BY <1>2 DEF Returns
  <2> QED BY <1>2, <2>1, <2>2, BeginsAccounts
<1>3. ASSUME NEW s \in Subs, NEW i \in 1..v.mark[s], NEW e \in Wants[s], log[i] = e
      PROVE  Offered(s, e)'
  <2>1. Offered(s, e)
    BY <1>1, <1>3 DEF Earned, Below
  <2>2. v.mark[s] \in 0..Len(log) /\ Len(log) \in Nat
    BY DEF Woken, Control, TypeOK
  <2>3. i \in 1..Len(log) /\ ~(i > v.mark[s]) /\ s \in Through(s, e)
    BY <2>2 DEF Through
  <2>4. ~Returns(w, s, e)
    BY <1>3, <2>3 DEF Returns
  <2> QED BY <2>1, <2>4, BeginsAccounts
<1> QED BY <1>1, <1>2, <1>3 DEF Earned, ClaimsEarned, Below

LEMMA BeginsKept ==
    ASSUME Kept, Control', NEW w \in Woken, NEW landed \in SUBSET attempts,
           Begins(w, landed), Earned(w), successor' = {}
    PROVE  Kept'
<1> USE DEF Kept
<1>1. /\ UNCHANGED <<log, saved>>
      /\ claims' = w.claims /\ mark' = w.mark
      /\ attempts' = {} /\ cursor' = savedCursor
      /\ \A s \in Subs : queue'[s] = {}
  BY DEF Begins, Resumes
<1>2. QueueMatchesLog'
  BY <1>1 DEF QueueMatchesLog
<1>3. AllEarned'
  <2>1. PICK v \in Woken : v = saved
    BY DEF Control, TypeOK
  <2>2. Earned(w)' /\ Earned(v)'
    BY <2>1, BeginsEarned
  <2> QED BY <1>1, <2>1, <2>2 DEF AllEarned, Earned, ClaimsEarned, Below
<1>4. Passed'
  <2> SUFFICES ASSUME NEW s \in Subs, NEW i \in 1..savedCursor, NEW e \in Wants[s],
                      log[i] = e
               PROVE  Offered(s, e)'
    BY <1>1 DEF Passed
  <2>1. /\ i \in 1..cursor /\ i \in 1..Len(log)
        /\ ~(i > savedCursor)
    BY DEF Control, TypeOK
  <2>2. e \in Named(queue[s]) \/ Offered(s, e)
    BY <2>1 DEF Passed
  <2>3. ~Returns(w, s, e)
    BY <2>1 DEF Returns
  <2> QED BY <2>2, <2>3, BeginsAccounts
<1> QED BY <1>2, <1>3, <1>4

LEMMA SuccessionKept ==
    ASSUME Kept, Succession PROVE Kept'
<1>1. [Next]_vars
  BY DEF Next
<1>2. Control'
  BY SuccessionControl DEF Kept
<1>3. saved \in Woken /\ successor \subseteq Woken /\ Earned(saved) /\ \A w \in successor : Earned(w)
  BY DEF Kept, Control, TypeOK, AllEarned
<1>4. CASE Restart
  BY <1>2, <1>3, <1>4, BeginsKept DEF Restart
<1>5. CASE StartSuccessor
  <2>1. /\ UNCHANGED <<mailbox, cursors, queue, attempts, store, woken>>
        /\ successor' = {saved}
    BY <1>5 DEF StartSuccessor
  <2> Lives
    BY <1>5 DEF Lives
  <2>2. QueueMatchesLog' /\ Passed' /\ WokenEarned'
    BY <1>1, <2>1, QueueStays, PassedStays, WokenStays
  <2>3. \A w \in successor' : Earned(w)'
    BY <1>1, <1>3, <2>1, EarnedStays DEF Kept
  <2>4. \A a \in attempts : Below(a.sub, a.upTo)'
    BY <1>1, BelowStays DEF Kept, AllEarned, Control, TypeOK
  <2>5. AllEarned'
    BY <2>1, <2>2, <2>3, <2>4 DEF AllEarned, WokenEarned
  <2> QED BY <1>2, <2>2, <2>5 DEF Kept
<1>6. CASE TakeOver
  BY <1>2, <1>3, <1>6, BeginsKept DEF TakeOver
<1> QED BY <1>4, <1>5, <1>6 DEF Succession

LEMMA NextKept == Kept /\ [Next]_vars => Kept'
<1> SUFFICES ASSUME Kept, [Next]_vars PROVE Kept'
  OBVIOUS
<1>1. CASE UNCHANGED vars
  <2>1. Control'
    BY NextControl DEF Kept
  <2>2. UNCHANGED <<mailbox, cursors, queue, attempts, store, woken, successor>>
    BY <1>1 DEF vars
  <2>3. Lives
    BY <1>1 DEF Lives
  <2> QED BY <2>1, <2>2, <2>3, QueueStays, PassedStays, WokenStays, AllStay DEF Kept
<1>2. CASE Next
  BY <1>2, ExternalKept, PollKept, PollUnreadableKept, FlushKept, RetryKept,
     ResolveKept, SuccessionKept DEF Next
<1> QED BY <1>1, <1>2

\* An event below the cursor is queued or has left the queue by an attempt, the
\* retry store or one of the named ways, across merges, retries, faults and
\* successions (queueEvent, flush, drainPendingDeliveryRetries).
THEOREM NothingLost == Spec => []NothingIsLost
<1>1. Kept => NothingIsLost
  BY DEF Kept, Passed, NothingIsLost
<1> QED BY <1>1, InitKept, NextKept, PTL DEF Spec

\* A watermark, persisted after the await while arrivals are queued, never
\* passes an event of the queue that has not been offered (daemon.mjs:1084-1092).
THEOREM WatermarkIsBehind == Spec => []MarkIsBehind
<1>1. Kept => MarkIsBehind
  <2> SUFFICES ASSUME Kept, NEW s \in Subs, NEW q \in queue[s], q.pos <= mark[s]
               PROVE  Offered(s, q.ev)
    BY DEF MarkIsBehind
  <2>1. q.pos \in 1..mark[s]
    BY DEF Kept, Control, TypeOK
  <2>2. log[q.pos] = q.ev /\ q.ev \in Wants[s] /\ Below(s, mark[s])
    BY DEF Kept, QueueMatchesLog, AllEarned
  <2> QED BY <2>1, <2>2 DEF Below
<1> QED BY <1>1, InitKept, NextKept, PTL DEF Spec

-----------------------------------------------------------------------------
(***************************************************************************)
(* One physical prompt: OnePrompt.  A copy of an event is in the retry     *)
(* store, in an attempt or at the seat.  The invariant says that each      *)
(* subscription has at most one copy of an event, and that a copy is       *)
(* known: to the claims, or to the watermark of its subscription, or to    *)
(* the attempt that carries it.                                            *)
(***************************************************************************)

Has(s, e) == InHand(s, e) \/ landings[s][e] > 0

Once(s, e) ==
    /\ landings[s][e] <= 1
    /\ ~(e \in held[s] /\ Carries(attempts, s, e))
    /\ landings[s][e] > 0 => ~InHand(s, e)

Unsure == doubtful \cup forgotten

Covered(e, k) == \E i \in 1..Len(log) : log[i] = e /\ i <= k

\* A direct attempt knows its events until it has answered.
InAttempt(s, e) ==
    \E a \in attempts :
        a.sub = s /\ a.kind = "direct" /\ e \in a.events /\ Covered(e, a.upTo)

Known(s, e) ==
    IF e \in Messages THEN e \in claims \cup read
    ELSE Covered(e, mark[s]) \/ InAttempt(s, e)

\* No signal is in the log twice.
SignalsOnce ==
    \A i, j \in 1..Len(log) : log[i] = log[j] /\ log[i] \notin Messages => i = j

Single ==
    \A s \in Subs : \A e \in Events :
        <<s, e>> \notin Unsure => Once(s, e) /\ (Has(s, e) => Known(s, e))

\* A message has one route, of those that are sure of it.
Apart ==
    \A m \in Messages : \A s, t \in Subs :
        /\ <<s, m>> \notin Unsure /\ Has(s, m)
        /\ <<t, m>> \notin Unsure /\ Has(t, m)
        => s = t

Prompts == Kept /\ SignalsOnce /\ Single /\ Apart

-----------------------------------------------------------------------------
(***************************************************************************)
(* How the copies of an event move                                         *)
(***************************************************************************)

\* A flush offers e for the first time.
Fresh(s, e) == (FlushMerge(s) \/ FlushOut(s)) /\ e \in Digest(s)

Moves(s, e) == (Has(s, e)' => Has(s, e)) /\ (Once(s, e) => Once(s, e)')

LEMMA SameCopies ==
    ASSUME NEW s \in Subs, NEW e \in Events, held'[s] = held[s],
           landings'[s][e] = landings[s][e],
           Carries(attempts, s, e)' <=> Carries(attempts, s, e)
    PROVE  Moves(s, e)
BY DEF Moves, Has, Once, InHand

LEMMA LandedIs ==
    ASSUME TypeOK, NEW a \in attempts, NEW s \in Subs, NEW e \in Events
    PROVE  /\ landings[s][e] \in 0..2
           /\ Landed(a)[s][e] = IF a.sub = s /\ e \in a.events /\ landings[s][e] < 2
                                THEN landings[s][e] + 1 ELSE landings[s][e]
<1>1. a.sub \in Subs /\ landings \in [Subs -> [Events -> 0..2]]
  BY DEF TypeOK
<1>2. CASE a.sub = s
  BY <1>1, <1>2 DEF Landed
<1>3. CASE a.sub # s
  BY <1>1, <1>3 DEF Landed
<1> QED BY <1>2, <1>3

LEMMA FlushMoves ==
    ASSUME Control, NEW q \in Subs, Flush(q), NEW s \in Subs, NEW e \in Events
    PROVE  Moves(s, e) \/ Fresh(s, e)
<1> TypeOK
  BY DEF Control
<1>1. UNCHANGED landings
  BY DEF Flush, FlushBenched, FlushNothing, FlushMerge, FlushOut
<1>2. CASE FlushBenched(q) \/ FlushNothing(q)
  <2>1. UNCHANGED <<held, attempts>>
    BY <1>2 DEF FlushBenched, FlushNothing
  <2> QED BY <1>1, <2>1, SameCopies DEF Carries
<1>3. CASE FlushMerge(q)
  <2>1. /\ UNCHANGED attempts
        /\ held' = [held EXCEPT ![q] = held[q] \cup Digest(q)]
    BY <1>3 DEF FlushMerge
  <2>2. CASE s # q
    BY <1>1, <2>1, <2>2, SameCopies DEF Carries, TypeOK
  <2>3. CASE s = q /\ e \in Digest(s)
    BY <1>3, <2>3 DEF Fresh
  <2>4. CASE s = q /\ e \notin Digest(s)
    <3>1. e \in held'[s] <=> e \in held[s]
      BY <2>1, <2>4 DEF TypeOK
    <3> QED BY <1>1, <2>1, <3>1 DEF Moves, Has, Once, InHand, Carries
  <2> QED BY <2>2, <2>3, <2>4
<1>4. CASE FlushOut(q)
  <2>1. PICK k \in 1..Len(log) : attempts' = attempts \cup {Attempt(q, "direct", Digest(q), k)}
    BY <1>4 DEF FlushOut
  <2>2. UNCHANGED held
    BY <1>4 DEF FlushOut
  <2>3. CASE s = q /\ e \in Digest(s)
    BY <1>4, <2>3 DEF Fresh
  <2>4. CASE ~(s = q /\ e \in Digest(s))
    <3>1. Carries(attempts, s, e)' <=> Carries(attempts, s, e)
      BY <2>1, <2>4 DEF Carries, Attempt
    <3> QED BY <1>1, <2>2, <3>1, SameCopies
  <2> QED BY <2>3, <2>4
<1> QED BY <1>2, <1>3, <1>4 DEF Flush

LEMMA RetryMoves ==
    ASSUME Control, NEW q \in Subs, Retry(q), NEW s \in Subs, NEW e \in Events
    PROVE  Moves(s, e)
<1> TypeOK
  BY DEF Control
<1>1. UNCHANGED landings
  BY DEF Retry, RetryBenched, RetryDrop, RetryOut
<1>2. CASE RetryBenched(q) \/ RetryDrop(q)
  <2>1. UNCHANGED attempts /\ held' = [held EXCEPT ![q] = {}]
    BY <1>2 DEF RetryBenched, RetryDrop, Removed
  <2>2. held'[s] \subseteq held[s]
    BY <2>1 DEF TypeOK
  <2> QED BY <1>1, <2>1, <2>2 DEF Moves, Has, Once, InHand, Carries
<1>3. CASE RetryOut(q)
  <2>1. /\ attempts' = attempts \cup {Attempt(q, "retry", Live(q), 0)}
        /\ held' = [held EXCEPT ![q] = {}]
    BY <1>3 DEF RetryOut
  <2>2. CASE s # q
    <3>1. Carries(attempts, s, e)' <=> Carries(attempts, s, e)
      BY <2>1, <2>2 DEF Carries, Attempt
    <3>2. held'[s] = held[s]
      BY <2>1, <2>2 DEF TypeOK
    <3> QED BY <1>1, <3>1, <3>2, SameCopies
  <2>3. CASE s = q
    <3>1. e \notin held'[s]
      BY <2>1, <2>3 DEF TypeOK
    <3>2. Carries(attempts, s, e)' => Carries(attempts, s, e) \/ e \in held[s]
      BY <2>1, <2>3 DEF Carries, Attempt, Live
    <3> QED BY <1>1, <3>1, <3>2 DEF Moves, Has, Once, InHand
  <2> QED BY <2>2, <2>3
<1> QED BY <1>2, <1>3 DEF Retry

LEMMA ResolveMoves ==
    ASSUME Control, NEW a \in attempts, Resolve(a), NEW s \in Subs, NEW e \in Events,
           <<s, e>> \notin doubtful'
    PROVE  Moves(s, e)
<1> TypeOK
  BY DEF Control
<1>1. PICK k \in {"direct", "retry"} : Ends(a, k)
  BY DEF Resolve, DirectDelivered, DirectSkipped, DirectFailed, DirectUnknown,
         RetryDelivered, RetrySkipped, RetryFailed, RetryUnknown
<1>2. a.sub \in Subs /\ attempts' = attempts \ {a}
  BY <1>1 DEF TypeOK, Ends
<1>3. landings' = landings \/ landings' = Landed(a)
  BY DEF Resolve, DirectDelivered, DirectSkipped, DirectFailed, DirectUnknown,
         RetryDelivered, RetrySkipped, RetryFailed, RetryUnknown
<1>4. \A r \in Subs : r # a.sub => held'[r] = held[r]
  BY <1>2 DEF Resolve, DirectDelivered, DirectSkipped, DirectFailed, DirectUnknown,
     RetryDelivered, RetrySkipped, RetryFailed, RetryUnknown, Retires, Removed, TypeOK
<1>5. CASE a.sub # s
  <2>1. Carries(attempts, s, e)' <=> Carries(attempts, s, e)
    BY <1>2, <1>5 DEF Carries
  <2>2. landings'[s][e] = landings[s][e]
    BY <1>3, <1>5, LandedIs
  <2> QED BY <1>4, <1>5, <2>1, <2>2, SameCopies
<1>6. CASE a.sub = s
  <2>1. ~ Carries(attempts, s, e)'
    BY <1>1, <1>6, AttemptEnds DEF Carries
  <2>2. e \in a.events => Carries(attempts, s, e)
    BY <1>6 DEF Carries
  <2>3. landings[s][e] \in 0..2
    BY LandedIs
  <2>4. ASSUME landings' = Landed(a), e \in held'[s] => e \in held[s] PROVE Moves(s, e)
    BY <2>1, <2>2, <2>3, <2>4, LandedIs, <1>6 DEF Moves, Has, Once, InHand
  <2>5. ASSUME landings' = landings, e \in held'[s] => e \in held[s] \cup a.events
        PROVE  Moves(s, e)
    BY <2>1, <2>2, <2>3, <2>5 DEF Moves, Has, Once, InHand
  <2>6. Retires(a.sub) => held'[s] \subseteq held[s]
    BY <1>2, <1>6 DEF Retires, Removed, TypeOK
  <2>7. CASE DirectDelivered(a)
    BY <2>4, <2>7 DEF DirectDelivered
  <2>8. CASE DirectSkipped(a)
    BY <2>5, <2>8 DEF DirectSkipped
  <2>9. CASE DirectFailed(a)
    <3>1. held' = held \/ held' = [held EXCEPT ![a.sub] = held[a.sub] \cup a.events]
      BY <2>9 DEF DirectFailed
    <3> QED BY <1>2, <1>6, <2>5, <2>9, <3>1 DEF DirectFailed, TypeOK
  <2>10. CASE RetryDelivered(a)
    BY <2>4, <2>6, <2>10 DEF RetryDelivered
  <2>11. CASE RetrySkipped(a)
    BY <2>5, <2>6, <2>11 DEF RetrySkipped
  <2>12. CASE RetryFailed(a)
    <3>1. \/ held' = [held EXCEPT ![a.sub] = {}]
          \/ held' = [held EXCEPT ![a.sub] = held[a.sub] \cup a.events]
      BY <2>12 DEF RetryFailed, Removed
    <3> QED BY <1>2, <1>6, <2>5, <2>12, <3>1 DEF RetryFailed, TypeOK
  <2>13. CASE DirectUnknown(a) \/ RetryUnknown(a)
    <3>1. e \notin a.events
      BY <1>6, <2>13 DEF DirectUnknown, RetryUnknown
    <3>2. e \in held'[s] => e \in held[s]
      BY <1>2, <1>6, <2>13, <3>1 DEF DirectUnknown, RetryUnknown, TypeOK
    <3> QED BY <1>3, <2>4, <2>5, <3>2
  <2> QED BY <2>7, <2>8, <2>9, <2>10, <2>11, <2>12, <2>13 DEF Resolve
<1> QED BY <1>5, <1>6

LEMMA CopiesMove ==
    ASSUME Control, [Next]_vars, NEW s \in Subs, NEW e \in Events, <<s, e>> \notin Unsure'
    PROVE  Moves(s, e) \/ Fresh(s, e) \/ Restart \/ TakeOver
<1>1. ASSUME UNCHANGED <<held, attempts, landings>> PROVE Moves(s, e)
  BY <1>1, SameCopies DEF Carries
<1>2. CASE UNCHANGED vars
  BY <1>1, <1>2 DEF vars
<1>3. CASE External \/ Poll \/ PollUnreadable
  BY <1>1, <1>3 DEF External, Emit, EmitAgain, Read, Age, SetBench, Poll, PollUnreadable
<1>4. CASE \E q \in Subs : Flush(q)
  BY <1>4, FlushMoves
<1>5. CASE \E q \in Subs : Retry(q)
  BY <1>5, RetryMoves
<1>6. CASE \E a \in attempts : Resolve(a)
  BY <1>6, ResolveMoves DEF Unsure
<1>7. CASE Succession
  BY <1>1, <1>7 DEF Succession, StartSuccessor
<1> QED BY <1>2, <1>3, <1>4, <1>5, <1>6, <1>7 DEF Next

-----------------------------------------------------------------------------
(***************************************************************************)
(* What a daemon knows of its copies                                       *)
(***************************************************************************)

LEMMA LogSteps ==
    ASSUME [Next]_vars
    PROVE  \/ log' = log
           \/ \E e \in Events : log' = Append(log, e) /\ (e \in Messages \/ e \notin Entries)
<1>1. CASE External
  BY <1>1 DEF External, Emit, EmitAgain, Read, Age, SetBench, Events
<1>2. CASE \/ Poll \/ PollUnreadable \/ Succession
           \/ \E s \in Subs : Flush(s) \/ Retry(s)
           \/ \E a \in attempts : Resolve(a)
           \/ UNCHANGED vars
  BY <1>2 DEF Poll, PollUnreadable, Succession, Restart, StartSuccessor, TakeOver, Begins,
     Flush, FlushBenched, FlushNothing, FlushMerge, FlushOut,
     Retry, RetryBenched, RetryDrop, RetryOut,
     Resolve, DirectDelivered, DirectSkipped, DirectFailed, DirectUnknown,
     RetryDelivered, RetrySkipped, RetryFailed, RetryUnknown, Ends, vars
<1> QED BY <1>1, <1>2 DEF Next

LEMMA DirectEnds ==
    ASSUME Control, [Next]_vars, ~Restart, ~TakeOver,
           NEW a \in attempts, a.kind = "direct", a \notin attempts'
    PROVE  DirectDelivered(a) \/ DirectSkipped(a) \/ DirectFailed(a) \/ DirectUnknown(a)
<1>1. CASE \/ External \/ Poll \/ PollUnreadable \/ StartSuccessor
           \/ \E s \in Subs : Flush(s) \/ Retry(s)
           \/ UNCHANGED vars
  BY <1>1 DEF External, Emit, EmitAgain, Read, Age, SetBench, Poll, PollUnreadable,
     StartSuccessor, Flush, FlushBenched, FlushNothing, FlushMerge, FlushOut,
     Retry, RetryBenched, RetryDrop, RetryOut, vars
<1>2. ASSUME NEW b \in attempts, Resolve(b)
      PROVE  DirectDelivered(a) \/ DirectSkipped(a) \/ DirectFailed(a) \/ DirectUnknown(a)
  <2>1. attempts' = attempts \ {b}
    BY <1>2 DEF Resolve, DirectDelivered, DirectSkipped, DirectFailed, DirectUnknown,
       RetryDelivered, RetrySkipped, RetryFailed, RetryUnknown, Ends
  <2>2. a = b
    BY <2>1
  <2> QED BY <1>2, <2>2 DEF Resolve, RetryDelivered, RetrySkipped, RetryFailed, RetryUnknown, Ends
<1> QED BY <1>1, <1>2 DEF Next, Succession

LEMMA CoveredStays ==
    ASSUME Control, [Next]_vars, NEW e \in Events, NEW k \in Nat, NEW l \in Nat, k <= l,
           Covered(e, k)
    PROVE  Covered(e, l)'
<1>1. PICK i \in 1..Len(log) : log[i] = e /\ i <= k
  BY DEF Covered
<1>2. log'[i] = e
  BY <1>1, LogIsKept
<1>3. Len(log) <= Len(log') /\ Len(log) \in Nat /\ Len(log') \in Nat
  <2>1. ASSUME NEW x, log' = Append(log, x) PROVE Len(log) <= Len(log')
    BY <2>1 DEF Control, TypeOK
  <2>2. ASSUME log' = log PROVE Len(log) <= Len(log')
    BY <2>2 DEF Control, TypeOK
  <2>3. log' = log \/ \E x : log' = Append(log, x)
    BY LogSteps
  <2> QED BY <2>1, <2>2, <2>3, NextControl DEF Control, TypeOK
<1> QED BY <1>1, <1>2, <1>3 DEF Covered

\* As long as no other daemon begins, claims are only dropped when their message
\* has been read, and watermarks move forward.
LEMMA KnowledgeGrows ==
    ASSUME Control, [Next]_vars, ~Restart, ~TakeOver
    PROVE  /\ claims \cup read \subseteq claims' \cup read'
           /\ \A s \in Subs : mark[s] <= mark'[s]
<1> TypeOK
  BY DEF Control
<1> DEFINE Grows == /\ claims \cup read \subseteq claims' \cup read'
                    /\ \A s \in Subs : mark[s] <= mark'[s]
<1>0. \A s \in Subs : mark[s] \in Nat
  BY DEF TypeOK
<1>1. ASSUME UNCHANGED <<claims, mark>>, read \subseteq read' PROVE Grows
  BY <1>0, <1>1
<1>2. ASSUME UNCHANGED read, NEW c, claims \subseteq c, NEW s \in Subs, NEW k \in Nat,
             Persists(c, Advanced(s, k))
      PROVE  Grows
  <2>1. claims' = c \ read /\ mark' = Advanced(s, k)
    BY <1>2 DEF Persists, Saves, SaveFails
  <2>2. \A r \in Subs : mark[r] <= mark'[r]
    BY <1>0, <2>1 DEF Advanced, TypeOK
  <2> QED BY <1>2, <2>1, <2>2
<1>3. CASE External \/ Poll \/ PollUnreadable
  BY <1>1, <1>3 DEF External, Emit, EmitAgain, Read, Age, SetBench, Poll, PollUnreadable
<1>4. ASSUME NEW s \in Subs, Flush(s) PROVE Grows
  <2>1. UNCHANGED read
    BY <1>4 DEF Flush, FlushBenched, FlushNothing, FlushMerge, FlushOut
  <2>2. ASSUME Consumes(s) PROVE Grows
    <3>1. PICK k \in 1..Len(log) : Persists(claims \cup Unclaimed(s), Advanced(s, k))
      BY <2>2 DEF Consumes
    <3> QED BY <1>2, <2>1, <3>1
  <2>3. CASE FlushOut(s)
    BY <1>0, <2>1, <2>3 DEF FlushOut
  <2> QED BY <1>1, <1>4, <2>1, <2>2, <2>3 DEF Flush, FlushBenched, FlushNothing, FlushMerge
<1>5. ASSUME NEW s \in Subs, Retry(s) PROVE Grows
  BY <1>1, <1>5 DEF Retry, RetryBenched, RetryDrop, RetryOut
<1>6. ASSUME NEW a \in attempts, Resolve(a) PROVE Grows
  <2>1. UNCHANGED read
    BY <1>6 DEF Resolve, DirectDelivered, DirectSkipped, DirectFailed, DirectUnknown,
       RetryDelivered, RetrySkipped, RetryFailed, RetryUnknown, Ends
  <2>2. CASE Consumed(a)
    BY <1>2, <2>1, <2>2 DEF Consumed, TypeOK
  <2>3. CASE Saves(claims, mark) \/ SaveFails(claims, mark)
    BY <1>0, <2>1, <2>3 DEF Saves, SaveFails
  <2> QED BY <1>1, <1>6, <2>1, <2>2, <2>3
       DEF Resolve, DirectDelivered, DirectSkipped, DirectFailed, DirectUnknown,
           RetryDelivered, RetrySkipped, RetryFailed, RetryUnknown
<1>7. CASE StartSuccessor \/ UNCHANGED vars
  BY <1>1, <1>7 DEF StartSuccessor, vars
<1> QED BY <1>3, <1>4, <1>5, <1>6, <1>7 DEF Next, Succession

\* An attempt hands what it knows to the watermark when it has answered.
LEMMA KnownStays ==
    ASSUME Control, [Next]_vars, ~Restart, ~TakeOver, NEW s \in Subs, NEW e \in Events,
           <<s, e>> \notin Unsure', Known(s, e)
    PROVE  Known(s, e)'
<1> TypeOK /\ TypeOK'
  BY NextControl DEF Control
<1>1. CASE e \in Messages
  BY <1>1, KnowledgeGrows DEF Known
<1>2. CASE e \notin Messages /\ Covered(e, mark[s])
  <2>1. mark[s] \in Nat /\ mark'[s] \in Nat /\ mark[s] <= mark'[s]
    BY KnowledgeGrows DEF TypeOK
  <2>2. PICK l : l = mark'[s]
    OBVIOUS
  <2>3. Covered(e, l)'
    BY <1>2, <2>1, <2>2, CoveredStays
  <2> QED BY <1>2, <2>2, <2>3 DEF Known, Covered
<1>3. CASE e \notin Messages /\ InAttempt(s, e)
  <2>1. PICK a \in attempts :
            a.sub = s /\ a.kind = "direct" /\ e \in a.events /\ Covered(e, a.upTo)
    BY <1>3 DEF InAttempt
  <2>2. a.upTo \in 0..Len(log)
    BY DEF TypeOK
  <2>3. CASE a \in attempts'
    <3>1. Covered(e, a.upTo)'
      BY <2>1, <2>2, CoveredStays
    <3> QED BY <1>3, <2>1, <2>3, <3>1 DEF Known, InAttempt, Covered
  <2>4. CASE a \notin attempts'
    <3>1. DirectDelivered(a) \/ DirectSkipped(a) \/ DirectFailed(a) \/ DirectUnknown(a)
      BY <2>1, <2>4, DirectEnds
    <3>2. ~ DirectUnknown(a)
      BY <2>1 DEF DirectUnknown, Unsure
    <3>3. Consumed(a)
      BY <3>1, <3>2 DEF DirectDelivered, DirectSkipped, DirectFailed
    <3>4. mark'[s] \in Nat /\ a.upTo <= mark'[s]
      <4>1. mark' = Advanced(s, a.upTo)
        BY <2>1, <3>3 DEF Consumed, Persists, Saves, SaveFails
      <4> QED BY <2>2, <4>1 DEF Advanced, TypeOK
    <3>5. PICK l : l = mark'[s]
      OBVIOUS
    <3>6. Covered(e, l)'
      BY <2>1, <2>2, <3>4, <3>5, CoveredStays
    <3> QED BY <1>3, <3>5, <3>6 DEF Known, Covered
  <2> QED BY <2>3, <2>4
<1> QED BY <1>1, <1>2, <1>3 DEF Known

-----------------------------------------------------------------------------
(***************************************************************************)
(* What a flush offers is new, and known from then on                      *)
(***************************************************************************)

LEMMA FreshIsSurvivor ==
    ASSUME Kept, NEW s \in Subs, NEW e \in Events, Fresh(s, e)
    PROVE  /\ Takes(s) /\ log' = log /\ UNCHANGED landings
           /\ e \in Messages => e \in Unclaimed(s)
           /\ \E q \in Survivors(s) : q.ev = e /\ q.pos \in 1..Len(log) /\ log[q.pos] = e
<1>1. Takes(s) /\ log' = log /\ UNCHANGED landings /\ e \in Digest(s)
  BY DEF Fresh, FlushMerge, FlushOut
<1>2. e \in Named(Survivors(s)) /\ (e \in Messages => e \in Unclaimed(s))
  BY <1>1, WakeAssumption DEF Digest, Actionable, Unclaimed
<1>3. PICK q \in Survivors(s) : q.ev = e
  BY <1>2 DEF Named
<1>4. q \in queue[s]
  BY DEF Survivors
<1>5. q.pos \in 1..Len(log) /\ log[q.pos] = e
  BY <1>3, <1>4 DEF Kept, Control, TypeOK, QueueMatchesLog
<1> QED BY <1>1, <1>2, <1>3, <1>5

LEMMA FreshIsUnknown ==
    ASSUME Kept, SignalsOnce, NEW s \in Subs, NEW e \in Events, Fresh(s, e)
    PROVE  ~ Known(s, e)
<1> TypeOK
  BY DEF Kept, Control
<1>1. CASE e \in Messages
  <2>1. e \in Unclaimed(s)
    BY <1>1, FreshIsSurvivor
  <2>2. e \notin claims /\ e \notin read
    BY <2>1 DEF Unclaimed, Named, Survivors
  <2> QED BY <1>1, <2>2 DEF Known
<1>2. CASE e \notin Messages
  <2>1. PICK q \in Survivors(s) : q.ev = e /\ q.pos \in 1..Len(log) /\ log[q.pos] = e
    BY FreshIsSurvivor
  <2>2. q.pos > mark[s]
    BY DEF Survivors
  <2>3. ~ Covered(e, mark[s])
    <3> SUFFICES ASSUME NEW i \in 1..Len(log), log[i] = e, i <= mark[s] PROVE FALSE
      BY DEF Covered
    <3>1. i = q.pos
      BY <1>2, <2>1 DEF SignalsOnce
    <3> QED BY <2>1, <2>2, <3>1 DEF TypeOK
  <2>4. ~ InAttempt(s, e)
    BY FreshIsSurvivor DEF InAttempt, Takes, InFlight
  <2> QED BY <1>2, <2>3, <2>4 DEF Known
<1> QED BY <1>1, <1>2

LEMMA FreshIsKnown ==
    ASSUME Kept, Kept', NEW s \in Subs, NEW e \in Events, Fresh(s, e)
    PROVE  Known(s, e)'
<1> TypeOK /\ TypeOK'
  BY DEF Kept, Control
<1>1. log' = log /\ read' = read
  BY DEF Fresh, FlushMerge, FlushOut
<1>2. CASE e \in Messages
  <2>1. e \in Unclaimed(s)
    BY <1>2, FreshIsSurvivor
  <2>2. CASE FlushMerge(s)
    <3>1. claims' = (claims \cup Unclaimed(s)) \ read
      BY <2>2 DEF FlushMerge, Consumes, Persists, Saves, SaveFails
    <3>2. e \notin read
      BY <2>1 DEF Unclaimed, Named, Survivors
    <3> QED BY <1>2, <2>1, <3>1, <3>2 DEF Known
  <2>3. CASE FlushOut(s)
    BY <1>2, <2>1, <2>3 DEF FlushOut, Known
  <2> QED BY <2>2, <2>3 DEF Fresh
<1>3. CASE e \notin Messages
  <2>1. PICK q \in Survivors(s) : q.ev = e /\ q.pos \in 1..Len(log) /\ log[q.pos] = e
    BY FreshIsSurvivor
  <2>2. CASE FlushMerge(s)
    <3>1. PICK k \in 1..Len(log) : IsLast(k, Survivors(s)) /\ mark' = Advanced(s, k)
      BY <2>2 DEF FlushMerge, Consumes, Persists, Saves, SaveFails
    <3>2. q.pos <= k /\ k <= mark'[s] /\ mark'[s] \in Nat
      BY <3>1 DEF IsLast, Advanced, TypeOK
    <3>3. q.pos <= mark'[s]
      BY <2>1, <3>2
    <3> QED BY <1>1, <1>3, <2>1, <3>3 DEF Known, Covered
  <2>3. CASE FlushOut(s)
    <3>1. PICK k \in 1..Len(log) :
              /\ IsLast(k, Survivors(s))
              /\ attempts' = attempts \cup {Attempt(s, "direct", Digest(s), k)}
      BY <2>3 DEF FlushOut
    <3>2. PICK a : a = Attempt(s, "direct", Digest(s), k)
      OBVIOUS
    <3>3. a \in attempts' /\ a.sub = s /\ a.kind = "direct" /\ e \in a.events /\ a.upTo = k
      BY <3>1, <3>2 DEF Attempt, Fresh
    <3>4. q.pos <= k
      BY <3>1 DEF IsLast
    <3>5. Covered(e, a.upTo)'
      BY <1>1, <2>1, <3>3, <3>4 DEF Covered
    <3> QED BY <1>3, <3>3, <3>5 DEF Known, InAttempt, Covered
  <2> QED BY <2>2, <2>3 DEF Fresh
<1> QED BY <1>2, <1>3

LEMMA FreshIsOnce ==
    ASSUME Control, NEW s \in Subs, NEW e \in Events, Fresh(s, e), ~ Has(s, e)
    PROVE  Once(s, e)'
<1>1. landings[s][e] \in 0..2 /\ (s \notin pending => held[s] = {})
  BY DEF Control, TypeOK
<1>2. UNCHANGED landings /\ landings[s][e] = 0
  BY <1>1 DEF Fresh, FlushMerge, FlushOut, Has
<1>3. CASE FlushMerge(s)
  BY <1>2, <1>3 DEF FlushMerge, Has, InHand, Once, Carries
<1>4. CASE FlushOut(s)
  BY <1>1, <1>2, <1>4 DEF FlushOut, Once
<1> QED BY <1>3, <1>4 DEF Fresh

LEMMA OneFlush ==
    ASSUME Control, NEW s \in Subs, NEW t \in Subs, Takes(s), Takes(t) PROVE s = t
BY DEF Control, TypeOK, Takes

-----------------------------------------------------------------------------
(***************************************************************************)
(* The invariant                                                           *)
(***************************************************************************)

LEMMA UnsureGrows == ASSUME [Next]_vars PROVE Unsure \subseteq Unsure'
<1>1. CASE External \/ Poll \/ PollUnreadable \/ Succession \/ UNCHANGED vars
  BY <1>1 DEF Unsure, External, Emit, EmitAgain, Read, Age, SetBench, Poll, PollUnreadable,
     Succession, Restart, StartSuccessor, TakeOver, Begins, vars
<1>2. CASE \E s \in Subs : Flush(s) \/ Retry(s)
  BY <1>2 DEF Unsure, Flush, FlushBenched, FlushNothing, FlushMerge, FlushOut,
     Retry, RetryBenched, RetryDrop, RetryOut
<1>3. CASE \E a \in attempts : Resolve(a)
  BY <1>3 DEF Unsure, Resolve, DirectDelivered, DirectSkipped, DirectFailed, DirectUnknown,
     RetryDelivered, RetrySkipped, RetryFailed, RetryUnknown, Ends
<1> QED BY <1>1, <1>2, <1>3 DEF Next

LEMMA SignalsStayOnce == ASSUME Control, SignalsOnce, [Next]_vars PROVE SignalsOnce'
<1>1. CASE log' = log
  BY <1>1 DEF SignalsOnce
<1>2. ASSUME NEW e \in Events, log' = Append(log, e), e \in Messages \/ e \notin Entries
      PROVE  SignalsOnce'
  <2>1. /\ Len(log) \in Nat /\ Len(log') = Len(log) + 1
        /\ \A i \in 1..Len(log) : log'[i] = log[i]
        /\ log'[Len(log) + 1] = e
    BY <1>2 DEF Control, TypeOK
  <2>2. \A i \in 1..Len(log') : i \in 1..Len(log) \/ i = Len(log) + 1
    BY <2>1
  <2>3. \A i \in 1..Len(log) : e \in Messages \/ log[i] # e
    BY <1>2 DEF Entries
  <2> SUFFICES ASSUME NEW i \in 1..Len(log'), NEW j \in 1..Len(log'),
                      log'[i] = log'[j], log'[i] \notin Messages
               PROVE  i = j
    BY DEF SignalsOnce
  <2> QED BY <2>1, <2>2, <2>3 DEF SignalsOnce
<1> QED BY <1>1, <1>2, LogSteps

LEMMA StepPrompts ==
    ASSUME Prompts, Kept', [Next]_vars, ~Restart, ~TakeOver PROVE Single' /\ Apart'
<1> Control /\ Kept
  BY DEF Prompts, Kept
<1>1. ASSUME NEW s \in Subs, NEW e \in Events, <<s, e>> \notin Unsure'
      PROVE  \/ Fresh(s, e) /\ ~ Known(s, e) /\ ~ Has(s, e)
             \/ Moves(s, e) /\ Once(s, e) /\ (Has(s, e) => Known(s, e))
  <2>1. Once(s, e) /\ (Has(s, e) => Known(s, e))
    BY <1>1, UnsureGrows DEF Prompts, Single
  <2>2. Fresh(s, e) => ~ Known(s, e)
    BY FreshIsUnknown DEF Prompts
  <2> QED BY <1>1, <2>1, <2>2, CopiesMove
<1>2. Single'
  <2> SUFFICES ASSUME NEW s \in Subs, NEW e \in Events, <<s, e>> \notin Unsure'
               PROVE  Once(s, e)' /\ (Has(s, e)' => Known(s, e)')
    BY DEF Single
  <2>1. CASE Fresh(s, e) /\ ~ Has(s, e)
    BY <2>1, FreshIsOnce, FreshIsKnown
  <2>2. CASE Moves(s, e) /\ Once(s, e) /\ (Has(s, e) => Known(s, e))
    BY <2>2, KnownStays DEF Moves
  <2> QED BY <1>1, <2>1, <2>2
<1>3. Apart'
  <2> SUFFICES ASSUME NEW m \in Messages, NEW s \in Subs, NEW t \in Subs,
                      <<s, m>> \notin Unsure', Has(s, m)',
                      <<t, m>> \notin Unsure', Has(t, m)'
               PROVE  s = t
    BY DEF Apart
  <2>1. m \in Events /\ <<s, m>> \notin Unsure /\ <<t, m>> \notin Unsure
    BY UnsureGrows DEF Events
  <2>2. Known(s, m) <=> Known(t, m)
    BY DEF Known
  <2>3. CASE Fresh(s, m) /\ Fresh(t, m)
    BY <2>1, <2>3, FreshIsSurvivor, OneFlush
  <2>4. CASE Has(s, m) /\ Has(t, m)
    BY <2>1, <2>4 DEF Prompts, Apart
  <2> QED BY <1>1, <2>1, <2>2, <2>3, <2>4 DEF Moves
<1> QED BY <1>2, <1>3

\* A daemon that begins has no copies but those at the seat.
LEMMA BeginsPrompts ==
    ASSUME Prompts, NEW w, NEW landed \in SUBSET attempts, Begins(w, landed),
           Unsure \subseteq Unsure'
    PROVE  Single' /\ Apart'
<1> TypeOK
  BY DEF Prompts, Kept, Control
<1>1. /\ attempts' = {} /\ \A s \in Subs : held'[s] = {}
      /\ claims' = w.claims /\ mark' = w.mark /\ UNCHANGED log
  BY DEF Begins
<1>2. ASSUME NEW s \in Subs, NEW e \in Events, <<s, e>> \notin Unsure'
      PROVE  /\ Once(s, e)' /\ (Has(s, e)' => Known(s, e)')
             /\ Has(s, e)' => Has(s, e)
  <2>1. Once(s, e) /\ landings[s][e] \in 0..2
    BY <1>2 DEF Prompts, Single, TypeOK
  <2>2. ~ InHand(s, e)'
    BY <1>1 DEF InHand, Carries
  <2>3. landings'[s][e] = IF Carries(landed, s, e) /\ landings[s][e] < 2
                          THEN landings[s][e] + 1 ELSE landings[s][e]
    BY DEF Begins
  <2>4. Carries(landed, s, e) => InHand(s, e)
    BY DEF Carries, InHand
  <2>5. landings'[s][e] <= 1 /\ (landings'[s][e] > 0 => Has(s, e))
    BY <2>1, <2>3, <2>4 DEF Once, Has
  <2>6. landings'[s][e] > 0 => Knows(w, s, e)
    BY <1>2 DEF Begins, Unsure
  <2>7. Knows(w, s, e) => Known(s, e)'
    BY <1>1 DEF Knows, Known, Covered
  <2> QED BY <1>1, <2>2, <2>5, <2>6, <2>7 DEF Once, Has, InHand
<1>3. Single'
  BY <1>2 DEF Single
<1>4. Apart'
  <2> SUFFICES ASSUME NEW m \in Messages, NEW s \in Subs, NEW t \in Subs,
                      <<s, m>> \notin Unsure', Has(s, m)',
                      <<t, m>> \notin Unsure', Has(t, m)'
               PROVE  s = t
    BY DEF Apart
  <2>1. m \in Events
    BY DEF Events
  <2> QED BY <1>2, <2>1 DEF Prompts, Apart
<1> QED BY <1>3, <1>4

LEMMA NextPrompts == Prompts /\ [Next]_vars => Prompts'
<1> SUFFICES ASSUME Prompts, [Next]_vars PROVE Prompts'
  OBVIOUS
<1>1. Kept' /\ SignalsOnce'
  BY NextKept, SignalsStayOnce DEF Prompts, Kept
<1>2. CASE Restart \/ TakeOver
  BY <1>1, <1>2, BeginsPrompts, UnsureGrows DEF Prompts, Restart, TakeOver
<1>3. CASE ~Restart /\ ~TakeOver
  BY <1>1, <1>3, StepPrompts DEF Prompts
<1> QED BY <1>2, <1>3

LEMMA InitPrompts == Init => Prompts
<1> SUFFICES ASSUME Init PROVE Prompts
  OBVIOUS
<1>1. \A s \in Subs : \A e \in Events : ~ Has(s, e) /\ Once(s, e)
  BY DEF Init, Has, Once, InHand, Carries
<1>2. Kept /\ Len(log) = 0
  BY InitKept DEF Init
<1>3. SignalsOnce
  BY <1>2 DEF SignalsOnce
<1>4. Single
  BY <1>1 DEF Single
<1>5. Apart
  BY <1>1 DEF Apart, Events
<1> QED BY <1>2, <1>3, <1>4, <1>5 DEF Prompts

\* A message reaches the seat once, by one route, and a signal once by each,
\* whatever merges, retries, replays, failed writes and restarts there are
\* (daemon.mjs:905-1092, 2600-2760, wokenWatermark.mjs): a second prompt needs an
\* attempt of unknown outcome, or a daemon begun from a state without the first.
THEOREM OncePrompted == Spec => []OnePrompt
<1>1. Prompts => OnePrompt
  <2> SUFFICES ASSUME Prompts PROVE OnePrompt
    OBVIOUS
  <2>1. \A s \in Subs : \A e \in Events :
            landings[s][e] <= 1 \/ <<s, e>> \in doubtful \cup forgotten
    BY DEF Prompts, Single, Once, Unsure
  <2>2. ASSUME NEW m \in Messages, NEW s \in Reached(m), NEW t \in Reached(m), s # t
        PROVE  \E r \in Reached(m) : <<r, m>> \in doubtful \cup forgotten
    BY <2>2 DEF Prompts, Apart, Reached, Has, Unsure
  <2> QED BY <2>1, <2>2 DEF OnePrompt
<1> QED BY <1>1, InitPrompts, NextPrompts, PTL DEF Spec

-----------------------------------------------------------------------------
(***************************************************************************)
(* The handover                                                            *)
(***************************************************************************)

LEMMA EntriesStay ==
    ASSUME Control, [Next]_vars
    PROVE  Entries \subseteq Entries'
<1>1. /\ Len(log) \in Nat
      /\ log' = log \/ \E x : log' = Append(log, x)
  BY LogSteps DEF Control, TypeOK
<1>2. Len(log') \in Nat /\ Len(log) <= Len(log')
  <2>1. CASE log' = log
    BY <1>1, <2>1
  <2>2. ASSUME NEW x, log' = Append(log, x) PROVE Len(log') = Len(log) + 1
    BY <2>2 DEF Control, TypeOK
  <2> QED BY <1>1, <2>1, <2>2
<1> QED BY <1>1, <1>2, LogIsKept DEF Entries

\* What is settled is settled for good.
LEMMA SettledStays ==
    ASSUME Control, [Next]_vars, NEW r \in Subs, NEW e \in Events, Settled(r, e)
    PROVE  Settled(r, e)'
<1> TypeOK
  BY DEF Control
<1>1. CASE External
  BY <1>1 DEF Settled, External, Emit, EmitAgain, Read, Age, SetBench
<1>2. CASE \/ Poll \/ PollUnreadable \/ StartSuccessor
           \/ \E s \in Subs : Flush(s) \/ Retry(s)
           \/ UNCHANGED vars
  <2>1. UNCHANGED <<read, aged, landings, doubtful>> /\ excused \subseteq excused'
    BY <1>2 DEF Poll, PollUnreadable, StartSuccessor, vars,
       Flush, FlushBenched, FlushNothing, FlushMerge, FlushOut,
       Retry, RetryBenched, RetryDrop, RetryOut
  <2> QED BY <2>1 DEF Settled
<1>3. ASSUME NEW a \in attempts, Resolve(a) PROVE Settled(r, e)'
  <2>1. /\ UNCHANGED <<read, aged>>
        /\ excused \subseteq excused' /\ doubtful \subseteq doubtful'
        /\ landings' = landings \/ landings' = Landed(a)
    BY <1>3 DEF Resolve, DirectDelivered, DirectSkipped, DirectFailed, DirectUnknown,
       RetryDelivered, RetrySkipped, RetryFailed, RetryUnknown, Ends
  <2> QED BY <2>1, LandedGrows DEF Settled
<1>4. ASSUME NEW w, NEW landed \in SUBSET attempts, Begins(w, landed)
      PROVE  Settled(r, e)'
  BY <1>4, SettledAtBegin
<1> QED BY <1>1, <1>2, <1>3, <1>4 DEF Next, Succession, Restart, TakeOver

WaiverOf(s, e) ==
    \E r \in Subs : (e \in Messages \/ r = s) /\ <<r, e>> \in doubtful \cup forgotten \cup perished

LEMMA WaivedIs ==
    /\ \A p \in Wanted : p \in Waived <=> WaiverOf(p[1], p[2])
    /\ \A p \in Wanted : p \in Waived' <=> WaiverOf(p[1], p[2])'
BY DEF Waived, WaiverOf

Promised == Control /\ NothingIsLost /\ OnePrompt

OnItsWay(s, e) ==
    \/ Ahead(e) \/ e \in Named(queue[s])
    \/ \E r \in Through(s, e) : Settled(r, e) \/ InHand(r, e)

\* What is not waived is prompted for once, and what is in the log is on its way.
WhereItIs ==
    \A s \in Subs : \A e \in Wants[s] :
        ~ WaiverOf(s, e) =>
            /\ ~ Again(s, e)
            /\ e \in Entries => OnItsWay(s, e)

LEMMA PromisedIsKnown == Promised => WhereItIs
<1> SUFFICES ASSUME Promised, NEW s \in Subs, NEW e \in Wants[s], ~ WaiverOf(s, e)
             PROVE  /\ ~ Again(s, e)
                    /\ e \in Entries => OnItsWay(s, e)
  BY DEF WhereItIs
<1>1. e \in Events
  BY WantsTyped
<1>2. ~ Again(s, e)
  <2>1. landings[s][e] \in 0..2 /\ landings[s][e] <= 1
    <3>1. landings[s][e] <= 1 \/ <<s, e>> \in doubtful \cup forgotten
      BY <1>1 DEF Promised, OnePrompt
    <3>2. landings[s][e] <= 1
      BY <1>1, <3>1 DEF WaiverOf
    <3>3. landings[s][e] \in 0..2
      BY <1>1 DEF Promised, Control, TypeOK
    <3> QED BY <3>2, <3>3
  <2>2. ASSUME e \in Messages, NEW r \in Reached(e), NEW t \in Reached(e), r # t
        PROVE  FALSE
    BY <2>2 DEF Promised, OnePrompt, WaiverOf, Reached
  <2> QED BY <2>1, <2>2 DEF Again
<1>3. ASSUME e \in Entries PROVE OnItsWay(s, e)
  <2>1. PICK i \in 1..Len(log) : log[i] = e
    BY <1>3 DEF Entries
  <2>2. cursor \in Nat /\ Len(log) \in Nat
    BY DEF Promised, Control, TypeOK
  <2>3. CASE i \in 1..cursor
    <3>1. e \in Named(queue[s]) \/ Offered(s, e)
      BY <2>1, <2>3 DEF Promised, NothingIsLost
    <3>2. \A r \in Through(s, e) : <<r, e>> \notin perished
      BY DEF WaiverOf, Through
    <3> QED BY <3>1, <3>2 DEF OnItsWay, Offered, Handled
  <2>4. CASE i \in cursor + 1..Len(log)
    BY <2>1, <2>4 DEF Ahead, OnItsWay
  <2> QED BY <2>2, <2>3, <2>4
<1> QED BY <1>2, <1>3

LEMMA PerishedGrows == ASSUME [Next]_vars PROVE perished \subseteq perished'
<1>1. CASE External \/ Poll \/ PollUnreadable \/ Succession \/ UNCHANGED vars
  BY <1>1 DEF External, Emit, EmitAgain, Read, Age, SetBench, Poll, PollUnreadable,
     Succession, Restart, StartSuccessor, TakeOver, Begins, vars
<1>2. CASE \E s \in Subs : Flush(s) \/ Retry(s)
  BY <1>2 DEF Flush, FlushBenched, FlushNothing, FlushMerge, FlushOut,
     Retry, RetryBenched, RetryDrop, RetryOut
<1>3. CASE \E a \in attempts : Resolve(a)
  BY <1>3 DEF Resolve, DirectDelivered, DirectSkipped, DirectFailed, DirectUnknown,
     RetryDelivered, RetrySkipped, RetryFailed, RetryUnknown, Ends
<1> QED BY <1>1, <1>2, <1>3 DEF Next

LEMMA HandoverSteps ==
    ASSUME Control, WhereItIs, WhereItIs', [Next]_vars
    PROVE  Seat!HandoverNext
<1>1. Waived \subseteq Waived'
  BY UnsureGrows, PerishedGrows DEF Waived, Unsure
<1>2. ASSUME NEW s \in Subs, NEW e \in Wants[s], ~ WaiverOf(s, e), ~ WaiverOf(s, e)'
      PROVE  \/ PhaseOf(s, e)' = PhaseOf(s, e)
             \/ PhaseOf(s, e) = "new" /\ PhaseOf(s, e)' = "owed"
             \/ PhaseOf(s, e) \in {"new", "owed"} /\ PhaseOf(s, e)' = "handed"
  <2>1. /\ ~ Again(s, e)
        /\ e \in Entries => OnItsWay(s, e)
    BY <1>2 DEF WhereItIs
  <2>2. /\ ~ Again(s, e)'
        /\ e \in Entries' => OnItsWay(s, e)'
    BY <1>2 DEF WhereItIs
  <2>3. /\ PhaseOf(s, e) \in {"new", "owed", "handed"}
        /\ PhaseOf(s, e)' \in {"new", "owed", "handed"}
    BY <2>1, <2>2 DEF PhaseOf, OnItsWay
  <2>4. Entries \subseteq Entries'
    BY EntriesStay
  <2>5. \A r \in Subs : Settled(r, e) => Settled(r, e)'
    BY SettledStays, WantsTyped
  <2>6. (\E r \in Through(s, e) : Settled(r, e)) => \E r \in Through(s, e) : Settled(r, e)'
    BY <2>5 DEF Through
  <2>7. PhaseOf(s, e) = "handed" => PhaseOf(s, e)' = "handed"
    BY <2>2, <2>6 DEF PhaseOf, Through
  <2>8. PhaseOf(s, e)' = "new" => PhaseOf(s, e) \in {"new", "handed"}
    BY <2>1, <2>4 DEF PhaseOf
  <2> QED BY <2>3, <2>7, <2>8
<1>3. ASSUME NEW p \in Wanted, p \notin Waived'
      PROVE  /\ p[1] \in Subs /\ p[2] \in Wants[p[1]]
             /\ ~ WaiverOf(p[1], p[2]) /\ ~ WaiverOf(p[1], p[2])'
  BY <1>1, <1>3, WaivedIs DEF Wanted
<1> QED BY <1>1, <1>2, <1>3 DEF Seat!HandoverNext, Seat!Stay, Seat!Accept, Seat!Hand

LEMMA HandoverBegins == Init => Seat!HandoverInit
<1> SUFFICES ASSUME Init PROVE Seat!HandoverInit
  OBVIOUS
<1>1. ASSUME NEW s \in Subs, NEW e \in Events PROVE PhaseOf(s, e) = "new"
  BY <1>1 DEF Init, PhaseOf, Again, Reached, Settled, Entries, Through
<1>2. Waived = {}
  BY DEF Init, Waived
<1> QED BY <1>1, <1>2 DEF Seat!HandoverInit, Wanted

\* Poll, queues, flush, attempts, retry store and succession implement the
\* abstract handover (daemon.mjs:905-1092, 1640-1760, 2600-2760): an event of the
\* log is owed to every subscription that wants it until the seat was prompted or
\* the event was given up by name, and the seat is not prompted again.
THEOREM HandoverIsKept == Spec => ImplementsHandover
<1>1. Control /\ WhereItIs /\ WhereItIs' /\ [Next]_vars
      => [Seat!HandoverNext]_(Seat!handoverVars)
  BY HandoverSteps
<1>2. Control /\ NothingIsLost /\ OnePrompt => WhereItIs
  BY PromisedIsKnown DEF Promised
<1> QED BY <1>1, <1>2, HandoverBegins, InitControl, NextControl, NothingLost, OncePrompted, PTL
        DEF Spec, ImplementsHandover, Seat!HandoverSpec
=============================================================================
