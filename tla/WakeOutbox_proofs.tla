-------------------------- MODULE WakeOutbox_proofs --------------------------
(***************************************************************************)
(* What is proved of WakeOutbox, for any number of writers and polls, any  *)
(* wakes, ids and owners, and any kind and number of faults: its typing    *)
(* and its four safety invariants.                                         *)
(***************************************************************************)
EXTENDS WakeOutbox, TLAPS

USE DEF lockVars, ledgers, workVars, history, vars, Procs, Owners, Free

-----------------------------------------------------------------------------
(***************************************************************************)
(* The invariant                                                           *)
(***************************************************************************)

Holding(p) == pc[p] = "create" \/ Inside(p) \/ pc[p] \in {"release", "unlock"}

\* Only a dead owner's file is read for reclaiming; a call has its own file until
\* the section is over, unless a reclaim has removed it.
LockIsOwn ==
    /\ seen # {} => lock.by = Gone /\ lock.whole
    /\ ~ clobbered => \A p \in Procs : Holding(p) => lock.by = p

\* Who does what.
Role(p) ==
    /\ p \in Consumers => pc[p] \notin {"append", "idle"} /\ entry[p] = None
    /\ p \in Writers => pc[p] \notin {"load", "line", "ack"}
    /\ p \in Writers /\ pc[p] \in {"try", "recheck", "reclaim", "create", "append"} =>
          entry[p] # None
    /\ \A i \in 1 .. Len(kept[p]) : kept[p][i].entry = None

Roles == \A p \in Procs : Role(p)

\* A receipt is for the entry at hand, which has been shown.
AckHasLine == \A p \in Procs : pc[p] = "ack" => todo[p] # <<>> /\ Line(p).entry # None

AckIsShown ==
    \A p \in Procs : pc[p] = "ack" =>
        /\ surfaced[Line(p).entry.wake] > 0
        /\ IdOf[Line(p).entry.wake] \in known[p]

\* Nothing more need be done for e.
Settled(e) ==
    surfaced[e.wake] > 0 \/ e \in dead \/ Namesake(e.wake) \/ e \in garbled

EntriesOf(s) == {s[i].entry : i \in 1 .. Len(s)}
Rest(p) == EntriesOf(todo[p])

\* An id in the ledger, or in the memory of a poll, is that of a wake shown.
Shown(i) == \E w \in Wakes : IdOf[w] = i /\ surfaced[w] > 0

IdsAreShown ==
    /\ \A i \in Acked : Shown(i)
    /\ \A p \in Procs : \A i \in known[p] : Shown(i)

\* What a poll has put behind it is settled.
HandledIsSettled ==
    ~ clobbered => \A p \in Procs : pc[p] \in {"line", "ack"} =>
        \A e \in Entries : Queued(e) => Settled(e) \/ e \in Rest(p)

\* What is accepted, or about to be.
Trusted(e) ==
    \/ e \in accepted
    \/ \E p \in Procs : pc[p] \in {"release", "unlock"} /\ entry[p] = e

TrustedIsKept == ~ clobbered => \A e \in Entries : Trusted(e) => Queued(e) \/ Settled(e)

Keeping == IdsAreShown /\ HandledIsSettled /\ TrustedIsKept

\* A wake shown has a receipt, which every poll under way knows; or its id is in
\* doubt; or the receipt is being written.
ShownIsKnown ==
    ~ clobbered =>
        /\ \A p \in Procs : pc[p] \in {"line", "ack"} => Acked \subseteq known[p]
        /\ \A w \in Wakes : surfaced[w] > 0 =>
              \/ IdOf[w] \in Acked \cup doubtful
              \/ \E p \in Procs : pc[p] = "ack" /\ IdOf[Line(p).entry.wake] = IdOf[w]

Showing == ShownIsKnown /\ ShownOnce

\* Entries and polls belong to owners there have been; a poll that belongs to an
\* earlier one was under way when the seat rotated.
WorkIsPast(p) ==
    /\ entry[p] # None => entry[p].owner <= owner
    /\ \A e \in Entries : e \in Rest(p) => e.owner <= owner
    /\ auth[p] <= owner
    /\ p \in Consumers /\ pc[p] # "off" /\ auth[p] < owner => owner \in overtaken

OwnersArePast ==
    /\ \A e \in dead : e.owner <= owner
    /\ \A e \in Entries : Queued(e) => e.owner <= owner
    /\ \A p \in Procs : WorkIsPast(p)

Owning == OwnersArePast /\ LettersAreForeign

-----------------------------------------------------------------------------
(***************************************************************************)
(* Typing                                                                  *)
(***************************************************************************)

StepOf(p) ==
    \/ StartWriter(p) \/ Poll(p) \/ GiveUp(p) \/ Create(p) \/ ReadHolder(p)
    \/ WriteDescriptor(p) \/ Recheck(p) \/ Reclaim(p) \/ Release(p) \/ Unlock(p)
    \/ AppendEntry(p) \/ Load(p) \/ KeepLine(p) \/ DeadLetter(p)
    \/ DropDuplicate(p) \/ Surface(p) \/ Acknowledge(p) \/ Rewrite(p)
    \/ Crash(p) \/ WriteFails(p) \/ DescriptorFails(p)
    \/ \E w \in Wakes : Deliver(p, w)

LEMMA StepCases ==
    ASSUME [Next]_vars
    PROVE  (\E p \in Procs : StepOf(p)) \/ Rotate \/ UNCHANGED vars
BY DEF Next, Proceed, StepOf

LEMMA TypeInit == Init => TypeOK /\ AckHasLine
<1> SUFFICES ASSUME Init PROVE TypeOK /\ AckHasLine
  OBVIOUS
<1> USE WakeOutboxAssumption DEF Init
<1>1. /\ lock \in [by : Procs \cup {None, Gone}, whole : BOOLEAN]
      /\ outbox \in Seq(Lines)
      /\ todo \in [Procs -> Seq(Lines)] /\ kept \in [Procs -> Seq(Lines)]
  OBVIOUS
<1>2. /\ pc \in [Procs -> Labels] /\ entry \in [Procs -> Entries \cup {None}]
      /\ auth \in [Procs -> Owners] /\ known \in [Procs -> SUBSET Ids]
  BY DEF Labels
<1>3. /\ twin \in Procs \cup {None} /\ seen \in SUBSET Procs
      /\ acks \in SUBSET Ids /\ ackTail \in Ids \cup {None, Torn} /\ dead \in SUBSET Entries
      /\ accepted \in SUBSET Entries
      /\ doubtful \in SUBSET Ids /\ garbled \in SUBSET Entries /\ overtaken \in SUBSET Owners
      /\ clobbered \in BOOLEAN
  OBVIOUS
<1>4. owner \in Owners /\ surfaced \in [Wakes -> 0 .. 2] /\ faults \in Nat
  OBVIOUS
<1>5. AckHasLine
  BY DEF AckHasLine
<1> HIDE DEF Init
<1> QED BY <1>1, <1>2, <1>3, <1>4, <1>5 DEF TypeOK

\* A sequence of lines without its first, with another one, or a part of it.
LEMMA LinesStay ==
    ASSUME NEW s \in Seq(Lines)
    PROVE  /\ s # <<>> => Head(s) \in Lines /\ Tail(s) \in Seq(Lines)
           /\ \A e \in Lines : Append(s, e) \in Seq(Lines)
           /\ \A i \in 0 .. Len(s) : SubSeq(s, 1, i) \in Seq(Lines)
OBVIOUS

LEMMA LineIsTyped ==
    ASSUME TypeOK, NEW p \in Procs, todo[p] # <<>>
    PROVE  /\ Line(p) \in Lines
           /\ Line(p).entry \in Entries \cup {None}
           /\ Line(p).entry # None => Line(p).entry \in Entries
           /\ Line(p).entry # None => Line(p).entry.wake \in Wakes
           /\ Line(p).entry # None => IdOf[Line(p).entry.wake] \in Ids
           /\ Tail(todo[p]) \in Seq(Lines)
<1>1. Line(p) \in Lines /\ Tail(todo[p]) \in Seq(Lines)
  BY LinesStay DEF TypeOK, Line
<1> QED BY <1>1, WakeOutboxAssumption DEF Lines, Entries

LEMMA WithIsTyped ==
    ASSUME TypeOK, NEW e \in Entries \cup {None}, NEW ended \in BOOLEAN
    PROVE  With(e, ended) \in Seq(Lines) /\ Garbles(e) \subseteq Entries
<1>1. [entry |-> e, ended |-> ended] \in Lines /\ [entry |-> None, ended |-> ended] \in Lines
  BY DEF Lines
<1>2. outbox \in Seq(Lines)
  BY DEF TypeOK
<1>3. CASE Open
  <2>1. Front \in Seq(Lines) /\ outbox[Len(outbox)] \in Lines
    BY <1>2, <1>3 DEF Open, Front
  <2> QED BY <1>1, <1>3, <2>1 DEF With, Garbles, Lines
<1>4. CASE ~ Open
  BY <1>1, <1>2, <1>4 DEF With, Garbles
<1> QED BY <1>3, <1>4

\* What a call leaves when it ends.
LEMMA ForgetTypes ==
    ASSUME TypeOK, NEW p \in Procs, Forget(p)
    PROVE  /\ entry' \in [Procs -> Entries \cup {None}]
           /\ auth' \in [Procs -> Owners]
           /\ todo' \in [Procs -> Seq(Lines)] /\ kept' \in [Procs -> Seq(Lines)]
           /\ known' \in [Procs -> SUBSET Ids]
BY WakeOutboxAssumption DEF TypeOK, Forget

LEMMA ExitTypes ==
    ASSUME TypeOK, NEW p \in Procs, Exit(p)
    PROVE  /\ lock' \in [by : Procs \cup {None, Gone}, whole : BOOLEAN]
           /\ twin' \in Procs \cup {None}
BY DEF TypeOK, Exit

LEMMA LeaveTypes ==
    ASSUME TypeOK, NEW p \in Procs, Leave(p)
    PROVE  /\ lock' \in [by : Procs \cup {None, Gone}, whole : BOOLEAN]
           /\ twin' \in Procs \cup {None}
           /\ pc' \in [Procs -> Labels]
           /\ entry' \in [Procs -> Entries \cup {None}]
           /\ auth' \in [Procs -> Owners]
           /\ todo' \in [Procs -> Seq(Lines)] /\ kept' \in [Procs -> Seq(Lines)]
           /\ known' \in [Procs -> SUBSET Ids]
<1>1. Forget(p) /\ pc' \in [Procs -> Labels]
  BY DEF Leave, Over, Goto, TypeOK, Labels
<1>2. /\ lock' \in [by : Procs \cup {None, Gone}, whole : BOOLEAN]
      /\ twin' \in Procs \cup {None}
  BY ExitTypes DEF Leave, TypeOK
<1> QED BY <1>1, <1>2, ForgetTypes

\* The end of a call, and the steps before and after one, leave no receipt at work.
LEMMA AckHasLineElsewhere ==
    ASSUME TypeOK, AckHasLine, NEW p \in Procs, NEW label, label # "ack",
           pc' = [pc EXCEPT ![p] = label],
           \A q \in Procs \ {p} : todo'[q] = todo[q]
    PROVE  AckHasLine'
BY DEF AckHasLine, Line, TypeOK

LEMMA LeaveAckHasLine ==
    ASSUME TypeOK, AckHasLine, NEW p \in Procs, Over(p)
    PROVE  AckHasLine'
<1>1. \A q \in Procs \ {p} : todo'[q] = todo[q]
  BY DEF Over, Forget, TypeOK
<1> DEFINE label == IF p \in Consumers THEN "off" ELSE "idle"
<1>2. label # "ack" /\ pc' = [pc EXCEPT ![p] = label]
  BY DEF Over, Goto
<1> QED BY <1>1, <1>2, AckHasLineElsewhere

\* How a write that is cut short leaves what it writes to.
LEMMA CutShortTypes ==
    ASSUME TypeOK, AckHasLine, NEW p \in Procs, CutShort(p)
    PROVE  /\ outbox' \in Seq(Lines)
           /\ acks' = acks /\ ackTail' \in Ids \cup {None, Torn}
           /\ doubtful' \in SUBSET Ids /\ garbled' \in SUBSET Entries
<1>1. CASE /\ pc[p] = "append"
           /\ \E e \in {None, entry[p]} :
                /\ outbox' = With(e, FALSE)
                /\ garbled' = garbled \cup Garbles(e)
           /\ UNCHANGED <<acks, ackTail, doubtful>>
  <2>1. PICK e \in {None, entry[p]} : /\ outbox' = With(e, FALSE)
                                      /\ garbled' = garbled \cup Garbles(e)
    BY <1>1
  <2>2. e \in Entries \cup {None}
    BY DEF TypeOK
  <2> QED BY <1>1, <2>1, <2>2, WithIsTyped DEF TypeOK
<1>2. CASE /\ pc[p] = "line" /\ todo[p] = <<>>
           /\ \E i \in 0 .. Len(kept[p]) :
                outbox' = IF i = 0 THEN <<>>
                          ELSE Append(SubSeq(kept[p], 1, i - 1), [entry |-> None, ended |-> FALSE])
           /\ UNCHANGED <<acks, ackTail, doubtful, garbled>>
  <2>1. PICK i \in 0 .. Len(kept[p]) :
                outbox' = IF i = 0 THEN <<>>
                          ELSE Append(SubSeq(kept[p], 1, i - 1), [entry |-> None, ended |-> FALSE])
    BY <1>2
  <2>2. kept[p] \in Seq(Lines)
    BY DEF TypeOK
  <2>3. i # 0 => SubSeq(kept[p], 1, i - 1) \in Seq(Lines)
    BY <2>2, LinesStay
  <2>4. [entry |-> None, ended |-> FALSE] \in Lines
    BY DEF Lines
  <2>5. outbox' \in Seq(Lines)
    BY <2>1, <2>3, <2>4, LinesStay
  <2> QED BY <1>2, <2>5 DEF TypeOK
<1>3. CASE /\ pc[p] = "ack"
           /\ \E t \in {Torn, IdOf[Line(p).entry.wake]} :
                /\ ackTail' = IF ackTail = None THEN t ELSE Torn
                /\ doubtful' = doubtful \cup ({ackTail} \cap Ids)
                               \cup (IF ackTail' = Torn THEN {IdOf[Line(p).entry.wake]} ELSE {})
           /\ UNCHANGED <<outbox, acks, garbled>>
  <2>1. IdOf[Line(p).entry.wake] \in Ids
    BY <1>3, LineIsTyped DEF AckHasLine
  <2> QED BY <1>3, <2>1 DEF TypeOK
<1>4. CASE /\ doubtful' = IF pc[p] = "ack" THEN doubtful \cup {IdOf[Line(p).entry.wake]}
                                          ELSE doubtful
           /\ UNCHANGED <<outbox, acks, ackTail, garbled>>
  <2>1. pc[p] = "ack" => IdOf[Line(p).entry.wake] \in Ids
    BY LineIsTyped DEF AckHasLine
  <2> QED BY <1>4, <2>1 DEF TypeOK
<1> QED BY <1>1, <1>2, <1>3, <1>4 DEF CutShort

LEMMA TypeNext == TypeOK /\ AckHasLine /\ [Next]_vars => TypeOK' /\ AckHasLine'
<1> SUFFICES ASSUME TypeOK, AckHasLine, [Next]_vars PROVE TypeOK' /\ AckHasLine'
  OBVIOUS
<1>1. ASSUME NEW p \in Procs, StartWriter(p) PROVE TypeOK' /\ AckHasLine'
  <2>1. AckHasLine'
    BY <1>1, AckHasLineElsewhere DEF StartWriter, Goto
  <2> QED BY <1>1, <2>1 DEF StartWriter, Boot, Goto, TypeOK, Labels
<1>2. ASSUME NEW p \in Procs, Poll(p) PROVE TypeOK' /\ AckHasLine'
  <2>1. AckHasLine'
    BY <1>2, AckHasLineElsewhere DEF Poll, Goto
  <2> QED BY <1>2, <2>1 DEF Poll, Boot, Goto, TypeOK, Labels
<1>3. ASSUME NEW p \in Procs, GiveUp(p) PROVE TypeOK' /\ AckHasLine'
  <2>1. AckHasLine'
    BY <1>3, LeaveAckHasLine DEF GiveUp, Leave
  <2> QED BY <1>3, <2>1, LeaveTypes DEF GiveUp, TypeOK
<1>4. ASSUME NEW p \in Procs, Create(p) PROVE TypeOK' /\ AckHasLine'
  <2>1. AckHasLine'
    BY <1>4, AckHasLineElsewhere DEF Create, Goto
  <2> QED BY <1>4, <2>1 DEF Create, Goto, TypeOK, Labels
<1>5. ASSUME NEW p \in Procs, ReadHolder(p) PROVE TypeOK' /\ AckHasLine'
  <2>1. AckHasLine'
    BY <1>5, AckHasLineElsewhere DEF ReadHolder, Goto
  <2> QED BY <1>5, <2>1 DEF ReadHolder, Goto, TypeOK, Labels
<1>6. ASSUME NEW p \in Procs, WriteDescriptor(p) PROVE TypeOK' /\ AckHasLine'
  <2>1. AckHasLine'
    <3> DEFINE label == IF p \in Writers THEN "append" ELSE "load"
    <3>1. label # "ack" /\ pc' = [pc EXCEPT ![p] = label] /\ UNCHANGED todo
      BY <1>6 DEF WriteDescriptor, Goto
    <3> HIDE DEF label
    <3> QED BY <3>1, AckHasLineElsewhere
  <2> QED BY <1>6, <2>1 DEF WriteDescriptor, Goto, TypeOK, Labels
<1>7. ASSUME NEW p \in Procs, Recheck(p) PROVE TypeOK' /\ AckHasLine'
  <2>1. AckHasLine'
    <3> DEFINE label == IF p \in seen THEN "reclaim" ELSE "try"
    <3>1. label # "ack" /\ pc' = [pc EXCEPT ![p] = label] /\ UNCHANGED todo
      BY <1>7 DEF Recheck, Goto
    <3> HIDE DEF label
    <3> QED BY <3>1, AckHasLineElsewhere
  <2> QED BY <1>7, <2>1 DEF Recheck, Goto, TypeOK, Labels
<1>8. ASSUME NEW p \in Procs, Reclaim(p) PROVE TypeOK' /\ AckHasLine'
  <2>1. AckHasLine'
    BY <1>8, AckHasLineElsewhere DEF Reclaim, Goto
  <2> QED BY <1>8, <2>1 DEF Reclaim, Unlink, Goto, TypeOK, Labels
<1>9. ASSUME NEW p \in Procs, Release(p) PROVE TypeOK' /\ AckHasLine'
  <2>1. CASE lock.whole /\ p \in {lock.by, twin}
    <3>1. Goto(p, "unlock") /\ UNCHANGED <<lock, twin, workVars, accepted, faults>>
      BY <1>9, <2>1 DEF Release
    <3>2. AckHasLine'
      BY <3>1, AckHasLineElsewhere DEF Goto
    <3> QED BY <1>9, <3>1, <3>2 DEF Release, Goto, TypeOK, Labels
  <2>2. CASE ~ (lock.whole /\ p \in {lock.by, twin})
    <3>1. Leave(p) /\ Returned(p)
      BY <1>9, <2>2 DEF Release
    <3>2. accepted' \in SUBSET Entries /\ faults' \in Nat
      BY <3>1 DEF Returned, Fault, TypeOK
    <3>3. AckHasLine'
      BY <3>1, LeaveAckHasLine DEF Leave
    <3> QED BY <1>9, <3>1, <3>2, <3>3, LeaveTypes DEF Release, TypeOK
  <2> QED BY <2>1, <2>2
<1>10. ASSUME NEW p \in Procs, Unlock(p) PROVE TypeOK' /\ AckHasLine'
  <2>1. AckHasLine'
    BY <1>10, LeaveAckHasLine DEF Unlock
  <2>2. accepted' \in SUBSET Entries /\ faults' \in Nat
    BY <1>10 DEF Unlock, Returned, Fault, TypeOK
  <2>3. pc' \in [Procs -> Labels] /\ Forget(p)
    BY <1>10 DEF Unlock, Over, Goto, TypeOK, Labels
  <2> QED BY <1>10, <2>1, <2>2, <2>3, ForgetTypes DEF Unlock, Unlink, TypeOK
<1>11. ASSUME NEW p \in Procs, AppendEntry(p) PROVE TypeOK' /\ AckHasLine'
  <2>1. AckHasLine'
    BY <1>11, AckHasLineElsewhere DEF AppendEntry, Goto
  <2>2. outbox' \in Seq(Lines) /\ garbled' \in SUBSET Entries
    <3>1. entry[p] \in Entries \cup {None}
      BY DEF TypeOK
    <3> QED BY <1>11, <3>1, WithIsTyped DEF AppendEntry, TypeOK
  <2> QED BY <1>11, <2>1, <2>2 DEF AppendEntry, Goto, TypeOK, Labels
<1>12. ASSUME NEW p \in Procs, Load(p) PROVE TypeOK' /\ AckHasLine'
  <2>1. AckHasLine'
    BY <1>12, AckHasLineElsewhere DEF Load, Goto, TypeOK
  <2> QED BY <1>12, <2>1 DEF Load, Acked, Goto, TypeOK, Labels
<1>13. ASSUME NEW p \in Procs, KeepLine(p) PROVE TypeOK' /\ AckHasLine'
  <2>1. todo[p] # <<>> /\ pc[p] # "ack"
    BY <1>13 DEF KeepLine
  <2>2. Tail(todo[p]) \in Seq(Lines) /\ [Line(p) EXCEPT !.ended = TRUE] \in Lines
    BY <2>1, LineIsTyped DEF Lines
  <2>3. kept' \in [Procs -> Seq(Lines)] /\ todo' \in [Procs -> Seq(Lines)]
    BY <1>13, <2>2 DEF KeepLine, TypeOK
  <2>4. AckHasLine'
    BY <1>13, <2>1 DEF KeepLine, AckHasLine, Line, TypeOK
  <2> QED BY <1>13, <2>3, <2>4 DEF KeepLine, TypeOK
<1>14. ASSUME NEW p \in Procs, DeadLetter(p) PROVE TypeOK' /\ AckHasLine'
  <2>1. todo[p] # <<>> /\ pc[p] # "ack" /\ Line(p).entry # None
    BY <1>14 DEF DeadLetter, Foreign
  <2>2. Line(p).entry \in Entries /\ todo' \in [Procs -> Seq(Lines)]
    BY <1>14, <2>1, LineIsTyped DEF DeadLetter, TypeOK
  <2>3. AckHasLine'
    BY <1>14, <2>1 DEF DeadLetter, AckHasLine, Line, TypeOK
  <2> QED BY <1>14, <2>2, <2>3 DEF DeadLetter, TypeOK
<1>15. ASSUME NEW p \in Procs, DropDuplicate(p) PROVE TypeOK' /\ AckHasLine'
  <2>1. todo[p] # <<>> /\ pc[p] # "ack"
    BY <1>15 DEF DropDuplicate, Readable
  <2>2. todo' \in [Procs -> Seq(Lines)]
    BY <1>15, <2>1, LineIsTyped DEF DropDuplicate, TypeOK
  <2>3. AckHasLine'
    BY <1>15, <2>1 DEF DropDuplicate, AckHasLine, Line, TypeOK
  <2> QED BY <1>15, <2>2, <2>3 DEF DropDuplicate, TypeOK
<1>16. ASSUME NEW p \in Procs, Surface(p) PROVE TypeOK' /\ AckHasLine'
  <2>1. todo[p] # <<>> /\ Line(p).entry # None
    BY <1>16 DEF Surface, Readable
  <2>2. Line(p).entry.wake \in Wakes /\ IdOf[Line(p).entry.wake] \in Ids
    BY <2>1, LineIsTyped
  <2>3. known' \in [Procs -> SUBSET Ids]
    BY <1>16, <2>2 DEF Surface, TypeOK
  <2>4. surfaced' \in [Wakes -> 0 .. 2]
    <3> DEFINE w == Line(p).entry.wake
               n == IF surfaced[w] < 2 THEN surfaced[w] + 1 ELSE surfaced[w]
    <3>1. surfaced' = [surfaced EXCEPT ![w] = n]
      BY <1>16 DEF Surface
    <3>2. surfaced \in [Wakes -> 0 .. 2] /\ w \in Wakes
      BY <2>2 DEF TypeOK
    <3> HIDE DEF w
    <3>3. surfaced[w] \in 0 .. 2
      BY <3>2
    <3>4. n \in 0 .. 2
      BY SMTT(30), <3>3
    <3> HIDE DEF n
    <3> QED BY <3>1, <3>2, <3>4
  <2>5. AckHasLine'
    BY <1>16, <2>1 DEF Surface, Goto, AckHasLine, Line, TypeOK
  <2> QED BY <1>16, <2>3, <2>4, <2>5 DEF Surface, Goto, TypeOK, Labels
<1>17. ASSUME NEW p \in Procs, Acknowledge(p) PROVE TypeOK' /\ AckHasLine'
  <2>1. todo[p] # <<>> /\ Line(p).entry # None
    BY <1>17 DEF Acknowledge, AckHasLine
  <2>2. IdOf[Line(p).entry.wake] \in Ids /\ todo' \in [Procs -> Seq(Lines)]
    BY <1>17, <2>1, LineIsTyped DEF Acknowledge, TypeOK
  <2>3. acks' \in SUBSET Ids /\ doubtful' \in SUBSET Ids
    BY <1>17, <2>2 DEF Acknowledge, TypeOK
  <2>4. AckHasLine'
    BY <1>17, AckHasLineElsewhere DEF Acknowledge, Goto, TypeOK
  <2> QED BY <1>17, <2>2, <2>3, <2>4 DEF Acknowledge, Goto, TypeOK, Labels
<1>18. ASSUME NEW p \in Procs, Rewrite(p) PROVE TypeOK' /\ AckHasLine'
  <2>1. AckHasLine'
    BY <1>18, AckHasLineElsewhere DEF Rewrite, Goto
  <2> QED BY <1>18, <2>1 DEF Rewrite, Goto, TypeOK, Labels
<1>19. ASSUME NEW p \in Procs, Crash(p) PROVE TypeOK' /\ AckHasLine'
  <2>1. AckHasLine'
    BY <1>19, AckHasLineElsewhere DEF Crash, Forget, Goto, TypeOK
  <2>2. /\ outbox' \in Seq(Lines)
        /\ acks' \in SUBSET Ids /\ ackTail' \in Ids \cup {None, Torn}
        /\ doubtful' \in SUBSET Ids /\ garbled' \in SUBSET Entries
    BY <1>19, CutShortTypes DEF Crash, TypeOK
  <2>3. pc' \in [Procs -> Labels] /\ seen' \in SUBSET Procs /\ faults' \in Nat
    BY <1>19 DEF Crash, Fault, Goto, TypeOK, Labels
  <2> QED BY <1>19, <2>1, <2>2, <2>3, ExitTypes, ForgetTypes DEF Crash, TypeOK
<1>20. ASSUME NEW p \in Procs, WriteFails(p) PROVE TypeOK' /\ AckHasLine'
  <2>1. AckHasLine'
    BY <1>20, AckHasLineElsewhere DEF WriteFails, Goto
  <2>2. /\ outbox' \in Seq(Lines)
        /\ acks' \in SUBSET Ids /\ ackTail' \in Ids \cup {None, Torn}
        /\ doubtful' \in SUBSET Ids /\ garbled' \in SUBSET Entries
    BY <1>20, CutShortTypes DEF WriteFails, TypeOK
  <2>3. pc' \in [Procs -> Labels] /\ entry' \in [Procs -> Entries \cup {None}] /\ faults' \in Nat
    BY <1>20 DEF WriteFails, Fault, Goto, TypeOK, Labels
  <2> QED BY <1>20, <2>1, <2>2, <2>3 DEF WriteFails, TypeOK
<1>21. ASSUME NEW p \in Procs, DescriptorFails(p) PROVE TypeOK' /\ AckHasLine'
  <2>1. AckHasLine'
    BY <1>21, LeaveAckHasLine DEF DescriptorFails, Leave
  <2>2. Leave(p) /\ faults' \in Nat
    BY <1>21 DEF DescriptorFails, Fault, TypeOK
  <2>3. /\ lock' \in [by : Procs \cup {None, Gone}, whole : BOOLEAN]
        /\ twin' \in Procs \cup {None} /\ pc' \in [Procs -> Labels]
        /\ entry' \in [Procs -> Entries \cup {None}] /\ auth' \in [Procs -> Owners]
        /\ todo' \in [Procs -> Seq(Lines)] /\ kept' \in [Procs -> Seq(Lines)]
        /\ known' \in [Procs -> SUBSET Ids]
    BY <2>2, LeaveTypes
  <2> QED BY <1>21, <2>1, <2>2, <2>3 DEF DescriptorFails, TypeOK
<1>22. ASSUME NEW p \in Procs, NEW w \in Wakes, Deliver(p, w) PROVE TypeOK' /\ AckHasLine'
  <2>1. AckHasLine'
    BY <1>22, AckHasLineElsewhere DEF Deliver, Goto
  <2>2. entry' \in [Procs -> Entries \cup {None}]
    BY <1>22 DEF Deliver, TypeOK, Entries
  <2> QED BY <1>22, <2>1, <2>2 DEF Deliver, Goto, TypeOK, Labels
<1>23. CASE Rotate
  <2>1. owner + 1 \in Owners
    BY <1>23, WakeOutboxAssumption DEF Rotate, TypeOK
  <2> QED BY <1>23, <2>1 DEF Rotate, TypeOK, AckHasLine, Line
<1>24. CASE UNCHANGED vars
  BY <1>24 DEF TypeOK, AckHasLine, Line
<1> QED BY <1>1, <1>2, <1>3, <1>4, <1>5, <1>6, <1>7, <1>8, <1>9, <1>10, <1>11, <1>12, <1>13, <1>14,
           <1>15, <1>16, <1>17, <1>18, <1>19, <1>20, <1>21, <1>22, <1>23, <1>24, StepCases, Zenon DEF StepOf

LEMMA TypesHold == Spec => [](TypeOK /\ AckHasLine)
BY TypeInit, TypeNext, PTL DEF Spec

\* Every variable keeps its type: the lines a poll reads and writes back, the ids it
\* knows and the entries on file are what their names say.  A torn line of the
\* ledger is never taken for a receipt (consumeWakeOutbox.mjs:163-169).
THEOREM TypeCorrect == Spec => []TypeOK
BY TypesHold, PTL

-----------------------------------------------------------------------------
(***************************************************************************)
(* The lock                                                                *)
(***************************************************************************)

LEMMA LockInit == Init => LockIsOwn
BY DEF Init, LockIsOwn, Holding, Inside

\* A step that leaves the lock file alone, or writes what its process has created,
\* and gives nobody the section.
LEMMA LockStays ==
    ASSUME TypeOK, LockIsOwn,
           lock'.by = lock.by, lock.by = Gone => lock' = lock, seen' \subseteq seen,
           UNCHANGED clobbered,
           \A q \in Procs : Holding(q)' => Holding(q)
    PROVE  LockIsOwn'
BY DEF LockIsOwn

\* The end of a process, or of a call of one.
LEMMA LockOfTheLeaving ==
    ASSUME TypeOK, LockIsOwn, NEW p \in Procs,
           Exit(p) \/ UNCHANGED lock, seen' \subseteq seen, UNCHANGED clobbered,
           \A q \in Procs \ {p} : Holding(q)' => Holding(q),
           ~ Holding(p)'
    PROVE  LockIsOwn'
BY WakeOutboxAssumption DEF LockIsOwn, Exit, TypeOK

LEMMA HoldingOfTheLeaving ==
    ASSUME TypeOK, NEW p \in Procs, Over(p) \/ Goto(p, "off")
    PROVE  /\ \A q \in Procs \ {p} : Holding(q)' => Holding(q)
           /\ ~ Holding(p)'
BY DEF Over, Goto, Holding, Inside, TypeOK

\* A step of a process within its section, or outside of any.
LEMMA HoldingStays ==
    ASSUME TypeOK, NEW p \in Procs, NEW label, Goto(p, label),
           \/ Holding(p)
           \/ label \in {"off", "idle", "try", "recheck", "reclaim"}
    PROVE  \A q \in Procs : Holding(q)' => Holding(q)
BY DEF Goto, Holding, Inside, TypeOK

LEMMA LockNext == TypeOK /\ LockIsOwn /\ [Next]_vars => LockIsOwn'
<1> SUFFICES ASSUME TypeOK, LockIsOwn, [Next]_vars PROVE LockIsOwn'
  OBVIOUS
<1>1. ASSUME NEW p \in Procs, StartWriter(p) PROVE LockIsOwn'
  BY <1>1, HoldingStays, LockStays DEF StartWriter
<1>2. ASSUME NEW p \in Procs, Poll(p) PROVE LockIsOwn'
  BY <1>2, HoldingStays, LockStays DEF Poll
<1>3. ASSUME NEW p \in Procs, GiveUp(p) PROVE LockIsOwn'
  BY <1>3, HoldingOfTheLeaving, LockOfTheLeaving DEF GiveUp, Leave
<1>4. ASSUME NEW p \in Procs, Create(p) PROVE LockIsOwn'
  BY <1>4, WakeOutboxAssumption DEF Create, Goto, LockIsOwn, Holding, Inside, TypeOK
<1>5. ASSUME NEW p \in Procs, ReadHolder(p) PROVE LockIsOwn'
  BY <1>5 DEF ReadHolder, HolderIsAlive, Goto, LockIsOwn, Holding, Inside, TypeOK
<1>6. ASSUME NEW p \in Procs, WriteDescriptor(p) PROVE LockIsOwn'
  <2>1. Holding(p)
    BY <1>6 DEF WriteDescriptor, Holding
  <2>2. lock'.by = lock.by /\ (lock.by = Gone => lock' = lock)
    BY <1>6, WakeOutboxAssumption DEF WriteDescriptor, TypeOK
  <2> QED BY <1>6, <2>1, <2>2, HoldingStays, LockStays DEF WriteDescriptor
<1>7. ASSUME NEW p \in Procs, Recheck(p) PROVE LockIsOwn'
  BY <1>7, HoldingStays, LockStays DEF Recheck
<1>8. ASSUME NEW p \in Procs, Reclaim(p) PROVE LockIsOwn'
  <2>1. \A q \in Procs : Holding(q)' => Holding(q)
    BY <1>8, HoldingStays DEF Reclaim
  <2>2. ~ clobbered' => ~ clobbered /\ lock.by \in {None, Gone}
    <3>1. clobbered' = (clobbered \/ (lock # Free /\ p \notin seen))
      BY <1>8 DEF Reclaim
    <3>2. p \in seen => lock.by = Gone
      BY DEF LockIsOwn
    <3>3. lock = Free => lock.by = None
      OBVIOUS
    <3> QED BY <3>1, <3>2, <3>3
  <2> QED BY <1>8, <2>1, <2>2, WakeOutboxAssumption DEF Reclaim, Unlink, LockIsOwn
<1>9. ASSUME NEW p \in Procs, Release(p) PROVE LockIsOwn'
  <2>1. Holding(p)
    BY <1>9 DEF Release, Holding
  <2>2. CASE lock.whole /\ p \in {lock.by, twin}
    <3>1. Goto(p, "unlock") /\ UNCHANGED <<lock, seen, clobbered>>
      BY <1>9, <2>2 DEF Release
    <3> QED BY <2>1, <3>1, HoldingStays, LockStays
  <2>3. CASE ~ (lock.whole /\ p \in {lock.by, twin})
    <3>1. Leave(p) /\ UNCHANGED <<seen, clobbered>>
      BY <1>9, <2>3 DEF Release
    <3> QED BY <3>1, HoldingOfTheLeaving, LockOfTheLeaving DEF Leave
  <2> QED BY <2>2, <2>3
<1>10. ASSUME NEW p \in Procs, Unlock(p) PROVE LockIsOwn'
  <2>1. /\ \A q \in Procs \ {p} : Holding(q)' => Holding(q)
        /\ ~ Holding(p)'
    BY <1>10, HoldingOfTheLeaving DEF Unlock
  <2>2. ~ clobbered => lock.by = p
    BY <1>10 DEF Unlock, LockIsOwn, Holding
  <2>3. ~ clobbered' => \A q \in Procs : ~ Holding(q)'
    BY <1>10, <2>1, <2>2 DEF Unlock, LockIsOwn
  <2> QED BY <1>10, <2>3 DEF Unlock, Unlink, LockIsOwn
<1>11. ASSUME NEW p \in Procs, AppendEntry(p) PROVE LockIsOwn'
  <2>1. Holding(p)
    BY <1>11 DEF AppendEntry, Holding, Inside
  <2> QED BY <1>11, <2>1, HoldingStays, LockStays DEF AppendEntry
<1>12. ASSUME NEW p \in Procs, Load(p) \/ Acknowledge(p) \/ Surface(p) \/ Rewrite(p) PROVE LockIsOwn'
  <2>1. Holding(p) /\ UNCHANGED <<lock, seen, clobbered>>
    BY <1>12 DEF Load, Acknowledge, Surface, Readable, Rewrite, Holding, Inside
  <2>2. Goto(p, "line") \/ Goto(p, "ack") \/ Goto(p, "release")
    BY <1>12 DEF Load, Acknowledge, Surface, Rewrite
  <2> QED BY <2>1, <2>2, HoldingStays, LockStays
<1>13. ASSUME NEW p \in Procs, KeepLine(p) \/ DeadLetter(p) \/ DropDuplicate(p) PROVE LockIsOwn'
  <2>1. UNCHANGED <<lock, seen, clobbered, pc>>
    BY <1>13 DEF KeepLine, DeadLetter, DropDuplicate
  <2> QED BY <2>1, LockStays DEF Holding, Inside
<1>14. ASSUME NEW p \in Procs, Crash(p) PROVE LockIsOwn'
  BY <1>14, HoldingOfTheLeaving, LockOfTheLeaving DEF Crash
<1>15. ASSUME NEW p \in Procs, WriteFails(p) PROVE LockIsOwn'
  <2>1. Holding(p)
    BY <1>15 DEF WriteFails, Foreign, Holding, Inside
  <2> QED BY <1>15, <2>1, HoldingStays, LockStays DEF WriteFails
<1>16. ASSUME NEW p \in Procs, DescriptorFails(p) PROVE LockIsOwn'
  BY <1>16, HoldingOfTheLeaving, LockOfTheLeaving DEF DescriptorFails, Leave
<1>17. ASSUME NEW p \in Procs, NEW w \in Wakes, Deliver(p, w) PROVE LockIsOwn'
  BY <1>17, HoldingStays, LockStays DEF Deliver
<1>18. CASE Rotate \/ UNCHANGED vars
  BY <1>18, LockStays DEF Rotate, Holding, Inside
<1> QED BY <1>1, <1>2, <1>3, <1>4, <1>5, <1>6, <1>7, <1>8, <1>9, <1>10, <1>11, <1>12, <1>13, <1>14,
           <1>15, <1>16, <1>17, <1>18, StepCases, Zenon DEF StepOf

LEMMA LockHolds == Spec => [](TypeOK /\ AckHasLine /\ LockIsOwn)
BY TypesHold, LockInit, LockNext, PTL DEF Spec

\* Whoever waits, dies, reclaims or reuses a pid: no two calls are inside the lock at
\* once, so no append interleaves with a compaction (wake/daemon.mjs:1569-1574) -
\* but after a reclaim that unlinked a successor's file (outboxLock.mjs:98-104).
THEOREM NoTwoInside == Spec => []OneInside
<1>1. LockIsOwn => OneInside
  BY DEF LockIsOwn, OneInside, Holding
<1> QED BY <1>1, LockHolds, PTL

-----------------------------------------------------------------------------
(***************************************************************************)
(* What a step changes                                                     *)
(***************************************************************************)

\* A step of p leaves the work of the others alone.
OnlyOf(p) ==
    \A q \in Procs \ {p} :
        /\ pc'[q] = pc[q] /\ entry'[q] = entry[q] /\ auth'[q] = auth[q]
        /\ todo'[q] = todo[q] /\ kept'[q] = kept[q] /\ known'[q] = known[q]

LEMMA OverIsOnlyOf ==
    ASSUME TypeOK, NEW p \in Procs, Over(p)
    PROVE  OnlyOf(p)
BY DEF Over, Goto, Forget, OnlyOf, TypeOK

LEMMA OthersStay ==
    ASSUME TypeOK, NEW p \in Procs, StepOf(p)
    PROVE  OnlyOf(p)
<1>1. CASE StartWriter(p) \/ Poll(p) \/ Create(p) \/ ReadHolder(p) \/ WriteDescriptor(p)
  BY <1>1 DEF StartWriter, Poll, Create, ReadHolder, WriteDescriptor, Goto, OnlyOf, TypeOK
<1>2. CASE GiveUp(p) \/ Unlock(p) \/ DescriptorFails(p)
  BY <1>2, OverIsOnlyOf DEF GiveUp, Unlock, DescriptorFails, Leave
<1>3. CASE Release(p)
  <2>1. CASE Goto(p, "unlock") /\ UNCHANGED workVars
    BY <2>1 DEF Goto, OnlyOf, TypeOK
  <2>2. CASE Leave(p)
    BY <2>2, OverIsOnlyOf DEF Leave
  <2> QED BY <1>3, <2>1, <2>2 DEF Release
<1>4. CASE Recheck(p) \/ Reclaim(p) \/ AppendEntry(p) \/ Load(p) \/ Rewrite(p)
  BY <1>4 DEF Recheck, Reclaim, AppendEntry, Load, Rewrite, Goto, OnlyOf, TypeOK
<1>5. CASE KeepLine(p) \/ DeadLetter(p) \/ DropDuplicate(p)
  BY <1>5 DEF KeepLine, DeadLetter, DropDuplicate, OnlyOf, TypeOK
<1>6. CASE Surface(p) \/ Acknowledge(p)
  BY <1>6 DEF Surface, Acknowledge, Goto, OnlyOf, TypeOK
<1>7. CASE Crash(p)
  BY <1>7 DEF Crash, Goto, Forget, OnlyOf, TypeOK
<1>8. CASE WriteFails(p)
  BY <1>8 DEF WriteFails, Goto, OnlyOf, TypeOK
<1>9. ASSUME NEW w \in Wakes, Deliver(p, w) PROVE OnlyOf(p)
  BY <1>9 DEF Deliver, Goto, OnlyOf, TypeOK
<1> QED BY <1>1, <1>2, <1>3, <1>4, <1>5, <1>6, <1>7, <1>8, <1>9, Zenon DEF StepOf

\* What has been shown stays shown.
LEMMA ShownStays ==
    ASSUME TypeOK, AckHasLine, [Next]_vars
    PROVE  \A w \in Wakes : surfaced[w] > 0 => surfaced'[w] > 0
<1>1. CASE UNCHANGED surfaced
  BY <1>1
<1>2. ASSUME NEW p \in Procs, Surface(p) PROVE \A w \in Wakes : surfaced[w] > 0 => surfaced'[w] > 0
  <2> DEFINE v == Line(p).entry.wake
             n == IF surfaced[v] < 2 THEN surfaced[v] + 1 ELSE surfaced[v]
  <2>1. surfaced' = [surfaced EXCEPT ![v] = n] /\ surfaced \in [Wakes -> 0 .. 2]
    BY <1>2 DEF Surface, TypeOK
  <2> HIDE DEF v
  <2>2. \A w \in Wakes : surfaced'[w] = IF w = v THEN n ELSE surfaced[w]
    BY <2>1
  <2>3. \A w \in Wakes : surfaced[w] \in 0 .. 2
    BY <2>1
  <2> QED BY <2>2, <2>3
<1>3. CASE \A p \in Procs : ~ Surface(p)
  <2>1. UNCHANGED surfaced
    BY ZenonT(40), <1>3, StepCases
       DEF StepOf, StartWriter, Poll, GiveUp, Create, ReadHolder, WriteDescriptor, Recheck, Reclaim,
           Release, Unlock, AppendEntry, Load, KeepLine, DeadLetter, DropDuplicate, Acknowledge,
           Rewrite, Crash, WriteFails, DescriptorFails, Deliver, Rotate
  <2> QED BY <2>1, <1>1
<1> QED BY <1>2, <1>3

\* The histories and the letters only grow.
LEMMA HistoryGrows ==
    ASSUME TypeOK, [Next]_vars
    PROVE  /\ dead \subseteq dead' /\ garbled \subseteq garbled'
           /\ doubtful \subseteq doubtful' /\ (clobbered => clobbered')
<1>1. ASSUME NEW p \in Procs, StepOf(p)
      PROVE  /\ dead \subseteq dead' /\ garbled \subseteq garbled'
             /\ doubtful \subseteq doubtful' /\ (clobbered => clobbered')
  <2>1. CASE Crash(p) \/ WriteFails(p)
    <3>1. CutShort(p) /\ UNCHANGED <<dead, clobbered>>
      BY <2>1 DEF Crash, WriteFails
    <3>2. garbled \subseteq garbled'
      BY <3>1 DEF CutShort
    <3>3. doubtful \subseteq doubtful'
      BY <3>1, Zenon DEF CutShort
    <3> QED BY <3>1, <3>2, <3>3
  <2>2. CASE Reclaim(p) \/ AppendEntry(p) \/ DeadLetter(p) \/ Acknowledge(p)
    <3>1. CASE Reclaim(p)
      BY <3>1 DEF Reclaim
    <3>2. CASE AppendEntry(p)
      BY <3>2 DEF AppendEntry
    <3>3. CASE DeadLetter(p)
      BY <3>3 DEF DeadLetter
    <3>4. CASE Acknowledge(p)
      BY <3>4 DEF Acknowledge
    <3> QED BY <2>2, <3>1, <3>2, <3>3, <3>4
  <2>3. CASE ~ (Crash(p) \/ WriteFails(p) \/ Reclaim(p) \/ AppendEntry(p) \/ DeadLetter(p)
                \/ Acknowledge(p))
    <3>1. UNCHANGED <<dead, garbled, doubtful, clobbered>>
      BY <1>1, <2>3
         DEF StepOf, StartWriter, Poll, GiveUp, Create, ReadHolder, WriteDescriptor, Recheck,
             Release, Unlock, Load, KeepLine, DropDuplicate, Surface, Rewrite, DescriptorFails,
             Deliver
    <3> QED BY <3>1
  <2> QED BY <2>1, <2>2, <2>3
<1>2. CASE Rotate \/ UNCHANGED vars
  BY <1>2 DEF Rotate
<1> QED BY <1>1, <1>2, StepCases

LEMMA RolesInit == Init => Roles
BY WakeOutboxAssumption DEF Init, Roles, Role

LEMMA RoleSuffices ==
    ASSUME Roles, NEW p \in Procs, OnlyOf(p), Role(p)'
    PROVE  Roles'
BY DEF Roles, Role, OnlyOf

\* A call that is over has no entry, and keeps no line.
LEMMA RoleOfTheLeaving ==
    ASSUME TypeOK, NEW p \in Procs, Over(p) \/ (Goto(p, "off") /\ Forget(p))
    PROVE  Role(p)'
<1>1. entry'[p] = None /\ kept'[p] = <<>> /\ pc'[p] \in {"off", "idle"}
  BY DEF Over, Goto, Forget, TypeOK
<1>2. p \in Consumers => pc'[p] = "off"
  BY DEF Over, Goto, TypeOK
<1> QED BY <1>1, <1>2, WakeOutboxAssumption DEF Role

\* A line that does not parse, at the end of those kept.
LEMMA KeptGrows ==
    ASSUME NEW s \in Seq(Lines), NEW line \in Lines, line.entry = None,
           \A i \in 1 .. Len(s) : s[i].entry = None
    PROVE  \A i \in 1 .. Len(Append(s, line)) : Append(s, line)[i].entry = None
OBVIOUS

LEMMA RolesNext == TypeOK /\ Roles /\ [Next]_vars => Roles'
<1> SUFFICES ASSUME TypeOK, Roles, [Next]_vars PROVE Roles'
  OBVIOUS
<1>1. ASSUME NEW p \in Procs, StepOf(p) PROVE Roles'
  <2> SUFFICES Role(p)'
    BY <1>1, OthersStay, RoleSuffices
  <2>1. Role(p)
    BY DEF Roles
  <2>2. CASE StartWriter(p) \/ Poll(p) \/ Create(p) \/ ReadHolder(p) \/ WriteDescriptor(p)
    BY <2>1, <2>2, WakeOutboxAssumption
       DEF StartWriter, Poll, Create, ReadHolder, WriteDescriptor, Goto, Role, TypeOK
  <2>3. CASE GiveUp(p) \/ Unlock(p) \/ DescriptorFails(p)
    BY <2>3, RoleOfTheLeaving DEF GiveUp, Unlock, DescriptorFails, Leave
  <2>4. CASE Release(p)
    <3>1. CASE Goto(p, "unlock") /\ UNCHANGED workVars
      BY <2>1, <3>1 DEF Goto, Role, TypeOK
    <3>2. CASE Leave(p)
      BY <3>2, RoleOfTheLeaving DEF Leave
    <3> QED BY <2>4, <3>1, <3>2 DEF Release
  <2>5. CASE Recheck(p) \/ Reclaim(p) \/ AppendEntry(p) \/ Load(p) \/ Rewrite(p)
    BY <2>1, <2>5 DEF Recheck, Reclaim, AppendEntry, Load, Rewrite, Goto, Role, TypeOK
  <2>6. CASE KeepLine(p)
    <3> DEFINE line == [Line(p) EXCEPT !.ended = TRUE]
    <3>1. line \in Lines /\ line.entry = None
      BY <2>6, LineIsTyped DEF KeepLine, Lines
    <3>2. kept[p] \in Seq(Lines) /\ kept'[p] = Append(kept[p], line)
      BY <2>6 DEF KeepLine, TypeOK
    <3> HIDE DEF line
    <3>3. \A i \in 1 .. Len(kept'[p]) : kept'[p][i].entry = None
      BY <2>1, <3>1, <3>2, KeptGrows DEF Role
    <3> QED BY <2>1, <2>6, <3>3 DEF KeepLine, Role
  <2>7. CASE DeadLetter(p) \/ DropDuplicate(p)
    BY <2>1, <2>7 DEF DeadLetter, DropDuplicate, Role
  <2>8. CASE Surface(p) \/ Acknowledge(p)
    BY <2>1, <2>8 DEF Surface, Readable, Acknowledge, Goto, Role, TypeOK
  <2>9. CASE Crash(p)
    BY <2>9, RoleOfTheLeaving DEF Crash
  <2>10. CASE WriteFails(p)
    <3>1. entry'[p] = None /\ pc'[p] = "release" /\ kept' = kept
      BY <2>10 DEF WriteFails, Goto, TypeOK
    <3> QED BY <2>1, <3>1 DEF Role
  <2>11. ASSUME NEW w \in Wakes, Deliver(p, w) PROVE Role(p)'
    <3>1. [wake |-> w, owner |-> owner] # None
      BY WakeOutboxAssumption DEF TypeOK
    <3>2. p \in Writers /\ entry'[p] # None /\ pc'[p] = "try" /\ kept' = kept
      BY <2>11, <3>1 DEF Deliver, Goto, TypeOK
    <3> QED BY <2>1, <3>2, WakeOutboxAssumption DEF Role
  <2> QED BY <1>1, <2>2, <2>3, <2>4, <2>5, <2>6, <2>7, <2>8, <2>9, <2>10, <2>11, Zenon DEF StepOf
<1>2. CASE Rotate \/ UNCHANGED vars
  BY <1>2 DEF Rotate, Roles, Role
<1> QED BY <1>1, <1>2, StepCases

LEMMA AckIsShownNext ==
    TypeOK /\ AckHasLine /\ AckHasLine' /\ AckIsShown /\ [Next]_vars => AckIsShown'
<1> SUFFICES ASSUME TypeOK, AckHasLine, AckHasLine', AckIsShown, [Next]_vars,
                    NEW q \in Procs, pc'[q] = "ack"
             PROVE  /\ surfaced'[Line(q)'.entry.wake] > 0
                    /\ IdOf[Line(q)'.entry.wake] \in known'[q]
  BY DEF AckIsShown
<1>1. CASE pc[q] = "ack" /\ todo'[q] = todo[q] /\ known'[q] = known[q]
  <2>1. Line(q)' = Line(q) /\ Line(q).entry.wake \in Wakes
    BY <1>1, LineIsTyped DEF Line, AckHasLine
  <2> QED BY <1>1, <2>1, ShownStays DEF AckIsShown
<1>2. ASSUME NEW p \in Procs, StepOf(p)
      PROVE  /\ surfaced'[Line(q)'.entry.wake] > 0
             /\ IdOf[Line(q)'.entry.wake] \in known'[q]
  <2>1. CASE p # q
    BY <1>1, <1>2, <2>1, OthersStay DEF OnlyOf
  <2>2. CASE p = q
    <3>1. CASE Surface(p)
      <4> DEFINE w == Line(p).entry.wake
                 n == IF surfaced[w] < 2 THEN surfaced[w] + 1 ELSE surfaced[w]
      <4>1. surfaced' = [surfaced EXCEPT ![w] = n] /\ surfaced \in [Wakes -> 0 .. 2]
        BY SMTT(30), <3>1 DEF Surface, TypeOK
      <4>2. w \in Wakes /\ Line(q)' = Line(q) /\ IdOf[w] \in known'[q]
        BY Zenon, <3>1, <2>2, LineIsTyped DEF Surface, Readable, Line, TypeOK
      <4> HIDE DEF w
      <4>3. surfaced[w] \in 0 .. 2 /\ surfaced'[w] = n
        BY <4>1, <4>2
      <4>4. surfaced'[w] > 0
        BY <4>3
      <4> QED BY <2>2, <4>2, <4>4 DEF w
    <3>2. CASE ~ Surface(p)
      <4>1. CASE StartWriter(p) \/ Poll(p) \/ Create(p) \/ ReadHolder(p) \/ WriteDescriptor(p)
        BY <2>2, <4>1 DEF StartWriter, Poll, Create, ReadHolder, WriteDescriptor, Goto, TypeOK
      <4>2. CASE GiveUp(p) \/ Unlock(p) \/ DescriptorFails(p)
        BY <2>2, <4>2 DEF GiveUp, Unlock, DescriptorFails, Leave, Over, Goto, TypeOK
      <4>3. CASE Release(p)
        BY <2>2, <4>3 DEF Release, Leave, Over, Goto, TypeOK
      <4>4. CASE Recheck(p) \/ Reclaim(p) \/ AppendEntry(p) \/ Load(p) \/ Rewrite(p)
        BY <2>2, <4>4 DEF Recheck, Reclaim, AppendEntry, Load, Rewrite, Goto, TypeOK
      <4>5. CASE KeepLine(p) \/ DeadLetter(p) \/ DropDuplicate(p)
        BY <2>2, <4>5 DEF KeepLine, DeadLetter, Foreign, DropDuplicate, Readable
      <4>6. CASE Acknowledge(p) \/ Crash(p) \/ WriteFails(p)
        BY <2>2, <4>6 DEF Acknowledge, Crash, WriteFails, Goto, TypeOK
      <4>7. ASSUME NEW w \in Wakes, Deliver(p, w) PROVE FALSE
        BY <2>2, <4>7 DEF Deliver, Goto, TypeOK
      <4> QED BY <1>2, <3>2, <4>1, <4>2, <4>3, <4>4, <4>5, <4>6, <4>7, Zenon DEF StepOf
    <3> QED BY <3>1, <3>2
  <2> QED BY <2>1, <2>2
<1>3. CASE Rotate \/ UNCHANGED vars
  BY <1>1, <1>3 DEF Rotate
<1> QED BY <1>2, <1>3, StepCases

-----------------------------------------------------------------------------
(***************************************************************************)
(* What the files hold                                                     *)
(***************************************************************************)

LEMMA QueuedIsEntry == \A e : Queued(e) <=> e \in EntriesOf(outbox)
BY DEF Queued, EntriesOf

LEMMA EntriesOfTail ==
    ASSUME NEW s \in Seq(Lines), s # <<>>
    PROVE  /\ EntriesOf(Tail(s)) \subseteq EntriesOf(s)
           /\ EntriesOf(s) \subseteq EntriesOf(Tail(s)) \cup {Head(s).entry}
<1>1. /\ Len(s) \in Nat \ {0} /\ Len(Tail(s)) = Len(s) - 1
      /\ \A i \in 1 .. Len(s) - 1 : Tail(s)[i] = s[i + 1]
      /\ Head(s) = s[1]
  OBVIOUS
<1>2. EntriesOf(Tail(s)) \subseteq EntriesOf(s)
  <2> SUFFICES ASSUME NEW i \in 1 .. Len(Tail(s)) PROVE Tail(s)[i].entry \in EntriesOf(s)
    BY DEF EntriesOf
  <2> QED BY <1>1 DEF EntriesOf
<1>3. EntriesOf(s) \subseteq EntriesOf(Tail(s)) \cup {Head(s).entry}
  <2> SUFFICES ASSUME NEW i \in 1 .. Len(s), i # 1 PROVE s[i].entry \in EntriesOf(Tail(s))
    BY <1>1 DEF EntriesOf
  <2>1. i - 1 \in 1 .. Len(Tail(s)) /\ Tail(s)[i - 1] = s[i]
    BY <1>1
  <2> QED BY <2>1 DEF EntriesOf
<1> QED BY <1>2, <1>3

LEMMA EntriesOfAppend ==
    ASSUME NEW s \in Seq(Lines), NEW line \in Lines
    PROVE  EntriesOf(Append(s, line)) = EntriesOf(s) \cup {line.entry}
<1>1. /\ Len(Append(s, line)) = Len(s) + 1 /\ Len(s) \in Nat
      /\ \A i \in 1 .. Len(s) : Append(s, line)[i] = s[i]
      /\ Append(s, line)[Len(s) + 1] = line
  OBVIOUS
<1>2. ASSUME NEW i \in 1 .. Len(s) + 1
      PROVE  Append(s, line)[i].entry \in EntriesOf(s) \cup {line.entry}
  <2>1. i \in 1 .. Len(s) \/ i = Len(s) + 1
    BY <1>1
  <2> QED BY <1>1, <2>1 DEF EntriesOf
<1>3. ASSUME NEW i \in 1 .. Len(s)
      PROVE  s[i].entry \in EntriesOf(Append(s, line))
  <2>1. i \in 1 .. Len(Append(s, line))
    BY <1>1
  <2> QED BY <1>1, <2>1 DEF EntriesOf
<1>4. line.entry \in EntriesOf(Append(s, line))
  <2>1. Len(s) + 1 \in 1 .. Len(Append(s, line))
    BY <1>1
  <2> QED BY <1>1, <2>1 DEF EntriesOf
<1>5. EntriesOf(Append(s, line)) \subseteq EntriesOf(s) \cup {line.entry}
  BY <1>1, <1>2 DEF EntriesOf
<1>6. EntriesOf(s) \subseteq EntriesOf(Append(s, line))
  BY <1>3 DEF EntriesOf
<1> QED BY <1>4, <1>5, <1>6

\* The lines before the last one.
LEMMA EntriesOfFront ==
    ASSUME NEW s \in Seq(Lines), NEW n \in Nat, n < Len(s)
    PROVE  /\ SubSeq(s, 1, n) \in Seq(Lines)
           /\ EntriesOf(SubSeq(s, 1, n)) \subseteq EntriesOf(s)
           /\ n = Len(s) - 1 =>
                 EntriesOf(s) \subseteq EntriesOf(SubSeq(s, 1, n)) \cup {s[Len(s)].entry}
<1>1. /\ SubSeq(s, 1, n) \in Seq(Lines) /\ Len(SubSeq(s, 1, n)) = n /\ Len(s) \in Nat
      /\ \A i \in 1 .. n : SubSeq(s, 1, n)[i] = s[i]
  OBVIOUS
<1>2. ASSUME NEW i \in 1 .. n PROVE SubSeq(s, 1, n)[i].entry \in EntriesOf(s)
  BY <1>1 DEF EntriesOf
<1>3. ASSUME n = Len(s) - 1, NEW i \in 1 .. Len(s)
      PROVE  s[i].entry \in EntriesOf(SubSeq(s, 1, n)) \cup {s[Len(s)].entry}
  <2>1. i \in 1 .. n \/ i = Len(s)
    BY <1>1, <1>3
  <2> QED BY <1>1, <2>1 DEF EntriesOf
<1>4. EntriesOf(SubSeq(s, 1, n)) \subseteq EntriesOf(s)
  BY <1>1, <1>2 DEF EntriesOf
<1>5. n = Len(s) - 1 => EntriesOf(s) \subseteq EntriesOf(SubSeq(s, 1, n)) \cup {s[Len(s)].entry}
  BY <1>3 DEF EntriesOf
<1> QED BY <1>1, <1>4, <1>5

\* An append brings its entry, and takes no other away that it does not garble.
LEMMA AppendIsSafe ==
    ASSUME TypeOK, NEW e \in Entries \cup {None}, NEW ended \in BOOLEAN,
           outbox' = With(e, ended)
    PROVE  /\ \A f \in Entries : Queued(f)' => Queued(f) \/ f = e
           /\ \A f \in Entries : Queued(f) \/ f = e => Queued(f)' \/ f \in Garbles(e)
<1>1. /\ [entry |-> e, ended |-> ended] \in Lines /\ [entry |-> e, ended |-> ended].entry = e
      /\ [entry |-> None, ended |-> ended] \in Lines
      /\ [entry |-> None, ended |-> ended].entry = None
  BY DEF Lines
<1>2. outbox \in Seq(Lines) /\ None \notin Entries
  BY WakeOutboxAssumption DEF TypeOK, Entries
<1>3. \A f : Queued(f)' <=> f \in EntriesOf(outbox')
  BY DEF Queued, EntriesOf
<1>4. CASE Open
  <2>1. outbox # <<>> /\ Garbles(e) = ({outbox[Len(outbox)].entry} \cup {e}) \ {None}
    BY <1>4 DEF Open, Garbles
  <2>2. Len(outbox) - 1 \in Nat /\ Len(outbox) - 1 < Len(outbox)
    BY <1>2, <2>1
  <2>3. /\ Front \in Seq(Lines) /\ EntriesOf(Front) \subseteq EntriesOf(outbox)
        /\ EntriesOf(outbox) \subseteq EntriesOf(Front) \cup {outbox[Len(outbox)].entry}
    BY <1>2, <2>2, EntriesOfFront DEF Front
  <2>4. EntriesOf(outbox') = EntriesOf(Front) \cup {None}
    BY <1>1, <1>4, <2>3, EntriesOfAppend DEF With
  <2> QED BY <1>2, <1>3, <2>1, <2>3, <2>4, QueuedIsEntry
<1>5. CASE ~ Open
  <2>1. EntriesOf(outbox') = EntriesOf(outbox) \cup {e}
    BY <1>1, <1>2, <1>5, EntriesOfAppend DEF With
  <2> QED BY <1>3, <2>1, QueuedIsEntry
<1> QED BY <1>4, <1>5

\* What a compaction writes back, wholly or in part, holds no entry.
LEMMA KeptHasNone ==
    ASSUME TypeOK, Roles, NEW p \in Procs, NEW s \in Seq(Lines),
           EntriesOf(s) \subseteq EntriesOf(kept[p]) \cup {None}
    PROVE  \A e \in Entries : e \notin EntriesOf(s)
<1>1. EntriesOf(kept[p]) \subseteq {None}
  BY DEF Roles, Role, EntriesOf
<1>2. None \notin Entries
  BY WakeOutboxAssumption DEF Entries
<1> QED BY <1>1, <1>2

\* A write that is cut short keeps what was there, or garbles it, unless it is the
\* compaction; it leaves every id in the ledger or in doubt.
LEMMA CutShortKeeps ==
    ASSUME TypeOK, AckHasLine, Roles, NEW p \in Procs, CutShort(p)
    PROVE  /\ \A e \in Entries : Queued(e)' => Queued(e) \/ (pc[p] = "append" /\ e = entry[p])
           /\ \A e \in Entries : Queued(e) =>
                 Queued(e)' \/ e \in garbled' \/ (pc[p] = "line" /\ todo[p] = <<>>)
           /\ Acked \cup doubtful \subseteq Acked' \cup doubtful'
           /\ pc[p] = "ack" => IdOf[Line(p).entry.wake] \in Acked' \cup doubtful'
           /\ Acked' \subseteq Acked \/ (pc[p] = "ack"
                                         /\ Acked' \subseteq Acked \cup {IdOf[Line(p).entry.wake]})
<1>1. CASE /\ pc[p] = "append"
           /\ \E e \in {None, entry[p]} :
                /\ outbox' = With(e, FALSE)
                /\ garbled' = garbled \cup Garbles(e)
           /\ UNCHANGED <<acks, ackTail, doubtful>>
  <2>1. PICK e \in {None, entry[p]} : /\ outbox' = With(e, FALSE)
                                      /\ garbled' = garbled \cup Garbles(e)
    BY <1>1
  <2>2. e \in Entries \cup {None} /\ None \notin Entries
    BY WakeOutboxAssumption DEF TypeOK, Entries
  <2>3. /\ \A f \in Entries : Queued(f)' => Queued(f) \/ f = e
        /\ \A f \in Entries : Queued(f) \/ f = e => Queued(f)' \/ f \in Garbles(e)
    BY <2>1, <2>2, AppendIsSafe
  <2> QED BY <1>1, <2>1, <2>2, <2>3 DEF Acked
<1>2. CASE /\ pc[p] = "line" /\ todo[p] = <<>>
           /\ \E i \in 0 .. Len(kept[p]) :
                outbox' = IF i = 0 THEN <<>>
                          ELSE Append(SubSeq(kept[p], 1, i - 1), [entry |-> None, ended |-> FALSE])
           /\ UNCHANGED <<acks, ackTail, doubtful, garbled>>
  <2>1. PICK i \in 0 .. Len(kept[p]) :
                outbox' = IF i = 0 THEN <<>>
                          ELSE Append(SubSeq(kept[p], 1, i - 1), [entry |-> None, ended |-> FALSE])
    BY <1>2
  <2>2. kept[p] \in Seq(Lines) /\ [entry |-> None, ended |-> FALSE] \in Lines
    BY DEF TypeOK, Lines
  <2>3. EntriesOf(outbox') \subseteq EntriesOf(kept[p]) \cup {None}
    <3>1. CASE i = 0
      BY <2>1, <3>1 DEF EntriesOf
    <3>2. CASE i # 0
      <4> DEFINE s == SubSeq(kept[p], 1, i - 1)
      <4>1. i - 1 \in Nat /\ i - 1 < Len(kept[p])
        BY <2>1, <2>2, <3>2
      <4>2. s \in Seq(Lines) /\ EntriesOf(s) \subseteq EntriesOf(kept[p])
        BY <2>2, <4>1, EntriesOfFront
      <4>3. outbox' = Append(s, [entry |-> None, ended |-> FALSE])
        BY <2>1, <3>2
      <4> HIDE DEF s
      <4> QED BY <2>2, <4>2, <4>3, EntriesOfAppend
    <3> QED BY <3>1, <3>2
  <2>4. outbox' \in Seq(Lines)
    BY CutShortTypes
  <2>5. \A e \in Entries : ~ Queued(e)'
    BY <2>3, <2>4, KeptHasNone DEF Queued, EntriesOf
  <2> QED BY <1>2, <2>5 DEF Acked
<1>3. CASE /\ pc[p] = "ack"
           /\ \E t \in {Torn, IdOf[Line(p).entry.wake]} :
                /\ ackTail' = IF ackTail = None THEN t ELSE Torn
                /\ doubtful' = doubtful \cup ({ackTail} \cap Ids)
                               \cup (IF ackTail' = Torn THEN {IdOf[Line(p).entry.wake]} ELSE {})
           /\ UNCHANGED <<outbox, acks, garbled>>
  <2> DEFINE i == IdOf[Line(p).entry.wake]
  <2>1. i \in Ids
    BY <1>3, LineIsTyped DEF AckHasLine
  <2>2. PICK t \in {Torn, i} :
                /\ ackTail' = IF ackTail = None THEN t ELSE Torn
                /\ doubtful' = doubtful \cup ({ackTail} \cap Ids)
                               \cup (IF ackTail' = Torn THEN {i} ELSE {})
    BY <1>3
  <2>3. \A e \in Entries : Queued(e)' <=> Queued(e)
    BY <1>3 DEF Queued
  <2> HIDE DEF i
  <2>4. Acked \cup doubtful \subseteq Acked' \cup doubtful' /\ i \in Acked' \cup doubtful'
    BY <1>3, <2>1, <2>2, WakeOutboxAssumption DEF Acked
  <2>5. Acked' \subseteq Acked \cup {i}
    BY <1>3, <2>2, WakeOutboxAssumption DEF Acked
  <2> QED BY <1>3, <2>3, <2>4, <2>5 DEF i
<1>4. CASE /\ doubtful' = IF pc[p] = "ack" THEN doubtful \cup {IdOf[Line(p).entry.wake]}
                                          ELSE doubtful
           /\ UNCHANGED <<outbox, acks, ackTail, garbled>>
  <2>1. \A e \in Entries : Queued(e)' <=> Queued(e)
    BY <1>4 DEF Queued
  <2> QED BY <1>4, <2>1 DEF Acked
<1> QED BY <1>1, <1>2, <1>3, <1>4 DEF CutShort

-----------------------------------------------------------------------------
(***************************************************************************)
(* Nothing accepted is lost                                                *)
(***************************************************************************)

\* A step of p that touches neither file and is not one on a line.
Quiet(p) ==
    /\ UNCHANGED <<outbox, acks, ackTail, dead, surfaced, doubtful, garbled>>
    /\ pc[p] \notin {"line", "ack"} /\ pc'[p] \notin {"line", "ack"}
    /\ known'[p] \in {known[p], {}} /\ todo'[p] \in {todo[p], <<>>}
    /\ \A e \in Entries : Trusted(e)' => Trusted(e)

\* The others.
Loud(p) ==
    \/ AppendEntry(p) \/ Load(p) \/ KeepLine(p) \/ DeadLetter(p) \/ DropDuplicate(p)
    \/ Surface(p) \/ Acknowledge(p) \/ Rewrite(p) \/ Crash(p) \/ WriteFails(p)

\* A process that goes to the end of its section with what it has, or with nothing.
LEMMA TrustedStays ==
    ASSUME NEW p \in Procs, OnlyOf(p),
           accepted' = accepted \/ (pc[p] \in {"release", "unlock"} /\ Returned(p)),
           pc'[p] \in {"release", "unlock"} =>
              \/ entry'[p] = None
              \/ pc[p] \in {"release", "unlock"} /\ entry'[p] = entry[p]
    PROVE  \A e \in Entries : Trusted(e)' => Trusted(e)
<1> SUFFICES ASSUME NEW e \in Entries, Trusted(e)' PROVE Trusted(e)
  OBVIOUS
<1>1. CASE e \in accepted'
  BY <1>1 DEF Trusted, Returned
<1>2. ASSUME NEW q \in Procs, pc'[q] \in {"release", "unlock"}, entry'[q] = e PROVE Trusted(e)
  <2>1. CASE q = p
    BY <1>2, <2>1, WakeOutboxAssumption DEF Trusted, Entries
  <2>2. CASE q # p
    BY <1>2, <2>2 DEF Trusted, OnlyOf
  <2> QED BY <2>1, <2>2
<1> QED BY <1>1, <1>2 DEF Trusted

LEMMA QuietSteps ==
    ASSUME TypeOK, NEW p \in Procs, StepOf(p), ~ Loud(p)
    PROVE  Quiet(p)
<1>1. OnlyOf(p)
  BY OthersStay
<1>2. CASE StartWriter(p) \/ Poll(p) \/ Create(p) \/ ReadHolder(p) \/ WriteDescriptor(p)
  <2>1. accepted' = accepted /\ pc'[p] \notin {"release", "unlock"}
    BY <1>2 DEF StartWriter, Poll, Create, ReadHolder, WriteDescriptor, Goto, TypeOK
  <2>2. \A e \in Entries : Trusted(e)' => Trusted(e)
    BY <1>1, <2>1, TrustedStays
  <2> QED BY <1>2, <2>2
          DEF StartWriter, Poll, Create, ReadHolder, WriteDescriptor, Goto, Quiet, TypeOK
<1>3. CASE GiveUp(p) \/ Unlock(p) \/ DescriptorFails(p)
  <2>1. /\ pc'[p] \in {"off", "idle"} /\ known'[p] = {} /\ todo'[p] = <<>>
        /\ accepted' = accepted \/ (pc[p] = "unlock" /\ Returned(p))
    BY <1>3 DEF GiveUp, Unlock, DescriptorFails, Leave, Over, Forget, Goto, TypeOK
  <2>2. \A e \in Entries : Trusted(e)' => Trusted(e)
    BY <1>1, <2>1, TrustedStays
  <2>3. /\ UNCHANGED <<outbox, acks, ackTail, dead, surfaced, doubtful, garbled>>
        /\ pc[p] \notin {"line", "ack"}
    BY <1>3 DEF GiveUp, Unlock, DescriptorFails
  <2> QED BY <2>1, <2>2, <2>3 DEF Quiet
<1>4. CASE Release(p)
  <2>1. CASE Goto(p, "unlock") /\ UNCHANGED <<workVars, accepted>>
    <3>1. accepted' = accepted /\ pc[p] = "release" /\ pc'[p] = "unlock" /\ entry'[p] = entry[p]
      BY <1>4, <2>1 DEF Release, Goto, TypeOK
    <3>2. \A e \in Entries : Trusted(e)' => Trusted(e)
      BY <1>1, <3>1, TrustedStays
    <3> QED BY <1>4, <2>1, <3>1, <3>2 DEF Release, Quiet
  <2>2. CASE Leave(p) /\ Returned(p)
    <3>1. /\ pc'[p] \in {"off", "idle"} /\ known'[p] = {} /\ todo'[p] = <<>> /\ pc[p] = "release"
      BY <1>4, <2>2 DEF Release, Leave, Over, Forget, Goto, TypeOK
    <3>2. \A e \in Entries : Trusted(e)' => Trusted(e)
      BY <1>1, <2>2, <3>1, TrustedStays
    <3> QED BY <1>4, <3>1, <3>2 DEF Release, Quiet
  <2> QED BY <1>4, <2>1, <2>2 DEF Release
<1>5. CASE Recheck(p) \/ Reclaim(p)
  <2>1. accepted' = accepted /\ pc'[p] \notin {"release", "unlock"}
    BY <1>5 DEF Recheck, Reclaim, Goto, TypeOK
  <2>2. \A e \in Entries : Trusted(e)' => Trusted(e)
    BY <1>1, <2>1, TrustedStays
  <2> QED BY <1>5, <2>2 DEF Recheck, Reclaim, Goto, Quiet, TypeOK
<1>6. ASSUME NEW w \in Wakes, Deliver(p, w) PROVE Quiet(p)
  <2>1. accepted' = accepted /\ pc'[p] \notin {"release", "unlock"}
    BY <1>6 DEF Deliver, Goto, TypeOK
  <2>2. \A e \in Entries : Trusted(e)' => Trusted(e)
    BY <1>1, <2>1, TrustedStays
  <2> QED BY <1>6, <2>2 DEF Deliver, Goto, Quiet, TypeOK
<1> QED BY <1>2, <1>3, <1>4, <1>5, <1>6, Zenon DEF StepOf, Loud

LEMMA IdsInit == Init => IdsAreShown /\ AckIsShown
BY WakeOutboxAssumption DEF Init, IdsAreShown, AckIsShown, Acked

LEMMA ShownIdsStay ==
    ASSUME TypeOK, AckHasLine, [Next]_vars
    PROVE  \A i : Shown(i) => Shown(i)'
BY ShownStays DEF Shown

\* An id at hand is that of a wake, in the ledger one of a wake shown.
LEMMA AckedIsShown ==
    ASSUME TypeOK, AckHasLine, AckIsShown, NEW p \in Procs, pc[p] = "ack"
    PROVE  Shown(IdOf[Line(p).entry.wake])
BY LineIsTyped DEF AckHasLine, AckIsShown, Shown

LEMMA IdsNext ==
    TypeOK /\ AckHasLine /\ Roles /\ AckIsShown /\ IdsAreShown /\ [Next]_vars => IdsAreShown'
<1> SUFFICES ASSUME TypeOK, AckHasLine, Roles, AckIsShown, IdsAreShown, [Next]_vars
             PROVE  IdsAreShown'
  OBVIOUS
<1>1. \A i : Shown(i) => Shown(i)'
  BY ShownIdsStay
<1>2. ASSUME UNCHANGED <<acks, ackTail, known>> PROVE IdsAreShown'
  BY <1>1, <1>2 DEF IdsAreShown, Acked
<1>3. ASSUME NEW p \in Procs, StepOf(p) PROVE IdsAreShown'
  <2>1. \A q \in Procs \ {p} : known'[q] = known[q]
    BY <1>3, OthersStay DEF OnlyOf
  <2>2. ASSUME \A i \in Acked' : Shown(i)', \A i \in known'[p] : Shown(i)' PROVE IdsAreShown'
    BY <1>1, <2>1, <2>2 DEF IdsAreShown
  <2>3. CASE ~ Loud(p)
    <3>1. UNCHANGED <<acks, ackTail>> /\ known'[p] \in {known[p], {}}
      BY <1>3, <2>3, QuietSteps DEF Quiet
    <3> QED BY <1>1, <2>2, <3>1 DEF IdsAreShown, Acked
  <2>4. CASE AppendEntry(p) \/ KeepLine(p) \/ DeadLetter(p) \/ DropDuplicate(p) \/ Rewrite(p)
    BY <1>2, <2>4 DEF AppendEntry, KeepLine, DeadLetter, DropDuplicate, Rewrite
  <2>5. CASE Load(p)
    <3>1. Acked' = Acked /\ known'[p] = Acked
      BY <2>5 DEF Load, Acked, TypeOK
    <3> QED BY <1>1, <2>2, <3>1 DEF IdsAreShown
  <2>6. CASE Surface(p)
    <3>1. PICK w : w = Line(p).entry.wake
      OBVIOUS
    <3> DEFINE n == IF surfaced[w] < 2 THEN surfaced[w] + 1 ELSE surfaced[w]
    <3>2. surfaced' = [surfaced EXCEPT ![w] = n] /\ surfaced \in [Wakes -> 0 .. 2]
      BY <2>6, <3>1 DEF Surface, TypeOK
    <3>3. w \in Wakes /\ known'[p] = known[p] \cup {IdOf[w]} /\ Acked' = Acked
      BY <2>6, <3>1, LineIsTyped DEF Surface, Readable, Acked, TypeOK
    <3>4. surfaced[w] \in 0 .. 2 /\ surfaced'[w] = n
      BY <3>2, <3>3
    <3>5. surfaced'[w] > 0
      BY <3>4
    <3>6. Shown(IdOf[w])'
      BY <3>3, <3>5 DEF Shown
    <3> QED BY <1>1, <2>2, <3>3, <3>6 DEF IdsAreShown
  <2>7. CASE Acknowledge(p)
    <3>1. PICK i : i = IdOf[Line(p).entry.wake]
      OBVIOUS
    <3>2. Shown(i)'
      BY <1>1, <2>7, <3>1, AckedIsShown DEF Acknowledge
    <3>3. Acked' \subseteq Acked \cup {i} /\ known'[p] = known[p]
      BY <2>7, <3>1, WakeOutboxAssumption DEF Acknowledge, Acked, TypeOK
    <3> QED BY <1>1, <2>2, <3>2, <3>3 DEF IdsAreShown
  <2>8. CASE Crash(p) \/ WriteFails(p)
    <3>1. PICK i : i = IdOf[Line(p).entry.wake]
      OBVIOUS
    <3>2. CutShort(p) /\ known'[p] \in {known[p], {}}
      BY <2>8 DEF Crash, WriteFails, Forget, TypeOK
    <3>3. Acked' \subseteq Acked \/ (pc[p] = "ack" /\ Acked' \subseteq Acked \cup {i})
      BY <3>1, <3>2, CutShortKeeps
    <3>4. pc[p] = "ack" => Shown(i)'
      BY <1>1, <3>1, AckedIsShown
    <3> QED BY <1>1, <2>2, <3>2, <3>3, <3>4 DEF IdsAreShown
  <2> QED BY <1>3, <2>3, <2>4, <2>5, <2>6, <2>7, <2>8 DEF Loud
<1>4. CASE Rotate \/ UNCHANGED vars
  BY <1>2, <1>4 DEF Rotate
<1> QED BY <1>3, <1>4, StepCases

LEMMA SettledStays ==
    ASSUME TypeOK, AckHasLine, [Next]_vars
    PROVE  \A e \in Entries : Settled(e) => Settled(e)'
BY ShownStays, HistoryGrows DEF Settled, Namesake, Entries

\* While a poll has lines to handle, no other process writes to the files.
LEMMA LoudIsAlone ==
    ASSUME TypeOK, LockIsOwn, ~ clobbered, NEW p \in Procs, Loud(p),
           NEW q \in Procs, q # p, pc[q] \in {"line", "ack"}
    PROVE  UNCHANGED <<outbox, acks, ackTail>>
<1>1. ~ Inside(p)
  BY DEF LockIsOwn, Holding, Inside
<1>2. Crash(p)
  BY <1>1 DEF Loud, AppendEntry, Load, KeepLine, DeadLetter, Foreign, DropDuplicate, Readable,
              Surface, Acknowledge, Rewrite, WriteFails, Inside
<1> QED BY <1>1, <1>2 DEF Crash, CutShort, Inside

\* What becomes of the lines a poll has read.
LEMMA RestIsHandled ==
    ASSUME TypeOK, AckHasLine, AckIsShown, IdsAreShown, NEW p \in Procs,
           KeepLine(p) \/ DeadLetter(p) \/ DropDuplicate(p) \/ Acknowledge(p) \/ Surface(p)
    PROVE  \A e \in Entries : e \in Rest(p) => e \in Rest(p)' \/ Settled(e) \/ e \in dead'
<1>1. None \notin Entries
  BY WakeOutboxAssumption DEF Entries
<1>2. CASE Surface(p)
  BY <1>2 DEF Surface, Rest
<1>3. CASE ~ Surface(p)
  <2>1. todo[p] # <<>> /\ todo'[p] = Tail(todo[p]) /\ todo[p] \in Seq(Lines)
    BY <1>3 DEF KeepLine, DeadLetter, Foreign, DropDuplicate, Readable, Acknowledge, AckHasLine,
                TypeOK
  <2>2. \A e \in Rest(p) : e \in Rest(p)' \/ e = Line(p).entry
    BY <2>1, EntriesOfTail DEF Rest, Line
  <2>3. ASSUME Line(p).entry # None
        PROVE  Settled(Line(p).entry) \/ Line(p).entry \in dead'
    <3>1. Line(p).entry.wake \in Wakes
      BY <2>1, <2>3, LineIsTyped
    <3>2. CASE KeepLine(p)
      BY <2>3, <3>2 DEF KeepLine
    <3>3. CASE DeadLetter(p)
      BY <3>3 DEF DeadLetter
    <3>4. CASE DropDuplicate(p)
      <4>1. Shown(IdOf[Line(p).entry.wake])
        BY <3>4 DEF DropDuplicate, IdsAreShown
      <4> QED BY <3>1, <4>1 DEF Shown, Settled, Namesake
    <3>5. CASE Acknowledge(p)
      BY <3>5 DEF Acknowledge, AckIsShown, Settled
    <3> QED BY <1>3, <3>2, <3>3, <3>4, <3>5
  <2> QED BY <1>1, <2>2, <2>3
<1> QED BY <1>2, <1>3

LEMMA KeepingInit == Init => HandledIsSettled /\ TrustedIsKept
BY DEF Init, HandledIsSettled, TrustedIsKept, Trusted, Queued

LEMMA HandledNext ==
    ASSUME TypeOK, AckHasLine, LockIsOwn, Roles, AckIsShown, IdsAreShown, HandledIsSettled,
           [Next]_vars
    PROVE  HandledIsSettled'
<1> SUFFICES ASSUME ~ clobbered', NEW q \in Procs, pc'[q] \in {"line", "ack"},
                    NEW e \in Entries, Queued(e)'
             PROVE  Settled(e)' \/ e \in Rest(q)'
  BY DEF HandledIsSettled
<1>1. ~ clobbered /\ dead \subseteq dead'
  BY HistoryGrows
<1>2. Settled(e) => Settled(e)'
  BY SettledStays
<1>3. ASSUME UNCHANGED outbox, pc[q] \in {"line", "ack"}, todo'[q] = todo[q]
      PROVE  Settled(e)' \/ e \in Rest(q)'
  <2>1. Queued(e) /\ Rest(q)' = Rest(q)
    BY <1>3 DEF Queued, Rest
  <2> QED BY <1>1, <1>2, <1>3, <2>1 DEF HandledIsSettled
<1>4. ASSUME NEW p \in Procs, StepOf(p) PROVE Settled(e)' \/ e \in Rest(q)'
  <2>1. CASE ~ Loud(p)
    <3>1. Quiet(p) /\ OnlyOf(p)
      BY <1>4, <2>1, QuietSteps, OthersStay
    <3>2. q # p
      BY <3>1 DEF Quiet
    <3> QED BY <1>3, <3>1, <3>2 DEF Quiet, OnlyOf
  <2>2. CASE Loud(p) /\ q # p
    <3>1. pc'[q] = pc[q] /\ todo'[q] = todo[q]
      BY <1>4, <2>2, OthersStay DEF OnlyOf
    <3>2. UNCHANGED outbox
      BY <1>1, <2>2, <3>1, LoudIsAlone
    <3> QED BY <1>3, <3>1, <3>2
  <2>3. CASE Loud(p) /\ q = p
    <3>1. CASE AppendEntry(p) \/ Rewrite(p) \/ Crash(p) \/ WriteFails(p)
      BY <2>3, <3>1 DEF AppendEntry, Rewrite, Crash, WriteFails, Goto, TypeOK
    <3>2. CASE Load(p)
      <4>1. todo'[q] = outbox /\ outbox' = outbox
        BY <2>3, <3>2 DEF Load, TypeOK
      <4>2. Queued(e)
        BY <4>1 DEF Queued
      <4> QED BY <4>1, <4>2, QueuedIsEntry DEF Rest
    <3>3. CASE KeepLine(p) \/ DeadLetter(p) \/ DropDuplicate(p) \/ Acknowledge(p) \/ Surface(p)
      <4>1. UNCHANGED outbox /\ pc[q] \in {"line", "ack"}
        BY <2>3, <3>3 DEF KeepLine, DeadLetter, Foreign, DropDuplicate, Readable, Acknowledge,
                          Surface
      <4>2. Queued(e)
        BY <4>1 DEF Queued
      <4>3. Settled(e) \/ e \in Rest(q)
        BY <1>1, <4>1, <4>2 DEF HandledIsSettled
      <4>4. e \in Rest(q) => e \in Rest(q)' \/ Settled(e) \/ e \in dead'
        BY <2>3, <3>3, RestIsHandled
      <4>5. e \in dead' => Settled(e)'
        BY DEF Settled
      <4> QED BY <1>2, <4>3, <4>4, <4>5
    <3> QED BY <2>3, <3>1, <3>2, <3>3 DEF Loud
  <2> QED BY <2>1, <2>2, <2>3
<1>5. CASE Rotate \/ UNCHANGED vars
  BY <1>3, <1>5 DEF Rotate
<1> QED BY <1>4, <1>5, StepCases

LEMMA TrustedNext ==
    ASSUME TypeOK, AckHasLine, LockIsOwn, Roles, HandledIsSettled, TrustedIsKept, [Next]_vars
    PROVE  TrustedIsKept'
<1> SUFFICES ASSUME ~ clobbered', NEW e \in Entries, Trusted(e)'
             PROVE  Queued(e)' \/ Settled(e)'
  BY DEF TrustedIsKept
<1>1. ~ clobbered
  BY HistoryGrows
<1>2. Settled(e) => Settled(e)'
  BY SettledStays
<1>3. ASSUME Trusted(e), UNCHANGED outbox PROVE Queued(e)' \/ Settled(e)'
  BY <1>1, <1>2, <1>3 DEF TrustedIsKept, Queued
<1>4. ASSUME NEW p \in Procs, StepOf(p) PROVE Queued(e)' \/ Settled(e)'
  <2>1. OnlyOf(p)
    BY <1>4, OthersStay
  <2>2. CASE ~ Loud(p)
    BY <1>3, <1>4, <2>2, QuietSteps DEF Quiet
  <2>3. CASE Load(p) \/ KeepLine(p) \/ DeadLetter(p) \/ DropDuplicate(p) \/ Surface(p)
             \/ Acknowledge(p)
    <3>1. /\ UNCHANGED <<outbox, accepted>>
          /\ pc'[p] \notin {"release", "unlock"}
      BY <2>3 DEF Load, KeepLine, DeadLetter, Foreign, DropDuplicate, Readable, Surface,
                  Acknowledge, Goto, TypeOK
    <3> QED BY <1>3, <2>1, <3>1, TrustedStays
  <2>4. CASE AppendEntry(p)
    <3>1. Trusted(e) \/ e = entry[p]
      BY <2>1, <2>4 DEF AppendEntry, Trusted, OnlyOf
    <3>2. Queued(e) \/ Settled(e) \/ e = entry[p]
      BY <1>1, <3>1 DEF TrustedIsKept
    <3>3. entry[p] \in Entries \cup {None} /\ outbox' = With(entry[p], TRUE)
      BY <2>4 DEF AppendEntry, TypeOK
    <3>4. Queued(e) \/ e = entry[p] => Queued(e)' \/ e \in Garbles(entry[p])
      BY <3>3, AppendIsSafe
    <3>5. e \in Garbles(entry[p]) => Settled(e)'
      BY <2>4 DEF AppendEntry, Settled
    <3> QED BY <1>2, <3>2, <3>4, <3>5
  <2>5. CASE Rewrite(p)
    <3>1. pc[p] = "line" /\ todo[p] = <<>> /\ entry'[p] = None /\ accepted' = accepted
      BY <2>5 DEF Rewrite, Roles, Role
    <3>2. Trusted(e)
      BY <2>1, <3>1, TrustedStays
    <3>3. e \notin Rest(p)
      BY <3>1 DEF Rest, EntriesOf
    <3> QED BY <1>1, <1>2, <3>1, <3>2, <3>3 DEF TrustedIsKept, HandledIsSettled
  <2>6. CASE Crash(p) \/ WriteFails(p)
    <3>1. CutShort(p) /\ accepted' = accepted
      BY <2>6 DEF Crash, WriteFails
    <3>2. pc'[p] \in {"release", "unlock"} => entry'[p] = None
      BY <2>6 DEF Crash, WriteFails, Goto, TypeOK
    <3>3. Queued(e) \/ Settled(e)
      BY <1>1, <2>1, <3>1, <3>2, TrustedStays DEF TrustedIsKept
    <3>4. Queued(e) => Queued(e)' \/ e \in garbled' \/ (pc[p] = "line" /\ todo[p] = <<>>)
      BY <3>1, CutShortKeeps
    <3>5. pc[p] = "line" /\ todo[p] = <<>> /\ Queued(e) => Settled(e)
      BY <1>1 DEF HandledIsSettled, Rest, EntriesOf
    <3>6. e \in garbled' => Settled(e)'
      BY DEF Settled
    <3> QED BY <1>2, <3>3, <3>4, <3>5, <3>6
  <2> QED BY <2>2, <2>3, <2>4, <2>5, <2>6 DEF Loud
<1>5. CASE Rotate \/ UNCHANGED vars
  BY <1>3, <1>5 DEF Rotate, Trusted
<1> QED BY <1>4, <1>5, StepCases

\* How a poll shows, remembers and keeps, as one invariant.
Base == TypeOK /\ AckHasLine /\ LockIsOwn /\ Roles /\ AckIsShown

LEMMA BaseHolds == Spec => []Base
<1>1. Init => Base
  BY TypeInit, LockInit, RolesInit, IdsInit DEF Base
<1>2. Base /\ [Next]_vars => Base'
  BY TypeNext, LockNext, RolesNext, AckIsShownNext DEF Base
<1> QED BY <1>1, <1>2, PTL DEF Spec

LEMMA KeepingHolds == Spec => []Keeping
<1>1. Init => Keeping
  BY IdsInit, KeepingInit DEF Keeping
<1>2. Base /\ Keeping /\ [Next]_vars => Keeping'
  BY IdsNext, HandledNext, TrustedNext DEF Base, Keeping
<1> QED BY <1>1, <1>2, BaseHolds, PTL DEF Spec

\* A wake the daemon was told is queued (wake/daemon.mjs:1703) stays in the outbox
\* until a poll has shown or dead-lettered it, however often calls die, writes
\* are cut short and locks are reclaimed - with the exceptions the property names.
THEOREM AcceptedWakesAreKept == Spec => []AcceptedIsKept
<1>1. TypeOK /\ Keeping => AcceptedIsKept
  BY DEF Keeping, TrustedIsKept, Trusted, Settled, AcceptedIsKept, TypeOK
<1> QED BY <1>1, KeepingHolds, TypeCorrect, PTL

-----------------------------------------------------------------------------
(***************************************************************************)
(* Nothing is shown twice                                                  *)
(***************************************************************************)

LEMMA ShowingInit == Init => Showing
BY DEF Init, Showing, ShownIsKnown, ShownOnce

\* A receipt is in the ledger, or in doubt, and both only grow.
LEMMA AcknowledgeKeeps ==
    ASSUME TypeOK, AckHasLine, NEW p \in Procs, Acknowledge(p)
    PROVE  /\ Acked \cup doubtful \subseteq Acked' \cup doubtful'
           /\ IdOf[Line(p).entry.wake] \in Acked' \cup doubtful'
           /\ Acked' \subseteq Acked \cup {IdOf[Line(p).entry.wake]}
<1>1. PICK i : i = IdOf[Line(p).entry.wake]
  OBVIOUS
<1>2. i \in Ids /\ None \notin Ids
  BY <1>1, LineIsTyped, WakeOutboxAssumption DEF Acknowledge, AckHasLine
<1>3. /\ acks' = IF ackTail = None THEN acks \cup {i} ELSE acks
      /\ doubtful' = IF ackTail = None THEN doubtful
                     ELSE doubtful \cup {i} \cup ({ackTail} \cap Ids)
      /\ ackTail' = None
  BY <1>1 DEF Acknowledge
<1> QED BY <1>1, <1>2, <1>3 DEF Acked

\* The ledger and the doubts of a step.
LEMMA LedgerGrows ==
    ASSUME TypeOK, AckHasLine, Roles, [Next]_vars
    PROVE  Acked \cup doubtful \subseteq Acked' \cup doubtful'
<1>1. CASE UNCHANGED <<acks, ackTail>>
  BY <1>1, HistoryGrows DEF Acked
<1>2. ASSUME NEW p \in Procs, StepOf(p)
      PROVE  UNCHANGED <<acks, ackTail>> \/ Acked \cup doubtful \subseteq Acked' \cup doubtful'
  <2>1. CASE ~ Loud(p)
    BY <1>2, <2>1, QuietSteps DEF Quiet
  <2>2. CASE AppendEntry(p) \/ Load(p) \/ KeepLine(p) \/ DeadLetter(p) \/ DropDuplicate(p)
             \/ Surface(p) \/ Rewrite(p)
    BY <2>2 DEF AppendEntry, Load, KeepLine, DeadLetter, DropDuplicate, Surface, Rewrite
  <2>3. CASE Acknowledge(p)
    BY <2>3, AcknowledgeKeeps
  <2>4. CASE Crash(p) \/ WriteFails(p)
    BY <2>4, CutShortKeeps DEF Crash, WriteFails
  <2> QED BY <2>1, <2>2, <2>3, <2>4 DEF Loud
<1>3. CASE Rotate \/ UNCHANGED vars
  BY <1>1, <1>3 DEF Rotate
<1> QED BY <1>1, <1>2, <1>3, StepCases

\* A poll knows what the ledger says.
LEMMA PollKnows ==
    ASSUME TypeOK, AckHasLine, LockIsOwn, Roles, AckIsShown, ShownIsKnown, [Next]_vars,
           ~ clobbered', NEW q \in Procs, pc'[q] \in {"line", "ack"}
    PROVE  Acked' \subseteq known'[q]
<1>1. ~ clobbered
  BY HistoryGrows
<1>2. ASSUME UNCHANGED <<acks, ackTail>>, pc[q] \in {"line", "ack"}, known[q] \subseteq known'[q]
      PROVE  Acked' \subseteq known'[q]
  BY <1>1, <1>2 DEF ShownIsKnown, Acked
<1>3. ASSUME NEW p \in Procs, StepOf(p) PROVE Acked' \subseteq known'[q]
  <2>1. CASE ~ Loud(p)
    <3>1. Quiet(p) /\ OnlyOf(p) /\ q # p
      BY <1>3, <2>1, QuietSteps, OthersStay DEF Quiet
    <3> QED BY <1>2, <3>1 DEF Quiet, OnlyOf
  <2>2. CASE Loud(p) /\ q # p
    <3>1. pc'[q] = pc[q] /\ known'[q] = known[q]
      BY <1>3, <2>2, OthersStay DEF OnlyOf
    <3>2. UNCHANGED <<acks, ackTail>>
      BY <1>1, <2>2, <3>1, LoudIsAlone
    <3> QED BY <1>2, <3>1, <3>2
  <2>3. CASE Loud(p) /\ q = p
    <3>1. CASE AppendEntry(p) \/ Rewrite(p) \/ Crash(p) \/ WriteFails(p)
      BY <2>3, <3>1 DEF AppendEntry, Rewrite, Crash, WriteFails, Goto, TypeOK
    <3>2. CASE Load(p)
      BY <2>3, <3>2 DEF Load, Acked, TypeOK
    <3>3. CASE KeepLine(p) \/ DeadLetter(p) \/ DropDuplicate(p) \/ Surface(p)
      <4>1. UNCHANGED <<acks, ackTail>> /\ pc[q] \in {"line", "ack"}
        BY <2>3, <3>3 DEF KeepLine, DeadLetter, Foreign, DropDuplicate, Readable, Surface
      <4>2. known[q] \subseteq known'[q]
        BY <2>3, <3>3 DEF KeepLine, DeadLetter, DropDuplicate, Surface, TypeOK
      <4> QED BY <1>2, <4>1, <4>2
    <3>4. CASE Acknowledge(p)
      <4>1. pc[q] = "ack" /\ known'[q] = known[q]
        BY <2>3, <3>4 DEF Acknowledge
      <4>2. Acked \cup {IdOf[Line(p).entry.wake]} \subseteq known[q]
        BY <1>1, <2>3, <4>1 DEF ShownIsKnown, AckIsShown
      <4> QED BY <3>4, <4>1, <4>2, AcknowledgeKeeps
    <3> QED BY <2>3, <3>1, <3>2, <3>3, <3>4 DEF Loud
  <2> QED BY <2>1, <2>2, <2>3
<1>4. CASE Rotate \/ UNCHANGED vars
  BY <1>2, <1>4 DEF Rotate
<1> QED BY <1>3, <1>4, StepCases

\* The receipt of w is being written.
AtWork(w) == \E p \in Procs : pc[p] = "ack" /\ IdOf[Line(p).entry.wake] = IdOf[w]

LEMMA ReceiptIsKept ==
    ASSUME TypeOK, AckHasLine, Roles, [Next]_vars,
           NEW w \in Wakes, IdOf[w] \in Acked \cup doubtful \/ AtWork(w)
    PROVE  IdOf[w] \in Acked' \cup doubtful' \/ AtWork(w)'
<1>1. CASE IdOf[w] \in Acked \cup doubtful
  BY <1>1, LedgerGrows
<1>2. ASSUME NEW q \in Procs, pc[q] = "ack", IdOf[Line(q).entry.wake] = IdOf[w]
      PROVE  IdOf[w] \in Acked' \cup doubtful' \/ AtWork(w)'
  <2>1. ASSUME pc'[q] = pc[q], todo'[q] = todo[q] PROVE AtWork(w)'
    BY <1>2, <2>1 DEF AtWork, Line
  <2>2. ASSUME NEW p \in Procs, StepOf(p)
        PROVE  IdOf[w] \in Acked' \cup doubtful' \/ AtWork(w)'
    <3>1. CASE q # p
      BY <2>1, <2>2, <3>1, OthersStay DEF OnlyOf
    <3>2. CASE q = p
      <4>1. Loud(p)
        BY <1>2, <2>2, <3>2, QuietSteps DEF Quiet
      <4>2. Acknowledge(p) \/ Crash(p) \/ WriteFails(p)
        BY <1>2, <3>2, <4>1 DEF Loud, AppendEntry, Load, KeepLine, DeadLetter, Foreign,
                                DropDuplicate, Readable, Surface, Rewrite
      <4>3. CASE Acknowledge(p)
        BY <1>2, <3>2, <4>3, AcknowledgeKeeps
      <4>4. CASE Crash(p) \/ WriteFails(p)
        BY <1>2, <3>2, <4>4, CutShortKeeps DEF Crash, WriteFails
      <4> QED BY <4>2, <4>3, <4>4
    <3> QED BY <3>1, <3>2
  <2>3. CASE Rotate \/ UNCHANGED vars
    BY <2>1, <2>3 DEF Rotate
  <2> QED BY <2>2, <2>3, StepCases
<1> QED BY <1>1, <1>2 DEF AtWork

\* Only Surface shows a wake, and it is about to write the receipt.
LEMMA NewlyShown ==
    ASSUME TypeOK, [Next]_vars, NEW w \in Wakes, surfaced'[w] # surfaced[w]
    PROVE  \E p \in Procs : Surface(p) /\ Line(p).entry.wake = w
<1>1. PICK p \in Procs : Surface(p)
  <2> SUFFICES ASSUME \A p \in Procs : ~ Surface(p) PROVE FALSE
    OBVIOUS
  <2>1. ASSUME NEW p \in Procs, StepOf(p) PROVE surfaced' = surfaced
    <3>1. CASE ~ Loud(p)
      BY <2>1, <3>1, QuietSteps DEF Quiet
    <3>2. CASE Loud(p)
      BY <3>2 DEF Loud, AppendEntry, Load, KeepLine, DeadLetter, DropDuplicate, Acknowledge,
                  Rewrite, Crash, WriteFails
    <3> QED BY <3>1, <3>2
  <2>2. CASE Rotate \/ UNCHANGED vars
    BY <2>2 DEF Rotate
  <2> QED BY <2>1, <2>2, StepCases
<1>2. \A v \in Wakes : v # Line(p).entry.wake => surfaced'[v] = surfaced[v]
  BY <1>1 DEF Surface, TypeOK
<1> QED BY <1>1, <1>2

LEMMA ShowingNext ==
    ASSUME TypeOK, AckHasLine, LockIsOwn, Roles, AckIsShown, Showing, [Next]_vars
    PROVE  Showing'
<1> USE DEF Showing
<1>1. ASSUME ~ clobbered', NEW w \in Wakes, surfaced'[w] > 0
      PROVE  IdOf[w] \in Acked' \cup doubtful' \/ AtWork(w)'
  <2>1. ~ clobbered
    BY <1>1, HistoryGrows
  <2>2. CASE surfaced'[w] = surfaced[w]
    <3>1. IdOf[w] \in Acked \cup doubtful \/ AtWork(w)
      BY <1>1, <2>1, <2>2 DEF ShownIsKnown, AtWork
    <3> QED BY <3>1, ReceiptIsKept
  <2>3. CASE surfaced'[w] # surfaced[w]
    <3>1. PICK p \in Procs : Surface(p) /\ Line(p).entry.wake = w
      BY SMTT(30), <2>3, NewlyShown
    <3>2. pc'[p] = "ack" /\ Line(p)' = Line(p)
      BY <3>1 DEF Surface, Goto, Line, TypeOK
    <3> QED BY <3>1, <3>2 DEF AtWork
  <2> QED BY <2>2, <2>3
<1>2. ShownIsKnown'
  BY <1>1, PollKnows DEF ShownIsKnown, AtWork
<1>3. ASSUME NEW w \in Wakes, surfaced'[w] > 1, ~ clobbered'
      PROVE  IdOf[w] \in doubtful'
  <2>1. ~ clobbered /\ doubtful \subseteq doubtful'
    BY <1>3, HistoryGrows
  <2>2. CASE surfaced'[w] = surfaced[w]
    BY <1>3, <2>1, <2>2 DEF ShownOnce
  <2>3. CASE surfaced'[w] # surfaced[w]
    <3>1. PICK p \in Procs : Surface(p) /\ Line(p).entry.wake = w
      BY SMTT(30), <2>3, NewlyShown
    <3>2. surfaced[w] \in 0 .. 2 /\ surfaced'[w] = IF surfaced[w] < 2 THEN surfaced[w] + 1
                                                                      ELSE surfaced[w]
      BY <3>1 DEF Surface, TypeOK
    <3>3. surfaced[w] > 0
      BY <1>3, <3>2
    <3>4. IdOf[w] \notin known[p] /\ pc[p] = "line"
      BY <3>1 DEF Surface, Readable
    <3>5. IdOf[w] \notin Acked
      BY <2>1, <3>4 DEF ShownIsKnown
    <3>6. ~ AtWork(w)
      <4>1. \A q \in Procs : pc[q] = "ack" => q = p
        BY <2>1, <3>4 DEF LockIsOwn, Holding, Inside
      <4> QED BY <3>4, <4>1 DEF AtWork
    <3> QED BY <2>1, <3>3, <3>5, <3>6 DEF ShownIsKnown, AtWork
  <2> QED BY <2>2, <2>3
<1>4. ShownOnce'
  BY <1>3 DEF ShownOnce
<1> QED BY <1>2, <1>4

\* A wake is shown to the seat once, however often the daemon queues it again and
\* however polls end, unless its receipt is in doubt (consumeWakeOutbox.mjs:213-219).
THEOREM WakesAreShownOnce == Spec => []ShownOnce
<1>1. Base /\ Showing /\ [Next]_vars => Showing'
  BY ShowingNext DEF Base
<1>2. Showing => ShownOnce
  BY DEF Showing
<1> QED BY <1>1, <1>2, ShowingInit, BaseHolds, PTL DEF Spec

-----------------------------------------------------------------------------
(***************************************************************************)
(* Whose wakes are dead-lettered                                           *)
(***************************************************************************)

LEMMA OwningInit == Init => Owning
<1> SUFFICES ASSUME Init PROVE Owning
  OBVIOUS
<1>1. \A e \in Entries : ~ Queued(e)
  BY DEF Init, Queued
<1>2. dead = {} /\ owner = 1
  BY DEF Init
<1>3. ASSUME NEW p \in Procs PROVE WorkIsPast(p)
  BY DEF Init, WorkIsPast, Rest, EntriesOf
<1> QED BY <1>1, <1>2, <1>3 DEF Owning, OwnersArePast, LettersAreForeign

\* A step of p that is not Rotate.
LEMMA OwnersSuffice ==
    ASSUME OwnersArePast, NEW p \in Procs, OnlyOf(p), UNCHANGED <<owner, overtaken>>,
           \A e \in dead' : e \in dead \/ e.owner <= owner,
           \A e \in Entries : Queued(e)' => Queued(e) \/ e.owner <= owner,
           WorkIsPast(p)'
    PROVE  OwnersArePast'
<1>1. ASSUME NEW q \in Procs, q # p PROVE WorkIsPast(q)'
  BY <1>1 DEF OwnersArePast, WorkIsPast, OnlyOf, Rest
<1> QED BY <1>1 DEF OwnersArePast

\* What the owners' bound is about, for a step that neither delivers nor polls.
LEMMA WorkSuffices ==
    ASSUME TypeOK, OwnersArePast, NEW p \in Procs, UNCHANGED <<owner, overtaken>>,
           entry'[p] \in {entry[p], None}, todo'[p] \in {todo[p], <<>>},
           \/ auth'[p] = auth[p] /\ pc[p] # "off"
           \/ auth'[p] = 1 /\ (p \in Consumers => pc'[p] = "off")
    PROVE  WorkIsPast(p)'
<1>1. todo'[p] = <<>> => Rest(p)' = {}
  BY DEF Rest, EntriesOf
<1>2. todo'[p] = todo[p] => Rest(p)' = Rest(p)
  BY DEF Rest
<1>3. WorkIsPast(p) /\ 1 <= owner
  BY DEF OwnersArePast, TypeOK
<1> QED BY <1>1, <1>2, <1>3 DEF WorkIsPast

LEMMA QuietOwners ==
    ASSUME TypeOK, OwnersArePast, NEW p \in Procs, StepOf(p), ~ Loud(p)
    PROVE  OwnersArePast'
<1>1. OnlyOf(p) /\ UNCHANGED <<outbox, dead>>
  BY OthersStay, QuietSteps DEF Quiet
<1>2. UNCHANGED <<owner, overtaken>>
  BY DEF Loud, StepOf, StartWriter, Poll, GiveUp, Create, ReadHolder, WriteDescriptor, Recheck,
         Reclaim, Release, Unlock, DescriptorFails, Deliver
<1>3. ASSUME WorkIsPast(p)' PROVE OwnersArePast'
  BY <1>1, <1>2, <1>3, OwnersSuffice DEF Queued
<1>4. WorkIsPast(p) /\ owner \in Nat /\ 1 <= owner
  BY DEF OwnersArePast, TypeOK
<1>5. CASE StartWriter(p)
  <2>1. p \notin Consumers /\ UNCHANGED <<entry, todo, auth>>
    BY <1>5, WakeOutboxAssumption DEF StartWriter
  <2>2. WorkIsPast(p)'
    BY <1>2, <1>4, <2>1 DEF WorkIsPast, Rest
  <2> QED BY <1>3, <2>2
<1>6. CASE Poll(p)
  <2>1. auth'[p] = owner /\ UNCHANGED <<entry, todo>>
    BY <1>6 DEF Poll, TypeOK
  <2>2. WorkIsPast(p)'
    BY <1>2, <1>4, <2>1 DEF WorkIsPast, Rest
  <2> QED BY <1>3, <2>2
<1>7. CASE Create(p) \/ ReadHolder(p) \/ WriteDescriptor(p) \/ Recheck(p) \/ Reclaim(p)
  <2>1. UNCHANGED <<entry, todo, auth>> /\ pc[p] # "off"
    BY <1>7 DEF Create, ReadHolder, WriteDescriptor, Recheck, Reclaim
  <2> QED BY <1>2, <1>3, <2>1, WorkSuffices
<1>8. CASE GiveUp(p) \/ Unlock(p) \/ DescriptorFails(p)
  <2>1. Over(p)
    BY <1>8 DEF GiveUp, Unlock, DescriptorFails, Leave
  <2>2. /\ entry'[p] = None /\ todo'[p] = <<>> /\ auth'[p] = 1
        /\ (p \in Consumers => pc'[p] = "off")
    BY <2>1 DEF Over, Forget, Goto, TypeOK
  <2> QED BY <1>2, <1>3, <2>2, WorkSuffices
<1>9. CASE Release(p)
  <2>1. CASE UNCHANGED workVars
    <3>1. pc[p] # "off"
      BY <1>9 DEF Release
    <3> QED BY <1>2, <1>3, <2>1, <3>1, WorkSuffices
  <2>2. CASE Over(p)
    <3>1. /\ entry'[p] = None /\ todo'[p] = <<>> /\ auth'[p] = 1
          /\ (p \in Consumers => pc'[p] = "off")
      BY <2>2 DEF Over, Forget, Goto, TypeOK
    <3> QED BY <1>2, <1>3, <3>1, WorkSuffices
  <2> QED BY <1>9, <2>1, <2>2 DEF Release, Leave
<1>10. ASSUME NEW w \in Wakes, Deliver(p, w) PROVE OwnersArePast'
  <2>1. /\ p \notin Consumers /\ UNCHANGED <<todo, auth>>
        /\ entry'[p] = [wake |-> w, owner |-> owner]
    BY <1>10, WakeOutboxAssumption DEF Deliver, TypeOK
  <2>2. entry'[p].owner = owner
    BY <2>1
  <2>3. WorkIsPast(p)'
    BY <1>2, <1>4, <2>1, <2>2 DEF WorkIsPast, Rest
  <2> QED BY <1>3, <2>3
<1> QED BY <1>5, <1>6, <1>7, <1>8, <1>9, <1>10, Zenon DEF StepOf, Loud

LEMMA LoudOwners ==
    ASSUME TypeOK, AckHasLine, Roles, OwnersArePast, NEW p \in Procs, StepOf(p), Loud(p)
    PROVE  OwnersArePast'
<1>1. OnlyOf(p)
  BY OthersStay
<1>2. UNCHANGED <<owner, overtaken>>
  BY DEF Loud, AppendEntry, Load, KeepLine, DeadLetter, DropDuplicate, Surface, Acknowledge,
         Rewrite, Crash, WriteFails
<1>3. ASSUME WorkIsPast(p)', \A e \in dead' : e \in dead \/ e.owner <= owner,
             \A e \in Entries : Queued(e)' => Queued(e) \/ e.owner <= owner
      PROVE  OwnersArePast'
  BY <1>1, <1>2, <1>3, OwnersSuffice
<1>4. WorkIsPast(p) /\ None \notin Entries
  BY WakeOutboxAssumption DEF OwnersArePast, Entries
<1>5. CASE AppendEntry(p)
  <2>1. entry[p] \in Entries \cup {None} /\ outbox' = With(entry[p], TRUE)
    BY <1>5 DEF AppendEntry, TypeOK
  <2>2. \A e \in Entries : Queued(e)' => Queued(e) \/ e.owner <= owner
    BY <1>4, <2>1, AppendIsSafe DEF WorkIsPast
  <2>3. UNCHANGED <<dead, entry, todo, auth>> /\ pc[p] # "off"
    BY <1>5 DEF AppendEntry
  <2> QED BY <1>2, <1>3, <2>2, <2>3, WorkSuffices
<1>6. CASE Load(p)
  <2>1. UNCHANGED <<dead, entry, outbox, auth>> /\ pc[p] = "load" /\ todo'[p] = outbox
    BY <1>6 DEF Load, TypeOK
  <2>2. \A e \in Entries : e \in Rest(p)' => e.owner <= owner
    BY <2>1, QueuedIsEntry DEF Rest, OwnersArePast
  <2>3. WorkIsPast(p)'
    BY <1>2, <1>4, <2>1, <2>2 DEF WorkIsPast
  <2> QED BY <1>3, <2>1, <2>3 DEF Queued
<1>7. CASE KeepLine(p) \/ DeadLetter(p) \/ DropDuplicate(p) \/ Acknowledge(p)
  <2>1. /\ UNCHANGED <<entry, outbox, auth>> /\ pc[p] # "off"
        /\ todo[p] # <<>> /\ todo[p] \in Seq(Lines) /\ todo'[p] = Tail(todo[p])
    BY <1>7 DEF KeepLine, DeadLetter, Foreign, DropDuplicate, Readable, Acknowledge, AckHasLine,
                TypeOK
  <2>2. Rest(p)' \subseteq Rest(p)
    BY <2>1, EntriesOfTail DEF Rest
  <2>3. WorkIsPast(p)'
    BY <1>2, <1>4, <2>1, <2>2 DEF WorkIsPast
  <2>4. \A e \in dead' : e \in dead \/ e.owner <= owner
    <3>1. CASE DeadLetter(p)
      <4>1. Line(p).entry \in Entries
        BY <2>1, <3>1, LineIsTyped DEF DeadLetter, Foreign
      <4>2. Line(p).entry \in Rest(p)
        <5>1. Head(todo[p]) = todo[p][1] /\ 1 \in 1 .. Len(todo[p])
          BY <2>1
        <5> QED BY <5>1 DEF Rest, EntriesOf, Line
      <4> QED BY <1>4, <3>1, <4>1, <4>2 DEF DeadLetter, WorkIsPast
    <3>2. CASE ~ DeadLetter(p)
      BY <1>7, <3>2 DEF KeepLine, DropDuplicate, Acknowledge
    <3> QED BY <3>1, <3>2
  <2> QED BY <1>3, <2>1, <2>3, <2>4 DEF Queued
<1>8. CASE Surface(p)
  <2>1. UNCHANGED <<dead, entry, todo, auth, outbox>> /\ pc[p] # "off"
    BY <1>8 DEF Surface, Readable
  <2> QED BY <1>2, <1>3, <2>1, WorkSuffices DEF Queued
<1>9. CASE Rewrite(p)
  <2>1. UNCHANGED <<dead, entry, todo, auth>> /\ pc[p] # "off" /\ outbox' = kept[p]
    BY <1>9 DEF Rewrite
  <2>2. \A e \in Entries : ~ Queued(e)'
    BY <1>4, <2>1 DEF Queued, Roles, Role
  <2> QED BY <1>2, <1>3, <2>1, <2>2, WorkSuffices
<1>10. CASE Crash(p) \/ WriteFails(p)
  <2>1. CutShort(p) /\ UNCHANGED dead
    BY <1>10 DEF Crash, WriteFails
  <2>2. \A e \in Entries : Queued(e)' => Queued(e) \/ e.owner <= owner
    BY <1>4, <2>1, CutShortKeeps DEF WorkIsPast
  <2>3. CASE Crash(p)
    <3>1. /\ entry'[p] = None /\ todo'[p] = <<>> /\ auth'[p] = 1
          /\ pc'[p] = "off"
      BY <2>3 DEF Crash, Forget, Goto, TypeOK
    <3> QED BY <1>2, <1>3, <2>1, <2>2, <3>1, WorkSuffices
  <2>4. CASE WriteFails(p)
    <3>1. entry'[p] = None /\ todo' = todo /\ auth' = auth /\ pc[p] # "off"
      BY <2>4 DEF WriteFails, Foreign, TypeOK
    <3> QED BY <1>2, <1>3, <2>1, <2>2, <3>1, WorkSuffices
  <2> QED BY <1>10, <2>3, <2>4
<1> QED BY <1>5, <1>6, <1>7, <1>8, <1>9, <1>10 DEF Loud

LEMMA OwningNext ==
    ASSUME TypeOK, AckHasLine, Roles, Owning, [Next]_vars
    PROVE  Owning'
<1>1. OwnersArePast /\ LettersAreForeign
  BY DEF Owning
<1>2. ASSUME NEW p \in Procs, StepOf(p) PROVE Owning'
  <2>1. OwnersArePast'
    BY <1>1, <1>2, QuietOwners, LoudOwners
  <2>2. UNCHANGED <<owner, overtaken>>
    <3>1. CASE Loud(p)
      BY <3>1 DEF Loud, AppendEntry, Load, KeepLine, DeadLetter, DropDuplicate, Surface,
                  Acknowledge, Rewrite, Crash, WriteFails
    <3>2. CASE ~ Loud(p)
      BY <1>2, <3>2 DEF Loud, StepOf, StartWriter, Poll, GiveUp, Create, ReadHolder,
                        WriteDescriptor, Recheck, Reclaim, Release, Unlock, DescriptorFails,
                        Deliver
    <3> QED BY <3>1, <3>2
  <2>3. ASSUME NEW e \in dead', e.owner = owner PROVE owner \in overtaken
    <3>1. CASE e \in dead
      BY <1>1, <2>3, <3>1 DEF LettersAreForeign
    <3>2. CASE e \notin dead
      <4>1. DeadLetter(p)
        <5>1. CASE ~ Loud(p)
          BY <1>2, <2>3, <3>2, <5>1, QuietSteps DEF Quiet
        <5>2. CASE Loud(p)
          BY <2>3, <3>2, <5>2 DEF Loud, AppendEntry, Load, KeepLine, DropDuplicate, Surface,
                                  Acknowledge, Rewrite, Crash, WriteFails
        <5> QED BY <5>1, <5>2
      <4>2. Foreign(p) /\ e = Line(p).entry
        BY <2>3, <3>2, <4>1 DEF DeadLetter
      <4>3. p \in Consumers /\ pc[p] = "line" /\ auth[p] # owner
        BY <2>3, <4>2 DEF Foreign, Roles, Role
      <4>4. auth[p] \in Nat /\ owner \in Nat /\ WorkIsPast(p)
        BY <1>1 DEF TypeOK, OwnersArePast
      <4> QED BY <4>3, <4>4 DEF WorkIsPast
    <3> QED BY <3>1, <3>2
  <2> QED BY <2>1, <2>2, <2>3 DEF Owning, LettersAreForeign
<1>3. CASE Rotate
  <2>1. /\ owner \in Nat /\ owner' = owner + 1
        /\ UNCHANGED <<dead, outbox, pc, entry, auth, todo>>
        /\ (\E p \in Consumers : pc[p] # "off") => owner' \in overtaken'
    BY <1>3 DEF Rotate, TypeOK
  <2>2. /\ \A e \in Entries : e.owner \in Nat
        /\ \A p \in Procs : auth[p] \in Nat /\ (entry[p] # None => entry[p] \in Entries)
        /\ dead \subseteq Entries
    BY DEF TypeOK, Entries
  <2>3. ASSUME NEW p \in Procs PROVE WorkIsPast(p)'
    <3>1. entry[p] # None => entry'[p].owner <= owner'
      BY <1>1, <2>1, <2>2 DEF OwnersArePast, WorkIsPast
    <3>2. \A e \in Entries : e \in Rest(p)' => e.owner <= owner'
      BY <1>1, <2>1, <2>2 DEF OwnersArePast, WorkIsPast, Rest
    <3>3. auth'[p] <= owner'
      BY <1>1, <2>1, <2>2 DEF OwnersArePast, WorkIsPast
    <3> QED BY <2>1, <3>1, <3>2, <3>3 DEF WorkIsPast
  <2>4. \A e \in dead' : e.owner < owner'
    BY <1>1, <2>1, <2>2 DEF OwnersArePast
  <2>5. \A e \in dead' : e.owner <= owner'
    BY <2>1, <2>2, <2>4
  <2>6. \A e \in Entries : Queued(e)' => e.owner <= owner'
    BY <1>1, <2>1, <2>2 DEF OwnersArePast, Queued
  <2>7. \A e \in dead' : e.owner # owner'
    BY <2>1, <2>2, <2>4
  <2> QED BY <2>3, <2>5, <2>6, <2>7 DEF Owning, OwnersArePast, LettersAreForeign
<1>4. CASE UNCHANGED vars
  BY <1>1, <1>4 DEF Owning, OwnersArePast, WorkIsPast, LettersAreForeign, Queued, Rest
<1> QED BY <1>2, <1>3, <1>4, StepCases

\* No poll dead-letters a wake of the seat's present owner, unless it was under way
\* when that owner took over: it judges by the envelope it validated before it
\* waited for the lock (consumeWakeOutbox.mjs:136-156, 190-203).
THEOREM DeadLettersAreForeign == Spec => []LettersAreForeign
<1>1. Base /\ Owning /\ [Next]_vars => Owning'
  BY OwningNext DEF Base
<1>2. Owning => LettersAreForeign
  BY DEF Owning
<1> QED BY <1>1, <1>2, OwningInit, BaseHolds, PTL DEF Spec

-----------------------------------------------------------------------------
(***************************************************************************)
(* The handover                                                            *)
(***************************************************************************)

LEMMA AcceptedGrows == ASSUME [Next]_vars PROVE accepted \subseteq accepted'
<1>1. ASSUME NEW p \in Procs, StepOf(p) PROVE accepted \subseteq accepted'
  <2>1. CASE Release(p) \/ Unlock(p)
    BY <2>1 DEF Release, Unlock, Returned
  <2>2. CASE ~ (Release(p) \/ Unlock(p))
    BY <1>1, <2>2
       DEF StepOf, StartWriter, Poll, GiveUp, Create, ReadHolder, WriteDescriptor, Recheck, Reclaim,
           AppendEntry, Load, KeepLine, DeadLetter, DropDuplicate, Surface, Acknowledge, Rewrite,
           Crash, WriteFails, DescriptorFails, Deliver
  <2> QED BY <2>1, <2>2
<1>2. CASE Rotate \/ UNCHANGED vars
  BY <1>2 DEF Rotate
<1> QED BY <1>1, <1>2, StepCases

LEMMA WaiversStay ==
    ASSUME TypeOK, AckHasLine, [Next]_vars
    PROVE  Waived \subseteq Waived'
<1> SUFFICES ASSUME NEW w \in Waived PROVE w \in Waived'
  OBVIOUS
<1>1. w \in Wakes
  BY DEF Waived
<1>2. CASE clobbered \/ IdOf[w] \in doubtful \/ \E e \in garbled : e.wake = w
  BY <1>1, <1>2, HistoryGrows DEF Waived
<1>3. CASE Namesake(w)
  BY <1>1, <1>3, ShownStays DEF Waived, Namesake
<1> QED BY <1>2, <1>3 DEF Waived

Promised == TypeOK /\ AcceptedIsKept /\ ShownOnce

\* What is not waived is where the contract has it.
LEMMA PhaseIsKnown ==
    ASSUME Promised, NEW w \in Wakes, w \notin Waived
    PROVE  PhaseOf(w) \notin {"again", "lost"}
<1>1. surfaced[w] \in 0 .. 2 /\ ~ (surfaced[w] > 1)
  BY DEF Promised, TypeOK, ShownOnce, Waived
<1>2. ASSUME NEW e \in accepted, e.wake = w PROVE Queued(e) \/ surfaced[w] = 1 \/ e \in dead
  <2>1. Queued(e) \/ surfaced[w] > 0 \/ e \in dead
    BY <1>2 DEF Promised, AcceptedIsKept, Waived
  <2> QED BY <1>1, <2>1
<1> QED BY <1>1, <1>2 DEF PhaseOf

LEMMA HandoverSteps ==
    ASSUME Promised, Promised', AckHasLine, [Next]_vars
    PROVE  Seat!HandoverNext
<1>1. Waived \subseteq Waived'
  BY WaiversStay DEF Promised
<1>2. ASSUME NEW w \in Wakes, w \notin Waived'
      PROVE  \/ PhaseOf(w)' = PhaseOf(w)
             \/ PhaseOf(w) = "new" /\ PhaseOf(w)' = "owed"
             \/ PhaseOf(w) \in {"new", "owed"} /\ PhaseOf(w)' = "handed"
  <2>1. PhaseOf(w) \notin {"again", "lost"}
    BY <1>1, <1>2, PhaseIsKnown
  <2>0. surfaced[w] \in 0 .. 2 /\ surfaced'[w] \in 0 .. 2 /\ ~ (surfaced'[w] > 1)
    BY <1>2 DEF Promised, TypeOK, ShownOnce, Waived
  <2>2. PhaseOf(w)' \notin {"again", "lost"}
    <3>2. ASSUME NEW e \in accepted', e.wake = w
          PROVE  Queued(e)' \/ surfaced'[w] = 1 \/ e \in dead'
      <4>1. Queued(e)' \/ surfaced'[w] > 0 \/ e \in dead'
        BY <1>2, <3>2 DEF Promised, AcceptedIsKept, Waived
      <4> QED BY <2>0, <4>1
    <3> QED BY <2>0, <3>2 DEF PhaseOf
  <2>3. accepted \subseteq accepted' /\ dead \subseteq dead'
    BY AcceptedGrows, HistoryGrows DEF Promised
  <2>4. surfaced[w] = 1 => surfaced'[w] = 1
    BY <2>0, ShownStays DEF Promised
  <2>5. PhaseOf(w) = "handed" => PhaseOf(w)' = "handed"
    BY <2>2, <2>3, <2>4 DEF PhaseOf
  <2>6. PhaseOf(w)' = "new" => PhaseOf(w) \in {"new", "handed"}
    BY <2>1, <2>3 DEF PhaseOf
  <2>7. /\ PhaseOf(w) \in {"new", "owed", "handed"}
        /\ PhaseOf(w)' \in {"new", "owed", "handed"}
    BY <2>1, <2>2 DEF PhaseOf
  <2> QED BY <2>5, <2>6, <2>7
<1> QED BY <1>1, <1>2 DEF Seat!HandoverNext, Seat!Stay, Seat!Accept, Seat!Hand

LEMMA HandoverBegins == Init => Seat!HandoverInit
<1> SUFFICES ASSUME Init PROVE Seat!HandoverInit
  OBVIOUS
<1>1. ASSUME NEW w \in Wakes PROVE PhaseOf(w) = "new"
  BY DEF Init, PhaseOf
<1>2. Waived = {}
  BY DEF Init, Waived, Namesake
<1> QED BY <1>1, <1>2 DEF Seat!HandoverInit

\* Daemon, lock, ledgers and polls implement the abstract handover: a wake that
\* was reported as queued is neither lost nor shown again.
THEOREM HandoverIsKept == Spec => ImplementsHandover
<1>1. Promised /\ Promised' /\ AckHasLine /\ [Next]_vars
      => [Seat!HandoverNext]_(Seat!handoverVars)
  BY HandoverSteps
<1>2. TypeOK /\ AcceptedIsKept /\ ShownOnce => Promised
  BY DEF Promised
<1> QED BY <1>1, <1>2, HandoverBegins, TypesHold, AcceptedWakesAreKept, WakesAreShownOnce, PTL
        DEF Spec, ImplementsHandover, Seat!HandoverSpec
=============================================================================
