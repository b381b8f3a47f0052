--------------------- MODULE HeavyMaintenanceLease_proofs ---------------------
(***************************************************************************)
(* Safety of the heavy-maintenance lease for any number of processes,      *)
(* pids, tokens and boots and any deadline, with or without stalls and     *)
(* torn writes.  The invariant is built in layers: each is inductive given *)
(* the layers before it.                                                   *)
(***************************************************************************)
EXTENDS HeavyMaintenanceLease, TLAPS

-----------------------------------------------------------------------------
(***************************************************************************)
(* Layer 1: where a process is in its call                                 *)
(***************************************************************************)

Section == {"inspectInside", "verify", "mutate", "recreate", "leave"}

\* The guarded section of a call lies between its enter and its leave; a
\* recovery also writes its new lease there.
SectionsAreInside ==
    \A p \in Proc : /\ pc[p] \in Section => p \in inside
                    /\ p \in inside => pc[p] \in Section \cup {"writing"}

OwnerIsInside == owner \in Proc => owner \in inside

TokenKept == \A p \in Proc : token[p] = NoToken <=> pc[p] \in {"unborn", "idle", "dead"}

OpsAt(p) ==
    IF pc[p] \in {"create", "writing", "inspect", "recreate"} THEN {"acquire"}
    ELSE IF pc[p] \in {"enter", "inspectInside", "verify", "mutate", "leave"}
    THEN {"acquire", "renew", "release"}
    ELSE IF pc[p] = "inherit" THEN {"inherit"}
    ELSE {"none"}

\* A call read the clock in the past; only a renewal, and an acquisition
\* that has succeeded, leave their caller anywhere but idle.
CallsAreCoherent ==
    \A p \in Proc :
        /\ call[p].op \in OpsAt(p)
        /\ call[p].now <= clock
        /\ call[p].op = "renew" => call[p].next # "idle"
        /\ (call[p].op # "renew" /\ call[p].next # "idle")
              => call[p].op = "acquire" /\ pc[p] = "leave" /\ call[p].next = "holding"

Control == TypeOK /\ SectionsAreInside /\ OwnerIsInside /\ TokenKept /\ CallsAreCoherent

LEMMA ControlInit == Init => Control
<1> SUFFICES ASSUME Init PROVE Control
  OBVIOUS
<1> USE LeaseAssumption DEF Init, GuardInit, NoCall
<1>1. TypeOK
  <2>1. GuardTypeOK BY DEF GuardTypeOK
  <2>2. lease \in LeaseFiles BY DEF LeaseFiles
  <2>3. pc \in [Proc -> Labels] BY DEF Labels
  <2>4. call \in [Proc -> Calls] BY DEF Calls
  <2>5. deadline \in [Proc -> 0 .. MaxClock + StaleAfter] OBVIOUS
  <2>6. bootId \in [Proc -> 0 .. MaxBoot] OBVIOUS
  <2> QED BY <2>1, <2>2, <2>3, <2>4, <2>5, <2>6 DEF TypeOK
<1>2. SectionsAreInside /\ OwnerIsInside
  BY GuardMutexAssumption DEF SectionsAreInside, OwnerIsInside, Section
<1>3. TokenKept /\ CallsAreCoherent
  BY DEF TokenKept, CallsAreCoherent, OpsAt
<1> QED BY <1>1, <1>2, <1>3 DEF Control

\* The steps of one process and those of the environment.
LEMMA StepCases ==
    ASSUME [Next]_vars
    PROVE  \/ \E p \in Proc :
                 \/ Start(p) \/ Crash(p)
                 \/ BeginAcquire(p) \/ Create(p) \/ FinishWrite(p) \/ Inspect(p)
                 \/ EnterGuard(p) \/ GuardContended(p) \/ InspectInside(p) \/ Verify(p)
                 \/ Mutate(p) \/ Recreate(p) \/ LeaveGuard(p)
                 \/ BeginRenew(p) \/ BeginRelease(p) \/ Fence(p)
                 \/ Inherit(p) \/ FinishInherited(p)
                 \/ \E c \in Proc : Spawn(p, c)
           \/ Tick
           \/ GuardAges
           \/ UNCHANGED vars
BY DEF Next, Acquire, Guarded

\* What the helpers of the call do to its caller's state.
LEMMA GotoTypes ==
    ASSUME pc \in [Proc -> Labels], NEW p \in Proc, NEW label \in Labels, Goto(p, label)
    PROVE  pc' \in [Proc -> Labels]
BY DEF Goto

LEMMA BeginTypes ==
    ASSUME TypeOK, NEW p \in Proc, NEW op \in {"acquire", "renew", "release", "inherit"},
           NEW label \in Labels, Begin(p, op, label),
           op = "renew" => pc[p] \in {"holding", "fenced", "lost"}
    PROVE  pc' \in [Proc -> Labels] /\ call' \in [Proc -> Calls]
<1>1. pc' \in [Proc -> Labels]
  BY GotoTypes DEF Begin, TypeOK
<1>2. [op |-> op, now |-> clock, next |-> IF op = "renew" THEN pc[p] ELSE "idle"] \in Calls
  BY DEF TypeOK, Calls
<1>3. call' \in [Proc -> Calls]
  BY <1>2 DEF Begin, TypeOK
<1> QED BY <1>1, <1>3

LEMMA EndTypes ==
    ASSUME TypeOK, NEW p \in Proc, NEW label \in Labels, End(p, label)
    PROVE  /\ pc' \in [Proc -> Labels]
           /\ call' \in [Proc -> Calls]
           /\ token' \in [Proc -> Token \cup {NoToken}]
           /\ deadline' \in [Proc -> 0 .. MaxClock + StaleAfter]
<1>1. pc' \in [Proc -> Labels]
  BY GotoTypes DEF End, TypeOK
<1>2. NoCall \in Calls
  BY LeaseAssumption DEF NoCall, Calls
<1>3. call' \in [Proc -> Calls]
  BY <1>2 DEF End, TypeOK
<1>4. 0 \in 0 .. MaxClock + StaleAfter
  BY LeaseAssumption
<1>5. CASE label \in {"idle", "dead"}
  BY <1>1, <1>3, <1>4, <1>5 DEF End, TypeOK
<1>6. CASE label \notin {"idle", "dead"}
  BY <1>1, <1>3, <1>6 DEF End, TypeOK
<1> QED BY <1>5, <1>6

LEMMA LeaveWithTypes ==
    ASSUME TypeOK, NEW p \in Proc, NEW label \in {"idle", "holding", "fenced", "lost"},
           LeaveWith(p, label)
    PROVE  pc' \in [Proc -> Labels] /\ call' \in [Proc -> Calls]
<1>1. "leave" \in Labels
  BY DEF Labels
<1>2. pc' \in [Proc -> Labels]
  BY <1>1, GotoTypes DEF LeaveWith, TypeOK
<1>3. [call[p] EXCEPT !.next = label] \in Calls
  BY ZenonT(40) DEF TypeOK, Calls
<1>4. call' = [call EXCEPT ![p] = [call[p] EXCEPT !.next = label]]
  BY DEF LeaveWith
<1>5. call' \in [Proc -> Calls]
  BY <1>3, <1>4 DEF TypeOK
<1> QED BY <1>2, <1>5

LEMMA PayloadTypes ==
    ASSUME TypeOK, NEW p \in Proc, token[p] # NoToken
    PROVE  /\ OwnPayload(p) \in LeaseFiles
           /\ HalfWritten(p, token[p]) \in LeaseFiles
           /\ call[p].now + StaleAfter \in 0 .. MaxClock + StaleAfter
<1>1. call[p].now \in 0 .. MaxClock
  BY DEF TypeOK, Calls
<1>2. call[p].now + StaleAfter \in 0 .. MaxClock + StaleAfter
  BY <1>1, LeaseAssumption
<1>3. token[p] \in Token
  BY DEF TypeOK
<1>4. OwnPayload(p) \in LeaseFiles
  BY <1>2, <1>3 DEF OwnPayload, LeaseFiles
<1> QED BY <1>2, <1>3, <1>4 DEF LeaseFiles

\* The three kinds of lease file.
LEMMA LeaseFileShapes ==
    ASSUME NEW file \in LeaseFiles
    PROVE  \/ file = Missing /\ file.kind = "missing"
           \/ /\ file.kind = "lease" /\ file # Missing
              /\ file.by \in Proc /\ file.token \in Token
              /\ file.expiresAt \in 0 .. MaxClock + StaleAfter
              /\ file = Payload(file.by, file.token, file.expiresAt)
           \/ /\ file.kind = "malformed" /\ file # Missing
              /\ file.by \in Proc /\ file.token \in Token
              /\ file = HalfWritten(file.by, file.token)
<1>1. CASE file = Missing
  BY <1>1 DEF Missing
<1>2. CASE \E q \in Proc, t \in Token, e \in 0 .. MaxClock + StaleAfter : file = Payload(q, t, e)
  BY <1>2 DEF Payload, Missing
<1>3. CASE \E q \in Proc, t \in Token : file = HalfWritten(q, t)
  BY <1>3 DEF HalfWritten, Missing
<1> QED BY <1>1, <1>2, <1>3 DEF LeaseFiles

LEMMA LeaseShapes ==
    ASSUME TypeOK
    PROVE  \/ lease = Missing /\ lease.kind = "missing"
           \/ /\ lease.kind = "lease" /\ lease # Missing
              /\ lease.by \in Proc /\ lease.token \in Token
              /\ lease.expiresAt \in 0 .. MaxClock + StaleAfter
              /\ lease = Payload(lease.by, lease.token, lease.expiresAt)
           \/ /\ lease.kind = "malformed" /\ lease # Missing
              /\ lease.by \in Proc /\ lease.token \in Token
              /\ lease = HalfWritten(lease.by, lease.token)
<1>1. lease \in LeaseFiles
  BY DEF TypeOK
<1> QED BY <1>1, LeaseFileShapes

\* Every step is one of the guard or leaves it alone.
LEMMA GuardSteps == ASSUME [Next]_vars PROVE [GuardNext]_guardVars
<1>1. ASSUME NEW p \in Proc, EnterGuard(p) \/ LeaveGuard(p) \/ Crash(p) PROVE [GuardNext]_guardVars
  BY <1>1 DEF EnterGuard, LeaveGuard, Crash, GuardNext
<1>2. ASSUME NEW p \in Proc, Start(p) \/ BeginAcquire(p) \/ Create(p) \/ FinishWrite(p) \/ Inspect(p)
      PROVE  [GuardNext]_guardVars
  BY <1>2 DEF Start, BeginAcquire, Create, FinishWrite, Inspect
<1>3. ASSUME NEW p \in Proc, GuardContended(p) \/ InspectInside(p) \/ Verify(p) \/ Mutate(p) \/ Recreate(p)
      PROVE  [GuardNext]_guardVars
  BY <1>3 DEF GuardContended, InspectInside, Verify, Mutate, Recreate
<1>4. ASSUME NEW p \in Proc, BeginRenew(p) \/ BeginRelease(p) \/ Fence(p) \/ Inherit(p) \/ FinishInherited(p)
      PROVE  [GuardNext]_guardVars
  BY <1>4 DEF BeginRenew, BeginRelease, Fence, Inherit, FinishInherited
<1>5. ASSUME NEW p \in Proc, NEW c \in Proc, Spawn(p, c) PROVE [GuardNext]_guardVars
  BY <1>5 DEF Spawn
<1>6. CASE Tick
  BY <1>6 DEF Tick
<1>7. CASE GuardAges
  BY <1>7 DEF GuardAges, GuardNext
<1>8. CASE UNCHANGED vars
  BY <1>8 DEF vars
<1> QED BY StepCases, <1>1, <1>2, <1>3, <1>4, <1>5, <1>6, <1>7, <1>8

LEMMA GuardTypeStep == ASSUME GuardTypeOK, [GuardNext]_guardVars PROVE GuardTypeOK'
<1>1. ASSUME NEW p \in Proc, Enter(p) PROVE GuardTypeOK'
  BY <1>1, GuardMutexAssumption DEF Enter, GuardTypeOK
<1>2. ASSUME NEW p \in Proc, Leave(p) PROVE GuardTypeOK'
  BY <1>2 DEF Leave, GuardTypeOK
<1>3. ASSUME NEW p \in Proc, Die(p) PROVE GuardTypeOK'
  BY <1>3 DEF Die, GuardTypeOK
<1>4. CASE GrowOld \/ Steal \/ UNCHANGED guardVars
  BY <1>4 DEF GrowOld, Steal, GuardTypeOK, guardVars
<1> QED BY <1>1, <1>2, <1>3, <1>4 DEF GuardNext

\* The helpers' lemmas do the work; what a step leaves alone keeps its type.
LEMMA TypeStep == Control /\ [Next]_vars => TypeOK'
<1> SUFFICES ASSUME Control, [Next]_vars PROVE TypeOK'
  OBVIOUS
<1>0. TypeOK /\ GuardTypeOK'
  BY GuardSteps, GuardTypeStep DEF Control, TypeOK
<1> USE <1>0, LeaseAssumption
<1>1. ASSUME NEW p \in Proc, Start(p) PROVE TypeOK'
  <2>1. pc' \in [Proc -> Labels]
    BY <1>1, GotoTypes DEF Start, TypeOK, Labels
  <2>2. pid' \in [Proc -> Pid \cup {NoPid}]
    BY ZenonT(40), <1>1 DEF Start, Born, TypeOK
  <2>3. bootId' \in [Proc -> 0 .. MaxBoot]
    BY <1>1 DEF Start, TypeOK
  <2> QED BY <1>1, <2>1, <2>2, <2>3 DEF Start, TypeOK
<1>2. ASSUME NEW p \in Proc, Crash(p) PROVE TypeOK'
  <2>1. "dead" \in Labels BY DEF Labels
  <2> QED BY <1>2, <2>1, EndTypes DEF Crash, TypeOK, identity
<1>3. ASSUME NEW p \in Proc, BeginAcquire(p) PROVE TypeOK'
  <2>1. pc' \in [Proc -> Labels] /\ call' \in [Proc -> Calls]
    BY <1>3, BeginTypes DEF BeginAcquire, Labels
  <2>2. token' \in [Proc -> Token \cup {NoToken}]
    BY <1>3 DEF BeginAcquire, TypeOK
  <2> QED BY <1>3, <2>1, <2>2 DEF BeginAcquire, TypeOK, identity
<1>4. ASSUME NEW p \in Proc, Create(p) PROVE TypeOK'
  <2>1. token[p] # NoToken
    BY <1>4 DEF Create, Control, TokenKept
  <2>2. "writing" \in Labels /\ "inspect" \in Labels BY DEF Labels
  <2>3. CASE ExclusiveCreate(p)
    <3>1. lease' \in LeaseFiles
      BY <2>1, <2>3, PayloadTypes DEF ExclusiveCreate
    <3>2. pc' \in [Proc -> Labels]
      BY <2>2, <2>3, GotoTypes DEF ExclusiveCreate, TypeOK
    <3> QED BY <1>4, <3>1, <3>2 DEF Create, TypeOK, identity
  <2>4. CASE Goto(p, "inspect") /\ UNCHANGED lease
    BY <1>4, <2>2, <2>4, GotoTypes DEF Create, TypeOK, identity
  <2> QED BY <1>4, <2>3, <2>4 DEF Create
<1>5. ASSUME NEW p \in Proc, FinishWrite(p) PROVE TypeOK'
  <2>1. token[p] # NoToken
    BY <1>5 DEF FinishWrite, Control, TokenKept
  <2>2. lease' \in LeaseFiles
    BY <1>5, <2>1, PayloadTypes DEF FinishWrite, TypeOK
  <2>3. deadline' \in [Proc -> 0 .. MaxClock + StaleAfter]
    BY <1>5, <2>1, PayloadTypes DEF FinishWrite, TypeOK
  <2>4. pc' \in [Proc -> Labels] /\ call' \in [Proc -> Calls]
    <3>1. CASE p \in inside
      BY <1>5, <3>1, LeaveWithTypes DEF FinishWrite
    <3>2. CASE p \notin inside
      <4>1. NoCall \in Calls BY DEF NoCall, Calls
      <4>2. Goto(p, "holding") /\ call' = [call EXCEPT ![p] = NoCall]
        BY <1>5, <3>2 DEF FinishWrite
      <4> QED BY <4>1, <4>2, GotoTypes DEF TypeOK, Labels
    <3> QED BY <3>1, <3>2
  <2> QED BY <1>5, <2>2, <2>3, <2>4 DEF FinishWrite, TypeOK, identity
<1>6. ASSUME NEW p \in Proc, Inspect(p) PROVE TypeOK'
  <2>1. "idle" \in Labels /\ "enter" \in Labels BY DEF Labels
  <2>2. CASE End(p, "idle")
    BY <1>6, <2>1, <2>2, EndTypes DEF Inspect, TypeOK, identity
  <2>3. CASE Goto(p, "enter") /\ UNCHANGED <<call, token, deadline>>
    BY <1>6, <2>1, <2>3, GotoTypes DEF Inspect, TypeOK, identity
  <2> QED BY <1>6, <2>2, <2>3 DEF Inspect
<1>7. ASSUME NEW p \in Proc, EnterGuard(p) PROVE TypeOK'
  <2>1. "inspectInside" \in Labels BY DEF Labels
  <2> QED BY <1>7, <2>1, GotoTypes DEF EnterGuard, TypeOK, identity
<1>8. ASSUME NEW p \in Proc, GuardContended(p) PROVE TypeOK'
  <2>1. Defeat(p) \in Labels BY DEF Defeat, Labels
  <2> QED BY <1>8, <2>1, EndTypes DEF GuardContended, TypeOK, identity
<1>9. ASSUME NEW p \in Proc, InspectInside(p) PROVE TypeOK'
  <2>1. exposures' \subseteq {"evicted in the gap", "half-written lease"}
    BY <1>9 DEF InspectInside, TypeOK
  <2>2. CASE \E label \in {"idle", "lost"} : LeaveWith(p, label)
    <3>1. pc' \in [Proc -> Labels] /\ call' \in [Proc -> Calls]
      BY <2>2, LeaveWithTypes
    <3> QED BY <1>9, <2>1, <3>1 DEF InspectInside, TypeOK, identity
  <2>3. CASE UNCHANGED call /\ \E label \in {"recreate", "verify"} : Goto(p, label)
    <3>1. pc' \in [Proc -> Labels]
      <4>1. PICK label \in {"recreate", "verify"} : Goto(p, label)
        BY <2>3
      <4>2. label \in Labels BY DEF Labels
      <4> QED BY <4>1, <4>2, GotoTypes DEF TypeOK
    <3> QED BY <1>9, <2>1, <2>3, <3>1 DEF InspectInside, TypeOK, identity
  <2> QED BY <1>9, <2>2, <2>3 DEF InspectInside, Defeat
<1>10. ASSUME NEW p \in Proc, Verify(p) PROVE TypeOK'
  <2>1. CASE \E label \in {"idle", "lost"} : LeaveWith(p, label)
    <3>1. pc' \in [Proc -> Labels] /\ call' \in [Proc -> Calls]
      BY <2>1, LeaveWithTypes
    <3> QED BY <1>10, <3>1 DEF Verify, TypeOK, identity
  <2>2. CASE UNCHANGED call /\ Goto(p, "mutate")
    BY <1>10, <2>2, GotoTypes DEF Verify, TypeOK, identity, Labels
  <2> QED BY <1>10, <2>1, <2>2 DEF Verify, Defeat
<1>11. ASSUME NEW p \in Proc, Mutate(p) PROVE TypeOK'
  <2>1. exposures' \subseteq {"evicted in the gap", "half-written lease"}
    BY <1>11 DEF Mutate, TypeOK
  <2>2. Missing \in LeaseFiles BY DEF LeaseFiles
  <2>3. CASE Unlink(p)
    BY <1>11, <2>1, <2>2, <2>3, GotoTypes DEF Mutate, Unlink, TypeOK, identity, Labels
  <2>4. CASE Rewrite(p)
    <3>1. token[p] # NoToken
      BY <1>11 DEF Mutate, Control, TokenKept
    <3>2. pc' \in [Proc -> Labels] /\ call' \in [Proc -> Calls]
      <4>1. call[p].next \in {"idle", "holding", "fenced", "lost"} BY DEF TypeOK, Calls
      <4> QED BY <2>4, <4>1, LeaveWithTypes DEF Rewrite
    <3>3. deadline' \in [Proc -> 0 .. MaxClock + StaleAfter]
      BY <2>4, <3>1, PayloadTypes DEF Rewrite, TypeOK
    <3>4. lease' \in LeaseFiles
      BY <2>4, <3>1, PayloadTypes DEF Rewrite
    <3> QED BY <1>11, <2>1, <3>2, <3>3, <3>4 DEF Mutate, TypeOK, identity
  <2>5. CASE Remove(p)
    BY <1>11, <2>1, <2>2, <2>5, LeaveWithTypes DEF Mutate, Remove, TypeOK, identity
  <2> QED BY <1>11, <2>3, <2>4, <2>5 DEF Mutate
<1>12. ASSUME NEW p \in Proc, Recreate(p) PROVE TypeOK'
  <2>1. token[p] # NoToken
    BY <1>12 DEF Recreate, Control, TokenKept
  <2>2. CASE ExclusiveCreate(p) /\ UNCHANGED call
    <3>1. lease' \in LeaseFiles
      BY <2>1, <2>2, PayloadTypes DEF ExclusiveCreate
    <3>2. pc' \in [Proc -> Labels]
      BY <2>2, GotoTypes DEF ExclusiveCreate, TypeOK, Labels
    <3> QED BY <1>12, <2>2, <3>1, <3>2 DEF Recreate, TypeOK, identity
  <2>3. CASE LeaveWith(p, "idle") /\ UNCHANGED lease
    BY <1>12, <2>3, LeaveWithTypes DEF Recreate, TypeOK, identity
  <2> QED BY <1>12, <2>2, <2>3 DEF Recreate
<1>13. ASSUME NEW p \in Proc, LeaveGuard(p) PROVE TypeOK'
  <2>1. call[p].next \in Labels
    BY DEF TypeOK, Calls, Labels
  <2> QED BY <1>13, <2>1, EndTypes DEF LeaveGuard, TypeOK, identity
<1>14. ASSUME NEW p \in Proc, BeginRenew(p) \/ BeginRelease(p) PROVE TypeOK'
  <2>1. pc' \in [Proc -> Labels] /\ call' \in [Proc -> Calls]
    BY <1>14, BeginTypes DEF BeginRenew, BeginRelease, Labels
  <2> QED BY <1>14, <2>1 DEF BeginRenew, BeginRelease, TypeOK, identity
<1>15. ASSUME NEW p \in Proc, Fence(p) PROVE TypeOK'
  <2>1. CASE Goto(p, "fenced") /\ UNCHANGED call
    BY <1>15, <2>1, GotoTypes DEF Fence, TypeOK, identity, Labels
  <2>2. CASE call' = [call EXCEPT ![p].next = "fenced"] /\ UNCHANGED pc
    <3>1. [call[p] EXCEPT !.next = "fenced"] \in Calls
      <4>1. call[p] \in Calls BY DEF TypeOK
      <4> QED BY <4>1 DEF Calls
    <3>2. call' \in [Proc -> Calls]
      BY <2>2, <3>1 DEF TypeOK
    <3> QED BY <1>15, <2>2, <3>2 DEF Fence, TypeOK, identity
  <2> QED BY <1>15, <2>1, <2>2 DEF Fence
<1>16. ASSUME NEW p \in Proc, Inherit(p) PROVE TypeOK'
  <2>1. CASE End(p, "idle")
    BY <1>16, <2>1, EndTypes DEF Inherit, TypeOK, identity, Labels
  <2>2. CASE Active(p, call[p].now) /\ IsOwner(p)
    <3>1. lease.expiresAt \in 0 .. MaxClock + StaleAfter
      BY <2>2, LeaseShapes DEF Active
    <3>2. NoCall \in Calls BY DEF NoCall, Calls
    <3>3. /\ Goto(p, "inherited") /\ UNCHANGED token
          /\ call' = [call EXCEPT ![p] = NoCall]
          /\ deadline' = [deadline EXCEPT ![p] = lease.expiresAt]
      BY <1>16, <2>2 DEF Inherit
    <3>4. pc' \in [Proc -> Labels]
      BY <3>3, GotoTypes DEF TypeOK, Labels
    <3>5. call' \in [Proc -> Calls] /\ deadline' \in [Proc -> 0 .. MaxClock + StaleAfter]
      BY <3>1, <3>2, <3>3 DEF TypeOK
    <3> QED BY <1>16, <3>3, <3>4, <3>5 DEF Inherit, TypeOK, identity
  <2> QED BY <1>16, <2>1, <2>2 DEF Inherit
<1>17. ASSUME NEW p \in Proc, FinishInherited(p) PROVE TypeOK'
  <2>1. "dead" \in Labels BY DEF Labels
  <2> QED BY <1>17, <2>1, EndTypes DEF FinishInherited, TypeOK, identity
<1>18. ASSUME NEW p \in Proc, NEW c \in Proc, Spawn(p, c) PROVE TypeOK'
  <2>1. pc' \in [Proc -> Labels] /\ call' \in [Proc -> Calls]
    BY <1>18, BeginTypes DEF Spawn, Labels
  <2>2. pid' \in [Proc -> Pid \cup {NoPid}]
    BY ZenonT(40), <1>18 DEF Spawn, Born, TypeOK
  <2> QED BY <1>18, <2>1, <2>2 DEF Spawn, TypeOK
<1>19. CASE Tick
  <2>1. clock' \in 0 .. MaxClock
    <3>1. clock \in 0 .. MaxClock BY DEF TypeOK
    <3> QED BY <1>19, <3>1 DEF Tick
  <2> QED BY <1>19, <2>1 DEF Tick, TypeOK, identity
<1>20. CASE GuardAges
  BY <1>20 DEF GuardAges, TypeOK, identity
<1>21. CASE UNCHANGED vars
  BY <1>21 DEF vars, TypeOK, identity
<1> QED BY StepCases, <1>1, <1>2, <1>3, <1>4, <1>5, <1>6, <1>7, <1>8, <1>9,
          <1>10, <1>11, <1>12, <1>13, <1>14, <1>15, <1>16, <1>17, <1>18,
          <1>19, <1>20, <1>21

\* Layer 1 for the guard: a process is inside from its enter to its leave.
LEMMA InsideStep == Control /\ [Next]_vars => SectionsAreInside' /\ OwnerIsInside'
<1> SUFFICES ASSUME Control, [Next]_vars PROVE SectionsAreInside' /\ OwnerIsInside'
  OBVIOUS
<1>0. /\ pc \in [Proc -> Labels] /\ call \in [Proc -> Calls]
      /\ SectionsAreInside /\ OwnerIsInside
      /\ inside \subseteq Proc
  BY DEF Control, TypeOK, GuardTypeOK
<1> USE <1>0, GuardMutexAssumption DEF SectionsAreInside, OwnerIsInside, Section, Goto
<1>1. ASSUME NEW p \in Proc, Start(p) \/ BeginAcquire(p) \/ Create(p)
      PROVE  SectionsAreInside' /\ OwnerIsInside'
  BY <1>1 DEF Start, Born, BeginAcquire, Begin, Create, ExclusiveCreate, guardVars
<1>2. ASSUME NEW p \in Proc, Crash(p) PROVE SectionsAreInside' /\ OwnerIsInside'
  BY <1>2 DEF Crash, End, Die, guardVars
<1>3. ASSUME NEW p \in Proc, FinishWrite(p) PROVE SectionsAreInside' /\ OwnerIsInside'
  BY <1>3 DEF FinishWrite, LeaveWith, guardVars
<1>4. ASSUME NEW p \in Proc, Inspect(p) PROVE SectionsAreInside' /\ OwnerIsInside'
  BY <1>4 DEF Inspect, End, guardVars
<1>5. ASSUME NEW p \in Proc, EnterGuard(p) PROVE SectionsAreInside' /\ OwnerIsInside'
  BY <1>5 DEF EnterGuard, Enter
<1>6. ASSUME NEW p \in Proc, GuardContended(p) PROVE SectionsAreInside' /\ OwnerIsInside'
  BY <1>6 DEF GuardContended, End, Defeat, guardVars
<1>7. ASSUME NEW p \in Proc, InspectInside(p) PROVE SectionsAreInside' /\ OwnerIsInside'
  BY <1>7 DEF InspectInside, LeaveWith, guardVars
<1>8. ASSUME NEW p \in Proc, Verify(p) PROVE SectionsAreInside' /\ OwnerIsInside'
  BY <1>8 DEF Verify, LeaveWith, guardVars
<1>9. ASSUME NEW p \in Proc, Mutate(p) PROVE SectionsAreInside' /\ OwnerIsInside'
  BY <1>9 DEF Mutate, Unlink, Rewrite, Remove, LeaveWith, guardVars
<1>10. ASSUME NEW p \in Proc, Recreate(p) PROVE SectionsAreInside' /\ OwnerIsInside'
  BY <1>10 DEF Recreate, ExclusiveCreate, LeaveWith, guardVars
<1>11. ASSUME NEW p \in Proc, LeaveGuard(p) PROVE SectionsAreInside' /\ OwnerIsInside'
  <2>1. call[p].next \in {"idle", "holding", "fenced", "lost"}
    BY DEF Calls
  <2> QED BY <1>11, <2>1 DEF LeaveGuard, Leave, End
<1>12. ASSUME NEW p \in Proc, BeginRenew(p) \/ BeginRelease(p) \/ Fence(p)
       PROVE  SectionsAreInside' /\ OwnerIsInside'
  BY <1>12 DEF BeginRenew, BeginRelease, Begin, Fence, guardVars
<1>13. ASSUME NEW p \in Proc, Inherit(p) \/ FinishInherited(p)
       PROVE  SectionsAreInside' /\ OwnerIsInside'
  BY <1>13 DEF Inherit, FinishInherited, End, guardVars
<1>14. ASSUME NEW p \in Proc, NEW c \in Proc, Spawn(p, c) PROVE SectionsAreInside' /\ OwnerIsInside'
  BY <1>14 DEF Spawn, Born, Begin, guardVars
<1>15. CASE Tick \/ UNCHANGED vars
  BY <1>15 DEF Tick, vars, guardVars
<1>16. CASE GuardAges
  BY <1>16 DEF GuardAges, GrowOld, Steal
<1> QED BY StepCases, <1>1, <1>2, <1>3, <1>4, <1>5, <1>6, <1>7, <1>8, <1>9,
          <1>10, <1>11, <1>12, <1>13, <1>14, <1>15, <1>16

\* A process has a token exactly while it acquires, holds or inherits.
LEMMA TokenKeptStep == Control /\ [Next]_vars => TokenKept'
<1> SUFFICES ASSUME Control, [Next]_vars PROVE TokenKept'
  OBVIOUS
<1>0. /\ pc \in [Proc -> Labels] /\ call \in [Proc -> Calls]
      /\ token \in [Proc -> Token \cup {NoToken}]
      /\ TokenKept
  BY DEF Control, TypeOK
<1> USE <1>0, LeaseAssumption DEF TokenKept, Goto
<1>1. ASSUME NEW p \in Proc, Start(p) \/ Create(p) PROVE TokenKept'
  BY <1>1 DEF Start, Born, Create, ExclusiveCreate
<1>2. ASSUME NEW p \in Proc, BeginAcquire(p) PROVE TokenKept'
  <2>1. PICK t \in Token : token' = [token EXCEPT ![p] = t]
    BY <1>2 DEF BeginAcquire
  <2>2. pc' = [pc EXCEPT ![p] = "create"]
    BY <1>2 DEF BeginAcquire, Begin
  <2> QED BY <2>1, <2>2
<1>3. ASSUME NEW p \in Proc, Crash(p) \/ FinishInherited(p) PROVE TokenKept'
  BY <1>3 DEF Crash, FinishInherited, End
<1>4. ASSUME NEW p \in Proc, FinishWrite(p) PROVE TokenKept'
  BY <1>4 DEF FinishWrite, LeaveWith
<1>5. ASSUME NEW p \in Proc, Inspect(p) PROVE TokenKept'
  BY <1>5 DEF Inspect, End
<1>6. ASSUME NEW p \in Proc, EnterGuard(p) PROVE TokenKept'
  BY <1>6 DEF EnterGuard
<1>7. ASSUME NEW p \in Proc, GuardContended(p) PROVE TokenKept'
  BY <1>7 DEF GuardContended, End, Defeat
<1>8. ASSUME NEW p \in Proc, InspectInside(p) \/ Verify(p) PROVE TokenKept'
  BY <1>8 DEF InspectInside, Verify, LeaveWith
<1>9. ASSUME NEW p \in Proc, Mutate(p) PROVE TokenKept'
  BY <1>9 DEF Mutate, Unlink, Rewrite, Remove, LeaveWith
<1>10. ASSUME NEW p \in Proc, Recreate(p) PROVE TokenKept'
  BY <1>10 DEF Recreate, ExclusiveCreate, LeaveWith
<1>11. ASSUME NEW p \in Proc, LeaveGuard(p) PROVE TokenKept'
  <2>1. call[p].next \in {"idle", "holding", "fenced", "lost"}
    BY DEF Calls
  <2> QED BY <1>11, <2>1 DEF LeaveGuard, End
<1>12. ASSUME NEW p \in Proc, BeginRenew(p) \/ BeginRelease(p) \/ Fence(p) PROVE TokenKept'
  BY <1>12 DEF BeginRenew, BeginRelease, Begin, Fence
<1>13. ASSUME NEW p \in Proc, Inherit(p) PROVE TokenKept'
  BY <1>13 DEF Inherit, End
<1>14. ASSUME NEW p \in Proc, NEW c \in Proc, Spawn(p, c) PROVE TokenKept'
  <2>1. token[p] # NoToken
    BY <1>14 DEF Spawn
  <2> QED BY <1>14, <2>1 DEF Spawn, Born, Begin
<1>15. CASE Tick \/ GuardAges \/ UNCHANGED vars
  BY <1>15 DEF Tick, GuardAges, vars
<1> QED BY StepCases, <1>1, <1>2, <1>3, <1>4, <1>5, <1>6, <1>7, <1>8, <1>9,
          <1>10, <1>11, <1>12, <1>13, <1>14, <1>15

\* A call keeps its operation and its `now` from its begin to its end.
LEMMA CallsStep == Control /\ [Next]_vars => CallsAreCoherent'
<1> SUFFICES ASSUME Control, [Next]_vars PROVE CallsAreCoherent'
  OBVIOUS
<1>0. /\ pc \in [Proc -> Labels] /\ call \in [Proc -> Calls]
      /\ clock \in 0 .. MaxClock
      /\ CallsAreCoherent
  BY DEF Control, TypeOK
<1>c. \A q \in Proc : /\ call[q].now \in Nat
                      /\ call[q].next \in {"idle", "holding", "fenced", "lost"}
  BY <1>0, LeaseAssumption DEF Calls
<1> USE <1>0, <1>c DEF CallsAreCoherent, OpsAt, Goto, NoCall
<1>1. ASSUME NEW p \in Proc, Start(p) \/ Create(p) PROVE CallsAreCoherent'
  BY <1>1 DEF Start, Born, Create, ExclusiveCreate
<1>2. ASSUME NEW p \in Proc, BeginAcquire(p) PROVE CallsAreCoherent'
  BY <1>2 DEF BeginAcquire, Begin
<1>3. ASSUME NEW p \in Proc, Crash(p) \/ FinishInherited(p) PROVE CallsAreCoherent'
  BY <1>3 DEF Crash, FinishInherited, End
<1>4. ASSUME NEW p \in Proc, FinishWrite(p) PROVE CallsAreCoherent'
  BY <1>4 DEF FinishWrite, LeaveWith, Calls
<1>5. ASSUME NEW p \in Proc, Inspect(p) PROVE CallsAreCoherent'
  BY <1>5 DEF Inspect, End
<1>6. ASSUME NEW p \in Proc, EnterGuard(p) PROVE CallsAreCoherent'
  BY <1>6 DEF EnterGuard
<1>7. ASSUME NEW p \in Proc, GuardContended(p) PROVE CallsAreCoherent'
  BY <1>7 DEF GuardContended, End, Defeat
<1>8. ASSUME NEW p \in Proc, InspectInside(p) PROVE CallsAreCoherent'
  <2>0. pc[p] = "inspectInside" /\ UNCHANGED clock
    BY <1>8 DEF InspectInside
  <2>1. CASE LeaveWith(p, IF call[p].op = "renew" THEN "lost" ELSE "idle")
    BY <2>0, <2>1 DEF LeaveWith, Calls
  <2>2. CASE UNCHANGED call /\ (Goto(p, "verify") \/ (call[p].op = "acquire" /\ Goto(p, "recreate")))
    BY <2>0, <2>2
  <2> QED BY <1>8, <2>1, <2>2 DEF InspectInside, Defeat
<1>9. ASSUME NEW p \in Proc, Verify(p) PROVE CallsAreCoherent'
  BY <1>9 DEF Verify, LeaveWith, Defeat, Calls
<1>10. ASSUME NEW p \in Proc, Mutate(p) PROVE CallsAreCoherent'
  <2>1. CASE Unlink(p)
    BY <1>10, <2>1 DEF Mutate, Unlink
  <2>2. CASE Rewrite(p)
    BY ZenonT(40), <1>10, <2>2 DEF Mutate, Rewrite, LeaveWith, Calls
  <2>3. CASE Remove(p)
    BY ZenonT(40), <1>10, <2>3 DEF Mutate, Remove, LeaveWith, Calls
  <2> QED BY <1>10, <2>1, <2>2, <2>3 DEF Mutate
<1>11. ASSUME NEW p \in Proc, Recreate(p) PROVE CallsAreCoherent'
  BY <1>11 DEF Recreate, ExclusiveCreate, LeaveWith, Calls
<1>12. ASSUME NEW p \in Proc, LeaveGuard(p) PROVE CallsAreCoherent'
  BY <1>12 DEF LeaveGuard, End
<1>13. ASSUME NEW p \in Proc, BeginRenew(p) \/ BeginRelease(p) PROVE CallsAreCoherent'
  BY <1>13 DEF BeginRenew, BeginRelease, Begin
<1>14. ASSUME NEW p \in Proc, Fence(p) PROVE CallsAreCoherent'
  BY <1>14 DEF Fence, Calls
<1>15. ASSUME NEW p \in Proc, Inherit(p) PROVE CallsAreCoherent'
  BY <1>15 DEF Inherit, End
<1>16. ASSUME NEW p \in Proc, NEW c \in Proc, Spawn(p, c) PROVE CallsAreCoherent'
  BY <1>16 DEF Spawn, Born, Begin
<1>17. CASE Tick \/ GuardAges \/ UNCHANGED vars
  BY <1>17 DEF Tick, GuardAges, vars
<1> QED BY StepCases, <1>1, <1>2, <1>3, <1>4, <1>5, <1>6, <1>7, <1>8, <1>9,
          <1>10, <1>11, <1>12, <1>13, <1>14, <1>15, <1>16, <1>17

LEMMA ControlStep == Control /\ [Next]_vars => Control'
BY TypeStep, InsideStep, TokenKeptStep, CallsStep DEF Control

LEMMA ControlInvariance == Spec => []Control
<1>1. Init => Control
  BY ControlInit
<1>2. Control /\ [Next]_vars => Control'
  BY ControlStep
<1> QED BY <1>1, <1>2, PTL DEF Spec

\* The lease file, the call of each process and its memory of the lease stay
\* within their types, whatever the interleaving.
THEOREM TypeCorrect == Spec => []TypeOK
<1>1. Control => TypeOK
  BY DEF Control
<1> QED BY ControlInvariance, <1>1, PTL

-----------------------------------------------------------------------------
(***************************************************************************)
(* What one step can do to one process                                     *)
(***************************************************************************)

\* p believes to hold the lease: from its acquisition to its release.
Holds(p) ==
    \/ pc[p] \in {"holding", "fenced", "lost"}
    \/ call[p].op = "renew"
    \/ call[p].op = "acquire" /\ call[p].next = "holding"

\* p was spawned to run under the lease of its parent, and does or will.
Inheriting(p) == pc[p] \in {"inherit", "inherited"}

\* A process lives once, in the order the code gives it.
LEMMA LifeSteps ==
    ASSUME Control, [Next]_vars, NEW q \in Proc
    PROVE  /\ pc[q] = "dead" => pc'[q] = "dead"
           /\ pc'[q] = "unborn" => pc[q] = "unborn"
           /\ Alive(q)' => Alive(q) \/ Start(q) \/ \E p \in Proc : Spawn(p, q)
<1> DEFINE Lives == /\ pc[q] = "dead" => pc'[q] = "dead"
                    /\ pc'[q] = "unborn" => pc[q] = "unborn"
                    /\ Alive(q)' => Alive(q) \/ Start(q) \/ \E p \in Proc : Spawn(p, q)
<1> SUFFICES Lives
  OBVIOUS
<1>0. /\ pc \in [Proc -> Labels] /\ call \in [Proc -> Calls]
      /\ \A p \in Proc : call[p].op \in OpsAt(p) /\ call[p].next \in {"idle", "holding", "fenced", "lost"}
  BY DEF Control, TypeOK, CallsAreCoherent, Calls
<1> USE <1>0 DEF Goto, Alive
<1>1. ASSUME NEW p \in Proc, Start(p) \/ Create(p) \/ BeginAcquire(p) PROVE Lives
  BY <1>1 DEF Start, Born, Create, ExclusiveCreate, BeginAcquire, Begin
<1>2. ASSUME NEW p \in Proc, Crash(p) \/ FinishInherited(p) PROVE Lives
  BY <1>2 DEF Crash, FinishInherited, End
<1>3. ASSUME NEW p \in Proc, FinishWrite(p) \/ Inspect(p) PROVE Lives
  BY <1>3 DEF FinishWrite, Inspect, End, LeaveWith
<1>4. ASSUME NEW p \in Proc, EnterGuard(p) \/ GuardContended(p) \/ LeaveGuard(p) PROVE Lives
  BY <1>4 DEF EnterGuard, GuardContended, LeaveGuard, End, Defeat
<1>5. ASSUME NEW p \in Proc, InspectInside(p) \/ Verify(p) PROVE Lives
  BY <1>5 DEF InspectInside, Verify, LeaveWith
<1>6. ASSUME NEW p \in Proc, Mutate(p) \/ Recreate(p) PROVE Lives
  BY <1>6 DEF Mutate, Unlink, Rewrite, Remove, Recreate, ExclusiveCreate, LeaveWith
<1>7. ASSUME NEW p \in Proc, BeginRenew(p) \/ BeginRelease(p) PROVE Lives
  BY <1>7 DEF BeginRenew, BeginRelease, Begin
<1>8. ASSUME NEW p \in Proc, Fence(p) \/ Inherit(p) PROVE Lives
  BY <1>8 DEF Fence, Inherit, End, OpsAt
<1>9. ASSUME NEW p \in Proc, NEW c \in Proc, Spawn(p, c) PROVE Lives
  BY <1>9 DEF Spawn, Born, Begin
<1>10. CASE Tick \/ GuardAges \/ UNCHANGED vars
  BY <1>10 DEF Tick, GuardAges, vars
<1> QED BY StepCases, <1>1, <1>2, <1>3, <1>4, <1>5, <1>6, <1>7, <1>8, <1>9, <1>10

\* Pid, boot and parent are given at birth.
LEMMA IdentitySteps ==
    ASSUME [Next]_vars
    PROVE  \/ UNCHANGED identity
           \/ \E p \in Proc : Start(p) \/ \E c \in Proc : Spawn(p, c)
<1> DEFINE Kept == UNCHANGED identity \/ \E p \in Proc : Start(p) \/ \E c \in Proc : Spawn(p, c)
<1>1. ASSUME NEW p \in Proc, Crash(p) \/ Create(p) \/ BeginAcquire(p) \/ FinishWrite(p) \/ Inspect(p)
      PROVE  Kept
  BY <1>1 DEF Crash, Create, BeginAcquire, FinishWrite, Inspect
<1>2. ASSUME NEW p \in Proc, EnterGuard(p) \/ GuardContended(p) \/ LeaveGuard(p)
      PROVE  Kept
  BY <1>2 DEF EnterGuard, GuardContended, LeaveGuard
<1>3. ASSUME NEW p \in Proc, InspectInside(p) \/ Verify(p) \/ Mutate(p) \/ Recreate(p)
      PROVE  Kept
  BY <1>3 DEF InspectInside, Verify, Mutate, Recreate
<1>4. ASSUME NEW p \in Proc,
             BeginRenew(p) \/ BeginRelease(p) \/ Fence(p) \/ Inherit(p) \/ FinishInherited(p)
      PROVE  Kept
  BY <1>4 DEF BeginRenew, BeginRelease, Fence, Inherit, FinishInherited
<1>5. CASE Tick \/ GuardAges \/ UNCHANGED vars
  BY <1>5 DEF Tick, GuardAges, vars
<1> QED BY StepCases, <1>1, <1>2, <1>3, <1>4, <1>5

\* A token is drawn by an acquisition or inherited, and then kept or dropped.
LEMMA TokenSteps ==
    ASSUME Control, [Next]_vars, NEW q \in Proc
    PROVE  \/ token'[q] \in {token[q], NoToken}
           \/ BeginAcquire(q)
           \/ \E p \in Proc : Spawn(p, q)
<1> DEFINE Kept == \/ token'[q] \in {token[q], NoToken}
                   \/ BeginAcquire(q)
                   \/ \E p \in Proc : Spawn(p, q)
<1>0. token \in [Proc -> Token \cup {NoToken}]
  BY DEF Control, TypeOK
<1> USE <1>0
<1>1. ASSUME NEW p \in Proc, Start(p) \/ Create(p) \/ FinishWrite(p) PROVE Kept
  BY <1>1 DEF Start, Create, FinishWrite
<1>2. ASSUME NEW p \in Proc, BeginAcquire(p) PROVE Kept
  <2>1. PICK t \in Token : token' = [token EXCEPT ![p] = t]
    BY <1>2 DEF BeginAcquire
  <2> QED BY <1>2, <2>1
<1>3. ASSUME NEW p \in Proc, NEW label \in Labels, End(p, label) PROVE Kept
  BY <1>3 DEF End
<1>4. ASSUME NEW p \in Proc, Crash(p) \/ FinishInherited(p) \/ LeaveGuard(p) \/ GuardContended(p)
      PROVE Kept
  <2>1. call[p].next \in Labels /\ "dead" \in Labels /\ Defeat(p) \in Labels
    BY DEF Control, TypeOK, Calls, Labels, Defeat
  <2> QED BY <1>3, <1>4, <2>1 DEF Crash, FinishInherited, LeaveGuard, GuardContended
<1>5. ASSUME NEW p \in Proc, Inspect(p) \/ Inherit(p) PROVE Kept
  <2>1. End(p, "idle") \/ UNCHANGED token
    BY <1>5 DEF Inspect, Inherit
  <2>2. "idle" \in Labels
    BY DEF Labels
  <2> QED BY <1>3, <2>1, <2>2
<1>6. ASSUME NEW p \in Proc,
             EnterGuard(p) \/ InspectInside(p) \/ Verify(p) \/ Mutate(p) \/ Recreate(p)
      PROVE Kept
  BY <1>6 DEF EnterGuard, InspectInside, Verify, Mutate, Recreate
<1>7. ASSUME NEW p \in Proc, BeginRenew(p) \/ BeginRelease(p) \/ Fence(p) PROVE Kept
  BY <1>7 DEF BeginRenew, BeginRelease, Fence
<1>8. ASSUME NEW p \in Proc, NEW c \in Proc, Spawn(p, c) PROVE Kept
  BY <1>8 DEF Spawn
<1>9. CASE Tick \/ GuardAges \/ UNCHANGED vars
  BY <1>9 DEF Tick, GuardAges, vars
<1> QED BY StepCases, <1>1, <1>2, <1>4, <1>5, <1>6, <1>7, <1>8, <1>9

\* A holder keeps its token until it dies or begins to release, and only a
\* renewal moves its deadline.
LEMMA HolderSteps ==
    ASSUME Control, [Next]_vars, NEW q \in Proc
    PROVE  /\ Holds(q) => \/ Holds(q)' /\ token'[q] = token[q]
                          \/ pc'[q] = "dead"
                          \/ BeginRelease(q)
           /\ Holds(q)' => Holds(q) \/ FinishWrite(q)
           /\ Holds(q) /\ Holds(q)' => deadline'[q] = deadline[q] \/ (Mutate(q) /\ Rewrite(q))
<1> DEFINE Kept == /\ Holds(q) => \/ Holds(q)' /\ token'[q] = token[q]
                                  \/ pc'[q] = "dead"
                                  \/ BeginRelease(q)
                   /\ Holds(q)' => Holds(q) \/ FinishWrite(q)
                   /\ Holds(q) /\ Holds(q)' => deadline'[q] = deadline[q] \/ (Mutate(q) /\ Rewrite(q))
<1> SUFFICES Kept
  OBVIOUS
<1>0. /\ pc \in [Proc -> Labels] /\ call \in [Proc -> Calls]
      /\ token \in [Proc -> Token \cup {NoToken}]
      /\ deadline \in [Proc -> 0 .. MaxClock + StaleAfter]
      /\ CallsAreCoherent
  BY DEF Control, TypeOK
<1>c. \A p \in Proc : call[p].next \in {"idle", "holding", "fenced", "lost"}
  BY <1>0 DEF Calls
<1> USE <1>0, <1>c DEF Holds, Goto, NoCall, CallsAreCoherent, OpsAt
<1>1. ASSUME NEW p \in Proc, Start(p) \/ Create(p) PROVE Kept
  BY <1>1 DEF Start, Born, Create, ExclusiveCreate
<1>2. ASSUME NEW p \in Proc, BeginAcquire(p) PROVE Kept
  BY <1>2 DEF BeginAcquire, Begin
<1>3. ASSUME NEW p \in Proc, Crash(p) \/ FinishInherited(p) PROVE Kept
  BY <1>3 DEF Crash, FinishInherited, End
<1>4. ASSUME NEW p \in Proc, FinishWrite(p) PROVE Kept
  <2>1. CASE p = q
    <3>1. ~Holds(q)
      BY <1>4, <2>1 DEF FinishWrite
    <3> QED BY <1>4, <2>1, <3>1
  <2>2. CASE p # q
    <3>1. pc'[q] = pc[q] /\ call'[q] = call[q]
      BY <1>4, <2>2 DEF FinishWrite, LeaveWith
    <3>2. token'[q] = token[q] /\ deadline'[q] = deadline[q]
      BY <1>4, <2>2 DEF FinishWrite
    <3> QED BY <3>1, <3>2
  <2> QED BY <2>1, <2>2
<1>5. ASSUME NEW p \in Proc, Inspect(p) \/ Inherit(p) PROVE Kept
  BY <1>5 DEF Inspect, Inherit, End
<1>6. ASSUME NEW p \in Proc, EnterGuard(p) \/ GuardContended(p) PROVE Kept
  BY <1>6 DEF EnterGuard, GuardContended, End, Defeat
<1>7. ASSUME NEW p \in Proc, LeaveGuard(p) PROVE Kept
  BY <1>7 DEF LeaveGuard, End
<1>8. ASSUME NEW p \in Proc, InspectInside(p) \/ Verify(p) PROVE Kept
  <2>0. pc[p] \in {"inspectInside", "verify"} /\ UNCHANGED <<token, deadline>>
    BY <1>8 DEF InspectInside, Verify
  <2>1. CASE LeaveWith(p, IF call[p].op = "renew" THEN "lost" ELSE "idle")
    BY <2>0, <2>1 DEF LeaveWith, Calls
  <2>2. CASE UNCHANGED call /\ \E label \in {"recreate", "verify", "mutate"} : Goto(p, label)
    BY <2>0, <2>2
  <2> QED BY <1>8, <2>1, <2>2 DEF InspectInside, Verify, Defeat
<1>9. ASSUME NEW p \in Proc, Mutate(p) PROVE Kept
  <2>0. pc[p] = "mutate" /\ UNCHANGED token
    BY <1>9 DEF Mutate
  <2>1. CASE Unlink(p)
    BY <2>0, <2>1 DEF Unlink
  <2>2. CASE Rewrite(p)
    BY <2>0, <1>9, <2>2 DEF Rewrite, LeaveWith, Calls
  <2>3. CASE Remove(p)
    BY <2>0, <2>3 DEF Remove, LeaveWith, Calls
  <2> QED BY <1>9, <2>1, <2>2, <2>3 DEF Mutate
<1>10. ASSUME NEW p \in Proc, Recreate(p) PROVE Kept
  BY <1>10 DEF Recreate, ExclusiveCreate, LeaveWith, Calls
<1>11. ASSUME NEW p \in Proc, BeginRenew(p) \/ BeginRelease(p) PROVE Kept
  BY <1>11 DEF BeginRenew, BeginRelease, Begin
<1>12. ASSUME NEW p \in Proc, Fence(p) PROVE Kept
  BY <1>12 DEF Fence, Calls
<1>13. ASSUME NEW p \in Proc, NEW c \in Proc, Spawn(p, c) PROVE Kept
  BY <1>13 DEF Spawn, Born, Begin
<1>14. CASE Tick \/ GuardAges \/ UNCHANGED vars
  BY <1>14 DEF Tick, GuardAges, vars
<1> QED BY StepCases, <1>1, <1>2, <1>3, <1>4, <1>5, <1>6, <1>7, <1>8, <1>9,
          <1>10, <1>11, <1>12, <1>13, <1>14

\* An inheriting child keeps the token it was born with.
LEMMA InheritingSteps ==
    ASSUME Control, [Next]_vars, NEW q \in Proc, Inheriting(q)'
    PROVE  (Inheriting(q) /\ token'[q] = token[q]) \/ \E p \in Proc : Spawn(p, q)
<1> DEFINE Kept == \/ Inheriting(q)' => Inheriting(q) /\ token'[q] = token[q]
                   \/ \E p \in Proc : Spawn(p, q)
<1> SUFFICES Kept
  OBVIOUS
<1>0. /\ pc \in [Proc -> Labels] /\ token \in [Proc -> Token \cup {NoToken}]
      /\ \A p \in Proc : call[p].next \in {"idle", "holding", "fenced", "lost"}
      /\ \A p \in Proc : call[p].op \in OpsAt(p)
  BY DEF Control, TypeOK, Calls, CallsAreCoherent
<1> USE <1>0 DEF Inheriting, Goto
<1>1. ASSUME NEW p \in Proc, Start(p) \/ Create(p) \/ BeginAcquire(p) PROVE Kept
  BY <1>1 DEF Start, Born, Create, ExclusiveCreate, BeginAcquire, Begin
<1>2. ASSUME NEW p \in Proc, Crash(p) \/ FinishInherited(p) PROVE Kept
  BY <1>2 DEF Crash, FinishInherited, End
<1>3. ASSUME NEW p \in Proc, FinishWrite(p) \/ Inspect(p) PROVE Kept
  BY <1>3 DEF FinishWrite, LeaveWith, Inspect, End
<1>4. ASSUME NEW p \in Proc, EnterGuard(p) \/ GuardContended(p) \/ LeaveGuard(p) PROVE Kept
  BY <1>4 DEF EnterGuard, GuardContended, LeaveGuard, End, Defeat
<1>5. ASSUME NEW p \in Proc, InspectInside(p) \/ Verify(p) PROVE Kept
  BY <1>5 DEF InspectInside, Verify, LeaveWith
<1>6. ASSUME NEW p \in Proc, Mutate(p) \/ Recreate(p) PROVE Kept
  BY <1>6 DEF Mutate, Unlink, Rewrite, Remove, Recreate, ExclusiveCreate, LeaveWith
<1>7. ASSUME NEW p \in Proc, BeginRenew(p) \/ BeginRelease(p) PROVE Kept
  BY <1>7 DEF BeginRenew, BeginRelease, Begin
<1>8. ASSUME NEW p \in Proc, Fence(p) \/ Inherit(p) PROVE Kept
  BY <1>8 DEF Fence, Inherit, End, OpsAt
<1>9. ASSUME NEW p \in Proc, NEW c \in Proc, Spawn(p, c) PROVE Kept
  BY <1>9 DEF Spawn, Born, Begin
<1>10. CASE Tick \/ GuardAges \/ UNCHANGED vars
  BY <1>10 DEF Tick, GuardAges, vars
<1> QED BY StepCases, <1>1, <1>2, <1>3, <1>4, <1>5, <1>6, <1>7, <1>8, <1>9, <1>10

\* It stops only by dropping the token.
LEMMA InheritingEnds ==
    ASSUME Control, [Next]_vars, NEW q \in Proc, Inheriting(q), token'[q] # NoToken
    PROVE  Inheriting(q)'
<1> DEFINE Kept == Inheriting(q)' \/ pc'[q] \in {"idle", "dead"}
<1> SUFFICES Kept
  <2>1. TokenKept'
    BY ControlStep DEF Control
  <2> QED BY <2>1 DEF TokenKept
<1>0. /\ pc \in [Proc -> Labels] /\ pc[q] \in {"inherit", "inherited"}
      /\ \A p \in Proc : call[p].op \in OpsAt(p)
  BY DEF Control, TypeOK, CallsAreCoherent, Inheriting
<1> USE <1>0 DEF Inheriting, Goto
<1>1. ASSUME NEW p \in Proc, Start(p) \/ Create(p) \/ BeginAcquire(p) PROVE Kept
  BY <1>1 DEF Start, Born, Create, ExclusiveCreate, BeginAcquire, Begin
<1>2. ASSUME NEW p \in Proc, Crash(p) \/ FinishInherited(p) PROVE Kept
  BY <1>2 DEF Crash, FinishInherited, End
<1>3. ASSUME NEW p \in Proc, FinishWrite(p) \/ Inspect(p) PROVE Kept
  BY <1>3 DEF FinishWrite, LeaveWith, Inspect, End
<1>4. ASSUME NEW p \in Proc, EnterGuard(p) \/ GuardContended(p) \/ LeaveGuard(p) PROVE Kept
  BY <1>4 DEF EnterGuard, GuardContended, LeaveGuard, End, Defeat
<1>5. ASSUME NEW p \in Proc, InspectInside(p) \/ Verify(p) PROVE Kept
  BY <1>5 DEF InspectInside, Verify, LeaveWith
<1>6. ASSUME NEW p \in Proc, Mutate(p) \/ Recreate(p) PROVE Kept
  BY <1>6 DEF Mutate, Unlink, Rewrite, Remove, Recreate, ExclusiveCreate, LeaveWith
<1>7. ASSUME NEW p \in Proc, BeginRenew(p) \/ BeginRelease(p) PROVE Kept
  BY <1>7 DEF BeginRenew, BeginRelease, Begin
<1>8. ASSUME NEW p \in Proc, Fence(p) \/ Inherit(p) PROVE Kept
  BY <1>8 DEF Fence, Inherit, End, OpsAt
<1>9. ASSUME NEW p \in Proc, NEW c \in Proc, Spawn(p, c) PROVE Kept
  BY <1>9 DEF Spawn, Born, Begin
<1>10. CASE Tick \/ GuardAges \/ UNCHANGED vars
  BY <1>10 DEF Tick, GuardAges, vars
<1> QED BY StepCases, <1>1, <1>2, <1>3, <1>4, <1>5, <1>6, <1>7, <1>8, <1>9, <1>10

\* Between its exclusive create and the end of the write a process does
\* nothing else.
LEMMA WritingSteps ==
    ASSUME Control, [Next]_vars, NEW q \in Proc
    PROVE  /\ pc[q] = "writing" => \/ pc'[q] = "writing" /\ token'[q] = token[q]
                                   \/ pc'[q] = "dead"
                                   \/ FinishWrite(q)
           /\ pc'[q] = "writing" => \/ /\ pc[q] = "writing"
                                       /\ token'[q] = token[q] /\ call'[q] = call[q]
                                    \/ /\ pc[q] \in {"create", "recreate"} /\ ExclusiveCreate(q)
                                       /\ UNCHANGED <<call, token>>
<1> DEFINE Kept == /\ pc[q] = "writing" => \/ pc'[q] = "writing" /\ token'[q] = token[q]
                                           \/ pc'[q] = "dead"
                                           \/ FinishWrite(q)
                   /\ pc'[q] = "writing" => \/ /\ pc[q] = "writing"
                                               /\ token'[q] = token[q] /\ call'[q] = call[q]
                                            \/ /\ pc[q] \in {"create", "recreate"} /\ ExclusiveCreate(q)
                                               /\ UNCHANGED <<call, token>>
<1> SUFFICES Kept
  OBVIOUS
<1>0. /\ pc \in [Proc -> Labels] /\ call \in [Proc -> Calls]
      /\ token \in [Proc -> Token \cup {NoToken}]
      /\ \A p \in Proc : call[p].op \in OpsAt(p)
      /\ \A p \in Proc : call[p].next \in {"idle", "holding", "fenced", "lost"}
  BY DEF Control, TypeOK, Calls, CallsAreCoherent
<1> USE <1>0 DEF Goto
<1>1. ASSUME NEW p \in Proc, Start(p) \/ BeginAcquire(p) PROVE Kept
  BY <1>1 DEF Start, Born, BeginAcquire, Begin
<1>2. ASSUME NEW p \in Proc, Crash(p) \/ FinishInherited(p) PROVE Kept
  BY <1>2 DEF Crash, FinishInherited, End
<1>3. ASSUME NEW p \in Proc, Create(p) PROVE Kept
  BY <1>3 DEF Create, ExclusiveCreate
<1>4. ASSUME NEW p \in Proc, FinishWrite(p) PROVE Kept
  BY <1>4 DEF FinishWrite, LeaveWith
<1>5. ASSUME NEW p \in Proc, Inspect(p) \/ Inherit(p) PROVE Kept
  BY <1>5 DEF Inspect, Inherit, End
<1>6. ASSUME NEW p \in Proc, EnterGuard(p) \/ GuardContended(p) \/ LeaveGuard(p) PROVE Kept
  BY <1>6 DEF EnterGuard, GuardContended, LeaveGuard, End, Defeat
<1>7. ASSUME NEW p \in Proc, InspectInside(p) \/ Verify(p) PROVE Kept
  BY <1>7 DEF InspectInside, Verify, LeaveWith
<1>8. ASSUME NEW p \in Proc, Mutate(p) PROVE Kept
  BY <1>8 DEF Mutate, Unlink, Rewrite, Remove, LeaveWith
<1>9. ASSUME NEW p \in Proc, Recreate(p) PROVE Kept
  BY <1>9 DEF Recreate, ExclusiveCreate, LeaveWith
<1>10. ASSUME NEW p \in Proc, BeginRenew(p) \/ BeginRelease(p) PROVE Kept
  BY <1>10 DEF BeginRenew, BeginRelease, Begin
<1>11. ASSUME NEW p \in Proc, Fence(p) PROVE Kept
  BY <1>11 DEF Fence, OpsAt
<1>12. ASSUME NEW p \in Proc, NEW c \in Proc, Spawn(p, c) PROVE Kept
  BY <1>12 DEF Spawn, Born, Begin
<1>13. CASE Tick \/ GuardAges \/ UNCHANGED vars
  BY <1>13 DEF Tick, GuardAges, vars
<1> QED BY StepCases, <1>1, <1>2, <1>3, <1>4, <1>5, <1>6, <1>7, <1>8, <1>9,
          <1>10, <1>11, <1>12, <1>13

\* The four ways the lease file changes.
LEMMA LeaseSteps ==
    ASSUME [Next]_vars
    PROVE  \/ UNCHANGED lease
           \/ \E p \in Proc : /\ pc[p] \in {"create", "recreate"}
                              /\ ExclusiveCreate(p)
                              /\ UNCHANGED <<clock, call, token, deadline, exposures>>
           \/ \E p \in Proc : /\ FinishWrite(p)
                              /\ lease = HalfWritten(p, token[p])
                              /\ lease' = OwnPayload(p)
           \/ \E p \in Proc : Mutate(p)
<1> DEFINE Cases == \/ UNCHANGED lease
                    \/ \E p \in Proc : /\ pc[p] \in {"create", "recreate"}
                                       /\ ExclusiveCreate(p)
                                       /\ UNCHANGED <<clock, call, token, deadline, exposures>>
                    \/ \E p \in Proc : /\ FinishWrite(p)
                                       /\ lease = HalfWritten(p, token[p])
                                       /\ lease' = OwnPayload(p)
                    \/ \E p \in Proc : Mutate(p)
<1>1. ASSUME NEW p \in Proc, Start(p) \/ Crash(p) \/ BeginAcquire(p) \/ Inspect(p) PROVE Cases
  BY <1>1 DEF Start, Crash, BeginAcquire, Inspect
<1>2. ASSUME NEW p \in Proc, Create(p) \/ Recreate(p) PROVE Cases
  BY <1>2 DEF Create, Recreate
<1>3. ASSUME NEW p \in Proc, FinishWrite(p) PROVE Cases
  BY <1>3 DEF FinishWrite
<1>4. ASSUME NEW p \in Proc,
             EnterGuard(p) \/ GuardContended(p) \/ LeaveGuard(p) \/ InspectInside(p) \/ Verify(p)
      PROVE Cases
  BY <1>4 DEF EnterGuard, GuardContended, LeaveGuard, InspectInside, Verify
<1>5. ASSUME NEW p \in Proc,
             BeginRenew(p) \/ BeginRelease(p) \/ Fence(p) \/ Inherit(p) \/ FinishInherited(p)
      PROVE Cases
  BY <1>5 DEF BeginRenew, BeginRelease, Fence, Inherit, FinishInherited
<1>6. ASSUME NEW p \in Proc, NEW c \in Proc, Spawn(p, c) PROVE Cases
  BY <1>6 DEF Spawn
<1>7. CASE Tick \/ GuardAges \/ UNCHANGED vars
  BY <1>7 DEF Tick, GuardAges, vars
<1> QED BY StepCases, <1>1, <1>2, <1>3, <1>4, <1>5, <1>6, <1>7

-----------------------------------------------------------------------------
(***************************************************************************)
(* Layer 2: processes, their parents and their tokens                      *)
(***************************************************************************)

\* A container is recreated only when nothing in it is alive, so the live
\* processes share the latest boot; and a pid names one live process.
BootsAgree == \A p, q \in Proc : Alive(p) => bootId[q] <= bootId[p]

PidsDiffer == \A p, q \in Proc : (Alive(p) /\ Alive(q) /\ p # q) => pid[p] # pid[q]

WritersWereBorn == lease # Missing => pc[lease.by] # "unborn"

\* While its child runs, a parent holds or is dead; an inheriting child has
\* the token its parent holds.
ChildrenOfHolders ==
    \A c \in Proc :
        /\ pc[c] = "unborn" => parent[c] = NoProc
        /\ Inheriting(c) => parent[c] \in Proc
        /\ Alive(c) /\ parent[c] \in Proc => Holds(parent[c]) \/ pc[parent[c]] = "dead"
        /\ Inheriting(c) /\ Holds(parent[c]) => token[c] = token[parent[c]]

\* Only an inheriting child shares a token, and only with its parent.
TokensDiffer ==
    \A p, q \in Proc :
        (p # q /\ token[p] # NoToken /\ token[p] = token[q])
        => \/ Inheriting(p) /\ parent[p] = q
           \/ Inheriting(q) /\ parent[q] = p

\* Whoever goes by the token in the lease has written it or inherits.
LeaseNamesItsOwner ==
    lease # Missing => \A q \in Proc : token[q] = lease.token => lease.by = q \/ Inheriting(q)

\* A malformed lease is being written, or its writer died writing it.
MalformedIsUnfinished ==
    (lease.kind = "malformed" /\ Alive(lease.by))
    => pc[lease.by] = "writing" /\ token[lease.by] = lease.token

Population == BootsAgree /\ PidsDiffer /\ WritersWereBorn

Family == ChildrenOfHolders /\ TokensDiffer /\ LeaseNamesItsOwner /\ MalformedIsUnfinished

LEMMA PopulationStep == Control /\ Population /\ [Next]_vars => Population'
<1> SUFFICES ASSUME Control, Population, [Next]_vars PROVE Population'
  OBVIOUS
<1>0. /\ pc \in [Proc -> Labels]
      /\ bootId \in [Proc -> 0 .. MaxBoot] /\ pid \in [Proc -> Pid \cup {NoPid}]
  BY DEF Control, TypeOK
<1>b. \A p \in Proc : bootId[p] \in Nat
  BY <1>0, LeaseAssumption
<1>1. BootsAgree' /\ PidsDiffer'
  <2> USE <1>0, <1>b DEF Population, BootsAgree, PidsDiffer
  <2>1. ASSUME NEW p \in Proc, Start(p) PROVE BootsAgree' /\ PidsDiffer'
    <3>1. PICK b \in 0 .. MaxBoot :
             /\ \A q \in Proc : bootId[q] <= b
             /\ \/ \E q \in Proc : bootId[q] = b
                \/ \A q \in Proc : ~Alive(q)
             /\ bootId' = [bootId EXCEPT ![p] = b]
      BY <2>1 DEF Start
    <3>2. pc' = [pc EXCEPT ![p] = "idle"]
      BY <2>1 DEF Start, Goto
    <3>3. PICK n \in Pid \ LivePids : pid' = [pid EXCEPT ![p] = n]
      BY <2>1 DEF Start, Born
    <3>4. BootsAgree'
      <4>1. ASSUME NEW q \in Proc, NEW r \in Proc, Alive(q)' PROVE bootId'[r] <= bootId'[q]
        <5>1. q = p \/ (Alive(q) /\ bootId'[q] = bootId[q])
          BY <3>1, <3>2, <4>1 DEF Alive
        <5>2. CASE q = p
          BY <3>1, <5>2, LeaseAssumption
        <5>3. CASE q # p
          <6>1. bootId[q] = b
            BY <3>1, <5>1, <5>3, LeaseAssumption
          <6> QED BY <3>1, <5>1, <5>3, <6>1, LeaseAssumption
        <5> QED BY <5>2, <5>3
      <4> QED BY <4>1
    <3>5. PidsDiffer'
      BY <3>2, <3>3 DEF Alive, LivePids
    <3> QED BY <3>4, <3>5
  <2>2. ASSUME NEW p \in Proc, NEW c \in Proc, Spawn(p, c) PROVE BootsAgree' /\ PidsDiffer'
    <3>1. /\ pc[p] = "holding" /\ pc[c] = "unborn"
          /\ pc' = [pc EXCEPT ![c] = "inherit"]
          /\ bootId' = [bootId EXCEPT ![c] = bootId[p]]
      BY <2>2 DEF Spawn, Born, Begin, Goto
    <3>2. PICK n \in Pid \ LivePids : pid' = [pid EXCEPT ![c] = n]
      BY <2>2 DEF Spawn, Born
    <3>3. BootsAgree'
      BY <3>1 DEF Alive
    <3>4. PidsDiffer'
      BY <3>1, <3>2 DEF Alive, LivePids
    <3> QED BY <3>3, <3>4
  <2>3. CASE UNCHANGED identity /\ \A p \in Proc : Alive(p)' => Alive(p)
    BY <2>3 DEF identity
  <2>4. CASE UNCHANGED identity
    <3>1. CASE \E p \in Proc : Start(p)
      BY <2>1, <3>1
    <3>2. CASE \E p, c \in Proc : Spawn(p, c)
      BY <2>2, <3>2
    <3>3. CASE \A p \in Proc : ~Start(p) /\ \A c \in Proc : ~Spawn(p, c)
      <4>1. \A p \in Proc : Alive(p)' => Alive(p)
        BY <3>3, LifeSteps
      <4> QED BY <2>3, <2>4, <4>1
    <3> QED BY <3>1, <3>2, <3>3
  <2> QED BY <2>1, <2>2, <2>4, IdentitySteps
<1>2. WritersWereBorn'
  <2>1. ASSUME NEW p \in Proc, lease'.by = p, pc[p] # "unborn" PROVE WritersWereBorn'
    BY <2>1, LifeSteps DEF WritersWereBorn
  <2>2. CASE UNCHANGED lease
    <3>1. lease # Missing => lease.by \in Proc /\ pc[lease.by] # "unborn"
      BY LeaseShapes DEF Control, Population, WritersWereBorn
    <3> QED BY <2>2, <3>1, LifeSteps DEF WritersWereBorn
  <2>3. ASSUME NEW p \in Proc, pc[p] \in {"create", "recreate"}, ExclusiveCreate(p) PROVE WritersWereBorn'
    BY <2>1, <2>3 DEF ExclusiveCreate, HalfWritten, OwnPayload, Payload
  <2>4. ASSUME NEW p \in Proc, FinishWrite(p), lease' = OwnPayload(p) PROVE WritersWereBorn'
    BY <2>1, <2>4 DEF FinishWrite, OwnPayload, Payload
  <2>5. ASSUME NEW p \in Proc, Mutate(p) PROVE WritersWereBorn'
    <3>1. pc[p] = "mutate" BY <2>5 DEF Mutate
    <3>2. CASE lease' = Missing
      BY <3>2 DEF WritersWereBorn, Missing
    <3>3. CASE lease' = OwnPayload(p)
      BY <2>1, <3>1, <3>3 DEF OwnPayload, Payload
    <3> QED BY <2>5, <3>2, <3>3 DEF Mutate, Unlink, Rewrite, Remove
  <2> QED BY <2>2, <2>3, <2>4, <2>5, LeaseSteps
<1> QED BY <1>1, <1>2 DEF Population

LEMMA ParentSteps ==
    ASSUME Control, [Next]_vars, NEW c \in Proc
    PROVE  \/ parent'[c] = parent[c]
           \/ \E p \in Proc : Spawn(p, c) /\ parent'[c] = p
<1>0. parent \in [Proc -> Proc \cup {NoProc}]
  BY DEF Control, TypeOK
<1>1. ASSUME NEW p \in Proc, Start(p) PROVE parent'[c] = parent[c]
  BY <1>1 DEF Start
<1>2. ASSUME NEW p \in Proc, NEW d \in Proc, Spawn(p, d)
      PROVE  parent'[c] = parent[c] \/ (d = c /\ parent'[c] = p)
  BY <1>0, <1>2 DEF Spawn
<1>3. CASE UNCHANGED identity
  BY <1>3 DEF identity
<1> QED BY <1>1, <1>2, <1>3, IdentitySteps

\* A holder that does not die keeps holding while it has a child.
LEMMA ParentsHold ==
    ASSUME Control, [Next]_vars, NEW p \in Proc, NEW c \in Proc,
           parent[c] = p, Alive(c), Holds(p)
    PROVE  (Holds(p)' /\ token'[p] = token[p]) \/ pc'[p] = "dead"
<1>1. c \in Children(p)
  BY DEF Children
<1>2. ~BeginRelease(p)
  BY <1>1 DEF BeginRelease
<1> QED BY <1>2, HolderSteps

LEMMA ChildrenStep ==
    Control /\ Population /\ Family /\ [Next]_vars => ChildrenOfHolders'
<1> SUFFICES ASSUME Control, Population, Family, [Next]_vars, NEW c \in Proc
             PROVE  /\ pc'[c] = "unborn" => parent'[c] = NoProc
                    /\ Inheriting(c)' => parent'[c] \in Proc
                    /\ Alive(c)' /\ parent'[c] \in Proc
                         => Holds(parent[c])' \/ pc'[parent'[c]] = "dead"
                    /\ Inheriting(c)' /\ Holds(parent[c])' => token'[c] = token'[parent'[c]]
  BY DEF ChildrenOfHolders
<1>0. /\ pc[c] = "unborn" => parent[c] = NoProc
      /\ Inheriting(c) => parent[c] \in Proc
      /\ Alive(c) /\ parent[c] \in Proc => Holds(parent[c]) \/ pc[parent[c]] = "dead"
      /\ Inheriting(c) /\ Holds(parent[c]) => token[c] = token[parent[c]]
  BY DEF Family, ChildrenOfHolders
<1>c. Control'
  BY ControlStep
<1>1. ASSUME NEW p \in Proc, Spawn(p, c)
      PROVE  /\ pc'[c] = "inherit" /\ parent'[c] = p
             /\ pc'[p] = "holding" /\ token'[c] = token'[p]
  <2>1. pc[p] = "holding" /\ pc[c] = "unborn"
    BY <1>1 DEF Spawn, Born
  <2>2. /\ pc \in [Proc -> Labels] /\ token \in [Proc -> Token \cup {NoToken}]
        /\ parent \in [Proc -> Proc \cup {NoProc}]
    BY DEF Control, TypeOK
  <2> QED BY <1>1, <2>1, <2>2 DEF Spawn, Begin, Goto
<1>2. CASE \E p \in Proc : Spawn(p, c)
  BY <1>1, <1>2 DEF Holds, Inheriting
<1>3. CASE ~\E p \in Proc : Spawn(p, c)
  <2>0. parent'[c] = parent[c]
    BY <1>3, ParentSteps
  <2>1. pc'[c] = "unborn" => parent'[c] = NoProc
    BY <1>0, <2>0, LifeSteps
  <2>2. Inheriting(c)' => Inheriting(c) /\ token'[c] = token[c]
    BY <1>3, InheritingSteps
  <2>3. ASSUME parent[c] \in Proc, Alive(c)' PROVE Alive(c)
    <3>1. pc[c] # "unborn"
      BY <1>0, <2>3, LeaseAssumption
    <3> QED BY <1>3, <2>3, <3>1, LifeSteps DEF Start, Born
  <2>4. ASSUME Alive(c)', parent'[c] \in Proc
        PROVE  Holds(parent[c])' \/ pc'[parent'[c]] = "dead"
    <3>1. Alive(c) /\ parent[c] \in Proc
      BY <2>0, <2>3, <2>4
    <3>2. CASE Holds(parent[c])
      BY <2>0, <3>1, <3>2, ParentsHold
    <3>3. CASE pc[parent[c]] = "dead"
      BY <2>0, <3>1, <3>3, LifeSteps
    <3> QED BY <1>0, <3>1, <3>2, <3>3
  <2>5. ASSUME Inheriting(c)', Holds(parent[c])'
        PROVE  token'[c] = token'[parent'[c]]
    <3>1. /\ Inheriting(c) /\ token'[c] = token[c]
          /\ parent[c] \in Proc /\ Alive(c)
      BY <1>0, <2>2, <2>5 DEF Inheriting, Alive
    <3>2. Holds(parent[c])
      <4>1. ~FinishWrite(parent[c])
        <5>1. ~(pc[parent[c]] = "writing")
          BY <1>0, <3>1 DEF Holds, Control, CallsAreCoherent, OpsAt
        <5> QED BY <5>1 DEF FinishWrite
      <4> QED BY <2>0, <2>5, <3>1, <4>1, HolderSteps
    <3>3. pc'[parent[c]] # "dead"
      BY <1>c, <2>0, <2>5, <3>1 DEF Holds, Control, CallsAreCoherent, OpsAt
    <3> QED BY <1>0, <2>0, <3>1, <3>2, <3>3, ParentsHold
  <2> QED BY <1>0, <2>0, <2>1, <2>2, <2>4, <2>5
<1> QED BY <1>2, <1>3

LEMMA TokensStep ==
    Control /\ Population /\ Family /\ [Next]_vars => TokensDiffer'
<1> SUFFICES ASSUME Control, Population, Family, [Next]_vars,
                    NEW p \in Proc, NEW q \in Proc,
                    p # q, token'[p] # NoToken, token'[p] = token'[q]
             PROVE  \/ Inheriting(p)' /\ parent'[p] = q
                    \/ Inheriting(q)' /\ parent'[q] = p
  BY DEF TokensDiffer
<1>t. /\ token \in [Proc -> Token \cup {NoToken}]
      /\ parent \in [Proc -> Proc \cup {NoProc}] /\ pc \in [Proc -> Labels]
  BY DEF Control, TypeOK
\* A token that is new for one of them is not the other's, unless it was
\* handed from parent to child.
<1>1. ASSUME NEW r \in Proc, BeginAcquire(r), NEW o \in Proc, o # r
      PROVE  token'[o] # token'[r]
  <2>1. PICK t \in Token : Unremembered(t) /\ token' = [token EXCEPT ![r] = t]
    BY <1>1 DEF BeginAcquire
  <2> QED BY <1>1, <1>t, <2>1 DEF Unremembered
<1>2. ASSUME NEW r \in Proc, NEW parentOf \in Proc, Spawn(parentOf, r),
             NEW o \in Proc, o # r, token'[o] = token'[r], token'[r] # NoToken
      PROVE  Inheriting(r)' /\ parent'[r] = o
  <2>1. /\ pc[parentOf] = "holding" /\ pc[r] = "unborn"
        /\ pc' = [pc EXCEPT ![r] = "inherit"]
        /\ token' = [token EXCEPT ![r] = token[parentOf]]
        /\ parent' = [parent EXCEPT ![r] = parentOf]
        /\ Children(parentOf) = {}
    BY <1>2 DEF Spawn, Born, Begin, Goto
  <2>2. token[o] = token[parentOf] /\ token[o] # NoToken
    BY <1>2, <1>t, <2>1
  <2>3. o = parentOf
    <3>1. CASE Inheriting(o) /\ parent[o] = parentOf
      <4>1. o \in Children(parentOf)
        BY <3>1 DEF Children, Inheriting, Alive
      <4> QED BY <2>1, <4>1
    <3>2. CASE Inheriting(parentOf)
      BY <2>1, <3>2 DEF Inheriting
    <3> QED BY <2>2, <3>1, <3>2 DEF Family, TokensDiffer
  <2> QED BY <1>t, <2>1, <2>3 DEF Inheriting
<1>3. ASSUME NEW r \in Proc, Inheriting(r), token'[r] # NoToken
      PROVE  Inheriting(r)' /\ parent'[r] = parent[r]
  <2>1. ~\E o \in Proc : Spawn(o, r)
    BY <1>3 DEF Spawn, Born, Inheriting
  <2> QED BY <1>3, <2>1, InheritingEnds, ParentSteps
<1>4. CASE token'[p] = token[p] /\ token'[q] = token[q]
  BY <1>3, <1>4 DEF Family, TokensDiffer
<1>5. CASE token'[p] # token[p]
  BY <1>1, <1>2, <1>5, TokenSteps
<1>6. CASE token'[q] # token[q]
  BY <1>1, <1>2, <1>6, TokenSteps
<1> QED BY <1>4, <1>5, <1>6

LEMMA OwnerNameStep ==
    Control /\ Population /\ Family /\ [Next]_vars => LeaseNamesItsOwner'
<1> SUFFICES ASSUME Control, Population, Family, [Next]_vars,
                    lease' # Missing, NEW q \in Proc, token'[q] = lease'.token
             PROVE  lease'.by = q \/ Inheriting(q)'
  BY DEF LeaseNamesItsOwner
<1>t. TypeOK' /\ LeaseNamesItsOwner
  BY ControlStep DEF Control, Family
<1>n. token'[q] \in Token
  <2>1. lease' \in LeaseFiles
    BY <1>t DEF TypeOK
  <2> QED BY <2>1, LeaseFileShapes
\* A lease that p writes now carries p's own token.
<1>1. ASSUME NEW p \in Proc, lease'.by = p, lease'.token = token[p], UNCHANGED token,
             pc[p] \in {"create", "recreate", "writing", "mutate"}
      PROVE  lease'.by = q \/ Inheriting(q)'
  <2>1. token[p] # NoToken /\ ~Inheriting(p)
    BY <1>1 DEF Inheriting, Control, TokenKept
  <2>2. CASE Inheriting(q)
    BY <1>n, <2>2, InheritingEnds, LeaseAssumption
  <2>3. CASE ~Inheriting(q)
    BY <1>1, <2>1, <2>3 DEF Family, TokensDiffer
  <2> QED BY <2>2, <2>3
<1>2. CASE UNCHANGED lease
  <2>1. CASE token'[q] = token[q]
    <3>1. lease.by = q \/ Inheriting(q)
      BY <1>2, <1>t, <2>1 DEF LeaseNamesItsOwner
    <3> QED BY <1>2, <1>n, <3>1, InheritingEnds, LeaseAssumption
  <2>2. CASE BeginAcquire(q)
    <3>1. PICK t \in Token : Unremembered(t) /\ token' = [token EXCEPT ![q] = t]
      BY <2>2 DEF BeginAcquire
    <3>2. lease.kind # "missing"
      BY <1>2, LeaseShapes DEF Control
    <3> QED BY <1>2, <3>1, <3>2 DEF Unremembered, Control, TypeOK
  <2>3. CASE \E p \in Proc : Spawn(p, q)
    BY <2>3 DEF Spawn, Begin, Goto, Inheriting, Control, TypeOK
  <2> QED BY <1>n, <2>1, <2>2, <2>3, TokenSteps, LeaseAssumption
<1>3. ASSUME NEW p \in Proc, pc[p] \in {"create", "recreate"}, ExclusiveCreate(p), UNCHANGED token
      PROVE  lease'.by = q \/ Inheriting(q)'
  <2>1. lease'.by = p /\ lease'.token = token[p]
    BY <1>3 DEF ExclusiveCreate, HalfWritten, OwnPayload, Payload
  <2> QED BY <1>1, <1>3, <2>1
<1>4. ASSUME NEW p \in Proc, FinishWrite(p), lease' = OwnPayload(p)
      PROVE  lease'.by = q \/ Inheriting(q)'
  BY <1>1, <1>4 DEF FinishWrite, OwnPayload, Payload
<1>5. ASSUME NEW p \in Proc, Mutate(p)
      PROVE  lease'.by = q \/ Inheriting(q)'
  <2>1. pc[p] = "mutate" /\ UNCHANGED token
    BY <1>5 DEF Mutate
  <2>2. lease' = OwnPayload(p)
    BY <1>5 DEF Mutate, Unlink, Rewrite, Remove
  <2>3. lease'.by = p /\ lease'.token = token[p]
    BY <2>2 DEF OwnPayload, Payload
  <2> QED BY <1>1, <2>1, <2>3
<1> QED BY <1>2, <1>3, <1>4, <1>5, LeaseSteps

LEMMA MalformedStep ==
    Control /\ Population /\ Family /\ [Next]_vars => MalformedIsUnfinished'
<1> SUFFICES ASSUME Control, Population, Family, [Next]_vars,
                    lease'.kind = "malformed", Alive(lease.by)'
             PROVE  pc'[lease'.by] = "writing" /\ token'[lease'.by] = lease'.token
  BY DEF MalformedIsUnfinished
<1>1. CASE UNCHANGED lease
  <2> DEFINE w == lease.by
  <2>1. /\ w \in Proc /\ lease # Missing
        /\ lease = HalfWritten(w, lease.token)
    BY <1>1, LeaseShapes DEF Control
  <2>2. pc[w] # "unborn"
    BY <2>1 DEF Population, WritersWereBorn
  <2>3. Alive(w)
    BY <1>1, <2>1, <2>2, LifeSteps DEF Start, Spawn, Born
  <2>4. pc[w] = "writing" /\ token[w] = lease.token
    BY <1>1, <2>3 DEF Family, MalformedIsUnfinished
  <2>5. ~FinishWrite(w)
    BY <1>1, <2>1, <2>4 DEF FinishWrite, OwnPayload, Payload
  <2> QED BY <1>1, <2>1, <2>4, <2>5, WritingSteps DEF Alive
<1>2. ASSUME NEW p \in Proc, ExclusiveCreate(p), UNCHANGED token
      PROVE  pc'[lease'.by] = "writing" /\ token'[lease'.by] = lease'.token
  <2>1. lease' = HalfWritten(p, token[p])
    BY <1>2 DEF ExclusiveCreate, OwnPayload, Payload
  <2>2. lease'.by = p /\ lease'.token = token[p]
    BY <2>1 DEF HalfWritten
  <2>3. pc \in [Proc -> Labels] /\ pc' = [pc EXCEPT ![p] = "writing"]
    BY <1>2 DEF ExclusiveCreate, Goto, Control, TypeOK
  <2> QED BY <1>2, <2>2, <2>3
<1>3. ASSUME NEW p \in Proc, FinishWrite(p), lease' = OwnPayload(p) PROVE FALSE
  BY <1>3 DEF OwnPayload, Payload
<1>4. ASSUME NEW p \in Proc, Mutate(p) PROVE FALSE
  <2>1. lease' = Missing \/ lease' = OwnPayload(p)
    BY <1>4 DEF Mutate, Unlink, Rewrite, Remove
  <2> QED BY <2>1 DEF OwnPayload, Payload, Missing
<1> QED BY <1>1, <1>2, <1>3, <1>4, LeaseSteps

\* The first two layers, with what makes tokens and boots identify a process.
Identified == Control /\ Population /\ Family

LEMMA IdentifiedInit == Init => Identified
<1> SUFFICES ASSUME Init PROVE Identified
  OBVIOUS
<1>1. Control
  BY ControlInit
<1>2. Population
  BY DEF Init, Population, BootsAgree, PidsDiffer, WritersWereBorn, Alive
<1>3. ChildrenOfHolders /\ TokensDiffer
  BY DEF Init, ChildrenOfHolders, TokensDiffer, Inheriting, Alive
<1>4. LeaseNamesItsOwner /\ MalformedIsUnfinished
  BY DEF Init, LeaseNamesItsOwner, MalformedIsUnfinished, Missing
<1> QED BY <1>1, <1>2, <1>3, <1>4 DEF Identified, Family

LEMMA IdentifiedStep == Identified /\ [Next]_vars => Identified'
BY ControlStep, PopulationStep, ChildrenStep, TokensStep, OwnerNameStep, MalformedStep
   DEF Identified, Family

-----------------------------------------------------------------------------
(***************************************************************************)
(* Layer 3: deadlines, the guarded section and the lease in the file       *)
(***************************************************************************)

\* A holder knows the deadline of its lease, which is at most one period
\* after the clock reading it was made from.
DeadlinesMatch ==
    /\ \A p \in Proc : call[p].op = "renew" => deadline[p] <= call[p].now + StaleAfter
    /\ \A p \in Proc : Holds(p) => deadline[p] <= clock + StaleAfter
    /\ lease.kind = "lease" => \A p \in Proc : lease.token = token[p] =>
           /\ pc[p] = "writing" => lease = OwnPayload(p)
           /\ Holds(p) => lease.expiresAt = deadline[p]

\* A child stops no later than its parent's lease ends.
InheritedDeadline ==
    \A c \in Proc : pc[c] = "inherited" /\ Holds(parent[c]) => deadline[c] <= deadline[parent[c]]

\* Time passes and exposures stay on record.
LEMMA TimeSteps ==
    ASSUME Control, [Next]_vars
    PROVE  /\ clock \in Nat /\ clock' \in Nat /\ clock <= clock'
           /\ Tick \/ clock' = clock
           /\ exposures' = {} => exposures = {}
<1> DEFINE Kept == (Tick \/ clock' = clock) /\ (exposures' = {} => exposures = {})
<1>1. ASSUME NEW p \in Proc,
             Start(p) \/ Crash(p) \/ BeginAcquire(p) \/ Create(p) \/ FinishWrite(p) \/ Inspect(p)
      PROVE Kept
  BY <1>1 DEF Start, Crash, BeginAcquire, Create, FinishWrite, Inspect
<1>2. ASSUME NEW p \in Proc,
             EnterGuard(p) \/ GuardContended(p) \/ LeaveGuard(p) \/ Verify(p) \/ Recreate(p)
      PROVE Kept
  BY <1>2 DEF EnterGuard, GuardContended, LeaveGuard, Verify, Recreate
<1>3. ASSUME NEW p \in Proc, InspectInside(p) \/ Mutate(p) PROVE Kept
  BY <1>3 DEF InspectInside, Mutate
<1>4. ASSUME NEW p \in Proc,
             BeginRenew(p) \/ BeginRelease(p) \/ Fence(p) \/ Inherit(p) \/ FinishInherited(p)
      PROVE Kept
  BY <1>4 DEF BeginRenew, BeginRelease, Fence, Inherit, FinishInherited
<1>5. ASSUME NEW p \in Proc, NEW c \in Proc, Spawn(p, c) PROVE Kept
  BY <1>5 DEF Spawn
<1>6. ASSUME Tick \/ GuardAges \/ UNCHANGED vars PROVE Kept
  BY <1>6 DEF Tick, GuardAges, vars
<1>7. Kept
  BY StepCases, <1>1, <1>2, <1>3, <1>4, <1>5, <1>6
<1>8. clock \in 0 .. MaxClock
  BY DEF Control, TypeOK
<1>9. clock \in Nat
  BY <1>8, LeaseAssumption
<1> QED BY <1>7, <1>9 DEF Tick

\* A renewal keeps the clock reading it began with.
LEMMA RenewSteps ==
    ASSUME Control, [Next]_vars, NEW q \in Proc, call'[q].op = "renew"
    PROVE  \/ call[q].op = "renew" /\ call'[q].now = call[q].now
           \/ /\ pc[q] \in {"holding", "fenced"}
              /\ call'[q].now = clock /\ UNCHANGED <<clock, deadline>>
<1> DEFINE Kept == \/ call'[q].op # "renew"
                   \/ call[q].op = "renew" /\ call'[q].now = call[q].now
                   \/ /\ pc[q] \in {"holding", "fenced"}
                      /\ call'[q].now = clock /\ UNCHANGED <<clock, deadline>>
<1> SUFFICES Kept
  OBVIOUS
<1>0. call \in [Proc -> Calls]
  BY DEF Control, TypeOK
<1> USE <1>0 DEF Calls
<1>1. ASSUME NEW p \in Proc, BeginRenew(p) PROVE Kept
  BY <1>1 DEF BeginRenew, Begin
<1>2. ASSUME NEW p \in Proc, NEW label \in Labels, End(p, label) \/ LeaveWith(p, label) PROVE Kept
  BY <1>2 DEF End, LeaveWith, NoCall
<1>3. ASSUME NEW p \in Proc, BeginAcquire(p) \/ BeginRelease(p) PROVE Kept
  BY <1>3 DEF BeginAcquire, BeginRelease, Begin
<1>4. ASSUME NEW p \in Proc, NEW c \in Proc, Spawn(p, c) PROVE Kept
  BY <1>4 DEF Spawn, Begin
<1>5. ASSUME NEW p \in Proc,
             Crash(p) \/ FinishInherited(p) \/ LeaveGuard(p) \/ GuardContended(p)
      PROVE Kept
  <2>1. call[p].next \in Labels /\ "dead" \in Labels /\ Defeat(p) \in Labels
    BY DEF Labels, Defeat
  <2> QED BY <1>2, <1>5, <2>1 DEF Crash, FinishInherited, LeaveGuard, GuardContended
<1>6. ASSUME NEW p \in Proc, Start(p) \/ Create(p) \/ EnterGuard(p) PROVE Kept
  BY <1>6 DEF Start, Create, EnterGuard
<1>7. ASSUME NEW p \in Proc, FinishWrite(p) PROVE Kept
  BY <1>7 DEF FinishWrite, LeaveWith, NoCall
<1>8. ASSUME NEW p \in Proc, Inspect(p) \/ Inherit(p) PROVE Kept
  BY <1>8 DEF Inspect, Inherit, End, NoCall
<1>9. ASSUME NEW p \in Proc, NEW label, LeaveWith(p, label) \/ UNCHANGED call PROVE Kept
  BY <1>9 DEF LeaveWith
<1>10. ASSUME NEW p \in Proc, InspectInside(p) \/ Verify(p) \/ Mutate(p) \/ Recreate(p) PROVE Kept
  BY <1>9, <1>10 DEF InspectInside, Verify, Recreate, Mutate, Unlink, Rewrite, Remove
<1>11. ASSUME NEW p \in Proc, Fence(p) PROVE Kept
  BY <1>11 DEF Fence
<1>12. CASE Tick \/ GuardAges \/ UNCHANGED vars
  BY <1>12 DEF Tick, GuardAges, vars
<1> QED BY StepCases, <1>1, <1>3, <1>4, <1>5, <1>6, <1>7, <1>8, <1>9, <1>10, <1>11, <1>12

\* Where a holder, a writer and an heir are in their calls.
Placed(p) ==
    /\ Holds(p) => Alive(p) /\ pc[p] \notin {"create", "recreate", "writing", "inherit", "inherited"}
    /\ Holds(p) /\ call[p].op # "renew" => pc[p] \in {"holding", "fenced", "lost", "leave"}
    /\ Inheriting(p) => ~Holds(p) /\ pc[p] # "writing" /\ pc[p] # "mutate"
    /\ Working(p) => Holds(p) \/ pc[p] = "inherited"
    /\ call[p].now \in Nat /\ call[p].now <= clock /\ deadline[p] \in Nat

LEMMA Places == Control => \A p \in Proc : Placed(p)
<1> SUFFICES ASSUME Control, NEW p \in Proc PROVE Placed(p)
  OBVIOUS
<1>1. call[p].op \in OpsAt(p) /\ call[p].now <= clock
  BY DEF Control, CallsAreCoherent
<1>2. (call[p].op # "renew" /\ call[p].next # "idle") => pc[p] = "leave"
  BY DEF Control, CallsAreCoherent
<1>3. call[p] \in Calls /\ deadline[p] \in 0 .. MaxClock + StaleAfter
  BY DEF Control, TypeOK
<1>4. call[p].now \in Nat /\ deadline[p] \in Nat
  BY <1>3, LeaseAssumption DEF Calls
<1> QED BY <1>1, <1>2, <1>4 DEF Placed, Holds, Alive, Inheriting, Working, OpsAt

LEMMA PlacesNext == Control' => (\A p \in Proc : Placed(p))'
BY Places, PTL

LEMMA DeadlinesStep ==
    Identified /\ DeadlinesMatch /\ [Next]_vars => DeadlinesMatch'
<1> SUFFICES ASSUME Identified, DeadlinesMatch, [Next]_vars PROVE DeadlinesMatch'
  OBVIOUS
<1>0. Identified' /\ Control /\ Control'
  BY IdentifiedStep DEF Identified
<1>s. StaleAfter \in Nat
  BY LeaseAssumption
<1> USE <1>0, <1>s
\* The deadline a successful write and a successful rewrite leave.
<1>1. ASSUME NEW p \in Proc, FinishWrite(p)
      PROVE  deadline'[p] = call[p].now + StaleAfter /\ pc[p] = "writing" /\ pc'[p] # "writing"
  BY <1>1 DEF FinishWrite, Control, TypeOK, LeaveWith, Goto
<1>2. ASSUME NEW p \in Proc, Mutate(p), Rewrite(p)
      PROVE  /\ deadline'[p] = call[p].now + StaleAfter
             /\ lease' = OwnPayload(p) /\ UNCHANGED token
             /\ call[p].op = "renew" /\ pc'[p] = "leave"
  BY <1>2 DEF Mutate, Rewrite, Control, TypeOK, LeaveWith, Goto
<1>3. ASSUME NEW p \in Proc, Holds(p)' PROVE deadline'[p] <= clock' + StaleAfter
  <2>1. CASE Holds(p) /\ deadline'[p] = deadline[p]
    BY <2>1, TimeSteps, Places DEF DeadlinesMatch, Placed
  <2>2. CASE Mutate(p) /\ Rewrite(p)
    BY <1>2, <2>2, TimeSteps, Places DEF Placed
  <2>3. CASE FinishWrite(p)
    BY <1>1, <2>3, TimeSteps, Places DEF Placed
  <2> QED BY <1>3, <2>1, <2>2, <2>3, HolderSteps
<1>4. ASSUME NEW p \in Proc, call'[p].op = "renew"
      PROVE  deadline'[p] <= call'[p].now + StaleAfter
  <2>1. CASE /\ pc[p] \in {"holding", "fenced"}
             /\ call'[p].now = clock /\ UNCHANGED <<clock, deadline>>
    BY <1>3, <1>4, <2>1 DEF Holds
  <2>2. CASE call[p].op = "renew" /\ call'[p].now = call[p].now
    <3>1. Holds(p) /\ Holds(p)'
      BY <1>4, <2>2 DEF Holds
    <3>2. CASE deadline'[p] = deadline[p]
      BY <2>2, <3>2 DEF DeadlinesMatch
    <3>3. CASE Mutate(p) /\ Rewrite(p)
      BY <1>2, <2>2, <3>3, Places DEF Placed
    <3> QED BY <3>1, <3>2, <3>3, HolderSteps
  <2> QED BY <1>4, <2>1, <2>2, RenewSteps
<1>5. ASSUME lease'.kind = "lease", NEW p \in Proc, lease'.token = token'[p]
      PROVE  /\ pc'[p] = "writing" => lease' = OwnPayload(p)'
             /\ Holds(p)' => lease'.expiresAt = deadline'[p]
  <2> DEFINE Matches == /\ pc'[p] = "writing" => lease' = OwnPayload(p)'
                        /\ Holds(p)' => lease'.expiresAt = deadline'[p]
  <2>1. CASE Inheriting(p)'
    <3>1. ~Holds(p)' /\ pc'[p] # "writing"
      BY <2>1, PlacesNext DEF Placed
    <3> QED BY <3>1
  <2>2. CASE UNCHANGED lease
    <3>1. ASSUME pc'[p] = "writing" PROVE lease' = OwnPayload(p)'
      <4>1. pc[p] = "writing" /\ token'[p] = token[p] /\ call'[p] = call[p]
        <5>1. ~ExclusiveCreate(p)
          BY <1>5, <2>2 DEF ExclusiveCreate, Missing
        <5> QED BY <3>1, <5>1, WritingSteps
      <4> QED BY <1>5, <2>2, <4>1 DEF DeadlinesMatch, OwnPayload
    <3>2. ASSUME Holds(p)' PROVE lease'.expiresAt = deadline'[p]
      <4>1. CASE Holds(p) /\ deadline'[p] = deadline[p]
        <5>1. ~BeginRelease(p) /\ pc'[p] # "dead"
          <6>1. Alive(p)'
            BY <3>2, PlacesNext DEF Placed
          <6>2. BeginRelease(p) => ~Holds(p)'
            <7>1. ASSUME BeginRelease(p) PROVE pc'[p] = "enter" /\ call'[p].op = "release"
              BY <7>1 DEF BeginRelease, Begin, Goto, Control, TypeOK
            <7> QED BY <7>1 DEF Holds
          <6> QED BY <3>2, <6>1, <6>2 DEF Alive
        <5>2. token'[p] = token[p]
          BY <4>1, <5>1, HolderSteps
        <5> QED BY <1>5, <2>2, <4>1, <5>2 DEF DeadlinesMatch
      <4>2. CASE Mutate(p) /\ Rewrite(p)
        BY <1>2, <4>2 DEF OwnPayload, Payload
      <4>3. CASE FinishWrite(p)
        <5>1. token'[p] = token[p]
          BY <4>3 DEF FinishWrite
        <5>2. lease = OwnPayload(p)
          BY <1>1, <1>5, <2>2, <4>3, <5>1 DEF DeadlinesMatch
        <5> QED BY <1>1, <2>2, <4>3, <5>2 DEF OwnPayload, Payload
      <4> QED BY <3>2, <4>1, <4>2, <4>3, HolderSteps
    <3> QED BY <3>1, <3>2
  <2>3. ASSUME ~Inheriting(p)' PROVE lease'.by = p
    <3>1. lease' # Missing
      BY <1>5 DEF Missing
    <3> QED BY <1>5, <2>3, <3>1 DEF Identified, Family, LeaseNamesItsOwner
  <2>4. ASSUME NEW r \in Proc, ExclusiveCreate(r), UNCHANGED <<call, token>>, ~Inheriting(p)'
        PROVE  Matches
    <3>1. lease' = OwnPayload(r) /\ r = p
      BY <1>5, <2>3, <2>4 DEF ExclusiveCreate, HalfWritten, OwnPayload, Payload
    <3>2. pc'[p] = "writing"
      BY <2>4, <3>1 DEF ExclusiveCreate, Goto, Control, TypeOK
    <3>3. ~Holds(p)'
      BY <3>2, PlacesNext DEF Placed
    <3> QED BY <2>4, <3>1, <3>3 DEF OwnPayload
  <2>5. ASSUME NEW r \in Proc, FinishWrite(r), lease' = OwnPayload(r), ~Inheriting(p)'
        PROVE  Matches
    BY <1>1, <2>3, <2>5 DEF OwnPayload, Payload
  <2>6. ASSUME NEW r \in Proc, Mutate(r), ~Inheriting(p)' PROVE Matches
    <3>1. lease' # Missing
      BY <1>5 DEF Missing
    <3>2. Rewrite(r)
      BY <2>6, <3>1 DEF Mutate, Unlink, Remove
    <3> QED BY <1>2, <2>3, <2>6, <3>2 DEF OwnPayload, Payload
  <2> QED BY <2>1, <2>2, <2>4, <2>5, <2>6, LeaseSteps
<1> QED BY <1>3, <1>4, <1>5 DEF DeadlinesMatch

LEMMA InheritedSteps ==
    ASSUME Control, [Next]_vars, NEW q \in Proc, pc'[q] = "inherited"
    PROVE  Inherit(q) \/ (pc[q] = "inherited" /\ deadline'[q] = deadline[q])
<1> DEFINE Kept == \/ pc'[q] # "inherited"
                   \/ Inherit(q)
                   \/ pc[q] = "inherited" /\ deadline'[q] = deadline[q]
<1> SUFFICES Kept
  OBVIOUS
<1>0. /\ pc \in [Proc -> Labels] /\ deadline \in [Proc -> 0 .. MaxClock + StaleAfter]
      /\ \A p \in Proc : call[p].next \in {"idle", "holding", "fenced", "lost"}
      /\ \A p \in Proc : call[p].op \in OpsAt(p)
  BY DEF Control, TypeOK, Calls, CallsAreCoherent
<1> USE <1>0 DEF Goto
<1>1. ASSUME NEW p \in Proc, Start(p) \/ Create(p) \/ BeginAcquire(p) PROVE Kept
  BY <1>1 DEF Start, Create, ExclusiveCreate, BeginAcquire, Begin
<1>2. ASSUME NEW p \in Proc, Crash(p) \/ FinishInherited(p) PROVE Kept
  BY <1>2 DEF Crash, FinishInherited, End
<1>3. ASSUME NEW p \in Proc, FinishWrite(p) \/ Inspect(p) PROVE Kept
  BY <1>3 DEF FinishWrite, LeaveWith, Inspect, End
<1>4. ASSUME NEW p \in Proc, EnterGuard(p) \/ GuardContended(p) \/ LeaveGuard(p) PROVE Kept
  BY <1>4 DEF EnterGuard, GuardContended, LeaveGuard, End, Defeat
<1>5. ASSUME NEW p \in Proc, InspectInside(p) \/ Verify(p) PROVE Kept
  BY <1>5 DEF InspectInside, Verify, LeaveWith
<1>6. ASSUME NEW p \in Proc, Mutate(p) \/ Recreate(p) PROVE Kept
  BY <1>6 DEF Mutate, Unlink, Rewrite, Remove, Recreate, ExclusiveCreate, LeaveWith
<1>7. ASSUME NEW p \in Proc, BeginRenew(p) \/ BeginRelease(p) \/ Fence(p) PROVE Kept
  BY <1>7 DEF BeginRenew, BeginRelease, Begin, Fence
<1>8. ASSUME NEW p \in Proc, Inherit(p) PROVE Kept
  BY <1>8 DEF Inherit, End
<1>9. ASSUME NEW p \in Proc, NEW c \in Proc, Spawn(p, c) PROVE Kept
  BY <1>9 DEF Spawn, Born, Begin
<1>10. CASE Tick \/ GuardAges \/ UNCHANGED vars
  BY <1>10 DEF Tick, GuardAges, vars
<1> QED BY StepCases, <1>1, <1>2, <1>3, <1>4, <1>5, <1>6, <1>7, <1>8, <1>9, <1>10

LEMMA InheritedDeadlineStep ==
    Identified /\ DeadlinesMatch /\ InheritedDeadline /\ [Next]_vars => InheritedDeadline'
<1> SUFFICES ASSUME Identified, DeadlinesMatch, InheritedDeadline, [Next]_vars,
                    NEW c \in Proc, pc'[c] = "inherited", Holds(parent[c])'
             PROVE  deadline'[c] <= deadline'[parent'[c]]
  BY DEF InheritedDeadline
<1> DEFINE w == parent[c]
<1>0. Control /\ Control'
  BY IdentifiedStep DEF Identified
<1>1. Inheriting(c) /\ Alive(c) /\ parent'[c] = w /\ w \in Proc
  <2>1. pc[c] \in {"inherit", "inherited"}
    BY <1>0, InheritedSteps DEF Inherit
  <2>2. ~\E p \in Proc : Spawn(p, c)
    BY <2>1 DEF Spawn, Born
  <2> QED BY <1>0, <2>1, <2>2, ParentSteps
          DEF Inheriting, Alive, Identified, Family, ChildrenOfHolders
<1>2. Holds(w)'
  BY <1>1
<1>3. Holds(w)
  <2>1. Holds(w) \/ pc[w] = "dead"
    BY <1>1 DEF Identified, Family, ChildrenOfHolders
  <2>2. ~FinishWrite(w)
    BY <1>0, <1>1, <2>1, Places DEF FinishWrite, Placed
  <2> QED BY <1>0, <1>1, <1>2, <2>2, HolderSteps
<1>4. token[c] = token[w]
  BY <1>1, <1>3 DEF Identified, Family, ChildrenOfHolders
<1>5. deadline'[c] <= deadline[w]
  <2>1. CASE Inherit(c)
    <3>1. /\ lease.kind = "lease" /\ lease.token = token[c]
          /\ deadline' = [deadline EXCEPT ![c] = lease.expiresAt]
      BY <1>0, <2>1 DEF Inherit, End, IsOwner, Goto, Control, TypeOK
    <3>2. lease.expiresAt = deadline[w]
      BY <1>1, <1>3, <1>4, <3>1 DEF DeadlinesMatch
    <3>3. deadline'[c] = deadline[w] /\ deadline[w] \in Nat
      BY <1>0, <1>1, <3>1, <3>2, Places DEF Placed, Control, TypeOK
    <3> QED BY <3>3
  <2>2. CASE pc[c] = "inherited" /\ deadline'[c] = deadline[c]
    BY <1>3, <2>2 DEF InheritedDeadline
  <2> QED BY <1>0, <2>1, <2>2, InheritedSteps
<1>6. deadline[w] <= deadline'[w]
  <2>0. deadline[w] \in Nat /\ call[w].now \in Nat /\ StaleAfter \in Nat
    BY <1>0, <1>1, Places, LeaseAssumption DEF Placed
  <2>1. CASE deadline'[w] = deadline[w]
    BY <2>0, <2>1
  <2>2. CASE Mutate(w) /\ Rewrite(w)
    BY <1>0, <1>1, <2>2 DEF Rewrite, DeadlinesMatch, Control, TypeOK
  <2> QED BY <1>0, <1>1, <1>2, <1>3, <2>1, <2>2, HolderSteps
<1>7. deadline'[c] \in Nat /\ deadline[w] \in Nat /\ deadline'[w] \in Nat
  BY <1>0, <1>1, Places, PlacesNext DEF Placed
<1> QED BY <1>1, <1>5, <1>6, <1>7

\* A lease whose process is gone or whose deadline has passed.
Recoverable ==
    /\ lease # Missing
    /\ ~Alive(lease.by) \/ (lease.kind = "lease" /\ clock >= lease.expiresAt)

\* What the fresh inspection found still holds while the guard is owned,
\* unless an exposure has been used.
SectionIsSound ==
    exposures = {} => \A q \in Proc :
        owner = q /\ pc[q] \in {"verify", "mutate"}
        => IF call[q].op = "acquire" THEN Recoverable ELSE IsOwner(q)

\* Then nothing a guarded section does can change what another relies on.
LEMMA OwnerMutates ==
    ASSUME Identified, SectionIsSound, exposures = {},
           NEW p \in Proc, owner = p, pc[p] = "mutate",
           lease.kind # "missing", Alive(lease.by),
           lease.kind = "lease" => clock < lease.expiresAt
    PROVE  lease.kind = "lease" /\ lease.by = p /\ call[p].op # "acquire"
<1>0. Control /\ clock \in Nat
  BY LeaseAssumption DEF Identified, Control, TypeOK
<1>1. lease # Missing /\ lease.kind \in {"lease", "malformed"} /\ lease.token \in Token
  BY <1>0, LeaseShapes DEF Control
<1>2. ~Recoverable
  <2>1. CASE lease.kind = "lease"
    <3>1. lease.expiresAt \in 0 .. MaxClock + StaleAfter
      BY <1>0, <2>1, LeaseShapes DEF Control
    <3>2. lease.expiresAt \in Nat
      BY <3>1, LeaseAssumption
    <3> QED BY <1>0, <2>1, <3>2 DEF Recoverable
  <2> QED BY <2>1 DEF Recoverable
<1>3. call[p].op # "acquire" /\ IsOwner(p)
  BY <1>2 DEF SectionIsSound
<1>4. lease.by = p \/ Inheriting(p)
  BY <1>1, <1>3 DEF IsOwner, Identified, Family, LeaseNamesItsOwner
<1> QED BY <1>3, <1>4 DEF IsOwner, Inheriting

\* Only its own enter makes a process the owner of the guard.
LEMMA OwnerSteps ==
    ASSUME [Next]_vars, NEW q \in Proc, owner' = q
    PROVE  owner = q \/ EnterGuard(q)
<1>0. owner # q => owner' # owner
  OBVIOUS
<1>1. ASSUME NEW p \in Proc, EnterGuard(p) PROVE owner = q \/ EnterGuard(q)
  <2>1. owner' = p
    BY <1>1 DEF EnterGuard, Enter
  <2> QED BY <1>1, <2>1
<1>2. ASSUME NEW p \in Proc, LeaveGuard(p) \/ Crash(p) PROVE owner = q
  BY <1>2, GuardMutexAssumption DEF LeaveGuard, Crash, Leave, Die, guardVars
<1>3. ASSUME NEW p \in Proc,
             Start(p) \/ BeginAcquire(p) \/ Create(p) \/ FinishWrite(p) \/ Inspect(p)
      PROVE  owner = q
  BY <1>3 DEF Start, BeginAcquire, Create, FinishWrite, Inspect, guardVars
<1>4. ASSUME NEW p \in Proc,
             GuardContended(p) \/ InspectInside(p) \/ Verify(p) \/ Mutate(p) \/ Recreate(p)
      PROVE  owner = q
  BY <1>4 DEF GuardContended, InspectInside, Verify, Mutate, Recreate, guardVars
<1>5. ASSUME NEW p \in Proc,
             BeginRenew(p) \/ BeginRelease(p) \/ Fence(p) \/ Inherit(p) \/ FinishInherited(p)
      PROVE  owner = q
  BY <1>5 DEF BeginRenew, BeginRelease, Fence, Inherit, FinishInherited, guardVars
<1>6. ASSUME NEW p \in Proc, NEW c \in Proc, Spawn(p, c) PROVE owner = q
  BY <1>6 DEF Spawn, guardVars
<1>7. ASSUME Tick \/ GuardAges \/ UNCHANGED vars PROVE owner = q
  BY <1>7, GuardMutexAssumption DEF Tick, GuardAges, GrowOld, Steal, vars, guardVars
<1> QED BY StepCases, <1>1, <1>2, <1>3, <1>4, <1>5, <1>6, <1>7

\* How a guarded section gets to its verification and its mutation.
LEMMA SectionSteps ==
    ASSUME Control, [Next]_vars, NEW q \in Proc, pc'[q] \in {"verify", "mutate"}
    PROVE  \/ /\ pc[q] \in {"verify", "mutate"}
              /\ call'[q].op = call[q].op /\ token'[q] = token[q]
              /\ ~Mutate(q)
           \/ InspectInside(q)
<1> DEFINE Kept == \/ pc'[q] \notin {"verify", "mutate"}
                   \/ /\ pc[q] \in {"verify", "mutate"}
                      /\ call'[q].op = call[q].op /\ token'[q] = token[q]
                   \/ InspectInside(q)
<1>0. /\ pc \in [Proc -> Labels] /\ call \in [Proc -> Calls]
      /\ token \in [Proc -> Token \cup {NoToken}]
      /\ \A p \in Proc : call[p].next \in {"idle", "holding", "fenced", "lost"}
      /\ \A p \in Proc : call[p].op \in OpsAt(p)
  BY DEF Control, TypeOK, Calls, CallsAreCoherent
<1> USE <1>0 DEF Goto
<1>1. ASSUME NEW p \in Proc, Start(p) \/ Create(p) \/ BeginAcquire(p) PROVE Kept
  BY <1>1 DEF Start, Create, ExclusiveCreate, BeginAcquire, Begin
<1>2. ASSUME NEW p \in Proc, Crash(p) \/ FinishInherited(p) PROVE Kept
  BY <1>2 DEF Crash, FinishInherited, End
<1>3. ASSUME NEW p \in Proc, FinishWrite(p) \/ Inspect(p) PROVE Kept
  BY <1>3 DEF FinishWrite, LeaveWith, Inspect, End
<1>4. ASSUME NEW p \in Proc, EnterGuard(p) \/ GuardContended(p) \/ LeaveGuard(p) PROVE Kept
  BY <1>4 DEF EnterGuard, GuardContended, LeaveGuard, End, Defeat
<1>5. ASSUME NEW p \in Proc, InspectInside(p) \/ Verify(p) PROVE Kept
  <2>1. UNCHANGED token /\ \A r \in Proc \ {p} : call'[r] = call[r] /\ pc'[r] = pc[r]
    BY <1>5 DEF InspectInside, Verify, LeaveWith
  <2>2. Verify(p) => pc[p] = "verify" /\ (call' = call \/ pc'[p] = "leave")
    BY DEF Verify, LeaveWith
  <2> QED BY <1>5, <2>1, <2>2
<1>6. ASSUME NEW p \in Proc, Mutate(p) \/ Recreate(p) PROVE Kept
  BY <1>6 DEF Mutate, Unlink, Rewrite, Remove, Recreate, ExclusiveCreate, LeaveWith
<1>7. ASSUME NEW p \in Proc, BeginRenew(p) \/ BeginRelease(p) PROVE Kept
  BY <1>7 DEF BeginRenew, BeginRelease, Begin
<1>8. ASSUME NEW p \in Proc, Inherit(p) PROVE Kept
  BY <1>8 DEF Inherit, End
<1>9. ASSUME NEW p \in Proc, Fence(p) PROVE Kept
  <2>1. /\ UNCHANGED token
        /\ pc' = pc \/ pc' = [pc EXCEPT ![p] = "fenced"]
        /\ call' = call \/ call' = [call EXCEPT ![p] = [call[p] EXCEPT !.next = "fenced"]]
    BY <1>9 DEF Fence
  <2>2. call'[q].op = call[q].op
    BY <2>1 DEF Calls
  <2> QED BY <2>1, <2>2
<1>10. ASSUME NEW p \in Proc, NEW c \in Proc, Spawn(p, c) PROVE Kept
  BY <1>10 DEF Spawn, Born, Begin
<1>11. ASSUME Tick \/ GuardAges \/ UNCHANGED vars PROVE Kept
  BY <1>11 DEF Tick, GuardAges, vars
<1>12. Kept
  BY StepCases, <1>1, <1>2, <1>3, <1>4, <1>5, <1>6, <1>7, <1>8, <1>9, <1>10, <1>11
<1>13. ~Mutate(q)
  BY DEF Mutate, Unlink, Rewrite, Remove, LeaveWith
<1> QED BY <1>12, <1>13

\* While no exposure is used, the lease of a live process changes only by
\* that process's own steps.
LEMMA LiveLeaseSteps ==
    ASSUME Identified, SectionIsSound, [Next]_vars, exposures' = {},
           lease.kind # "missing", Alive(lease.by),
           lease.kind = "lease" => clock < lease.expiresAt
    PROVE  \/ UNCHANGED lease
           \/ FinishWrite(lease.by) /\ lease.kind = "malformed"
           \/ /\ Mutate(lease.by) /\ lease.kind = "lease"
              /\ call[lease.by].op # "acquire"
<1>0. Control /\ exposures = {} /\ lease # Missing
  BY TimeSteps DEF Identified, Missing
<1>1. ASSUME NEW p \in Proc, FinishWrite(p), lease = HalfWritten(p, token[p])
      PROVE  FinishWrite(lease.by) /\ lease.kind = "malformed"
  BY <1>1 DEF HalfWritten
<1>2. ASSUME NEW p \in Proc, Mutate(p)
      PROVE  Mutate(lease.by) /\ lease.kind = "lease" /\ call[lease.by].op # "acquire"
  <2>1. pc[p] = "mutate" /\ owner = p
    BY <1>2 DEF Mutate, Verified
  <2> QED BY <1>0, <1>2, <2>1, OwnerMutates
<1>3. ASSUME NEW p \in Proc, ExclusiveCreate(p) PROVE FALSE
  BY <1>0, <1>3 DEF ExclusiveCreate
<1> QED BY <1>1, <1>2, <1>3, LeaseSteps

LEMMA SectionStep ==
    Identified /\ SectionIsSound /\ [Next]_vars => SectionIsSound'
<1> SUFFICES ASSUME Identified, SectionIsSound, [Next]_vars, exposures' = {},
                    NEW q \in Proc, owner' = q, pc'[q] \in {"verify", "mutate"}
             PROVE  IF call'[q].op = "acquire" THEN Recoverable' ELSE IsOwner(q)'
  BY DEF SectionIsSound
<1>0. /\ Control /\ exposures = {} /\ clock \in Nat /\ clock' \in Nat /\ clock <= clock'
  BY TimeSteps DEF Identified
<1>1. owner = q
  <2>1. ~EnterGuard(q)
    BY <1>0 DEF EnterGuard, Goto, Control, TypeOK
  <2> QED BY <2>1, OwnerSteps
\* A lease that can be recovered stays so, as its process is gone for good.
<1>2. ASSUME Recoverable, UNCHANGED lease PROVE Recoverable'
  <2>1. lease.by \in Proc /\ pc[lease.by] # "unborn" /\ lease # Missing
    BY <1>0, <1>2, LeaseShapes DEF Recoverable, Control, Identified, Population, WritersWereBorn
  <2>2. CASE ~Alive(lease.by)
    <3>1. pc'[lease.by] = "dead"
      BY <1>0, <2>1, <2>2, LifeSteps DEF Alive
    <3> QED BY <1>2, <2>1, <3>1 DEF Recoverable, Alive
  <2>3. CASE lease.kind = "lease" /\ clock >= lease.expiresAt
    <3>1. lease.expiresAt \in 0 .. MaxClock + StaleAfter
      BY <1>0, <2>3, LeaseShapes DEF Control
    <3>2. lease.expiresAt \in Nat
      BY <3>1, LeaseAssumption
    <3> QED BY <1>0, <1>2, <2>1, <2>3, <3>2 DEF Recoverable
  <2> QED BY <1>2, <2>2, <2>3 DEF Recoverable
<1>3. CASE InspectInside(q)
  <2>1. /\ pc[q] = "inspectInside" /\ UNCHANGED <<lease, token>>
        /\ ~BeingWritten \/ call[q].op # "acquire"
    BY <1>3 DEF InspectInside
  <2>2. /\ call' = call
        /\ IF call[q].op = "acquire" THEN lease # Missing /\ ~Active(q, call[q].now)
                                     ELSE IsOwner(q)
    BY <1>0, <1>3 DEF InspectInside, Goto, LeaveWith, Control, TypeOK
  <2>3. CASE call[q].op # "acquire"
    BY <2>1, <2>2, <2>3 DEF IsOwner
  <2>4. ASSUME call[q].op = "acquire" PROVE Recoverable
    <3> DEFINE w == lease.by
    <3>1. ~Active(q, call[q].now) /\ lease # Missing /\ w \in Proc
      BY <1>0, <2>2, <2>4, LeaseShapes DEF Control
    <3>2. CASE lease.kind = "malformed"
      BY <2>1, <2>4, <3>1, <3>2
         DEF BeingWritten, Recoverable, Identified, Family, MalformedIsUnfinished
    <3>3. CASE lease.kind = "lease"
      <4>1. IsLeaseStale(q, call[q].now)
        BY <3>1, <3>3 DEF Active
      <4>2. Alive(q)
        BY <2>1 DEF Alive
      <4>3. CASE OtherBoot(q)
        <5>1. bootId[w] \in Nat /\ bootId[q] \in Nat
          BY <1>0, <3>1, LeaseAssumption DEF Control, TypeOK
        <5>2. Alive(w) => bootId[w] <= bootId[q] /\ bootId[q] <= bootId[w]
          BY <3>1, <4>2 DEF Identified, Population, BootsAgree
        <5> QED BY <3>1, <4>3, <5>1, <5>2 DEF OtherBoot, Recoverable
      <4>4. CASE EarlierEpoch(q)
        BY <3>1, <4>2, <4>4
           DEF EarlierEpoch, Recoverable, Identified, Population, PidsDiffer
      <4>5. CASE HolderDead
        BY <3>1, <4>5 DEF HolderDead, LivePids, Recoverable
      <4>6. CASE Expired(call[q].now)
        <5>1. lease.expiresAt \in 0 .. MaxClock + StaleAfter
          BY <1>0, <3>3, LeaseShapes DEF Control
        <5>2. lease.expiresAt \in Nat /\ call[q].now \in Nat /\ call[q].now <= clock
          BY <1>0, <5>1, Places, LeaseAssumption DEF Placed
        <5> QED BY <1>0, <3>1, <3>3, <4>6, <5>2 DEF Expired, Recoverable
      <4> QED BY <4>1, <4>3, <4>4, <4>5, <4>6 DEF IsLeaseStale
    <3> QED BY <1>0, <3>1, <3>2, <3>3, LeaseShapes DEF Control
  <2> QED BY <1>2, <2>1, <2>2, <2>3, <2>4
<1>4. CASE /\ pc[q] \in {"verify", "mutate"}
           /\ call'[q].op = call[q].op /\ token'[q] = token[q]
           /\ ~Mutate(q)
  <2>0. IF call[q].op = "acquire" THEN Recoverable ELSE IsOwner(q)
    BY <1>0, <1>1, <1>4 DEF SectionIsSound
  <2>1. lease.kind # "missing"
    BY <1>0, <2>0, LeaseShapes DEF Recoverable, IsOwner, Control
  <2>2. UNCHANGED lease
    <3>1. ASSUME NEW p \in Proc, Mutate(p) PROVE FALSE
      BY <1>1, <1>4, <3>1 DEF Mutate, Verified
    <3>2. ASSUME NEW p \in Proc, ExclusiveCreate(p) PROVE FALSE
      BY <2>1, <3>2 DEF ExclusiveCreate, Missing
    <3>3. ASSUME NEW p \in Proc, FinishWrite(p), lease = HalfWritten(p, token[p]) PROVE FALSE
      <4>1. lease.by = p /\ lease.kind = "malformed" /\ pc[p] = "writing"
        BY <3>3 DEF HalfWritten, FinishWrite
      <4> QED BY <2>0, <4>1 DEF Recoverable, IsOwner, Alive
    <3> QED BY <3>1, <3>2, <3>3, LeaseSteps
  <2>3. CASE call[q].op = "acquire"
    BY <1>2, <1>4, <2>0, <2>2, <2>3
  <2>4. CASE call[q].op # "acquire"
    BY <1>4, <2>0, <2>2, <2>4 DEF IsOwner
  <2> QED BY <2>3, <2>4
<1> QED BY <1>0, <1>3, <1>4, SectionSteps

\* The file is the lease of whoever believes to hold one that has not
\* expired, and of whoever is writing one, unless an exposure was used.
LeaseIsPinned ==
    exposures = {} => \A p \in Proc :
        /\ Holds(p) /\ clock < deadline[p] => lease = Payload(p, token[p], deadline[p])
        /\ pc[p] = "writing" /\ TornWrites => lease = HalfWritten(p, token[p])
        /\ pc[p] = "writing" /\ ~TornWrites /\ clock < call[p].now + StaleAfter
              => lease = OwnPayload(p)

LEMMA PinnedStep ==
    Identified /\ SectionIsSound /\ LeaseIsPinned /\ [Next]_vars => LeaseIsPinned'
<1> SUFFICES ASSUME Identified, SectionIsSound, LeaseIsPinned, [Next]_vars, exposures' = {},
                    NEW p \in Proc
             PROVE  /\ Holds(p)' /\ clock' < deadline'[p]
                          => lease' = Payload(p, token'[p], deadline'[p])
                    /\ pc'[p] = "writing" /\ TornWrites => lease' = HalfWritten(p, token'[p])
                    /\ pc'[p] = "writing" /\ ~TornWrites /\ clock' < call'[p].now + StaleAfter
                          => lease' = OwnPayload(p)'
  BY DEF LeaseIsPinned, Payload, HalfWritten
<1>0. /\ Control /\ Control' /\ exposures = {}
      /\ clock \in Nat /\ clock' \in Nat /\ clock <= clock' /\ StaleAfter \in Nat
  BY IdentifiedStep, TimeSteps, LeaseAssumption DEF Identified
<1>p. Placed(p) /\ Placed(p)'
  BY <1>0, Places, PlacesNext
<1>1. ASSUME Holds(p)', clock' < deadline'[p]
      PROVE  lease' = Payload(p, token'[p], deadline'[p])
  <2>1. CASE FinishWrite(p)
    <3>1. /\ pc[p] = "writing" /\ UNCHANGED <<token, clock>>
          /\ deadline'[p] = call[p].now + StaleAfter
          /\ lease' = IF lease = HalfWritten(p, token[p]) THEN OwnPayload(p) ELSE lease
      BY <1>0, <2>1 DEF FinishWrite, Control, TypeOK
    <3>2. lease' = OwnPayload(p)
      <4>1. CASE TornWrites
        BY <1>0, <3>1, <4>1 DEF LeaseIsPinned
      <4>2. CASE ~TornWrites
        <5>1. lease = OwnPayload(p)
          BY <1>0, <1>1, <3>1, <4>2 DEF LeaseIsPinned
        <5> QED BY <3>1, <5>1
      <4> QED BY <4>1, <4>2
    <3> QED BY <3>1, <3>2 DEF OwnPayload
  <2>2. CASE Mutate(p) /\ Rewrite(p)
    BY <1>0, <2>2 DEF Mutate, Rewrite, OwnPayload, Control, TypeOK
  <2>3. CASE Holds(p) /\ deadline'[p] = deadline[p] /\ ~(Mutate(p) /\ Rewrite(p))
    <3>1. token'[p] = token[p]
      <4>1. pc'[p] # "dead"
        BY <1>1, <1>p DEF Placed, Alive
      <4>2. ~BeginRelease(p)
        <5>1. ASSUME BeginRelease(p) PROVE pc'[p] = "enter" /\ call'[p].op = "release"
          BY <1>0, <5>1 DEF BeginRelease, Begin, Goto, Control, TypeOK
        <5> QED BY <1>1, <5>1 DEF Holds
      <4> QED BY <1>0, <2>3, <4>1, <4>2, HolderSteps
    <3>2. clock < deadline[p]
      BY <1>0, <1>1, <1>p, <2>3 DEF Placed
    <3>3. lease = Payload(p, token[p], deadline[p])
      BY <1>0, <2>3, <3>2 DEF LeaseIsPinned
    <3>4. lease.kind = "lease" /\ lease.by = p /\ lease.expiresAt = deadline[p]
      BY <3>3 DEF Payload
    <3>5. Alive(p)
      BY <1>p, <2>3 DEF Placed
    <3>6. ASSUME Mutate(p), call[p].op # "acquire" PROVE FALSE
      <4>1. pc[p] = "mutate"
        BY <3>6 DEF Mutate
      <4>2. call[p].op = "renew"
        BY <1>p, <2>3, <4>1 DEF Placed
      <4> QED BY <2>3, <3>6, <4>2 DEF Mutate, Unlink, Remove
    <3>7. UNCHANGED lease
      BY <3>2, <3>4, <3>5, <3>6, LiveLeaseSteps
    <3> QED BY <2>3, <3>1, <3>3, <3>7
  <2> QED BY <1>0, <1>1, <2>1, <2>2, <2>3, HolderSteps
<1>2. ASSUME pc'[p] = "writing", ExclusiveCreate(p), UNCHANGED <<call, token>>
      PROVE  /\ TornWrites => lease' = HalfWritten(p, token'[p])
             /\ ~TornWrites => lease' = OwnPayload(p)'
  BY <1>2 DEF ExclusiveCreate, OwnPayload
<1>3. ASSUME pc'[p] = "writing", pc[p] = "writing", token'[p] = token[p], call'[p] = call[p]
      PROVE  /\ TornWrites => lease' = HalfWritten(p, token'[p])
             /\ ~TornWrites /\ clock' < call'[p].now + StaleAfter => lease' = OwnPayload(p)'
  <2>1. Alive(p) /\ ~Mutate(p) /\ ~FinishWrite(p)
    <3>1. ~FinishWrite(p)
      BY <1>0, <1>3 DEF FinishWrite, LeaveWith, Goto, Control, TypeOK
    <3> QED BY <1>3, <3>1 DEF Alive, Mutate
  <2>2. CASE TornWrites
    <3>1. lease = HalfWritten(p, token[p])
      BY <1>0, <1>3, <2>2 DEF LeaseIsPinned
    <3>2. lease.kind = "malformed" /\ lease.by = p
      BY <3>1 DEF HalfWritten
    <3> QED BY <1>3, <2>1, <2>2, <3>1, <3>2, LiveLeaseSteps
  <2>3. CASE ~TornWrites /\ clock' < call'[p].now + StaleAfter
    <3>1. clock < call[p].now + StaleAfter
      BY <1>0, <1>3, <1>p, <2>3 DEF Placed
    <3>2. lease = OwnPayload(p)
      BY <1>0, <1>3, <2>3, <3>1 DEF LeaseIsPinned
    <3>3. lease.kind = "lease" /\ lease.by = p /\ lease.expiresAt = call[p].now + StaleAfter
      BY <3>2 DEF OwnPayload, Payload
    <3>4. UNCHANGED lease
      BY <2>1, <3>1, <3>3, LiveLeaseSteps
    <3> QED BY <1>3, <2>3, <3>2, <3>4 DEF OwnPayload
  <2> QED BY <2>2, <2>3
<1> QED BY <1>0, <1>1, <1>2, <1>3, WritingSteps

\* The whole inductive invariant.
Exclusion ==
    /\ Identified
    /\ DeadlinesMatch
    /\ InheritedDeadline
    /\ SectionIsSound
    /\ LeaseIsPinned

LEMMA ExclusionInvariance == Spec => []Exclusion
<1>1. Init => Exclusion
  <2> SUFFICES ASSUME Init PROVE Exclusion
    OBVIOUS
  <2>1. Identified
    BY IdentifiedInit
  <2>2. \A p \in Proc : ~Holds(p) /\ call[p].op = "none" /\ pc[p] = "unborn"
    BY DEF Init, Holds, NoCall, Missing
  <2> QED BY <2>1, <2>2 DEF Exclusion, DeadlinesMatch, InheritedDeadline, SectionIsSound,
                            LeaseIsPinned, Init, Missing
<1>2. Exclusion /\ [Next]_vars => Exclusion'
  BY IdentifiedStep, DeadlinesStep, InheritedDeadlineStep, SectionStep, PinnedStep DEF Exclusion
<1> QED BY <1>1, <1>2, PTL DEF Spec

\* Who answers for the task in r: r itself, or the parent it inherits from.
Answerable(r) == IF Holds(r) THEN r ELSE parent[r]

\* A task that relies on its token has a live, unexpired holder to answer
\* for it, whose lease the file is.
LEMMA RelianceIsAnswered ==
    ASSUME Exclusion, exposures = {}, NEW r \in Proc, Relies(r), NEW a, a = Answerable(r)
    PROVE  /\ a \in Proc /\ Holds(a) /\ Alive(a) /\ clock < deadline[a] /\ deadline[a] \in Nat
           /\ token[a] = token[r] /\ lease = Payload(a, token[a], deadline[a])
           /\ ~Holds(r) => Inheriting(r)
<1>0. /\ clock \in Nat
      /\ \A q \in Proc : Placed(q)
  BY Places, LeaseAssumption DEF Exclusion, Identified, Control, TypeOK
<1>1. CASE Holds(r)
  BY <1>0, <1>1 DEF Answerable, Relies, Placed, Exclusion, LeaseIsPinned
<1>2. CASE ~Holds(r)
  <2>1. pc[r] = "inherited" /\ a = parent[r]
    BY <1>0, <1>2 DEF Answerable, Relies, Placed
  <2>2. a \in Proc /\ Alive(a) /\ Alive(r) /\ Inheriting(r)
    BY <2>1 DEF Relies, Orphaned, Alive, Inheriting, Exclusion, Identified, Family, ChildrenOfHolders
  <2>3. Holds(a) /\ token[r] = token[a]
    BY <2>1, <2>2 DEF Alive, Exclusion, Identified, Family, ChildrenOfHolders
  <2>4. deadline[r] <= deadline[a]
    BY <2>1, <2>3 DEF Exclusion, InheritedDeadline
  <2>5. clock < deadline[a] /\ deadline[a] \in Nat
    BY <1>0, <2>2, <2>4 DEF Placed, Relies
  <2> QED BY <2>2, <2>3, <2>5 DEF Exclusion, LeaseIsPinned
<1> QED BY <1>1, <1>2

\* At most one heavy-maintenance task works at a time, its child apart: two
\* unrelated tasks overlap only past a deadline, after the parent of one
\* died, or through one of the two exposures of the file protocol.
THEOREM OneTaskAtATime == Spec => []ExclusiveWork
<1>1. Exclusion => ExclusiveWork
  <2> SUFFICES ASSUME Exclusion, NEW p \in Proc, NEW q \in Proc,
                      p # q, parent[p] # q, parent[q] # p, Working(p), Working(q),
                      ~(clock >= deadline[p]), ~(clock >= deadline[q]),
                      ~Orphaned(p), ~Orphaned(q), exposures = {}
               PROVE  FALSE
    BY DEF ExclusiveWork
  <2>0. /\ Control /\ clock \in Nat
        /\ \A r \in Proc : Placed(r)
    BY Places, LeaseAssumption DEF Exclusion, Identified, Control, TypeOK
  <2>1. Relies(p) /\ Relies(q)
    BY <2>0 DEF Relies, Placed
  <2> DEFINE a == Answerable(p)
             b == Answerable(q)
  <2>2. a = b
    <3>1. lease = Payload(a, token[a], deadline[a]) /\ lease = Payload(b, token[b], deadline[b])
      BY <2>1, RelianceIsAnswered
    <3> HIDE DEF a, b
    <3> QED BY <3>1 DEF Payload
  <2>3. ~Holds(p) /\ ~Holds(q)
    BY <2>2 DEF Answerable
  <2>4. token[p] = token[q] /\ Inheriting(p) /\ Inheriting(q)
    BY <2>1, <2>2, <2>3, RelianceIsAnswered
  <2>5. token[p] # NoToken
    BY <2>0, <2>4 DEF Inheriting, Control, TokenKept
  <2> QED BY <2>4, <2>5 DEF Exclusion, Identified, Family, TokensDiffer
<1> QED BY ExclusionInvariance, <1>1, PTL

\* Recovery, a late release and a late renewal leave the lease of a live,
\* unexpired holder alone: only its own steps replace or remove it, unless
\* an exposure is being used.
THEOREM LiveLeaseStays == Spec => LiveLeaseIsKept
<1> DEFINE Kept == \A p \in Proc :
              HeldBy(p) /\ lease' # lease => Mutate(p) \/ exposures # {} \/ exposures' # {}
<1>1. Exclusion /\ [Next]_vars => Kept
  <2> SUFFICES ASSUME Exclusion, [Next]_vars, NEW p \in Proc,
                      HeldBy(p), lease' # lease, exposures' = {}
               PROVE  Mutate(p)
    OBVIOUS
  <2>1. lease.kind = "lease" /\ lease.by = p /\ clock < lease.expiresAt
    BY DEF HeldBy
  <2>2. Alive(p)
    <3>1. Holds(p)
      BY DEF HeldBy, Holds
    <3> QED BY <3>1, Places DEF Placed, Exclusion, Identified
  <2> QED BY <2>1, <2>2, LiveLeaseSteps DEF Exclusion
<1>2. Exclusion /\ [Next]_vars => [Kept]_vars
  BY <1>1
<1> QED BY ExclusionInvariance, <1>2, PTL DEF Spec, LiveLeaseIsKept

-----------------------------------------------------------------------------
(***************************************************************************)
(* The contract of the lease                                               *)
(***************************************************************************)

\* The file carries a token or nobody's, and only that token is relied on.
LEMMA NamedIsTrusted ==
    ASSUME Exclusion
    PROVE  /\ Named \in Token \cup {NoToken}
           /\ exposures = {} => Trusted \subseteq {Named}
<1>1. Named \in Token \cup {NoToken}
  BY LeaseShapes DEF Exclusion, Identified, Control, Named, Missing
<1>2. ASSUME exposures = {}, NEW r \in Proc, Relies(r) PROVE token[r] = Named
  <2> DEFINE a == Answerable(r)
  <2>1. token[a] = token[r] /\ lease = Payload(a, token[a], deadline[a])
    BY <1>2, RelianceIsAnswered
  <2> HIDE DEF a
  <2> QED BY <2>1 DEF Payload, Missing, Named
<1> QED BY <1>1, <1>2 DEF Trusted

\* r has a holder that answers for it and whose lease the file is.
Answered(r) == \E a \in Proc : Holds(a) /\ lease = Payload(a, token[a], deadline[a])

LEMMA RelianceNext ==
    Exclusion' => (\A r \in Proc : exposures = {} /\ Relies(r) => Answered(r))'
<1>1. Exclusion => \A r \in Proc : exposures = {} /\ Relies(r) => Answered(r)
  BY RelianceIsAnswered DEF Answered
<1> QED BY <1>1, PTL

\* Whoever has just created the file does not yet act under it.
LEMMA CreatorWaits ==
    ASSUME Exclusion, Exclusion', exposures' = {},
           NEW p \in Proc, ExclusiveCreate(p), UNCHANGED token
    PROVE  Trusted' = {}
<1> SUFFICES ASSUME NEW r \in Proc, Relies(r)' PROVE FALSE
  BY DEF Trusted
<1>1. pc'[p] = "writing" /\ lease'.by = p
  BY DEF ExclusiveCreate, Goto, HalfWritten, OwnPayload, Payload,
         Exclusion, Identified, Control, TypeOK
<1>2. PICK a \in Proc : Holds(a)' /\ lease' = Payload(a, token'[a], deadline'[a])
  <2>1. Answered(r)'
    BY RelianceNext
  <2> QED BY <2>1 DEF Answered, Payload
<1>3. a = p
  BY <1>1, <1>2 DEF Payload
<1>4. Placed(p)'
  BY PlacesNext DEF Exclusion, Identified
<1> QED BY <1>1, <1>2, <1>3, <1>4 DEF Placed, Holds

\* A step that uses no exposure leaves the token in the file alone, or gives
\* one to a new file, or removes a token nobody relies on.
LEMMA NameSteps ==
    ASSUME Exclusion, Exclusion', [Next]_vars, exposures' = {}
    PROVE  \/ Named' = Named
           \/ Named = NoToken /\ Trusted' = {}
           \/ Named' = NoToken /\ Trusted = {}
<1>0. Control /\ exposures = {} /\ clock \in Nat
  BY TimeSteps DEF Exclusion, Identified
<1>1. ASSUME NEW p \in Proc, ExclusiveCreate(p), UNCHANGED token
      PROVE  Named = NoToken /\ Trusted' = {}
  BY <1>1, CreatorWaits DEF ExclusiveCreate, Named
<1>2. ASSUME NEW p \in Proc, lease = HalfWritten(p, token[p]), lease' = OwnPayload(p)
      PROVE  Named' = Named
  BY <1>2 DEF HalfWritten, OwnPayload, Payload, Missing, Named
<1>3. ASSUME NEW p \in Proc, Mutate(p)
      PROVE  Named' = Named \/ (Named' = NoToken /\ Trusted = {})
  <2>1. /\ pc[p] = "mutate" /\ owner = p
        /\ IF call[p].op = "acquire" THEN Recoverable ELSE IsOwner(p)
    BY <1>0, <1>3 DEF Mutate, Verified, Exclusion, SectionIsSound
  <2>2. CASE Unlink(p)
    <3>1. ASSUME NEW r \in Proc, Relies(r) PROVE FALSE
      <4> DEFINE a == Answerable(r)
      <4>1. Alive(a) /\ clock < deadline[a] /\ deadline[a] \in Nat /\ lease = Payload(a, token[a], deadline[a])
        BY <1>0, <3>1, RelianceIsAnswered
      <4> HIDE DEF a
      <4>2. lease.by = a /\ lease.expiresAt = deadline[a]
        BY <4>1 DEF Payload
      <4> QED BY <1>0, <2>1, <2>2, <4>1, <4>2 DEF Unlink, Recoverable
    <3> QED BY <2>2, <3>1 DEF Unlink, Named, Trusted
  <2>3. CASE Rewrite(p)
    <3>1. lease.token = token[p] /\ lease # Missing
      BY <2>1, <2>3 DEF Rewrite, IsOwner, Missing
    <3> QED BY <2>3, <3>1 DEF Rewrite, OwnPayload, Payload, Missing, Named
  <2>4. CASE Remove(p)
    <3>1. lease.kind = "lease" /\ lease.token = token[p]
      BY <2>1, <2>4 DEF Remove, IsOwner
    <3>2. lease.by = p /\ ~Holds(p)
      <4>1. Placed(p)
        BY <1>0, Places
      <4> QED BY <2>1, <2>4, <3>1, <4>1
          DEF Remove, Placed, Inheriting, Missing, Exclusion, Identified, Family, LeaseNamesItsOwner
    <3>3. ASSUME NEW r \in Proc, Relies(r) PROVE FALSE
      <4> DEFINE a == Answerable(r)
      <4>1. Holds(a) /\ lease = Payload(a, token[a], deadline[a])
        BY <1>0, <3>3, RelianceIsAnswered
      <4> HIDE DEF a
      <4> QED BY <3>2, <4>1 DEF Payload
    <3> QED BY <2>4, <3>3 DEF Remove, Named, Trusted
  <2> QED BY <1>3, <2>2, <2>3, <2>4 DEF Mutate
<1> QED BY <1>1, <1>2, <1>3, LeaseSteps DEF Named

\* The lease file implements the abstract contract, with renewals, children
\* that inherit, crashes, boots and reused pids, stalls and torn writes.
THEOREM ContractIsKept == Spec => ImplementsContract
<1>1. Init => Contract!ContractInit
  BY DEF Init, NoCall, Contract!ContractInit, Named, Trusted, Relies, Working
<1>2. Exclusion /\ Exclusion' /\ [Next]_vars => [Contract!ContractNext]_(Contract!contractVars)
  <2> SUFFICES ASSUME Exclusion, Exclusion', [Next]_vars, exposures' = {}
               PROVE  [Contract!ContractNext]_(Contract!contractVars)
    BY DEF Contract!ContractNext, Contract!Break
  <2>0. exposures = {}
    BY TimeSteps DEF Exclusion, Identified
  <2>1. /\ Named \in Token \cup {NoToken} /\ Trusted \subseteq {Named}
        /\ Trusted \subseteq Token /\ NoToken \notin Token
    BY <2>0, NamedIsTrusted, LeaseAssumption DEF Trusted
  <2>2. Named' \in Token \cup {NoToken} /\ Trusted' \subseteq {Named'} /\ Trusted' \subseteq Token
    <3>1. (Named \in Token \cup {NoToken} /\ (exposures = {} => Trusted \subseteq {Named}))'
      BY NamedIsTrusted, PTL
    <3> QED BY <3>1 DEF Trusted
  <2>3. CASE Named' = Named
    BY <2>0, <2>1, <2>2, <2>3
    DEF Contract!ContractNext, Contract!Kept, Contract!Trust, Contract!Cease, Contract!contractVars
  <2>4. CASE Named = NoToken /\ Trusted' = {} /\ Named' # Named
    BY <2>0, <2>1, <2>2, <2>4 DEF Contract!ContractNext, Contract!Kept, Contract!Name
  <2>5. CASE Named' = NoToken /\ Trusted = {} /\ Named' # Named
    BY <2>0, <2>1, <2>2, <2>5 DEF Contract!ContractNext, Contract!Kept, Contract!Withdraw
  <2> QED BY <2>3, <2>4, <2>5, NameSteps
<1> QED BY ExclusionInvariance, <1>1, <1>2, PTL DEF Spec, ImplementsContract, Contract!ContractSpec

=============================================================================
