--------------------------- MODULE FileLease_proofs ---------------------------
(***************************************************************************)
(* Safety of the file lease for any number of processes and any Ttl, under *)
(* either liveness and either policy for corrupt files, with or without    *)
(* stalls and torn writes.  The invariant has two layers: where processes  *)
(* are and what the file says about its writer, which hold always; and     *)
(* what a guarded section may rely on, which holds until a live lease has  *)
(* been taken away in one of the recorded ways.                            *)
(***************************************************************************)
EXTENDS FileLease, TLAPS

-----------------------------------------------------------------------------
(***************************************************************************)
(* Layer 1: where a process is, and what the file says of it               *)
(***************************************************************************)

Section == {"inspect", "verify", "unlink", "retry", "refusing", "failing",
            "pulseInspect", "pulseVerify", "pulseOpen", "pulseWrite", "pulsed", "losing",
            "releaseInspect", "releaseVerify", "releaseUnlink", "released"}

\* The guarded sections lie between an enter and a leave.
SectionsAreInside == \A p \in Proc : p \in inside <=> pc[p] \in Section

OwnerIsInside == owner \in Proc => owner \in inside

Claiming == {"create", "claim", "inspect", "verify", "unlink", "retry", "refusing", "failing"}

\* What a file says of its writer: it is no longer claiming; while it runs,
\* the file is as old as its own timestamp, and half-written only while it
\* is writing.
WriterMatches ==
    lease # Missing =>
        /\ pc[lease.by] \notin Claiming
        /\ Running(lease.by) /\ lease.kind = "lease" => lease.age = age[lease.by]
        /\ Running(lease.by) /\ lease.kind = "corrupt" => pc[lease.by] \in {"writing", "pulseWrite"}

\* The refuse policy never mistakes a file.
Judged == OnCorrupt = "refuse" => exposures \subseteq {"evicted in the gap"}

Control ==
    /\ TypeOK
    /\ SectionsAreInside
    /\ OwnerIsInside
    /\ WriterMatches
    /\ Judged

\* The steps of one process and those of the environment.
LEMMA StepCases ==
    ASSUME [Next]_vars
    PROVE  \/ \E p \in Proc :
                 \/ Boot(p) \/ Crash(p)
                 \/ Create(p) \/ OutOfPasses(p) \/ FinishWrite(p)
                 \/ ClaimInspect(p) \/ ClaimVerify(p) \/ ClaimUnlink(p)
                 \/ BeginPulse(p) \/ PulseInspect(p) \/ PulseVerify(p) \/ PulseOpen(p) \/ PulseWrite(p)
                 \/ BeginRelease(p) \/ ReleaseInspect(p) \/ ReleaseVerify(p) \/ ReleaseUnlink(p)
                 \/ EnterGuard(p) \/ GuardContended(p) \/ LeaveGuard(p)
           \/ PidFreed
           \/ Tick
           \/ GuardAges
           \/ UNCHANGED vars
BY DEF Next, Claim, Pulse, Release

\* The three kinds of lease file.
LEMMA LeaseShapes ==
    ASSUME lease \in LeaseFiles
    PROVE  \/ lease = Missing /\ lease.kind = "missing"
           \/ /\ lease.kind = "corrupt" /\ lease # Missing
              /\ lease.by \in Proc /\ lease = Corrupt(lease.by)
           \/ /\ lease.kind = "lease" /\ lease # Missing
              /\ lease.by \in Proc /\ lease.age \in Ages
              /\ lease = Descriptor(lease.by, lease.age)
<1>1. CASE lease = Missing
  BY <1>1 DEF Missing
<1>2. CASE \E q \in Proc : lease = Corrupt(q)
  BY <1>2 DEF Corrupt, Missing
<1>3. CASE \E q \in Proc, a \in Ages : lease = Descriptor(q, a)
  BY <1>3 DEF Descriptor, Missing
<1> QED BY <1>1, <1>2, <1>3 DEF LeaseFiles

\* Every step is one of the guard or leaves it alone.
LEMMA GuardSteps == ASSUME [Next]_vars PROVE [GuardNext]_guardVars
<1>1. ASSUME NEW p \in Proc, EnterGuard(p) \/ LeaveGuard(p) \/ Crash(p) PROVE [GuardNext]_guardVars
  BY <1>1 DEF EnterGuard, LeaveGuard, Crash, GuardNext
<1>2. ASSUME NEW p \in Proc, Boot(p) \/ Create(p) \/ OutOfPasses(p) \/ FinishWrite(p)
      PROVE  [GuardNext]_guardVars
  BY <1>2 DEF Boot, Create, OutOfPasses, FinishWrite
<1>3. ASSUME NEW p \in Proc, ClaimInspect(p) \/ ClaimVerify(p) \/ ClaimUnlink(p) \/ GuardContended(p)
      PROVE  [GuardNext]_guardVars
  BY <1>3 DEF ClaimInspect, ClaimVerify, ClaimUnlink, GuardContended
<1>4. ASSUME NEW p \in Proc,
             BeginPulse(p) \/ PulseInspect(p) \/ PulseVerify(p) \/ PulseOpen(p) \/ PulseWrite(p)
      PROVE  [GuardNext]_guardVars
  BY <1>4 DEF BeginPulse, PulseInspect, PulseVerify, PulseOpen, PulseWrite
<1>5. ASSUME NEW p \in Proc, BeginRelease(p) \/ ReleaseInspect(p) \/ ReleaseVerify(p) \/ ReleaseUnlink(p)
      PROVE  [GuardNext]_guardVars
  BY <1>5 DEF BeginRelease, ReleaseInspect, ReleaseVerify, ReleaseUnlink
<1>6. CASE PidFreed \/ Tick \/ UNCHANGED vars
  BY <1>6 DEF PidFreed, Tick, vars
<1>7. CASE GuardAges
  BY <1>7 DEF GuardAges, GuardNext
<1> QED BY StepCases, <1>1, <1>2, <1>3, <1>4, <1>5, <1>6, <1>7

LEMMA GuardTypeStep == ASSUME GuardTypeOK, [GuardNext]_guardVars PROVE GuardTypeOK'
<1>1. ASSUME NEW p \in Proc, Enter(p) PROVE GuardTypeOK'
  BY <1>1, GuardMutexAssumption DEF Enter, GuardTypeOK
<1>2. ASSUME NEW p \in Proc, Leave(p) PROVE GuardTypeOK'
  BY <1>2 DEF Leave, GuardTypeOK
<1>3. ASSUME NEW p \in Proc, Die(p) PROVE GuardTypeOK'
  BY <1>3 DEF Die, GuardTypeOK
<1>4. CASE GrowOld \/ Steal \/ UNCHANGED guardVars
  BY <1>4 DEF GrowOld, Steal, GuardTypeOK, guardVars
<1> QED BY <1>1, <1>2, <1>3, <1>4 DEF GuardNext

\* Whose entry the guard carries changes to the name of an entrant only.
LEMMA OwnerSteps ==
    ASSUME OwnerIsInside, [GuardNext]_guardVars
    PROVE  /\ OwnerIsInside'
           /\ \A p \in Proc : owner' = p => owner = p \/ Enter(p)
<1>1. ASSUME NEW q \in Proc, Enter(q) \/ Leave(q) \/ Die(q)
      PROVE  /\ OwnerIsInside'
             /\ \A p \in Proc : owner' = p => owner = p \/ Enter(p)
  BY <1>1, GuardMutexAssumption DEF Enter, Leave, Die, OwnerIsInside
<1>2. CASE GrowOld \/ Steal \/ UNCHANGED guardVars
  BY <1>2, GuardMutexAssumption DEF GrowOld, Steal, guardVars, OwnerIsInside
<1> QED BY <1>1, <1>2 DEF GuardNext

\* The three tables of the guarded sections, entry by entry.
LEMMA Tables ==
    /\ DOMAIN InsideOf = {"claim", "pulse", "release"}
    /\ InsideOf["claim"] = "inspect"
    /\ InsideOf["pulse"] = "pulseInspect"
    /\ InsideOf["release"] = "releaseInspect"
    /\ DOMAIN Contended = {"claim", "pulse", "release"}
    /\ Contended["claim"] = "refused"
    /\ Contended["pulse"] = "holding"
    /\ Contended["release"] = "off"
    /\ DOMAIN OutsideOf = {"retry", "refusing", "failing", "pulsed", "losing", "released"}
    /\ OutsideOf["retry"] = "create"
    /\ OutsideOf["refusing"] = "refused"
    /\ OutsideOf["failing"] = "failed"
    /\ OutsideOf["pulsed"] = "holding"
    /\ OutsideOf["losing"] = "lost"
    /\ OutsideOf["released"] = "off"
<1>1. DOMAIN InsideOf = {"claim", "pulse", "release"}
  BY DEF InsideOf
<1>2. DOMAIN Contended = {"claim", "pulse", "release"}
  BY DEF Contended
<1>3. DOMAIN OutsideOf = {"retry", "refusing", "failing", "pulsed", "losing", "released"}
  BY DEF OutsideOf
<1> QED BY <1>1, <1>2, <1>3 DEF InsideOf, Contended, OutsideOf

\* The steps that change nothing but where p is.
Quiet(p) ==
    \/ OutOfPasses(p) \/ ClaimVerify(p) \/ GuardContended(p)
    \/ BeginPulse(p) \/ PulseInspect(p) \/ PulseVerify(p)
    \/ BeginRelease(p) \/ ReleaseInspect(p) \/ ReleaseVerify(p)

LEMMA QuietSteps ==
    ASSUME TypeOK, NEW p \in Proc, Quiet(p)
    PROVE  /\ UNCHANGED <<guardVars, lease, attempt, age, reused, exposures>>
           /\ pc' = [pc EXCEPT ![p] = pc'[p]]
           /\ pc'[p] \in Labels
           /\ pc[p] \notin {"writing", "pulseWrite"} /\ pc'[p] \notin {"writing", "pulseWrite"}
           /\ pc[p] \in Section <=> pc'[p] \in Section
           /\ pc'[p] \in Claiming => pc[p] \in Claiming
           /\ pc[p] \notin {"off", "refused", "failed", "lost", "dead"}
           /\ Holding(p)' => Holding(p)
           /\ pc'[p] # "verify"
           /\ pc'[p] = "unlink" => pc[p] = "verify"
           /\ pc'[p] \in {"pulseVerify", "releaseVerify"}
                 => Own(p) /\ pc[p] \in {"pulseInspect", "releaseInspect"}
           /\ pc'[p] = "pulseOpen" => pc[p] = "pulseVerify"
           /\ pc'[p] = "releaseUnlink" => pc[p] = "releaseVerify"
<1> USE DEF Labels, Section, Claiming, Holding, Goto, TypeOK
<1>1. CASE OutOfPasses(p) \/ ClaimVerify(p)
  BY <1>1 DEF OutOfPasses, ClaimVerify
<1>2. CASE GuardContended(p)
  BY ZenonT(40), <1>2, Tables DEF GuardContended
<1>3. CASE BeginPulse(p) \/ PulseInspect(p) \/ PulseVerify(p)
  BY <1>3 DEF BeginPulse, PulseInspect, PulseVerify
<1>4. CASE BeginRelease(p) \/ ReleaseInspect(p) \/ ReleaseVerify(p)
  BY ZenonT(40), <1>4 DEF BeginRelease, ReleaseInspect, ReleaseVerify
<1> QED BY <1>1, <1>2, <1>3, <1>4 DEF Quiet

\* The steps into the guard and out of it.
LEMMA EnterSteps ==
    ASSUME TypeOK, NEW p \in Proc, EnterGuard(p)
    PROVE  /\ Enter(p) /\ UNCHANGED <<lease, attempt, age, reused, exposures>>
           /\ pc' = [pc EXCEPT ![p] = pc'[p]]
           /\ \/ pc[p] = "claim" /\ pc'[p] = "inspect"
              \/ pc[p] = "pulse" /\ pc'[p] = "pulseInspect"
              \/ pc[p] = "release" /\ pc'[p] = "releaseInspect"
BY Tables DEF EnterGuard, Goto, TypeOK

LEMMA LeaveSteps ==
    ASSUME TypeOK, NEW p \in Proc, LeaveGuard(p)
    PROVE  /\ Leave(p) /\ UNCHANGED <<lease, attempt, age, reused, exposures>>
           /\ pc' = [pc EXCEPT ![p] = pc'[p]]
           /\ \/ pc[p] = "retry" /\ pc'[p] = "create"
              \/ pc[p] \in {"refusing", "failing", "losing", "released"}
                 /\ pc'[p] \in {"refused", "failed", "lost", "off"}
              \/ pc[p] = "pulsed" /\ pc'[p] = "holding"
BY Tables DEF LeaveGuard, Goto, TypeOK

LEMMA ControlInit == Init => Control
<1> SUFFICES ASSUME Init PROVE Control
  OBVIOUS
<1> USE FileLeaseAssumption, GuardMutexAssumption DEF Init, GuardInit
<1>1. TypeOK
  <2>1. 0 \in Ages /\ "off" \in Labels /\ 0 \in 0 .. 2 /\ Missing \in LeaseFiles
    BY DEF Ages, Labels, LeaseFiles
  <2> QED BY <2>1 DEF TypeOK, GuardTypeOK
<1>2. SectionsAreInside /\ OwnerIsInside
  BY DEF SectionsAreInside, OwnerIsInside, Section
<1>3. WriterMatches /\ Judged
  BY DEF WriterMatches, Judged
<1> QED BY <1>1, <1>2, <1>3 DEF Control

\* Files, ages and exposures stay what they are; the guard's lemma and the
\* lemmas on labels do the rest.
LEMMA TypeStep == TypeOK /\ [Next]_vars => TypeOK'
<1> SUFFICES ASSUME TypeOK, [Next]_vars PROVE TypeOK'
  OBVIOUS
<1>0. GuardTypeOK'
  BY GuardSteps, GuardTypeStep DEF TypeOK
<1>a. 0 \in Ages
  BY FileLeaseAssumption DEF Ages
<1>b. \A p \in Proc : Corrupt(p) \in LeaseFiles
  BY DEF LeaseFiles
<1>c. \A p \in Proc, a \in Ages : Descriptor(p, a) \in LeaseFiles
  BY DEF LeaseFiles
<1>d. Missing \in LeaseFiles
  BY DEF LeaseFiles
<1> USE <1>0
<1>1. ASSUME NEW p \in Proc, Boot(p) PROVE TypeOK'
  <2>1. "create" \in Labels /\ 0 \in 0 .. 2
    BY DEF Labels
  <2> QED BY <1>1, <1>a, <2>1 DEF Boot, Goto, TypeOK
<1>2. ASSUME NEW p \in Proc, Crash(p) PROVE TypeOK'
  BY <1>2 DEF Crash, Goto, TypeOK, Labels
<1>3. ASSUME NEW p \in Proc, Create(p) PROVE TypeOK'
  <2>1. "writing" \in Labels /\ "claim" \in Labels
    BY DEF Labels
  <2>2. lease' \in LeaseFiles
    BY <1>3, <1>b, <1>c DEF Create, TypeOK
  <2>3. attempt' \in [Proc -> 0 .. 2]
    <3>1. attempt[p] + 1 \in 0 .. 2
      <4>1. attempt[p] \in 0 .. 2 /\ attempt[p] < 2
        BY <1>3 DEF Create, TypeOK
      <4> QED BY <4>1
    <3>2. attempt' = [attempt EXCEPT ![p] = attempt[p] + 1]
      BY <1>3 DEF Create
    <3> QED BY <3>1, <3>2 DEF TypeOK
  <2>4. pc' \in [Proc -> Labels]
    BY <1>3, <2>1 DEF Create, Goto, TypeOK
  <2> QED BY <1>3, <2>2, <2>3, <2>4 DEF Create, TypeOK
<1>4. ASSUME NEW p \in Proc, FinishWrite(p) \/ PulseWrite(p) PROVE TypeOK'
  <2>1. "holding" \in Labels /\ "pulsed" \in Labels
    BY DEF Labels
  <2>2. lease' \in LeaseFiles
    BY <1>4, <1>c DEF FinishWrite, PulseWrite, TypeOK
  <2> QED BY <1>4, <2>1, <2>2 DEF FinishWrite, PulseWrite, Goto, TypeOK
<1>5. ASSUME NEW p \in Proc, ClaimInspect(p) PROVE TypeOK'
  <2>1. exposures' \subseteq {"evicted in the gap", "half-written lease", "absent read as corrupt"}
    BY <1>5 DEF ClaimInspect, TypeOK
  <2> QED BY <1>5, <2>1 DEF ClaimInspect, Goto, TypeOK, Labels
<1>6. ASSUME NEW p \in Proc, ClaimUnlink(p) \/ PulseOpen(p) \/ ReleaseUnlink(p) PROVE TypeOK'
  <2>1. exposures' \subseteq {"evicted in the gap", "half-written lease", "absent read as corrupt"}
    BY <1>6 DEF ClaimUnlink, PulseOpen, ReleaseUnlink, Expose, TypeOK
  <2>2. lease' \in LeaseFiles
    BY <1>6, <1>a, <1>b, <1>c, <1>d DEF ClaimUnlink, PulseOpen, ReleaseUnlink
  <2>3. age' \in [Proc -> Ages]
    BY <1>6, <1>a DEF ClaimUnlink, PulseOpen, ReleaseUnlink, TypeOK
  <2>4. "failing" \in Labels /\ "retry" \in Labels /\ "pulseWrite" \in Labels /\ "released" \in Labels
    BY DEF Labels
  <2>5. pc' \in [Proc -> Labels]
    BY <1>6, <2>4 DEF ClaimUnlink, PulseOpen, ReleaseUnlink, Goto, TypeOK
  <2> QED BY <1>6, <2>1, <2>2, <2>3, <2>5 DEF ClaimUnlink, PulseOpen, ReleaseUnlink, TypeOK
<1>7. ASSUME NEW p \in Proc, Quiet(p) PROVE TypeOK'
  BY <1>7, QuietSteps DEF TypeOK
<1>8. ASSUME NEW p \in Proc, EnterGuard(p) PROVE TypeOK'
  BY <1>8, EnterSteps DEF TypeOK, Labels
<1>9. ASSUME NEW p \in Proc, LeaveGuard(p) PROVE TypeOK'
  BY <1>9, LeaveSteps DEF TypeOK, Labels
<1>10. CASE PidFreed \/ GuardAges \/ UNCHANGED vars
  BY <1>10 DEF PidFreed, GuardAges, vars, TypeOK
<1>11. CASE Tick
  <2>1. \A a \in Ages : Older(a) \in Ages
    BY FileLeaseAssumption DEF Ages, Older
  <2>2. age' \in [Proc -> Ages]
    BY <1>11, <2>1 DEF Tick, TypeOK
  <2>3. lease' \in LeaseFiles
    <3>1. CASE Readable
      <4>1. lease = Descriptor(lease.by, lease.age) /\ lease.by \in Proc /\ lease.age \in Ages
        BY <3>1, LeaseShapes DEF TypeOK, Readable
      <4>2. lease' = [lease EXCEPT !.age = Older(lease.age)]
        BY <1>11, <3>1 DEF Tick
      <4>3. lease' = Descriptor(lease.by, Older(lease.age))
        BY <4>1, <4>2 DEF Descriptor
      <4> QED BY <1>c, <2>1, <4>1, <4>3
    <3>2. CASE ~Readable
      BY <1>11, <3>2 DEF Tick, TypeOK
    <3> QED BY <3>1, <3>2
  <2> QED BY <1>11, <2>2, <2>3 DEF Tick, TypeOK
<1> QED BY StepCases, <1>1, <1>2, <1>3, <1>4, <1>5, <1>6, <1>7, <1>8, <1>9, <1>10, <1>11 DEF Quiet

LEMMA SectionsStep ==
    TypeOK /\ SectionsAreInside /\ OwnerIsInside /\ [Next]_vars => SectionsAreInside' /\ OwnerIsInside'
<1> SUFFICES ASSUME TypeOK, SectionsAreInside, OwnerIsInside, [Next]_vars
             PROVE  SectionsAreInside'
  BY GuardSteps, OwnerSteps
<1> USE DEF TypeOK, SectionsAreInside, Section, Goto
<1>1. ASSUME NEW p \in Proc, Boot(p) PROVE SectionsAreInside'
  BY <1>1 DEF Boot, Running, guardVars
<1>2. ASSUME NEW p \in Proc, Crash(p) PROVE SectionsAreInside'
  BY <1>2 DEF Crash, Die, guardVars
<1>3. ASSUME NEW p \in Proc, Create(p) \/ FinishWrite(p) \/ PulseWrite(p) PROVE SectionsAreInside'
  BY <1>3 DEF Create, FinishWrite, PulseWrite, guardVars
<1>4. ASSUME NEW p \in Proc, ClaimInspect(p) \/ ClaimUnlink(p) \/ PulseOpen(p) \/ ReleaseUnlink(p)
      PROVE  SectionsAreInside'
  BY <1>4 DEF ClaimInspect, ClaimUnlink, PulseOpen, ReleaseUnlink, guardVars
<1>5. ASSUME NEW p \in Proc, Quiet(p) PROVE SectionsAreInside'
  BY <1>5, QuietSteps DEF guardVars
<1>6. ASSUME NEW p \in Proc, EnterGuard(p) PROVE SectionsAreInside'
  BY <1>6, EnterSteps DEF Enter
<1>7. ASSUME NEW p \in Proc, LeaveGuard(p) PROVE SectionsAreInside'
  BY <1>7, LeaveSteps DEF Leave
<1>8. CASE PidFreed \/ Tick \/ UNCHANGED vars
  BY <1>8 DEF PidFreed, Tick, vars, guardVars
<1>9. CASE GuardAges
  BY <1>9 DEF GuardAges, GrowOld, Steal
<1> QED BY StepCases, <1>1, <1>2, <1>3, <1>4, <1>5, <1>6, <1>7, <1>8, <1>9 DEF Quiet

\* A step that leaves the file and its writer's age alone.
LEMMA WriterStays ==
    ASSUME TypeOK, WriterMatches, UNCHANGED lease, lease # Missing,
           age'[lease.by] = age[lease.by],
           \/ pc'[lease.by] = pc[lease.by]
           \/ /\ pc'[lease.by] \notin Claiming
              /\ Running(lease.by)' => Running(lease.by)
              /\ lease.kind = "corrupt" /\ Running(lease.by)' => pc'[lease.by] \in {"writing", "pulseWrite"}
    PROVE  WriterMatches'
BY DEF WriterMatches, Running

LEMMA WriterStep == TypeOK /\ WriterMatches /\ [Next]_vars => WriterMatches'
<1> SUFFICES ASSUME TypeOK, WriterMatches, [Next]_vars, lease' # Missing
             PROVE  WriterMatches'
  BY DEF WriterMatches, Missing
<1>0. lease \in LeaseFiles /\ pc \in [Proc -> Labels] /\ age \in [Proc -> Ages]
  BY DEF TypeOK
<1>s. lease # Missing => lease.by \in Proc /\ (Running(lease.by) /\ lease.kind = "corrupt"
                              => pc[lease.by] \in {"writing", "pulseWrite"})
  BY <1>0, LeaseShapes DEF WriterMatches
<1>1. ASSUME NEW p \in Proc, Boot(p) PROVE WriterMatches'
  <2>1. UNCHANGED lease /\ lease # Missing /\ lease.by # p
    BY <1>1 DEF Boot, Missing
  <2> QED BY <1>0, <1>1, <1>s, <2>1, WriterStays DEF Boot, Goto
<1>2. ASSUME NEW p \in Proc, Crash(p) PROVE WriterMatches'
  <2>1. UNCHANGED <<lease, age>> /\ lease # Missing /\ pc' = [pc EXCEPT ![p] = "dead"]
    BY <1>2 DEF Crash, Goto, Missing
  <2> QED BY <1>0, <1>s, <2>1, WriterStays DEF Running, Claiming
<1>3. ASSUME NEW p \in Proc, Create(p) PROVE WriterMatches'
  <2>1. CASE lease = Missing
    <3>1. pc'[p] = "writing" /\ age' = age
          /\ (lease' = Corrupt(p) \/ lease' = Descriptor(p, age[p]))
      BY <1>0, <1>3, <2>1 DEF Create, Goto
    <3> QED BY <3>1 DEF WriterMatches, Corrupt, Descriptor, Claiming
  <2>2. CASE lease # Missing
    <3>1. UNCHANGED <<lease, age>> /\ pc' = [pc EXCEPT ![p] = "claim"] /\ pc[p] = "create"
      BY <1>3, <2>2 DEF Create, Goto
    <3>2. lease.by # p
      BY <2>2, <3>1 DEF WriterMatches, Claiming
    <3> QED BY <1>0, <1>s, <2>2, <3>1, <3>2, WriterStays
  <2> QED BY <2>1, <2>2
<1>4. ASSUME NEW p \in Proc, FinishWrite(p) \/ PulseWrite(p) PROVE WriterMatches'
  <2>1. /\ pc[p] \in {"writing", "pulseWrite"} /\ age' = age
        /\ pc' = [pc EXCEPT ![p] = pc'[p]] /\ pc'[p] \in {"holding", "pulsed"}
        /\ lease' = IF lease = Corrupt(p) THEN Descriptor(p, age[p]) ELSE lease
    BY <1>0, <1>4 DEF FinishWrite, PulseWrite, Goto
  <2>2. CASE lease = Corrupt(p)
    BY <2>1, <2>2 DEF WriterMatches, Descriptor, Claiming
  <2>3. CASE lease # Corrupt(p)
    <3>1. lease' = lease /\ lease # Missing
      BY <2>1, <2>3 DEF Missing
    <3>2. CASE lease.by = p
      <4>1. lease.kind = "lease"
        BY <1>0, <2>3, <3>1, <3>2, LeaseShapes
      <4> QED BY <1>0, <2>1, <3>1, <3>2, <4>1, WriterStays DEF Running, Claiming
    <3>3. CASE lease.by # p
      BY <1>0, <1>s, <2>1, <3>1, <3>3, WriterStays
    <3> QED BY <3>2, <3>3
  <2> QED BY <2>2, <2>3
<1>5. ASSUME NEW p \in Proc, ClaimInspect(p) PROVE WriterMatches'
  <2>1. /\ UNCHANGED <<lease, age>> /\ lease # Missing /\ pc[p] = "inspect"
        /\ pc' = [pc EXCEPT ![p] = pc'[p]]
    BY <1>0, <1>5 DEF ClaimInspect, Goto, Missing
  <2>2. lease.by # p
    BY <2>1 DEF WriterMatches, Claiming
  <2> QED BY <1>0, <1>s, <2>1, <2>2, WriterStays
<1>6. ASSUME NEW p \in Proc, ClaimUnlink(p) \/ ReleaseUnlink(p) PROVE WriterMatches'
  BY <1>6 DEF ClaimUnlink, ReleaseUnlink, Missing
<1>7. ASSUME NEW p \in Proc, PulseOpen(p) PROVE WriterMatches'
  <2>1. pc'[p] = "pulseWrite" /\ age'[p] = 0 /\ (lease' = Corrupt(p) \/ lease' = Descriptor(p, 0))
    BY <1>0, <1>7 DEF PulseOpen, Goto
  <2> QED BY <2>1 DEF WriterMatches, Corrupt, Descriptor, Claiming
<1>8. ASSUME NEW p \in Proc, Quiet(p) \/ EnterGuard(p) \/ LeaveGuard(p) PROVE WriterMatches'
  <2>1. /\ UNCHANGED <<lease, age>> /\ lease # Missing
        /\ pc' = [pc EXCEPT ![p] = pc'[p]]
        /\ pc[p] \notin {"writing", "pulseWrite"}
        /\ pc'[p] \in Claiming => pc[p] \in Claiming
        /\ Running(p)
    <3>1. CASE Quiet(p)
      BY <3>1, QuietSteps DEF Running, Missing
    <3>2. CASE EnterGuard(p)
      BY <3>2, EnterSteps DEF Running, Claiming, Missing
    <3>3. CASE LeaveGuard(p)
      BY <3>3, LeaveSteps DEF Running, Claiming, Missing
    <3> QED BY <1>8, <3>1, <3>2, <3>3
  <2>2. lease.by = p => lease.kind # "corrupt" /\ pc[p] \notin Claiming
    BY <2>1 DEF WriterMatches
  <2> QED BY <1>0, <1>s, <2>1, <2>2, WriterStays
<1>9. CASE PidFreed \/ GuardAges \/ UNCHANGED vars
  <2>1. UNCHANGED <<lease, pc, age>> /\ lease # Missing
    BY <1>9 DEF PidFreed, GuardAges, vars, Missing
  <2> QED BY <2>1, WriterStays
<1>10. CASE Tick
  <2>1. UNCHANGED pc /\ lease # Missing
    BY <1>10 DEF Tick, Readable, Missing
  <2>2. CASE lease.kind = "lease"
    <3>1. lease' = Descriptor(lease.by, Older(lease.age)) /\ lease.by \in Proc
      BY <1>0, <1>10, <2>2, LeaseShapes DEF Tick, Readable, Descriptor, Missing
    <3>2. Running(lease.by) => age'[lease.by] = Older(age[lease.by])
      BY <1>0, <1>10, <3>1 DEF Tick
    <3> QED BY <2>1, <2>2, <3>1, <3>2 DEF WriterMatches, Running, Descriptor
  <2>3. CASE lease.kind # "lease"
    BY <1>10, <2>1, <2>3 DEF WriterMatches, Running, Tick, Readable
  <2> QED BY <2>2, <2>3
<1> QED BY StepCases, <1>1, <1>2, <1>3, <1>4, <1>5, <1>6, <1>7, <1>8, <1>9, <1>10 DEF Quiet

LEMMA JudgedStep == Control /\ [Next]_vars => Judged'
<1> SUFFICES ASSUME Control, [Next]_vars, OnCorrupt = "refuse"
             PROVE  exposures' \subseteq {"evicted in the gap"}
  BY DEF Judged
<1>0. TypeOK /\ exposures \subseteq {"evicted in the gap"}
  BY DEF Control, Judged
<1>1. ASSUME NEW p \in Proc, ClaimUnlink(p) \/ PulseOpen(p) \/ ReleaseUnlink(p)
      PROVE  exposures' \subseteq {"evicted in the gap"}
  BY <1>0, <1>1 DEF ClaimUnlink, PulseOpen, ReleaseUnlink, Expose
<1>2. ASSUME NEW p \in Proc, ClaimInspect(p) PROVE exposures' = exposures
  BY <1>2 DEF ClaimInspect
<1>3. ASSUME NEW p \in Proc, Quiet(p) \/ EnterGuard(p) \/ LeaveGuard(p) PROVE exposures' = exposures
  BY <1>0, <1>3, QuietSteps, EnterSteps, LeaveSteps
<1>4. ASSUME NEW p \in Proc, Boot(p) \/ Crash(p) \/ Create(p) \/ FinishWrite(p) \/ PulseWrite(p)
      PROVE  exposures' = exposures
  BY <1>4 DEF Boot, Crash, Create, FinishWrite, PulseWrite
<1>5. CASE PidFreed \/ Tick \/ GuardAges \/ UNCHANGED vars
  <2>1. exposures' = exposures
    BY <1>5 DEF PidFreed, Tick, GuardAges, vars
  <2> QED BY <1>0, <2>1
<1> QED BY StepCases, <1>0, <1>1, <1>2, <1>3, <1>4, <1>5 DEF Quiet

LEMMA ControlInvariance == Spec => []Control
<1>1. Control /\ [Next]_vars => Control'
  BY TypeStep, SectionsStep, WriterStep, JudgedStep DEF Control
<1> QED BY ControlInit, <1>1, PTL DEF Spec

\* Every file, timestamp and label is one the code can produce.
THEOREM TypeCorrect == Spec => []TypeOK
<1>1. Control => TypeOK
  BY DEF Control
<1> QED BY ControlInvariance, <1>1, PTL

-----------------------------------------------------------------------------
(***************************************************************************)
(* Layer 2: what the owner of the guard relies on, and the file of a       *)
(* holder, until an exposure is used                                       *)
(***************************************************************************)

\* A file that may be reclaimed: its writer is gone or stale.
Condemned == lease # Missing /\ ~BeingWritten /\ (Readable => ~HeldFresh)

\* What an inspection found is still so while the guard carries its entry.
SectionsAreSound ==
    exposures = {} => \A p \in Proc : owner = p =>
        /\ pc[p] \in {"verify", "unlink"} => Condemned
        /\ pc[p] \in {"pulseVerify", "pulseOpen", "releaseVerify", "releaseUnlink"} => Own(p)

\* The file is that of whoever holds the lease, or is writing it, and is
\* not out of date.
HoldersArePinned ==
    exposures = {} => \A p \in Proc :
        (pc[p] = "writing" \/ Holding(p)) /\ ~OutOfDate(p) => lease # Missing /\ lease.by = p

Exclusion == Control /\ SectionsAreSound /\ HoldersArePinned

\* Exposures are a history.
LEMMA ExposuresGrow == ASSUME [Next]_vars, TypeOK, exposures' = {} PROVE exposures = {}
<1>1. ASSUME NEW p \in Proc, ClaimUnlink(p) \/ PulseOpen(p) \/ ReleaseUnlink(p) PROVE exposures = {}
  BY <1>1 DEF ClaimUnlink, PulseOpen, ReleaseUnlink, Expose
<1>2. ASSUME NEW p \in Proc, ClaimInspect(p) PROVE exposures = {}
  <2>1. exposures \subseteq exposures'
    BY <1>2 DEF ClaimInspect
  <2> QED BY <2>1
<1>3. ASSUME NEW p \in Proc, Quiet(p) \/ EnterGuard(p) \/ LeaveGuard(p) PROVE exposures' = exposures
  BY <1>3, QuietSteps, EnterSteps, LeaveSteps
<1>4. ASSUME NEW p \in Proc, Boot(p) \/ Crash(p) \/ Create(p) \/ FinishWrite(p) \/ PulseWrite(p)
      PROVE  exposures' = exposures
  BY <1>4 DEF Boot, Crash, Create, FinishWrite, PulseWrite
<1>5. CASE PidFreed \/ Tick \/ GuardAges \/ UNCHANGED vars
  BY <1>5 DEF PidFreed, Tick, GuardAges, vars
<1> QED BY StepCases, <1>1, <1>2, <1>3, <1>4, <1>5 DEF Quiet

\* A mutation of the file that uses no exposure is that of the guard's owner.
LEMMA OwnersAct ==
    ASSUME exposures' = {}, NEW p \in Proc, ClaimUnlink(p) \/ PulseOpen(p) \/ ReleaseUnlink(p)
    PROVE  owner = p
BY DEF ClaimUnlink, PulseOpen, ReleaseUnlink, Expose, Verified

Touches(p) == ClaimUnlink(p) \/ ReleaseUnlink(p) \/ PulseOpen(p)

\* A file nobody removes or reopens is written to its end, or grows older.
LEMMA KeptFile ==
    ASSUME TypeOK, [Next]_vars, lease # Missing, \A p \in Proc : ~Touches(p)
    PROVE  \/ UNCHANGED lease
           \/ \E p \in Proc : /\ lease = Corrupt(p) /\ pc[p] \in {"writing", "pulseWrite"}
                              /\ lease' = Descriptor(p, age[p])
           \/ /\ Readable /\ Liveness = "age"
              /\ lease' = Descriptor(lease.by, Older(lease.age))
<1>0. lease \in LeaseFiles
  BY DEF TypeOK
<1>1. ASSUME NEW p \in Proc, Boot(p) \/ Crash(p) \/ Create(p) \/ ClaimInspect(p) PROVE UNCHANGED lease
  BY <1>1 DEF Boot, Crash, Create, ClaimInspect
<1>2. ASSUME NEW p \in Proc, FinishWrite(p) \/ PulseWrite(p), lease' # lease
      PROVE  /\ lease = Corrupt(p) /\ pc[p] \in {"writing", "pulseWrite"}
             /\ lease' = Descriptor(p, age[p])
  BY <1>2 DEF FinishWrite, PulseWrite
<1>3. ASSUME NEW p \in Proc, Quiet(p) \/ EnterGuard(p) \/ LeaveGuard(p) PROVE UNCHANGED lease
  BY <1>3, QuietSteps, EnterSteps, LeaveSteps
<1>4. CASE PidFreed \/ GuardAges \/ UNCHANGED vars
  BY <1>4 DEF PidFreed, GuardAges, vars
<1>5. CASE Tick
  <2>1. CASE Readable
    <3>1. lease = Descriptor(lease.by, lease.age)
      BY <1>0, <2>1, LeaseShapes DEF Readable
    <3> QED BY <1>5, <2>1, <3>1 DEF Tick, Descriptor
  <2>2. CASE ~Readable
    BY <1>5, <2>2 DEF Tick
  <2> QED BY <2>1, <2>2
<1> QED BY StepCases, <1>1, <1>2, <1>3, <1>4, <1>5 DEF Quiet, Touches

\* The steps that change whose file it is, or remove it.
LEMMA FileSteps ==
    ASSUME Control, SectionsAreSound, [Next]_vars, exposures' = {}, lease # Missing
    PROVE  \/ lease' # Missing /\ lease'.by = lease.by /\ (Readable => Readable')
              /\ \A p \in Proc : ~Touches(p)
           \/ \E p \in Proc : ClaimUnlink(p) /\ Condemned /\ owner = p
           \/ \E p \in Proc : ReleaseUnlink(p) /\ Own(p)
           \/ \E p \in Proc : PulseOpen(p) /\ Own(p)
<1>0. exposures = {} /\ TypeOK
  BY ExposuresGrow DEF Control
<1>1. ASSUME NEW p \in Proc, ClaimUnlink(p) PROVE Condemned /\ owner = p
  <2>1. owner = p /\ pc[p] = "unlink"
    BY <1>1, OwnersAct DEF ClaimUnlink
  <2> QED BY <1>0, <2>1 DEF SectionsAreSound
<1>2. ASSUME NEW p \in Proc, ReleaseUnlink(p) \/ PulseOpen(p) PROVE Own(p)
  <2>1. owner = p /\ pc[p] \in {"releaseUnlink", "pulseOpen"}
    BY <1>2, OwnersAct DEF ReleaseUnlink, PulseOpen
  <2> QED BY <1>0, <2>1 DEF SectionsAreSound
<1>3. ASSUME \A p \in Proc : ~Touches(p)
      PROVE  lease' # Missing /\ lease'.by = lease.by /\ (Readable => Readable')
  BY <1>0, <1>3, KeptFile DEF Corrupt, Descriptor, Missing, Readable
<1> QED BY <1>1, <1>2, <1>3 DEF Touches

\* Where p was before it reached the places the two invariants speak of.
CameFrom(p) ==
    /\ pc'[p] = "verify" => pc[p] = "verify" \/ ClaimInspect(p)
    /\ pc'[p] = "unlink" => pc[p] \in {"verify", "unlink"}
    /\ pc'[p] \in {"pulseVerify", "releaseVerify"}
          => pc[p] = pc'[p] \/ (Own(p) /\ pc[p] \in {"pulseInspect", "releaseInspect"})
    /\ pc'[p] = "pulseOpen" => pc[p] \in {"pulseVerify", "pulseOpen"}
    /\ pc'[p] = "releaseUnlink" => pc[p] \in {"releaseVerify", "releaseUnlink"}
    /\ pc'[p] = "writing" => pc[p] = "writing" \/ (Create(p) /\ lease = Missing)
    /\ pc'[p] = "pulseWrite" => pc[p] = "pulseWrite" \/ PulseOpen(p)
    /\ Holding(p)' => Holding(p) \/ pc[p] = "writing"
    /\ Running(p)' => Running(p) \/ Boot(p)
    /\ ~OutOfDate(p)' /\ OutOfDate(p) => Boot(p) \/ PulseOpen(p)
    /\ Boot(p) => pc'[p] = "create"

LEMMA PcSteps == ASSUME TypeOK, [Next]_vars, NEW p \in Proc PROVE CameFrom(p)
<1> USE DEF CameFrom, Holding, Running, OutOfDate
<1>0. pc \in [Proc -> Labels] /\ age \in [Proc -> Ages] /\ Ttl \in Nat
  BY FileLeaseAssumption DEF TypeOK
<1>b. Boot(p) => pc'[p] = "create"
  BY <1>0 DEF Boot, Goto
<1>1. ASSUME NEW q \in Proc, Boot(q) \/ Crash(q) PROVE CameFrom(p)
  BY <1>0, <1>1, <1>b DEF Boot, Crash, Goto
<1>2. ASSUME NEW q \in Proc, Create(q) PROVE CameFrom(p)
  BY <1>0, <1>2, <1>b DEF Create, Goto
<1>3. ASSUME NEW q \in Proc, FinishWrite(q) \/ PulseWrite(q) PROVE CameFrom(p)
  BY <1>0, <1>3, <1>b DEF FinishWrite, PulseWrite, Goto
<1>4. ASSUME NEW q \in Proc, ClaimInspect(q) \/ ClaimUnlink(q) \/ ReleaseUnlink(q) PROVE CameFrom(p)
  BY <1>0, <1>4, <1>b DEF ClaimInspect, ClaimUnlink, ReleaseUnlink, Goto
<1>5. ASSUME NEW q \in Proc, PulseOpen(q) PROVE CameFrom(p)
  BY <1>0, <1>5, <1>b DEF PulseOpen, Goto
<1>6. ASSUME NEW q \in Proc, Quiet(q) PROVE CameFrom(p)
  BY <1>0, <1>6, <1>b, QuietSteps
<1>7. ASSUME NEW q \in Proc, EnterGuard(q) PROVE CameFrom(p)
  BY <1>0, <1>7, <1>b, EnterSteps
<1>8. ASSUME NEW q \in Proc, LeaveGuard(q) PROVE CameFrom(p)
  BY <1>0, <1>8, <1>b, LeaveSteps
<1>9. CASE PidFreed \/ GuardAges \/ UNCHANGED vars
  BY <1>9, <1>b DEF PidFreed, GuardAges, vars
<1>10. CASE Tick
  <2>1. pc' = pc
    BY <1>10 DEF Tick
  <2>2. age[p] >= Ttl /\ age[p] \in Nat => age'[p] >= Ttl
    BY <1>0, <1>10 DEF Tick, Older
  <2>3. age[p] \in Nat
    BY <1>0 DEF Ages
  <2> QED BY <1>b, <2>1, <2>2, <2>3
<1> QED BY StepCases, <1>1, <1>2, <1>3, <1>4, <1>5, <1>6, <1>7, <1>8, <1>9, <1>10 DEF Quiet

\* The pid of a process that has gone is not taken for it again.
LEMMA ReusedSteps ==
    ASSUME TypeOK, [Next]_vars, NEW p \in Proc, p \in reused', p \notin reused
    PROVE  Running(p)
<1>1. ASSUME NEW q \in Proc, Crash(q) PROVE Running(p)
  BY <1>1 DEF Crash
<1>2. ASSUME NEW q \in Proc, Boot(q) PROVE FALSE
  BY <1>2 DEF Boot
<1>3. ASSUME NEW q \in Proc, Quiet(q) \/ EnterGuard(q) \/ LeaveGuard(q) PROVE FALSE
  BY <1>3, QuietSteps, EnterSteps, LeaveSteps
<1>4. ASSUME NEW q \in Proc, Create(q) \/ FinishWrite(q) \/ PulseWrite(q) PROVE FALSE
  BY <1>4 DEF Create, FinishWrite, PulseWrite
<1>5. ASSUME NEW q \in Proc, ClaimInspect(q) \/ ClaimUnlink(q) \/ PulseOpen(q) \/ ReleaseUnlink(q)
      PROVE  FALSE
  BY <1>5 DEF ClaimInspect, ClaimUnlink, PulseOpen, ReleaseUnlink
<1>6. CASE PidFreed \/ Tick \/ GuardAges \/ UNCHANGED vars
  BY <1>6 DEF PidFreed, Tick, GuardAges, vars
<1> QED BY StepCases, <1>1, <1>2, <1>3, <1>4, <1>5, <1>6 DEF Quiet

\* A condemned file that nobody touches is still condemned.
LEMMA CondemnedStays ==
    ASSUME Control, [Next]_vars, Condemned, \A p \in Proc : ~Touches(p)
    PROVE  Condemned'
<1> DEFINE w == lease.by
<1>0. /\ TypeOK /\ WriterMatches /\ lease # Missing /\ lease \in LeaseFiles
      /\ w \in Proc /\ Ttl \in Nat
  BY LeaseShapes, FileLeaseAssumption DEF Control, TypeOK, Condemned
<1>c. CameFrom(w) /\ ~Boot(w) /\ (Create(w) => lease # Missing) /\ ~PulseOpen(w)
  BY <1>0, PcSteps DEF Boot, Touches
<1>1. lease.kind = "corrupt" => pc[w] \notin {"writing", "pulseWrite"}
  BY DEF Condemned, BeingWritten
<1>2. CASE UNCHANGED lease
  <2>1. ~BeingWritten'
    BY <1>0, <1>c, <1>1, <1>2 DEF BeingWritten, CameFrom
  <2>2. ASSUME Readable PROVE ~HeldFresh'
    <3>1. CASE Liveness = "age"
      BY <1>2, <2>2, <3>1 DEF Condemned, HeldFresh
    <3>2. CASE Liveness # "age"
      <4>1. ~Running(w) /\ w \notin reused
        BY <2>2, <3>2 DEF Condemned, HeldFresh
      <4>2. ~Running(w)' /\ w \notin reused'
        BY <1>0, <1>c, <4>1, ReusedSteps DEF CameFrom
      <4> QED BY <1>2, <3>2, <4>2 DEF HeldFresh, Running
    <3> QED BY <3>1, <3>2
  <2> QED BY <1>0, <1>2, <2>1, <2>2 DEF Condemned, Readable
<1>3. CASE \E p \in Proc : lease = Corrupt(p) /\ pc[p] \in {"writing", "pulseWrite"}
  BY <1>1, <1>3 DEF Corrupt
<1>4. CASE Readable /\ Liveness = "age" /\ lease' = Descriptor(w, Older(lease.age))
  <2>1. lease.age \in Nat /\ ~(lease.age < Ttl)
    BY <1>0, <1>4, LeaseShapes DEF Condemned, Readable, HeldFresh, Ages
  <2>2. lease' # Missing /\ lease'.kind = "lease" /\ lease'.age = Ttl
    BY <1>0, <1>4, <2>1 DEF Descriptor, Missing, Older
  <2> QED BY <1>0, <1>4, <2>2 DEF Condemned, BeingWritten, HeldFresh
<1> QED BY <1>0, <1>2, <1>3, <1>4, KeptFile

LEMMA SectionsSoundStep == Control /\ SectionsAreSound /\ [Next]_vars => SectionsAreSound'
<1> SUFFICES ASSUME Control, SectionsAreSound, [Next]_vars, exposures' = {},
                    NEW p \in Proc, owner' = p
             PROVE  /\ pc'[p] \in {"verify", "unlink"} => Condemned'
                    /\ pc'[p] \in {"pulseVerify", "pulseOpen", "releaseVerify", "releaseUnlink"}
                          => Own(p)'
  BY DEF SectionsAreSound
<1>0. /\ exposures = {} /\ TypeOK /\ TypeOK' /\ WriterMatches /\ CameFrom(p)
  BY ExposuresGrow, TypeStep, PcSteps DEF Control
<1>1. ASSUME pc'[p] \in {"verify", "unlink", "pulseVerify", "pulseOpen", "releaseVerify", "releaseUnlink"}
      PROVE  owner = p
  <2>2. owner = p \/ Enter(p)
    BY GuardSteps, OwnerSteps DEF Control
  <2>3. ASSUME Enter(p) PROVE FALSE
    <3>1. p \notin inside /\ p \in inside'
      BY <2>3 DEF Enter
    <3>2. pc[p] \notin Section
      BY <3>1 DEF Control, SectionsAreInside
    <3> QED BY <1>0, <1>1, <3>2 DEF CameFrom, Section, ClaimInspect
  <2> QED BY <2>2, <2>3
<1>2. ASSUME pc'[p] \in {"verify", "unlink"} PROVE Condemned'
  <2>1. CASE ClaimInspect(p)
    <3>1. /\ pc[p] = "inspect" /\ UNCHANGED lease /\ (lease # Missing => lease.by # p)
      BY <1>0, <2>1 DEF ClaimInspect, WriterMatches, Claiming
    <3>2. /\ ~(Readable /\ lease.by # p /\ HeldFresh)
          /\ Readable \/ OnCorrupt # "refuse"
          /\ ~(OnCorrupt = "reclaim" /\ (BeingWritten \/ lease = Missing))
      <4>1. pc'[p] = IF (Readable /\ lease.by # p /\ HeldFresh) \/ (~Readable /\ OnCorrupt = "refuse")
                     THEN "refusing" ELSE "verify"
        BY <1>0, <2>1 DEF ClaimInspect, Goto, TypeOK
      <4>2. ~(OnCorrupt = "reclaim" /\ (BeingWritten \/ lease = Missing))
        BY <1>0, <2>1 DEF ClaimInspect
      <4> QED BY <1>2, <4>1, <4>2
    <3>3. Condemned
      <4>1. CASE Readable
        BY <3>1, <3>2, <4>1 DEF Condemned, Readable, BeingWritten, Missing
      <4>2. CASE ~Readable
        BY <3>2, <4>2, FileLeaseAssumption DEF Condemned
      <4> QED BY <4>1, <4>2
    <3>4. \A q \in Proc : ~Touches(q)
      <4> SUFFICES ASSUME NEW q \in Proc, Touches(q) PROVE FALSE
        OBVIOUS
      <4>1. owner = q
        BY OwnersAct DEF Touches
      <4>2. q = p
        BY <1>1, <1>2, <4>1
      <4>3. pc[q] \in {"unlink", "releaseUnlink", "pulseOpen"}
        BY DEF Touches, ClaimUnlink, ReleaseUnlink, PulseOpen
      <4> QED BY <3>1, <4>2, <4>3
    <3> QED BY <3>3, <3>4, CondemnedStays
  <2>2. CASE pc[p] \in {"verify", "unlink"}
    <3>1. Condemned
      BY <1>0, <1>1, <1>2, <2>2 DEF SectionsAreSound
    <3>2. \A q \in Proc : ~Touches(q)
      <4> SUFFICES ASSUME NEW q \in Proc, Touches(q) PROVE FALSE
        OBVIOUS
      <4>1. owner = q
        BY OwnersAct DEF Touches
      <4>2. q = p
        BY <1>1, <1>2, <4>1
      <4>3. ClaimUnlink(p)
        BY <2>2, <4>2 DEF Touches, ReleaseUnlink, PulseOpen
      <4> QED BY <1>0, <1>2, <4>3 DEF ClaimUnlink, Goto, TypeOK
    <3> QED BY <3>1, <3>2, CondemnedStays
  <2> QED BY <1>0, <1>2, <2>1, <2>2 DEF CameFrom
<1>3. ASSUME pc'[p] \in {"pulseVerify", "pulseOpen", "releaseVerify", "releaseUnlink"}
      PROVE  Own(p)'
  <2>1. Own(p)
    BY <1>0, <1>1, <1>3 DEF SectionsAreSound, CameFrom
  <2>2. \A q \in Proc : ~Touches(q)
    <3> SUFFICES ASSUME NEW q \in Proc, Touches(q) PROVE FALSE
      OBVIOUS
    <3>1. owner = q
      BY OwnersAct DEF Touches
    <3>2. q = p
      BY <1>1, <1>3, <3>1
    <3>3. pc'[p] \in {"failing", "retry", "pulseWrite", "released"}
      BY <1>0, <3>2 DEF Touches, ClaimUnlink, PulseOpen, ReleaseUnlink, Goto, TypeOK
    <3> QED BY <1>3, <3>3
  <2>3. lease # Missing
    BY <2>1 DEF Own, Readable, Missing
  <2>4. lease'.by = lease.by /\ Readable'
    BY <2>1, <2>2, <2>3, FileSteps DEF Own, Touches
  <2> QED BY <2>1, <2>4 DEF Own
<1> QED BY <1>2, <1>3

\* The file of a running process that is up to date is not condemned.
LEMMA NotCondemned ==
    ASSUME Control, Condemned, Running(lease.by), ~OutOfDate(lease.by)
    PROVE  FALSE
<1>0. TypeOK /\ WriterMatches /\ lease # Missing /\ lease \in LeaseFiles /\ lease.by \in Proc
  BY LeaseShapes DEF Control, TypeOK, Condemned
<1>1. CASE lease.kind = "lease"
  <2>1. lease.age = age[lease.by] /\ age[lease.by] \in Nat /\ Ttl \in Nat
    <3>1. lease.age = age[lease.by]
      BY <1>0, <1>1 DEF WriterMatches
    <3>2. age[lease.by] \in Ages
      BY <1>0 DEF TypeOK
    <3> QED BY <3>1, <3>2, FileLeaseAssumption DEF Ages
  <2> QED BY <1>1, <2>1 DEF Condemned, Readable, HeldFresh, OutOfDate
<1>2. CASE lease.kind = "corrupt"
  BY <1>0, <1>2 DEF WriterMatches, Condemned, BeingWritten
<1> QED BY <1>0, <1>1, <1>2, LeaseShapes

LEMMA PinnedStep ==
    Control /\ SectionsAreSound /\ HoldersArePinned /\ [Next]_vars => HoldersArePinned'
<1> SUFFICES ASSUME Control, SectionsAreSound, HoldersArePinned, [Next]_vars, exposures' = {},
                    NEW p \in Proc, pc'[p] = "writing" \/ Holding(p)', ~OutOfDate(p)'
             PROVE  lease' # Missing /\ lease'.by = p
  BY DEF HoldersArePinned
<1>0. exposures = {} /\ TypeOK /\ CameFrom(p)
  BY ExposuresGrow, PcSteps DEF Control
<1>1. CASE Create(p) /\ lease = Missing
  BY <1>1 DEF Create, Corrupt, Descriptor, Missing
<1>2. CASE PulseOpen(p)
  BY <1>2 DEF PulseOpen, Corrupt, Descriptor, Missing
<1>3. CASE (pc[p] = "writing" \/ Holding(p)) /\ ~PulseOpen(p)
  <2>1. ~OutOfDate(p)
    <3>1. ~Boot(p)
      BY <1>3 DEF Boot, Running, Holding
    <3> QED BY <1>0, <1>3, <3>1 DEF CameFrom
  <2>2. lease # Missing /\ lease.by = p
    BY <1>0, <1>3, <2>1 DEF HoldersArePinned
  <2>3. ~Condemned
    BY <1>3, <2>1, <2>2, NotCondemned DEF Running, Holding
  <2>4. ~ReleaseUnlink(p)
    BY <1>3 DEF ReleaseUnlink, Holding
  <2> QED BY <1>3, <2>2, <2>3, <2>4, FileSteps DEF Own
<1> QED BY <1>0, <1>1, <1>2, <1>3 DEF CameFrom

LEMMA ExclusionInvariance == Spec => []Exclusion
<1>1. Init => Exclusion
  BY ControlInit, GuardMutexAssumption
  DEF Init, GuardInit, Exclusion, SectionsAreSound, HoldersArePinned, Holding
<1>2. Exclusion /\ [Next]_vars => Exclusion'
  <2>1. Control /\ [Next]_vars => Control'
    BY TypeStep, SectionsStep, WriterStep, JudgedStep DEF Control
  <2> QED BY <2>1, SectionsSoundStep, PinnedStep DEF Exclusion
<1> QED BY <1>1, <1>2, PTL DEF Spec

\* Two holders are pinned to the same file.
LEMMA NoOverlap == Exclusion /\ Overlap => exposures # {}
<1> SUFFICES ASSUME Exclusion, exposures = {}, NEW p \in Proc, NEW q \in Proc, p # q,
                    Holding(p), Holding(q), ~OutOfDate(p), ~OutOfDate(q)
             PROVE  FALSE
  BY DEF Overlap
<1>1. lease.by = p /\ lease.by = q
  BY DEF Exclusion, HoldersArePinned
<1> QED BY <1>1

\* The drain lock, and the lease under either policy: two processes drain,
\* or act for a role, at once only after one of the three ways of taking a
\* live lease away was used, or while one is out of date.
THEOREM OneDrainLoop == Spec => []SoleDrainUnlessExposed
<1>1. Exclusion => SoleDrainUnlessExposed
  BY NoOverlap DEF SoleDrainUnlessExposed
<1> QED BY ExclusionInvariance, <1>1, PTL

\* The authority lease: with the refuse policy the only such way is an
\* evicted process acting in the gap after its check.
THEOREM OneAuthority ==
    ASSUME OnCorrupt = "refuse"
    PROVE  Spec => []SoleAuthority
<1>1. Exclusion => SoleAuthority
  BY NoOverlap DEF SoleAuthority, Exclusion, Control, Judged
<1> QED BY ExclusionInvariance, <1>1, PTL

\* No late pulse, late release or reclaim of another process takes the
\* lease of a running, up-to-date holder.
THEOREM FreshLeaseStays == Spec => FreshLeaseIsKept
<1> DEFINE Kept == \A p \in Proc :
              (Own(p) /\ Holding(p) /\ HeldFresh /\ ~Own(p)') => PulseOpen(p) \/ exposures' # {}
<1>1. Exclusion /\ [Next]_vars => Kept
  <2> SUFFICES ASSUME Exclusion, [Next]_vars, NEW p \in Proc,
                      Own(p), Holding(p), HeldFresh, ~Own(p)', exposures' = {}
               PROVE  PulseOpen(p)
    OBVIOUS
  <2>1. lease # Missing /\ lease.by = p /\ Readable
    BY DEF Own, Readable, Missing
  <2>2. ~Condemned /\ ~ReleaseUnlink(p)
    BY <2>1 DEF Condemned, ReleaseUnlink, Holding
  <2> QED BY <2>1, <2>2, FileSteps DEF Exclusion, Own
<1>2. Exclusion /\ [Next]_vars => [Kept]_vars
  BY <1>1
<1> QED BY ExclusionInvariance, <1>2, PTL DEF Spec, FreshLeaseIsKept

-----------------------------------------------------------------------------
(***************************************************************************)
(* The contract of the lease                                               *)
(***************************************************************************)

\* The file names a process or nobody, and only whom it names relies on it.
LEMMA NamedIsTrusted ==
    ASSUME Exclusion
    PROVE  /\ Named \in Proc \cup {NoOne}
           /\ exposures = {} => Trusted \subseteq {Named}
<1>1. Named \in Proc \cup {NoOne}
  <2>1. lease \in LeaseFiles
    BY DEF Exclusion, Control, TypeOK
  <2> QED BY <2>1, LeaseShapes DEF Named
<1>2. ASSUME exposures = {}, NEW p \in Trusted PROVE p = Named
  <2>1. lease # Missing /\ lease.by = p
    BY <1>2 DEF Exclusion, HoldersArePinned, Trusted
  <2> QED BY <2>1 DEF Named
<1> QED BY <1>1, <1>2

\* Nobody comes to rely on a file that is not there.
LEMMA MissingTrustsNobody ==
    ASSUME Exclusion, [Next]_vars, exposures' = {}, lease = Missing
    PROVE  Trusted' = {}
<1> SUFFICES ASSUME NEW p \in Proc, Holding(p)', ~OutOfDate(p)' PROVE FALSE
  BY DEF Trusted
<1>0. exposures = {} /\ TypeOK /\ CameFrom(p)
  BY ExposuresGrow, PcSteps DEF Exclusion, Control
<1>1. ~Boot(p)
  BY <1>0 DEF CameFrom, Holding
<1>2. ~PulseOpen(p)
  <2> SUFFICES ASSUME PulseOpen(p) PROVE FALSE
    OBVIOUS
  <2>1. owner = p /\ pc[p] = "pulseOpen"
    BY OwnersAct DEF PulseOpen
  <2>2. Own(p)
    BY <1>0, <2>1 DEF Exclusion, SectionsAreSound
  <2> QED BY <2>2 DEF Own, Readable, Missing
<1>3. (pc[p] = "writing" \/ Holding(p)) /\ ~OutOfDate(p)
  BY <1>0, <1>1, <1>2 DEF CameFrom
<1> QED BY <1>0, <1>3 DEF Exclusion, HoldersArePinned

\* A step that uses no exposure leaves the name in the file alone, or gives
\* one to a new file, or removes a file nobody relies on.
LEMMA NameSteps ==
    ASSUME Exclusion, [Next]_vars, exposures' = {}
    PROVE  \/ Named' = Named
           \/ Named = NoOne /\ Trusted' = {}
           \/ Named' = NoOne /\ Trusted = {}
<1>0. exposures = {}
  BY ExposuresGrow DEF Exclusion, Control
<1>1. CASE lease = Missing
  BY <1>1, MissingTrustsNobody DEF Named
<1>2. CASE lease # Missing /\ lease' # Missing /\ lease'.by = lease.by
  BY <1>2 DEF Named
<1>3. ASSUME NEW p \in Proc, ClaimUnlink(p), Condemned
      PROVE  Named' = NoOne /\ Trusted = {}
  <2>1. Named' = NoOne
    BY <1>3 DEF ClaimUnlink, Named
  <2>2. ASSUME NEW q \in Trusted PROVE FALSE
    <3>1. lease.by = q /\ Running(q) /\ ~OutOfDate(q)
      BY <1>0, <2>2 DEF Exclusion, HoldersArePinned, Trusted, Holding, Running
    <3> QED BY <1>3, <3>1, NotCondemned DEF Exclusion
  <2> QED BY <2>1, <2>2
<1>4. ASSUME NEW p \in Proc, ReleaseUnlink(p), Own(p)
      PROVE  Named' = NoOne /\ Trusted = {}
  <2>1. Named' = NoOne
    BY <1>4 DEF ReleaseUnlink, Named
  <2>2. ASSUME NEW q \in Trusted PROVE FALSE
    <3>1. q = p /\ Holding(q)
      BY <1>0, <1>4, <2>2 DEF Exclusion, HoldersArePinned, Trusted, Own
    <3> QED BY <1>4, <3>1 DEF ReleaseUnlink, Holding
  <2> QED BY <2>1, <2>2
<1>5. ASSUME NEW p \in Proc, PulseOpen(p), Own(p) PROVE Named' = Named
  <2>1. lease # Missing /\ lease.by = p
    BY <1>5 DEF Own, Readable, Missing
  <2>2. lease' # Missing /\ lease'.by = p
    BY <1>5 DEF PulseOpen, Corrupt, Descriptor, Missing
  <2> QED BY <2>1, <2>2 DEF Named
<1> QED BY <1>1, <1>2, <1>3, <1>4, <1>5, FileSteps DEF Exclusion

\* The lease file implements the abstract contract, whatever the policy for
\* corrupt files, the liveness, stalls, crashes and torn writes.
THEOREM ContractIsKept == Spec => ImplementsContract
<1>1. Init => Contract!ContractInit
  BY DEF Init, Contract!ContractInit, Named, Trusted, Holding
<1>2. Exclusion /\ Exclusion' /\ [Next]_vars => [Contract!ContractNext]_(Contract!contractVars)
  <2> SUFFICES ASSUME Exclusion, Exclusion', [Next]_vars, exposures' = {}
               PROVE  [Contract!ContractNext]_(Contract!contractVars)
    BY DEF Contract!ContractNext, Contract!Break
  <2>0. exposures = {}
    BY ExposuresGrow DEF Exclusion, Control
  <2>1. /\ Named \in Proc \cup {NoOne} /\ Trusted \subseteq {Named}
        /\ Trusted \subseteq Proc /\ NoOne \notin Proc
    BY <2>0, NamedIsTrusted, GuardMutexAssumption DEF Trusted
  <2>2. Named' \in Proc \cup {NoOne} /\ Trusted' \subseteq {Named'} /\ Trusted' \subseteq Proc
    <3>1. (Named \in Proc \cup {NoOne} /\ (exposures = {} => Trusted \subseteq {Named}))'
      BY NamedIsTrusted, PTL
    <3> QED BY <3>1 DEF Trusted
  <2>3. CASE Named' = Named
    BY <2>0, <2>1, <2>2, <2>3
    DEF Contract!ContractNext, Contract!Kept, Contract!Trust, Contract!Cease, Contract!contractVars
  <2>4. CASE Named = NoOne /\ Trusted' = {} /\ Named' # Named
    BY <2>0, <2>1, <2>2, <2>4 DEF Contract!ContractNext, Contract!Kept, Contract!Name
  <2>5. CASE Named' = NoOne /\ Trusted = {} /\ Named' # Named
    BY <2>0, <2>1, <2>2, <2>5 DEF Contract!ContractNext, Contract!Kept, Contract!Withdraw
  <2> QED BY <2>3, <2>4, <2>5, NameSteps
<1> QED BY ExclusionInvariance, <1>1, <1>2, PTL DEF Spec, ImplementsContract, Contract!ContractSpec

\* The contract alone keeps holders apart: whatever implements it has no two
\* that hold the lease and are up to date, until an exposure is used.
THEOREM ContractExcludes == ImplementsContract => []SoleDrainUnlessExposed
<1> DEFINE OneRelies == exposures = {} => Trusted \subseteq {Named}
<1>1. Contract!ContractInit => OneRelies
  BY DEF Contract!ContractInit
<1>2. OneRelies /\ [Contract!ContractNext]_(Contract!contractVars) => OneRelies'
  <2> SUFFICES ASSUME OneRelies, [Contract!ContractNext]_(Contract!contractVars), exposures' = {}
               PROVE  Trusted' \subseteq {Named'}
    OBVIOUS
  <2>1. CASE Contract!Kept
    <3>1. Trusted \subseteq {Named} /\ Trusted \subseteq Proc /\ NoOne \notin Proc
      BY <2>1, GuardMutexAssumption DEF Contract!Kept, Trusted
    <3> QED BY <2>1, <3>1
        DEF Contract!Kept, Contract!Name, Contract!Trust, Contract!Cease, Contract!Withdraw
  <2>2. CASE UNCHANGED Contract!contractVars
    BY <2>2 DEF Contract!contractVars
  <2> QED BY <2>1, <2>2 DEF Contract!ContractNext, Contract!Break
<1>3. OneRelies => SoleDrainUnlessExposed
  BY DEF Trusted, SoleDrainUnlessExposed, Overlap
<1> QED BY <1>1, <1>2, <1>3, PTL DEF ImplementsContract, Contract!ContractSpec

=============================================================================
