-------------------------- MODULE MemoryWal_proofs --------------------------
(***************************************************************************)
(* What is proved of MemoryWal, for any records, days, limits and faults:  *)
(* its typing and its three safety invariants.                             *)
(***************************************************************************)
EXTENDS MemoryWal, FiniteSetTheorems, TLAPS

USE DEF Pruners, Files, walVars, drainVars, vars, Idle, NoPass, NoPurge

\* The properties do not speak of r any more.
Excused(r) == PurgeBegun(r) \/ r \in exposed

\* The log is not needed for r any more.
Settled(r) == Excused(r) \/ row[r] = "vector"

-----------------------------------------------------------------------------
(***************************************************************************)
(* The calendar                                                            *)
(***************************************************************************)

\* An append and a pruning pass belong to today or to yesterday.
DatesAreRecent ==
    /\ day >= 2
    /\ \A r \in written : 0 < seg[r] /\ seg[r] <= day
    /\ \A r \in Records \ written : seg[r] = 0 \/ seg[r] = day \/ seg[r] + 1 = day
    /\ \A p \in Pruners : prune[p].pc = "judge" =>
          prune[p].active = day \/ prune[p].active + 1 = day

\* A segment goes as a whole, and only when nothing is appended to it.
RemovedTogether ==
    \A r \in written \ disk :
        seg[r] + 2 <= day /\ \A q \in Records : seg[q] = seg[r] => q \notin disk

\* A pass has read all of a segment it may remove.
PassIsComplete ==
    \A p \in Pruners : prune[p].pc = "judge" =>
        \A r \in prune[p].recs, q \in prune[p].recs :
            seg[r] < seg[q] /\ seg[r] # prune[p].active /\ seg[q] # prune[p].active =>
                InSegment(seg[r]) \subseteq prune[p].recs

\* A segment that is being removed is complete.
RemovalIsLate ==
    \A p \in Pruners : prune[p].pc = "remove" =>
        \A f \in prune[p].todo :
            /\ 0 < f[1] /\ f[1] + 2 <= day
            /\ InSegment(f[1]) \subseteq written

Calendar == DatesAreRecent /\ RemovedTogether /\ PassIsComplete /\ RemovalIsLate

-----------------------------------------------------------------------------
(***************************************************************************)
(* The markers                                                             *)
(***************************************************************************)

\* An embed marker says that the record is embedded, or purged.
MarkedAreSettled == \A r \in marks : Settled(r)

\* A segment that is being removed has nothing left to do.
RemovedAreSettled ==
    \A p \in Pruners : prune[p].pc = "remove" =>
        \A f \in prune[p].todo : \A r \in InSegment(f[1]) :
            /\ r \in projected
            /\ Settled(r)
            /\ r \in disk => r \in marks \/ r \in exposed

\* What the drain has read of the records files and finds no marker for is
\* still in them.
ReadIsCurrent ==
    drain.pc \in {"select", "decide"} =>
        \A r \in drain.recs : r \in disk \/ r \in marks \/ r \in exposed

\* Only a purge takes a record away from the drain that works on it.
BatchIsPending ==
    /\ drain.pc \in {"embed", "verify", "reread", "decide"} =>
          \A r \in drain.batch : Excused(r) \/ Pending(r)
    /\ drain.pc = "decide" => \A r \in drain.batch : Excused(r) \/ r \in drain.recs
    /\ drain.pc = "compensate" => \A r \in drain.batch \ drain.todo : Excused(r)

\* What the drain is about to mark is embedded, or purged.
EmbeddedAreSettled ==
    /\ drain.pc \in {"reread", "decide"} => \A r \in drain.batch : Settled(r)
    /\ drain.pc \in {"compensate", "mark"} => \A r \in drain.todo : Settled(r)

Markers ==
    /\ MarkedAreSettled
    /\ RemovedAreSettled
    /\ ReadIsCurrent
    /\ BatchIsPending
    /\ EmbeddedAreSettled

-----------------------------------------------------------------------------
(***************************************************************************)
(* The purge                                                               *)
(***************************************************************************)

\* Once its tombstone is written, a record is not pending again.
TombstonesHold ==
    purge.pc \in {"tombstone", "delete", "done"} =>
        \A r \in condemned \ exposed :
            Pending(r) => purge.pc = "tombstone" /\ r \in purge.todo

\* The rows to be deleted are all there are, but for those of the drain.
DeleteIsComplete ==
    purge.pc = "delete" =>
        \A r \in condemned \ exposed :
            row[r] = "absent" \/ r \in purge.todo \/ r \in InFlight

Purges == TombstonesHold /\ DeleteIsComplete /\ PurgedStaysGone

Kept == AcceptedIsKept /\ KeptUntilProjected

-----------------------------------------------------------------------------
(***************************************************************************)
(* Typing                                                                  *)
(***************************************************************************)

LEMMA StepCases ==
    ASSUME [Next]_vars
    PROVE  \/ Tick
           \/ \E r \in Records : BeginAppend(r) \/ FinishAppend(r) \/ Project(r)
           \/ \E p \in Pruners : PruneJudge(p) \/ PruneRemove(p)
           \/ DrainRead \/ DrainSelect \/ DrainEmbed \/ DrainVerify \/ DrainReread \/ DrainDecide
           \/ DrainCompensate \/ DrainMark \/ DrainPrune \/ DaemonRestart
           \/ PurgeRead \/ PurgeTombstone \/ PurgeGet \/ PurgeDelete \/ ServerRestart
           \/ UNCHANGED vars
BY DEF Next, DrainStep, PruneStep, PurgeStep

LEMMA TypeInit == Init => TypeOK
BY MemoryWalAssumption DEF Init, TypeOK, Drains, Passes

\* The records of a cycle and of a pass, field by field.
LEMMA DrainIsRecord ==
    ASSUME TypeOK
    PROVE  /\ drain = [pc |-> drain.pc, recs |-> drain.recs, batch |-> drain.batch,
                       todo |-> drain.todo]
           /\ drain.pc \in {"idle", "select", "embed", "verify", "reread", "decide", "compensate",
                            "mark"}
           /\ drain.recs \subseteq written
           /\ drain.batch \subseteq written
           /\ drain.todo \subseteq written
           /\ drain.todo \subseteq drain.batch
BY DEF TypeOK, Drains

LEMMA PassTypes ==
    ASSUME TypeOK, NEW p \in Pruners
    PROVE  /\ prune[p].pc \in {"idle", "judge", "remove"}
           /\ prune[p].active \in Nat
           /\ prune[p].recs \subseteq written
           /\ prune[p].todo \subseteq Nat \X Files
           /\ NoPass \in Passes
           /\ \A pass \in Passes : [prune EXCEPT ![p] = pass] \in [Pruners -> Passes]
           /\ \A active \in Nat, recs \in SUBSET written : NewPass(active, recs) \in Passes
           /\ \A todo \in SUBSET (Nat \X Files) :
                 \A active \in Nat :
                     [pc |-> "remove", active |-> active, recs |-> {}, todo |-> todo] \in Passes
BY DEF TypeOK, Passes, NewPass

LEMMA RowTypes ==
    ASSUME TypeOK, NEW S
    PROVE  Without(S) \in [Records -> {"absent", "vector", "bare"}]
BY DEF TypeOK, Without

LEMMA CoolTypes ==
    ASSUME NEW n
    PROVE  CoolCycles(n) \in 0 .. MaxCooling
BY MemoryWalAssumption DEF CoolCycles

\* DrainVerify without the faults: the rows of `deleted` go.
VerifyOutcome(unseen, embedded, failed, deleted) ==
    /\ unseen \subseteq drain.todo /\ embedded \subseteq drain.todo
    /\ deleted \subseteq drain.todo /\ failed \subseteq drain.batch
    /\ drain.todo \subseteq embedded \cup deleted \cup unseen
    /\ \A r \in embedded : row[r] = "vector" /\ r \notin deleted
    /\ \A r \in deleted : row[r] # "vector"
    /\ row' = Without(deleted)
    /\ exposed' = exposed \cup OutOfSight(unseen)
    /\ failures' = [r \in Records |-> IF r \in failed THEN Failed(r) ELSE failures[r]]
    /\ cooling' = [r \in Records |->
                     IF r \in failed THEN CoolCycles(Failed(r)) ELSE cooling[r]]
    /\ drain' = [drain EXCEPT !.pc = IF embedded = {} THEN "mark" ELSE "reread",
                              !.batch = embedded, !.todo = {}]

LEMMA VerifyHasOutcome ==
    ASSUME DrainVerify
    PROVE  \E unseen, embedded, failed, deleted : VerifyOutcome(unseen, embedded, failed, deleted)
<1>1. PICK unverifiable \in SUBSET drain.todo : \E undeleted \in SUBSET drain.todo :
          LET embedded == {r \in drain.todo \ unverifiable : row[r] = "vector"}
              metadataOnly == drain.todo \ (unverifiable \cup embedded)
              failed == drain.batch \ embedded
          IN /\ row' = Without(metadataOnly \ undeleted)
             /\ exposed' = exposed \cup OutOfSight(unverifiable \cup undeleted)
             /\ failures' = [r \in Records |-> IF r \in failed THEN Failed(r) ELSE failures[r]]
             /\ cooling' = [r \in Records |->
                              IF r \in failed THEN CoolCycles(Failed(r)) ELSE cooling[r]]
             /\ drain' = [drain EXCEPT !.pc = IF embedded = {} THEN "mark" ELSE "reread",
                                       !.batch = embedded, !.todo = {}]
  BY Zenon DEF DrainVerify
<1> DEFINE embedded == {r \in drain.todo \ unverifiable : row[r] = "vector"}
           metadataOnly == drain.todo \ (unverifiable \cup embedded)
           failed == drain.batch \ embedded
<1>2. PICK undeleted \in SUBSET drain.todo :
          /\ row' = Without(metadataOnly \ undeleted)
          /\ exposed' = exposed \cup OutOfSight(unverifiable \cup undeleted)
          /\ failures' = [r \in Records |-> IF r \in failed THEN Failed(r) ELSE failures[r]]
          /\ cooling' = [r \in Records |->
                           IF r \in failed THEN CoolCycles(Failed(r)) ELSE cooling[r]]
          /\ drain' = [drain EXCEPT !.pc = IF embedded = {} THEN "mark" ELSE "reread",
                                    !.batch = embedded, !.todo = {}]
  BY <1>1, Zenon
<1> DEFINE deleted == metadataOnly \ undeleted
           unseen == unverifiable \cup undeleted
<1>3. /\ unseen \subseteq drain.todo /\ embedded \subseteq drain.todo
      /\ deleted \subseteq drain.todo /\ failed \subseteq drain.batch
      /\ drain.todo \subseteq embedded \cup deleted \cup unseen
      /\ \A r \in embedded : row[r] = "vector" /\ r \notin deleted
      /\ \A r \in deleted : row[r] # "vector"
  OBVIOUS
<1>4. VerifyOutcome(unseen, embedded, failed, deleted)
  BY <1>2, <1>3, Zenon DEF VerifyOutcome
<1> HIDE DEF embedded, failed, deleted, unseen
<1> QED BY <1>4, Zenon

\* PruneRemove for one file.
RemovalOf(p, f) ==
    /\ disk' = IF f[2] = "records" THEN disk \ InSegment(f[1]) ELSE disk
    /\ marks' = IF f[2] = "embed" THEN marks \ InSegment(f[1]) ELSE marks
    /\ gmarks' = IF f[2] = "graph" THEN gmarks \ InSegment(f[1]) ELSE gmarks
    /\ exposed' = IF f[2] = "embed" THEN exposed \cup TakenForPending(f[1]) ELSE exposed
    /\ prune' = [prune EXCEPT ![p] =
          IF prune[p].todo = {f} THEN NoPass
          ELSE [pc |-> "remove", active |-> prune[p].active, recs |-> {},
                todo |-> prune[p].todo \ {f}]]

LEMMA RemoveHasFile ==
    ASSUME NEW p \in Pruners, PruneRemove(p)
    PROVE  \E f \in prune[p].todo : RemovalOf(p, f)
BY Zenon DEF PruneRemove, RemovalOf

LEMMA TypeNext == TypeOK /\ [Next]_vars => TypeOK'
<1> SUFFICES ASSUME TypeOK, [Next]_vars PROVE TypeOK'
  OBVIOUS
<1> USE MemoryWalAssumption
<1>1. CASE Tick
  BY <1>1 DEF Tick, TypeOK, Drains, Passes
<1>2. ASSUME NEW r \in Records, BeginAppend(r) PROVE TypeOK'
  BY <1>2 DEF BeginAppend, TypeOK, Drains, Passes
<1>3. ASSUME NEW r \in Records, FinishAppend(r) PROVE TypeOK'
  <2>1. drain' \in Drains' /\ (drain.todo \subseteq drain.batch)'
    BY <1>3 DEF FinishAppend, TypeOK, Drains
  <2>2. prune \in [Pruners -> Passes']
    BY <1>3 DEF FinishAppend, TypeOK, Passes
  <2>3. NewPass(seg[r], disk') \in Passes'
    BY <1>3 DEF FinishAppend, TypeOK, Passes, NewPass
  <2>4. prune' \in [Pruners -> Passes']
    BY <1>3, <2>2, <2>3 DEF FinishAppend
  <2> QED BY <1>3, <2>1, <2>4 DEF FinishAppend, TypeOK
<1>4. ASSUME NEW r \in Records, Project(r) PROVE TypeOK'
  <2>1. r \in written
    BY <1>4 DEF Project, TypeOK
  <2>2. faults' \in Nat
    BY <1>4 DEF Project, TypeOK, Fault, NoFault
  <2> QED BY <1>4, <2>1, <2>2 DEF Project, TypeOK, Drains, Passes
<1>5. ASSUME NEW p \in Pruners, PruneJudge(p) PROVE TypeOK'
  <2> DEFINE keys == {seg[r] : r \in prune[p].recs} \ {prune[p].active}
             toRemove == BeyondRetention({s \in keys : Reconciled(prune[p].recs, s)})
  <2>1. toRemove \X Files \in SUBSET (Nat \X Files)
    BY PassTypes DEF BeyondRetention, TypeOK
  <2>2. prune' \in [Pruners -> Passes]
    BY <1>5, <2>1, PassTypes DEF PruneJudge
  <2> QED BY <1>5, <2>2 DEF PruneJudge, TypeOK, Drains, Passes
<1>6. ASSUME NEW p \in Pruners, PruneRemove(p) PROVE TypeOK'
  <2>1. PICK f \in prune[p].todo : RemovalOf(p, f)
    BY <1>6, RemoveHasFile
  <2>2. prune[p].todo \ {f} \in SUBSET (Nat \X Files)
    BY PassTypes
  <2>3. prune' \in [Pruners -> Passes]
    BY <2>1, <2>2, PassTypes DEF RemovalOf
  <2>4. disk' \subseteq disk /\ marks' \subseteq marks /\ gmarks' \subseteq gmarks
    BY <2>1 DEF RemovalOf
  <2>5. exposed' \subseteq exposed \cup marks
    BY <2>1 DEF RemovalOf, TakenForPending
  <2> QED BY <1>6, <2>3, <2>4, <2>5 DEF PruneRemove, TypeOK, Drains, Passes
<1>7. CASE DrainRead
  BY <1>7 DEF DrainRead, TypeOK, Drains, Passes
<1>8. CASE DrainSelect
  <2>1. PICK batch \in SUBSET written :
            drain' = [pc |-> IF batch = {} THEN "mark" ELSE "embed",
                      recs |-> {}, batch |-> batch, todo |-> {}]
    BY <1>8, DrainIsRecord DEF DrainSelect, PendingOf
  <2>2. drain' \in Drains /\ drain'.todo \subseteq drain'.batch
    BY <2>1 DEF Drains
  <2>3. cooling' \in [Records -> 0 .. MaxCooling]
    BY <1>8 DEF DrainSelect, TypeOK
  <2> QED BY <1>8, <2>2, <2>3 DEF DrainSelect, TypeOK, Drains, Passes
<1>9. CASE DrainEmbed
  <2>1. PICK added \in SUBSET (drain.batch \ Poison), lost \in SUBSET drain.batch :
            /\ drain' = [drain EXCEPT !.pc = "verify", !.todo = added]
            /\ exposed' = exposed \cup OutOfSight(lost)
    BY <1>9 DEF DrainEmbed
  <2>2. drain' \in Drains /\ drain'.todo \subseteq drain'.batch
    BY <2>1, DrainIsRecord DEF TypeOK, Drains
  <2>3. row' \in [Records -> {"absent", "vector", "bare"}]
    BY <1>9 DEF DrainEmbed, TypeOK
  <2>4. faults' \in Nat
    BY <1>9 DEF DrainEmbed, TypeOK, Fault, NoFault
  <2>5. exposed' \subseteq written
    BY <2>1, DrainIsRecord DEF OutOfSight, TypeOK
  <2> QED BY <1>9, <2>2, <2>3, <2>4, <2>5 DEF DrainEmbed, TypeOK, Drains, Passes
<1>10. CASE DrainVerify
  <2>1. PICK unseen, embedded, failed, deleted :
            VerifyOutcome(unseen, embedded, failed, deleted)
    BY <1>10, VerifyHasOutcome
  <2>2. drain' \in Drains /\ drain'.todo \subseteq drain'.batch
    BY <2>1, DrainIsRecord DEF TypeOK, Drains, VerifyOutcome
  <2>3. row' \in [Records -> {"absent", "vector", "bare"}]
    BY <2>1, RowTypes DEF VerifyOutcome
  <2>4. faults' \in Nat
    BY <1>10 DEF DrainVerify, TypeOK, Fault, NoFault
  <2>5. exposed' \subseteq written
    BY <2>1, DrainIsRecord DEF OutOfSight, TypeOK, VerifyOutcome
  <2>6. failures' \in [Records -> 0 .. MaxFailures]
    BY <2>1 DEF TypeOK, Failed, VerifyOutcome
  <2>7. cooling' \in [Records -> 0 .. MaxCooling]
    BY <2>1, CoolTypes DEF TypeOK, Failed, VerifyOutcome
  <2> QED BY <1>10, <2>2, <2>3, <2>4, <2>5, <2>6, <2>7 DEF DrainVerify, TypeOK, Drains, Passes
<1>11. CASE DrainReread
  BY <1>11 DEF DrainReread, TypeOK, Drains, Passes
<1>12. CASE DrainDecide
  BY <1>12 DEF DrainDecide, TypeOK, Drains, Passes
<1>13. CASE DrainCompensate
  <2>1. drain' \in Drains /\ drain'.todo \subseteq drain'.batch
    BY <1>13, DrainIsRecord DEF DrainCompensate, TypeOK, Drains
  <2>2. row' \in [Records -> {"absent", "vector", "bare"}] /\ faults' \in Nat
    BY <1>13, RowTypes DEF DrainCompensate, TypeOK, Fault, NoFault
  <2>3. exposed' \subseteq written
    BY <1>13, DrainIsRecord DEF DrainCompensate, TypeOK
  <2>4. failures' \in [Records -> 0 .. MaxFailures] /\ cooling' \in [Records -> 0 .. MaxCooling]
    BY <1>13 DEF DrainCompensate, TypeOK
  <2> QED BY <1>13, <2>1, <2>2, <2>3, <2>4 DEF DrainCompensate, TypeOK, Drains, Passes
<1>14. CASE DrainMark
  <2>1. PICK r \in drain.todo :
            /\ failures' = [failures EXCEPT ![r] = 0]
            /\ cooling' = [cooling EXCEPT ![r] = 0]
            /\ marks' \subseteq marks \cup {r}
            /\ \/ drain' = Idle
               \/ drain' = [drain EXCEPT !.batch = drain.batch \ {r}, !.todo = drain.todo \ {r}]
    BY <1>14 DEF DrainMark
  <2>2. r \in written /\ drain' \in Drains /\ drain'.todo \subseteq drain'.batch
    <3>1. CASE drain' = Idle
      BY <3>1, DrainIsRecord DEF Drains
    <3>2. CASE drain' = [drain EXCEPT !.batch = drain.batch \ {r}, !.todo = drain.todo \ {r}]
      BY <3>2, DrainIsRecord DEF Drains
    <3> QED BY <2>1, <3>1, <3>2
  <2>3. faults' \in Nat
    BY <1>14 DEF DrainMark, TypeOK, Fault, NoFault
  <2>4. marks' \subseteq written
    BY <2>1, DrainIsRecord DEF TypeOK
  <2>5. failures' \in [Records -> 0 .. MaxFailures] /\ cooling' \in [Records -> 0 .. MaxCooling]
    BY <2>1, <2>2 DEF TypeOK
  <2> QED BY <1>14, <2>2, <2>3, <2>4, <2>5 DEF DrainMark, TypeOK, Drains, Passes
<1>15. CASE DrainPrune
  <2>1. "daemon" \in Pruners /\ day \in Nat /\ disk \in SUBSET written
    BY DEF TypeOK
  <2>2. prune' \in [Pruners -> Passes]
    BY <1>15, <2>1, PassTypes DEF DrainPrune
  <2> QED BY <1>15, <2>2 DEF DrainPrune, TypeOK, Drains, Passes
<1>16. CASE DaemonRestart
  <2>1. "daemon" \in Pruners
    OBVIOUS
  <2>2. prune' \in [Pruners -> Passes]
    BY <1>16, <2>1, PassTypes DEF DaemonRestart
  <2>3. exposed' \subseteq written
    BY <1>16, DrainIsRecord DEF DaemonRestart, OutOfSight, InFlight, TypeOK
  <2> QED BY <1>16, <2>2, <2>3 DEF DaemonRestart, Fault, TypeOK, Drains, Passes
<1>17. CASE PurgeRead
  BY <1>17 DEF PurgeRead, PendingOf, TypeOK, Drains, Passes
<1>18. CASE PurgeTombstone
  <2>1. faults' \in Nat
    BY <1>18 DEF PurgeTombstone, TypeOK, Fault, NoFault
  <2>2. marks' \subseteq written /\ exposed' \subseteq written
    BY <1>18 DEF PurgeTombstone, TypeOK
  <2>3. purge' \in [pc   : {"idle", "tombstone", "delete", "done", "failed"},
                    todo : SUBSET (written \cap Purgeable)]
    BY <1>18 DEF PurgeTombstone, TypeOK
  <2> QED BY <1>18, <2>1, <2>2, <2>3 DEF PurgeTombstone, TypeOK, Drains, Passes
<1>19. CASE PurgeGet
  BY <1>19 DEF PurgeGet, TypeOK, Drains, Passes
<1>20. CASE PurgeDelete
  <2>1. row' \in [Records -> {"absent", "vector", "bare"}] /\ faults' \in Nat
    BY <1>20, RowTypes DEF PurgeDelete, TypeOK, Fault, NoFault
  <2>2. purge' \in [pc   : {"idle", "tombstone", "delete", "done", "failed"},
                    todo : SUBSET (written \cap Purgeable)]
    BY <1>20 DEF PurgeDelete, TypeOK
  <2> QED BY <1>20, <2>1, <2>2 DEF PurgeDelete, TypeOK, Drains, Passes
<1>21. CASE ServerRestart
  BY <1>21 DEF ServerRestart, Fault, TypeOK, Drains, Passes
<1>22. CASE UNCHANGED vars
  BY <1>22 DEF TypeOK, Drains, Passes
<1> QED BY <1>1, <1>2, <1>3, <1>4, <1>5, <1>6, <1>7, <1>8, <1>9, <1>10, <1>11, <1>12, <1>13,
           <1>14, <1>15, <1>16, <1>17, <1>18, <1>19, <1>20, <1>21, <1>22, StepCases

\* Every reachable state is well typed: nothing is read, embedded, marked or
\* projected that was not accepted.
THEOREM TypeCorrect == Spec => []TypeOK
BY TypeInit, TypeNext, PTL DEF Spec

-----------------------------------------------------------------------------
(***************************************************************************)
(* The calendar                                                            *)
(***************************************************************************)

\* Of two segments that are not the active one of a pass, the older is not
\* one that anybody still appends to.
LEMMA OlderSegmentIsClosed ==
    ASSUME TypeOK, DatesAreRecent, NEW active \in Nat, active = day \/ active + 1 = day,
           NEW x \in written, NEW y \in written,
           seg[x] < seg[y], seg[x] # active, seg[y] # active
    PROVE  /\ 0 < seg[x] /\ seg[x] + 2 <= day
           /\ InSegment(seg[x]) \subseteq written
<1>1. /\ day \in Nat /\ x \in Records /\ y \in Records
      /\ seg[x] \in Nat /\ seg[y] \in Nat /\ seg[y] <= day /\ 0 < seg[x]
  BY DEF TypeOK, DatesAreRecent
<1>2. seg[x] + 2 <= day
  BY <1>1
<1>3. ASSUME NEW z \in InSegment(seg[x]), z \notin written PROVE FALSE
  <2>1. z \in Records \ written /\ seg[z] = seg[x]
    BY <1>3 DEF InSegment
  <2>2. seg[z] = 0 \/ seg[z] = day \/ seg[z] + 1 = day
    BY <2>1 DEF DatesAreRecent
  <2> QED BY <1>1, <1>2, <2>1, <2>2
<1> QED BY <1>1, <1>2, <1>3

\* A pass that begins now reads such a segment as a whole.
LEMMA NewPassIsComplete ==
    ASSUME TypeOK, DatesAreRecent, RemovedTogether,
           NEW active \in Nat, active = day \/ active + 1 = day,
           NEW x \in disk, NEW y \in written,
           seg[x] < seg[y], seg[x] # active, seg[y] # active
    PROVE  InSegment(seg[x]) \subseteq disk
<1>1. x \in written /\ x \in Records
  BY DEF TypeOK
<1>2. InSegment(seg[x]) \subseteq written
  BY <1>1, OlderSegmentIsClosed
<1> QED BY <1>1, <1>2 DEF RemovedTogether, InSegment

\* What a pass is about to remove it has read, found marked, and found older
\* than another segment.
LEMMA JudgedSegment ==
    ASSUME TypeOK, NEW p \in Pruners, prune[p].pc = "judge", PruneJudge(p),
           prune'[p].pc = "remove", NEW f \in prune'[p].todo
    PROVE  \E x \in prune[p].recs, y \in prune[p].recs :
              /\ f[1] = seg[x] /\ seg[x] < seg[y]
              /\ seg[x] # prune[p].active /\ seg[y] # prune[p].active
              /\ Reconciled(prune[p].recs, seg[x])
<1> DEFINE keys == {seg[r] : r \in prune[p].recs} \ {prune[p].active}
           good == {s \in keys : Reconciled(prune[p].recs, s)}
           toRemove == BeyondRetention(good)
<1>1. prune'[p] \in {[pc |-> "remove", active |-> prune[p].active, recs |-> {},
                      todo |-> toRemove \X Files], NoPass}
  BY DEF PruneJudge, TypeOK
<1>2. f \in toRemove \X Files
  <2> HIDE DEF toRemove
  <2> QED BY <1>1
<1>3. PICK s \in good : f[1] = s /\ Cardinality({t \in good : t > s}) >= RetentionLimit
  BY <1>2 DEF BeyondRetention
<1>4. {t \in good : t > s} # {}
  <2>1. Cardinality({}) = 0
    BY FS_EmptySet
  <2> HIDE DEF good
  <2> QED BY <1>3, <2>1, MemoryWalAssumption
<1>5. PICK t \in good : t > s
  BY <1>4
<1>6. PICK x \in prune[p].recs : s = seg[x]
  OBVIOUS
<1>7. PICK y \in prune[p].recs : t = seg[y]
  OBVIOUS
<1>8. seg[x] \in Nat /\ seg[y] \in Nat
  <2>1. prune[p].recs \subseteq written
    BY PassTypes
  <2> QED BY <2>1 DEF TypeOK
<1> QED BY <1>3, <1>5, <1>6, <1>7, <1>8

LEMMA CalendarInit == Init => Calendar
<1> SUFFICES ASSUME Init PROVE Calendar
  OBVIOUS
<1>1. DatesAreRecent
  BY MemoryWalAssumption DEF Init, DatesAreRecent
<1>2. RemovedTogether /\ PassIsComplete /\ RemovalIsLate
  BY MemoryWalAssumption DEF Init, RemovedTogether, PassIsComplete, RemovalIsLate
<1> QED BY <1>1, <1>2 DEF Calendar

LEMMA CalendarNext == TypeOK /\ TypeOK' /\ Calendar /\ [Next]_vars => Calendar'
<1> SUFFICES ASSUME TypeOK, TypeOK', Calendar, [Next]_vars PROVE Calendar'
  OBVIOUS
<1> USE DEF Calendar
<1>0. /\ day \in Nat /\ day >= 2 /\ written \subseteq Records /\ disk \subseteq written
      /\ \A r \in Records : seg[r] \in Nat
      /\ \A p \in Pruners : prune[p].recs \subseteq written /\ prune[p].active \in Nat
  BY PassTypes DEF TypeOK, DatesAreRecent
<1>1. CASE Tick
  <2>1. DatesAreRecent'
    BY <1>0, <1>1 DEF Tick, DatesAreRecent
  <2>2. RemovedTogether' /\ RemovalIsLate' /\ PassIsComplete'
    BY <1>0, <1>1, PassTypes DEF Tick, RemovedTogether, RemovalIsLate, PassIsComplete, InSegment
  <2> QED BY <2>1, <2>2
<1>2. ASSUME NEW r \in Records, BeginAppend(r) PROVE Calendar'
  <2>1. r \notin written /\ seg'[r] = day /\ \A q \in Records : q # r => seg'[q] = seg[q]
    BY <1>0, <1>2 DEF BeginAppend, DatesAreRecent, TypeOK
  <2>2. day' = day /\ written' = written /\ disk' = disk /\ prune' = prune
    BY <1>2 DEF BeginAppend
  <2>3. DatesAreRecent'
    BY <1>0, <2>1, <2>2 DEF DatesAreRecent
  <2>4. RemovedTogether'
    BY <1>0, <2>1, <2>2 DEF RemovedTogether
  <2>5. ASSUME NEW s \in Nat, s < day PROVE InSegment(s)' \subseteq InSegment(s)
    BY <1>0, <2>1, <2>5 DEF InSegment
  <2>6. PassIsComplete'
    <3> SUFFICES ASSUME NEW p \in Pruners, prune[p].pc = "judge",
                        NEW x \in prune[p].recs, NEW y \in prune[p].recs,
                        seg[x] < seg[y], seg[x] # prune[p].active, seg[y] # prune[p].active
                 PROVE  InSegment(seg[x])' \subseteq prune[p].recs
      BY <1>0, <2>1, <2>2 DEF PassIsComplete
    <3>1. seg'[x] = seg[x] /\ seg[x] < day
      BY <1>0, <2>1 DEF DatesAreRecent
    <3> QED BY <1>0, <2>5, <3>1 DEF PassIsComplete, InSegment
  <2>7. RemovalIsLate'
    BY <1>0, <2>2, <2>5, PassTypes DEF RemovalIsLate
  <2> QED BY <2>3, <2>4, <2>6, <2>7
<1>3. ASSUME NEW r \in Records, FinishAppend(r) PROVE Calendar'
  <2>1. /\ r \notin written /\ written' = written \cup {r} /\ disk' = disk \cup {r}
        /\ day' = day /\ seg' = seg
        /\ \/ prune' = prune
           \/ prune' = [prune EXCEPT !["server"] = NewPass(seg[r], disk')]
        /\ seg[r] \in Nat /\ (seg[r] = day \/ seg[r] + 1 = day)
    BY <1>0, <1>3 DEF FinishAppend, DatesAreRecent
  <2>2. DatesAreRecent'
    BY <1>0, <2>1 DEF DatesAreRecent, NewPass, TypeOK
  <2>3. RemovedTogether'
    BY <1>0, <2>1 DEF RemovedTogether
  <2>4. ASSUME NEW x \in disk', NEW y \in disk', seg[x] < seg[y], seg[x] # seg[r], seg[y] # seg[r]
        PROVE  InSegment(seg[x]) \subseteq disk'
    BY <1>0, <2>1, <2>4, NewPassIsComplete
  <2>5. PassIsComplete'
    <3> SUFFICES ASSUME NEW p \in Pruners, prune'[p].pc = "judge",
                        NEW x \in prune'[p].recs, NEW y \in prune'[p].recs,
                        seg[x] < seg[y], seg[x] # prune'[p].active, seg[y] # prune'[p].active
                 PROVE  InSegment(seg[x]) \subseteq prune'[p].recs
      BY <2>1 DEF PassIsComplete, InSegment
    <3>1. CASE prune'[p] = prune[p]
      BY <3>1 DEF PassIsComplete
    <3>2. CASE prune'[p] = NewPass(seg[r], disk')
      BY <2>4, <3>2 DEF NewPass
    <3> QED BY <2>1, <3>1, <3>2 DEF TypeOK
  <2>6. RemovalIsLate'
    <3> SUFFICES ASSUME NEW p \in Pruners, prune'[p].pc = "remove"
                 PROVE  prune'[p] = prune[p]
      BY <1>0, <2>1 DEF RemovalIsLate, InSegment
    <3> QED BY <2>1 DEF NewPass, TypeOK
  <2> QED BY <2>2, <2>3, <2>5, <2>6
<1>4. ASSUME NEW p \in Pruners, PruneJudge(p) PROVE Calendar'
  <2>1. /\ prune[p].pc = "judge"
        /\ day' = day /\ seg' = seg /\ written' = written /\ disk' = disk
        /\ prune'[p].pc # "judge" /\ \A q \in Pruners : q # p => prune'[q] = prune[q]
    BY <1>4 DEF PruneJudge, TypeOK
  <2>2. DatesAreRecent' /\ RemovedTogether' /\ PassIsComplete'
    BY <2>1 DEF DatesAreRecent, RemovedTogether, PassIsComplete, InSegment
  <2>3. ASSUME prune'[p].pc = "remove", NEW f \in prune'[p].todo
        PROVE  0 < f[1] /\ f[1] + 2 <= day /\ InSegment(f[1]) \subseteq written
    BY <1>0, <1>4, <2>1, <2>3, JudgedSegment, OlderSegmentIsClosed DEF DatesAreRecent
  <2>4. RemovalIsLate'
    BY <2>1, <2>3 DEF RemovalIsLate, InSegment
  <2> QED BY <2>2, <2>4
<1>5. ASSUME NEW p \in Pruners, PruneRemove(p) PROVE Calendar'
  <2>1. PICK f \in prune[p].todo : RemovalOf(p, f)
    BY <1>5, RemoveHasFile
  <2>2. /\ prune[p].pc = "remove"
        /\ day' = day /\ seg' = seg /\ written' = written
        /\ disk' = disk \/ disk' = disk \ InSegment(f[1])
        /\ \A q \in Pruners : prune'[q] = prune[q]
              \/ /\ prune'[q].pc # "judge"
                 /\ prune'[q].pc = "remove" =>
                       prune[q].pc = "remove" /\ prune'[q].todo \subseteq prune[q].todo
    BY <1>5, <2>1 DEF PruneRemove, RemovalOf, TypeOK
  <2>3. DatesAreRecent' /\ PassIsComplete'
    BY <2>2 DEF DatesAreRecent, PassIsComplete, InSegment
  <2>4. 0 < f[1] /\ f[1] + 2 <= day
    BY <2>2 DEF RemovalIsLate
  <2>5. RemovedTogether'
    BY <1>0, <2>2, <2>4 DEF RemovedTogether, InSegment
  <2>6. RemovalIsLate'
    BY <2>2 DEF RemovalIsLate, InSegment
  <2> QED BY <2>3, <2>5, <2>6
<1>6. CASE DrainPrune
  <2>1. /\ day' = day /\ seg' = seg /\ written' = written /\ disk' = disk
        /\ prune' = [prune EXCEPT !["daemon"] = NewPass(day, disk)]
    BY <1>6 DEF DrainPrune
  <2>2. DatesAreRecent' /\ RemovedTogether'
    BY <2>1 DEF DatesAreRecent, RemovedTogether, NewPass, TypeOK
  <2>3. ASSUME NEW x \in disk, NEW y \in disk, seg[x] < seg[y], seg[x] # day, seg[y] # day
        PROVE  InSegment(seg[x]) \subseteq disk
    BY <1>0, <2>3, NewPassIsComplete
  <2>4. PassIsComplete'
    <3> SUFFICES ASSUME NEW p \in Pruners, prune'[p].pc = "judge",
                        NEW x \in prune'[p].recs, NEW y \in prune'[p].recs,
                        seg[x] < seg[y], seg[x] # prune'[p].active, seg[y] # prune'[p].active
                 PROVE  InSegment(seg[x]) \subseteq prune'[p].recs
      BY <2>1 DEF PassIsComplete, InSegment
    <3>1. CASE prune'[p] = prune[p]
      BY <3>1 DEF PassIsComplete
    <3>2. CASE prune'[p] = NewPass(day, disk)
      BY <2>3, <3>2 DEF NewPass
    <3> QED BY <2>1, <3>1, <3>2 DEF TypeOK
  <2>5. RemovalIsLate'
    <3> SUFFICES ASSUME NEW p \in Pruners, prune'[p].pc = "remove"
                 PROVE  prune'[p] = prune[p]
      BY <1>0, <2>1 DEF RemovalIsLate, InSegment
    <3> QED BY <2>1 DEF NewPass, TypeOK
  <2> QED BY <2>2, <2>4, <2>5
<1>7. ASSUME DaemonRestart \/ ServerRestart PROVE Calendar'
  <2>1. /\ day' = day /\ written' = written /\ disk' = disk
        /\ seg' \in {seg, [r \in Records |-> IF r \in written THEN seg[r] ELSE 0]}
        /\ \A p \in Pruners : prune'[p] \in {prune[p], NoPass}
    BY <1>7 DEF DaemonRestart, ServerRestart, TypeOK
  <2>2. /\ \A r \in written : seg'[r] = seg[r]
        /\ \A r \in Records \ written : seg'[r] = seg[r] \/ seg'[r] = 0
    BY <1>0, <2>1
  <2>3. DatesAreRecent'
    BY <1>0, <2>1, <2>2 DEF DatesAreRecent
  <2>4. RemovedTogether'
    BY <1>0, <2>1, <2>2 DEF RemovedTogether, DatesAreRecent
  <2>5. ASSUME NEW s \in Nat, 0 < s PROVE InSegment(s)' \subseteq InSegment(s)
    BY <1>0, <2>2, <2>5 DEF InSegment
  <2>6. PassIsComplete'
    <3> SUFFICES ASSUME NEW p \in Pruners, prune[p].pc = "judge",
                        NEW x \in prune[p].recs, NEW y \in prune[p].recs,
                        seg[x] < seg[y], seg[x] # prune[p].active, seg[y] # prune[p].active
                 PROVE  InSegment(seg[x])' \subseteq prune[p].recs
      BY <1>0, <2>1, <2>2 DEF PassIsComplete
    <3>1. seg'[x] = seg[x] /\ 0 < seg[x]
      BY <1>0, <2>2 DEF DatesAreRecent
    <3> QED BY <1>0, <2>5, <3>1 DEF PassIsComplete, InSegment
  <2>7. RemovalIsLate'
    BY <1>0, <2>1, <2>5, PassTypes DEF RemovalIsLate
  <2> QED BY <2>3, <2>4, <2>6, <2>7
<1>8. CASE UNCHANGED <<day, seg, written, disk, prune>>
  BY <1>8 DEF DatesAreRecent, RemovedTogether, PassIsComplete, RemovalIsLate, InSegment
<1>9. ASSUME NEW r \in Records, Project(r) PROVE UNCHANGED <<day, seg, written, disk, prune>>
  BY <1>9 DEF Project
<1>10. ASSUME \/ DrainRead \/ DrainSelect \/ DrainEmbed \/ DrainVerify \/ DrainReread
              \/ DrainDecide \/ DrainCompensate \/ DrainMark \/ PurgeRead \/ PurgeTombstone
              \/ PurgeGet \/ PurgeDelete \/ UNCHANGED vars
       PROVE  UNCHANGED <<day, seg, written, disk, prune>>
  BY <1>10 DEF DrainRead, DrainSelect, DrainEmbed, DrainVerify, DrainReread, DrainDecide,
     DrainCompensate, DrainMark, PurgeRead, PurgeTombstone, PurgeGet, PurgeDelete
<1> QED BY <1>1, <1>2, <1>3, <1>4, <1>5, <1>6, <1>7, <1>8, <1>9, <1>10, StepCases

-----------------------------------------------------------------------------
(***************************************************************************)
(* The markers                                                             *)
(***************************************************************************)

\* No step takes an excuse back.
LEMMA ExcusesStay ==
    ASSUME TypeOK, [Next]_vars
    PROVE  exposed \subseteq exposed' /\ \A r : Excused(r) => Excused(r)'
<1>1. exposed \subseteq exposed' /\ (purge.pc # "idle" => purge'.pc # "idle")
  <2> USE DEF TypeOK
  <2>1. ASSUME NEW r \in Records, BeginAppend(r) \/ FinishAppend(r) \/ Project(r)
        PROVE  UNCHANGED <<exposed, purge>>
    BY <2>1 DEF BeginAppend, FinishAppend, Project
  <2>2. ASSUME NEW p \in Pruners, PruneJudge(p) \/ PruneRemove(p)
        PROVE  exposed \subseteq exposed' /\ purge' = purge
    BY <2>2 DEF PruneJudge, PruneRemove
  <2>3. ASSUME \/ Tick \/ DrainRead \/ DrainSelect \/ DrainReread \/ DrainDecide
               \/ DrainMark \/ DrainPrune \/ UNCHANGED vars
        PROVE  UNCHANGED <<exposed, purge>>
    BY <2>3 DEF Tick, DrainRead, DrainSelect, DrainReread, DrainDecide, DrainMark, DrainPrune
  <2>4. ASSUME DrainEmbed \/ DrainVerify \/ DrainCompensate \/ DaemonRestart
        PROVE  exposed \subseteq exposed' /\ purge' = purge
    BY <2>4 DEF DrainEmbed, DrainVerify, DrainCompensate, DaemonRestart
  <2>5. ASSUME PurgeRead \/ PurgeTombstone \/ PurgeGet \/ PurgeDelete \/ ServerRestart
        PROVE  purge'.pc # "idle" \/ purge' = purge
    BY <2>5 DEF PurgeRead, PurgeTombstone, PurgeGet, PurgeDelete, ServerRestart
  <2>6. ASSUME PurgeRead \/ PurgeTombstone \/ PurgeGet \/ PurgeDelete \/ ServerRestart
        PROVE  exposed \subseteq exposed'
    BY <2>6 DEF PurgeRead, PurgeTombstone, PurgeGet, PurgeDelete, ServerRestart
  <2> QED BY <2>1, <2>2, <2>3, <2>4, <2>5, <2>6, StepCases
<1> QED BY <1>1 DEF Excused, PurgeBegun

\* A vector leaves the content store by a purge or a compensation only.
LEMMA VectorsStay ==
    ASSUME TypeOK, TypeOK', Markers, [Next]_vars
    PROVE  \A r \in Records : Settled(r) => Settled(r)'
<1>1. ASSUME NEW r \in Records, row[r] = "vector", row'[r] # "vector" PROVE Excused(r)
  <2> USE DEF TypeOK
  <2>1. CASE row' = row
    BY <1>1, <2>1
  <2>2. CASE DrainEmbed
    BY <1>1, <2>2 DEF DrainEmbed
  <2>3. CASE DrainVerify
    BY ZenonT(40), <1>1, <2>3, VerifyHasOutcome DEF VerifyOutcome, Without
  <2>4. CASE DrainCompensate
    <3>1. r \in drain.batch \ drain.todo /\ drain.pc = "compensate"
      BY <1>1, <2>4 DEF DrainCompensate, Without
    <3> QED BY <3>1 DEF Markers, BatchIsPending
  <2>5. CASE PurgeDelete
    BY <1>1, <2>5 DEF PurgeDelete, Without, Excused, PurgeBegun
  <2>6. ASSUME NEW q \in Records, BeginAppend(q) \/ FinishAppend(q) \/ Project(q) PROVE row' = row
    BY <2>6 DEF BeginAppend, FinishAppend, Project
  <2>7. ASSUME NEW p \in Pruners, PruneJudge(p) \/ PruneRemove(p) PROVE row' = row
    BY <2>7 DEF PruneJudge, PruneRemove
  <2>8. ASSUME \/ Tick \/ DrainRead \/ DrainSelect \/ DrainReread \/ DrainDecide
               \/ DrainMark \/ DrainPrune \/ UNCHANGED vars
               \/ DaemonRestart \/ PurgeRead \/ PurgeTombstone \/ PurgeGet \/ ServerRestart
        PROVE  row' = row
    BY <2>8 DEF Tick, DrainRead, DrainSelect, DrainReread, DrainDecide, DrainMark, DrainPrune,
       DaemonRestart, PurgeRead, PurgeTombstone, PurgeGet, ServerRestart
  <2> QED BY <2>1, <2>2, <2>3, <2>4, <2>5, <2>6, <2>7, <2>8, StepCases
<1> QED BY <1>1, ExcusesStay DEF Settled

LEMMA MarkersInit == Init => Markers
BY MemoryWalAssumption DEF Init, Markers, MarkedAreSettled, RemovedAreSettled, ReadIsCurrent,
   BatchIsPending, EmbeddedAreSettled, Settled

LEMMA MarkedAreSettledNext ==
    ASSUME TypeOK, TypeOK', Markers, [Next]_vars
    PROVE  MarkedAreSettled'
<1>1. ASSUME NEW r \in marks', r \in marks \/ Settled(r) PROVE Settled(r)'
  BY <1>1, VectorsStay DEF Markers, MarkedAreSettled, TypeOK
<1>2. CASE marks' \subseteq marks
  BY <1>1, <1>2 DEF MarkedAreSettled
<1>3. CASE DrainMark
  <2>1. \A r \in marks' : r \in marks \/ r \in drain.todo
    BY <1>3 DEF DrainMark
  <2>2. \A r \in drain.todo : Settled(r)
    BY <1>3 DEF DrainMark, Markers, EmbeddedAreSettled
  <2> QED BY <1>1, <2>1, <2>2 DEF MarkedAreSettled
<1>4. CASE PurgeTombstone
  <2>1. \A r \in marks' : r \in marks \/ r \in purge.todo
    BY <1>4 DEF PurgeTombstone
  <2>2. \A r \in purge.todo : Settled(r)
    BY <1>4 DEF PurgeTombstone, Settled, Excused, PurgeBegun, TypeOK
  <2> QED BY <1>1, <2>1, <2>2 DEF MarkedAreSettled
<1>5. ASSUME NEW q \in Records, BeginAppend(q) \/ FinishAppend(q) \/ Project(q) PROVE marks' = marks
  BY <1>5 DEF BeginAppend, FinishAppend, Project
<1>6. ASSUME NEW p \in Pruners, PruneJudge(p) \/ PruneRemove(p) PROVE marks' \subseteq marks
  BY <1>6 DEF PruneJudge, PruneRemove
<1>7. ASSUME \/ Tick \/ DrainRead \/ DrainSelect \/ DrainEmbed \/ DrainVerify \/ DrainReread
             \/ DrainDecide \/ DrainCompensate \/ DrainPrune \/ UNCHANGED vars
             \/ DaemonRestart \/ PurgeRead \/ PurgeGet \/ PurgeDelete \/ ServerRestart
      PROVE  marks' = marks
  BY <1>7 DEF Tick, DrainRead, DrainSelect, DrainEmbed, DrainVerify, DrainReread, DrainDecide,
     DrainCompensate, DrainPrune, DaemonRestart, PurgeRead, PurgeGet, PurgeDelete, ServerRestart
<1> QED BY <1>2, <1>3, <1>4, <1>5, <1>6, <1>7, StepCases

\* A marker goes with its record, unless the removal is one of a known window.
LEMMA MarksStay ==
    ASSUME TypeOK, [Next]_vars, NEW r \in marks
    PROVE  \/ r \in marks' \/ r \in exposed'
           \/ r \notin disk /\ ~(drain.pc \in {"select", "decide"} /\ r \in drain.recs)
<1>1. ASSUME NEW p \in Pruners, PruneRemove(p)
      PROVE  \/ r \in marks' \/ r \in exposed'
             \/ r \notin disk /\ ~(drain.pc \in {"select", "decide"} /\ r \in drain.recs)
  <2>1. PICK f \in prune[p].todo : RemovalOf(p, f)
    BY <1>1, RemoveHasFile
  <2> QED BY <2>1 DEF RemovalOf, TakenForPending, InSegment
<1>2. ASSUME NEW q \in Records, BeginAppend(q) \/ FinishAppend(q) \/ Project(q) PROVE marks' = marks
  BY <1>2 DEF BeginAppend, FinishAppend, Project
<1>3. ASSUME NEW p \in Pruners, PruneJudge(p) PROVE marks' = marks
  BY SMTT(30), <1>3 DEF PruneJudge
<1>4. ASSUME \/ Tick \/ DrainRead \/ DrainSelect \/ DrainEmbed \/ DrainVerify \/ DrainReread
             \/ DrainDecide \/ DrainCompensate \/ DrainPrune \/ UNCHANGED vars
             \/ DaemonRestart \/ PurgeRead \/ PurgeGet \/ PurgeDelete \/ ServerRestart
      PROVE  marks' = marks
  BY <1>4 DEF Tick, DrainRead, DrainSelect, DrainEmbed, DrainVerify, DrainReread, DrainDecide,
     DrainCompensate, DrainPrune, DaemonRestart, PurgeRead, PurgeGet, PurgeDelete, ServerRestart
<1>5. ASSUME DrainMark \/ PurgeTombstone PROVE r \in marks'
  BY <1>5 DEF DrainMark, PurgeTombstone
<1> QED BY <1>1, <1>2, <1>3, <1>4, <1>5, StepCases

\* A new embed marker is one of the drain, or a tombstone.
LEMMA NewMarks ==
    ASSUME TypeOK, [Next]_vars, NEW r \in marks', r \notin marks
    PROVE  PurgeBegun(r) \/ (DrainMark /\ r \in drain.todo)
<1>1. CASE PurgeTombstone
  <2>1. purge.pc = "tombstone" /\ r \in purge.todo
    BY <1>1 DEF PurgeTombstone
  <2>2. purge.todo \subseteq Purgeable
    BY DEF TypeOK
  <2>3. PurgeBegun(r)
    BY <2>1, <2>2 DEF PurgeBegun
  <2> QED BY <2>3
<1>2. CASE DrainMark
  BY <1>2 DEF DrainMark
<1>3. ASSUME NEW q \in Records, BeginAppend(q) \/ FinishAppend(q) \/ Project(q) PROVE marks' = marks
  BY <1>3 DEF BeginAppend, FinishAppend, Project
<1>4. ASSUME NEW p \in Pruners, PruneJudge(p) \/ PruneRemove(p) PROVE marks' \subseteq marks
  BY SMTT(30), <1>4 DEF PruneJudge, PruneRemove
<1>5. ASSUME \/ Tick \/ DrainRead \/ DrainSelect \/ DrainEmbed \/ DrainVerify \/ DrainReread
             \/ DrainDecide \/ DrainCompensate \/ DrainPrune \/ UNCHANGED vars
             \/ DaemonRestart \/ PurgeRead \/ PurgeGet \/ PurgeDelete \/ ServerRestart
      PROVE  marks' = marks
  BY <1>5 DEF Tick, DrainRead, DrainSelect, DrainEmbed, DrainVerify, DrainReread, DrainDecide,
     DrainCompensate, DrainPrune, DaemonRestart, PurgeRead, PurgeGet, PurgeDelete, ServerRestart
<1> QED BY <1>1, <1>2, <1>3, <1>4, <1>5, StepCases

\* A records file goes once its records are projected and settled.
LEMMA RecordsStay ==
    ASSUME TypeOK, Markers, [Next]_vars, NEW r \in disk, r \notin disk'
    PROVE  r \in projected /\ Settled(r) /\ (r \in marks' \/ r \in exposed')
<1>1. ASSUME NEW p \in Pruners, PruneRemove(p)
      PROVE  r \in projected /\ Settled(r) /\ (r \in marks' \/ r \in exposed')
  <2>1. PICK f \in prune[p].todo : RemovalOf(p, f)
    BY <1>1, RemoveHasFile
  <2>2. f[2] = "records" /\ r \in InSegment(f[1]) /\ marks' = marks /\ exposed' = exposed
    BY <2>1 DEF RemovalOf
  <2> QED BY <1>1, <2>2 DEF PruneRemove, Markers, RemovedAreSettled
<1>2. ASSUME NEW q \in Records, BeginAppend(q) \/ FinishAppend(q) \/ Project(q)
      PROVE  disk \subseteq disk'
  BY <1>2 DEF BeginAppend, FinishAppend, Project
<1>3. ASSUME NEW p \in Pruners, PruneJudge(p) PROVE disk' = disk
  BY <1>3 DEF PruneJudge
<1>4. ASSUME \/ Tick \/ DrainRead \/ DrainSelect \/ DrainEmbed \/ DrainVerify \/ DrainReread
             \/ DrainDecide \/ DrainCompensate \/ DrainMark \/ DrainPrune \/ UNCHANGED vars
             \/ DaemonRestart \/ PurgeRead \/ PurgeTombstone \/ PurgeGet \/ PurgeDelete
             \/ ServerRestart
      PROVE  disk' = disk
  BY <1>4 DEF Tick, DrainRead, DrainSelect, DrainEmbed, DrainVerify, DrainReread, DrainDecide,
     DrainCompensate, DrainMark, DrainPrune, DaemonRestart, PurgeRead, PurgeTombstone, PurgeGet,
     PurgeDelete, ServerRestart
<1> QED BY <1>1, <1>2, <1>3, <1>4, StepCases

\* A new record in the files is one that was not accepted before.
LEMMA NewRecords ==
    ASSUME TypeOK, [Next]_vars
    PROVE  /\ written \subseteq written' /\ projected \subseteq projected'
           /\ \A r \in disk' : r \in disk \/ r \notin written
           /\ \A r \in written' : r \in written \/ (r \in disk' /\ r \notin marks')
<1> USE DEF TypeOK
<1>1. ASSUME NEW q \in Records, BeginAppend(q) \/ FinishAppend(q) \/ Project(q)
      PROVE  /\ written \subseteq written' /\ projected \subseteq projected'
             /\ \A r \in disk' : r \in disk \/ r \notin written
             /\ \A r \in written' : r \in written \/ (r \in disk' /\ r \notin marks')
  BY <1>1 DEF BeginAppend, FinishAppend, Project
<1>2. ASSUME NEW p \in Pruners, PruneJudge(p) \/ PruneRemove(p)
      PROVE  written' = written /\ projected' = projected /\ disk' \subseteq disk
  BY <1>2 DEF PruneJudge, PruneRemove
<1>3. ASSUME \/ Tick \/ DrainRead \/ DrainSelect \/ DrainEmbed \/ DrainVerify \/ DrainReread
             \/ DrainDecide \/ DrainCompensate \/ DrainMark \/ DrainPrune \/ UNCHANGED vars
             \/ DaemonRestart \/ PurgeRead \/ PurgeTombstone \/ PurgeGet \/ PurgeDelete
             \/ ServerRestart
      PROVE  written' = written /\ projected' = projected /\ disk' = disk
  BY <1>3 DEF Tick, DrainRead, DrainSelect, DrainEmbed, DrainVerify, DrainReread, DrainDecide,
     DrainCompensate, DrainMark, DrainPrune, DaemonRestart, PurgeRead, PurgeTombstone, PurgeGet,
     PurgeDelete, ServerRestart
<1> QED BY <1>1, <1>2, <1>3, StepCases

\* Only its purge takes a pending record away before the drain marks it.
LEMMA PendingStays ==
    ASSUME TypeOK, Markers, [Next]_vars, drain.pc # "mark", NEW r, Pending(r)
    PROVE  Pending(r)' \/ Excused(r)'
<1>1. r \in disk /\ r \notin marks
  BY DEF Pending
<1>2. CASE r \in marks'
  BY <1>1, <1>2, NewMarks, ExcusesStay DEF DrainMark, Excused
<1>3. CASE r \notin marks' /\ r \notin disk'
  BY <1>1, <1>3, RecordsStay DEF Excused
<1> QED BY <1>2, <1>3 DEF Pending

LEMMA RemovedAreSettledNext ==
    ASSUME TypeOK, TypeOK', Calendar, Markers, [Next]_vars
    PROVE  RemovedAreSettled'
<1>1. ASSUME \A p \in Pruners : prune'[p].pc = "remove" =>
                 prune[p].pc = "remove" /\ prune'[p].todo \subseteq prune[p].todo,
             \A p \in Pruners : prune[p].pc = "remove" =>
                 \A f \in prune[p].todo : InSegment(f[1])' \subseteq InSegment(f[1])
      PROVE  RemovedAreSettled'
  <2> SUFFICES ASSUME NEW p \in Pruners, prune'[p].pc = "remove", NEW f \in prune'[p].todo,
                      NEW r \in InSegment(f[1])'
               PROVE  /\ r \in projected' /\ Settled(r)'
                      /\ r \in disk' => r \in marks' \/ r \in exposed'
    BY DEF RemovedAreSettled
  <2>1. prune[p].pc = "remove" /\ f \in prune[p].todo /\ r \in InSegment(f[1])
    BY <1>1
  <2>2. /\ r \in projected /\ Settled(r)
        /\ r \in disk => r \in marks \/ r \in exposed
    BY <2>1 DEF Markers, RemovedAreSettled
  <2>3. r \in written /\ r \in Records
    BY <2>1 DEF Calendar, RemovalIsLate, TypeOK
  <2>4. r \in disk' => r \in disk
    BY <2>3, NewRecords
  <2> QED BY <2>2, <2>3, <2>4, VectorsStay, NewRecords, MarksStay, ExcusesStay
<1>2. ASSUME NEW p \in Pruners, PruneJudge(p) PROVE RemovedAreSettled'
  <2>1. /\ prune[p].pc = "judge"
        /\ UNCHANGED <<seg, disk, marks, gmarks, projected, row, purge, exposed>>
        /\ \A q \in Pruners : q # p => prune'[q] = prune[q]
    BY <1>2 DEF PruneJudge, TypeOK
  <2>2. ASSUME prune'[p].pc = "remove", NEW f \in prune'[p].todo, NEW r \in InSegment(f[1])
        PROVE  r \in projected /\ Settled(r) /\ r \in marks
    <3>1. PICK x \in prune[p].recs, y \in prune[p].recs :
              /\ f[1] = seg[x] /\ seg[x] < seg[y]
              /\ seg[x] # prune[p].active /\ seg[y] # prune[p].active
              /\ Reconciled(prune[p].recs, seg[x])
      BY <1>2, <2>1, <2>2, JudgedSegment
    <3>2. r \in prune[p].recs /\ seg[r] = seg[x]
      BY <2>1, <2>2, <3>1 DEF Calendar, PassIsComplete, InSegment
    <3>3. r \in marks \cap gmarks
      BY <3>1, <3>2 DEF Reconciled
    <3> QED BY <3>3 DEF Markers, MarkedAreSettled, TypeOK
  <2>3. ASSUME NEW r PROVE Settled(r)' = Settled(r)
    BY <2>1 DEF Settled, Excused, PurgeBegun
  <2> QED BY <2>1, <2>2, <2>3 DEF Markers, RemovedAreSettled, InSegment
<1>3. ASSUME NEW p \in Pruners, PruneRemove(p) PROVE RemovedAreSettled'
  <2>1. PICK f \in prune[p].todo : RemovalOf(p, f)
    BY <1>3, RemoveHasFile
  <2>2. seg' = seg /\ prune[p].pc = "remove"
    BY <1>3 DEF PruneRemove
  <2>3. \A q \in Pruners : prune'[q].pc = "remove" =>
            prune[q].pc = "remove" /\ prune'[q].todo \subseteq prune[q].todo
    BY <2>1, <2>2 DEF RemovalOf, TypeOK
  <2> QED BY <1>1, <2>2, <2>3 DEF InSegment
<1>4. ASSUME NEW r \in Records, BeginAppend(r) PROVE RemovedAreSettled'
  <2>1. prune' = prune /\ seg' = [seg EXCEPT ![r] = day]
    BY <1>4 DEF BeginAppend
  <2>2. ASSUME NEW p \in Pruners, prune[p].pc = "remove", NEW f \in prune[p].todo
        PROVE  InSegment(f[1])' \subseteq InSegment(f[1])
    <3>1. f[1] \in Nat /\ f[1] + 2 <= day /\ day \in Nat
      BY <2>2, PassTypes DEF Calendar, RemovalIsLate, TypeOK
    <3> QED BY <2>1, <3>1 DEF InSegment, TypeOK
  <2> QED BY <1>1, <2>1, <2>2
<1>5. ASSUME NEW r \in Records, FinishAppend(r) \/ Project(r) PROVE RemovedAreSettled'
  <2>1. seg' = seg
    BY <1>5 DEF FinishAppend, Project
  <2>2. \A p \in Pruners : prune'[p] = prune[p] \/ prune'[p].pc = "judge"
    BY <1>5 DEF FinishAppend, Project, NewPass, TypeOK
  <2> QED BY <1>1, <2>1, <2>2 DEF InSegment
<1>6. ASSUME DaemonRestart \/ ServerRestart PROVE RemovedAreSettled'
  <2>1. \A p \in Pruners : prune'[p] \in {prune[p], NoPass}
    BY <1>6 DEF DaemonRestart, ServerRestart, TypeOK
  <2>2. \A r \in Records : seg'[r] = seg[r] \/ seg'[r] = 0
    BY <1>6 DEF DaemonRestart, ServerRestart
  <2>3. ASSUME NEW p \in Pruners, prune[p].pc = "remove", NEW f \in prune[p].todo
        PROVE  InSegment(f[1])' \subseteq InSegment(f[1])
    <3>1. f[1] \in Nat /\ 0 < f[1]
      BY <2>3, PassTypes DEF Calendar, RemovalIsLate
    <3> QED BY <2>2, <3>1 DEF InSegment
  <2> QED BY <1>1, <2>1, <2>3
<1>7. CASE DrainPrune
  <2>1. seg' = seg /\ \A p \in Pruners : prune'[p] = prune[p] \/ prune'[p].pc = "judge"
    BY <1>7 DEF DrainPrune, NewPass, TypeOK
  <2> QED BY <1>1, <2>1 DEF InSegment
<1>8. ASSUME \/ Tick \/ DrainRead \/ DrainSelect \/ DrainEmbed \/ DrainVerify \/ DrainReread
             \/ DrainDecide \/ DrainCompensate \/ DrainMark \/ PurgeRead \/ PurgeTombstone
             \/ PurgeGet \/ PurgeDelete \/ UNCHANGED vars
      PROVE  RemovedAreSettled'
  <2>1. seg' = seg /\ prune' = prune
    BY <1>8 DEF Tick, DrainRead, DrainSelect, DrainEmbed, DrainVerify, DrainReread, DrainDecide,
       DrainCompensate, DrainMark, PurgeRead, PurgeTombstone, PurgeGet, PurgeDelete
  <2> QED BY <1>1, <2>1 DEF InSegment
<1> QED BY <1>2, <1>3, <1>4, <1>5, <1>6, <1>7, <1>8, StepCases

LEMMA DrainInvariantsNext ==
    ASSUME TypeOK, TypeOK', Markers, [Next]_vars
    PROVE  ReadIsCurrent' /\ BatchIsPending' /\ EmbeddedAreSettled'
<1>0. /\ \A r : Excused(r) => Excused(r)'
      /\ \A r \in Records : Settled(r) => Settled(r)'
      /\ drain.recs \subseteq Records /\ drain.batch \subseteq Records /\ drain.todo \subseteq Records
      /\ drain.todo \subseteq drain.batch
  BY ExcusesStay, VectorsStay, DrainIsRecord DEF TypeOK
<1>1. CASE drain' = drain
  <2>1. ReadIsCurrent'
    <3> SUFFICES ASSUME drain.pc \in {"select", "decide"}, NEW r \in drain.recs
                 PROVE  r \in disk' \/ r \in marks' \/ r \in exposed'
      BY <1>1 DEF ReadIsCurrent
    <3>1. r \in disk \/ r \in marks \/ r \in exposed
      BY DEF Markers, ReadIsCurrent
    <3> QED BY <3>1, RecordsStay, MarksStay, ExcusesStay
  <2>2. ASSUME drain.pc # "mark", NEW r, Excused(r) \/ Pending(r) PROVE Excused(r)' \/ Pending(r)'
    BY <1>0, <2>2, PendingStays
  <2>3. BatchIsPending'
    BY <1>0, <1>1, <2>2 DEF Markers, BatchIsPending
  <2>4. EmbeddedAreSettled'
    BY <1>0, <1>1 DEF Markers, EmbeddedAreSettled
  <2> QED BY <2>1, <2>3, <2>4
<1>2. CASE DrainRead
  <2>1. drain'.pc = "select" /\ drain'.recs = disk /\ disk' = disk
    BY <1>2, DrainIsRecord DEF DrainRead
  <2> QED BY <2>1 DEF ReadIsCurrent, BatchIsPending, EmbeddedAreSettled
<1>3. CASE DrainSelect
  <2>1. PICK batch \in SUBSET (drain.recs \ marks) :
            drain' = [pc |-> IF batch = {} THEN "mark" ELSE "embed",
                      recs |-> {}, batch |-> batch, todo |-> {}]
    BY <1>3 DEF DrainSelect, PendingOf
  <2>2. drain.pc = "select" /\ UNCHANGED <<disk, marks, exposed, purge>>
    BY <1>3 DEF DrainSelect
  <2>3. ReadIsCurrent' /\ EmbeddedAreSettled'
    BY <2>1 DEF ReadIsCurrent, EmbeddedAreSettled
  <2>4. \A r \in batch : Excused(r) \/ Pending(r)
    BY <2>2 DEF Markers, ReadIsCurrent, Excused, Pending
  <2>5. \A r : (Excused(r) <=> Excused(r)') /\ (Pending(r) <=> Pending(r)')
    BY <2>2 DEF Excused, PurgeBegun, Pending
  <2> QED BY <2>1, <2>3, <2>4, <2>5 DEF BatchIsPending
<1>4. CASE DrainEmbed
  <2>1. drain.pc = "embed" /\ UNCHANGED <<disk, marks>>
        /\ drain'.pc = "verify" /\ drain'.batch = drain.batch
    BY <1>4, DrainIsRecord DEF DrainEmbed
  <2>2. ReadIsCurrent' /\ EmbeddedAreSettled'
    BY <2>1 DEF ReadIsCurrent, EmbeddedAreSettled
  <2>3. \A r : Pending(r) <=> Pending(r)'
    BY <2>1 DEF Pending
  <2> QED BY <1>0, <2>1, <2>2, <2>3 DEF Markers, BatchIsPending
<1>5. CASE DrainVerify
  <2>1. PICK unseen, embedded, failed, deleted :
            VerifyOutcome(unseen, embedded, failed, deleted)
    BY <1>5, VerifyHasOutcome
  <2>2. /\ drain.pc = "verify" /\ UNCHANGED <<disk, marks>>
        /\ drain'.pc \in {"mark", "reread"} /\ drain'.batch = embedded /\ drain'.todo = {}
        /\ embedded \subseteq drain.batch
    BY <1>0, <1>5, <2>1, DrainIsRecord DEF DrainVerify, VerifyOutcome
  <2>3. ReadIsCurrent'
    BY <2>2 DEF ReadIsCurrent
  <2>4. \A r : Pending(r) <=> Pending(r)'
    BY <2>2 DEF Pending
  <2>5. BatchIsPending'
    BY <1>0, <2>2, <2>4 DEF Markers, BatchIsPending
  <2>6. \A r \in embedded : row'[r] = "vector"
    BY <1>0, <2>1, <2>2 DEF VerifyOutcome, Without
  <2>7. EmbeddedAreSettled'
    BY <2>2, <2>6 DEF EmbeddedAreSettled, Settled
  <2> QED BY <2>3, <2>5, <2>7
<1>6. CASE DrainReread
  <2>1. /\ drain.pc = "reread" /\ UNCHANGED <<disk, marks>>
        /\ drain'.pc = "decide" /\ drain'.recs = disk /\ drain'.batch = drain.batch
    BY <1>6, DrainIsRecord DEF DrainReread
  <2>2. ReadIsCurrent'
    BY <2>1 DEF ReadIsCurrent
  <2>3. \A r : Pending(r) <=> Pending(r)'
    BY <2>1 DEF Pending
  <2>4. BatchIsPending'
    BY <1>0, <2>1, <2>3 DEF Markers, BatchIsPending, Pending
  <2>5. EmbeddedAreSettled'
    BY <1>0, <2>1 DEF Markers, EmbeddedAreSettled
  <2> QED BY <2>2, <2>4, <2>5
<1>7. CASE DrainDecide
  <2>1. /\ drain.pc = "decide" /\ drain'.pc \in {"mark", "compensate"}
        /\ drain'.batch = drain.batch /\ drain'.todo = (drain.recs \ marks) \cap drain.batch
    BY <1>7, DrainIsRecord DEF DrainDecide, PendingOf
  <2>2. ReadIsCurrent'
    BY <2>1 DEF ReadIsCurrent
  <2>3. \A r \in drain.batch \ drain'.todo : Excused(r)
    BY <2>1 DEF Markers, BatchIsPending, Pending
  <2>4. BatchIsPending'
    BY <1>0, <2>1, <2>3 DEF BatchIsPending
  <2>5. EmbeddedAreSettled'
    BY <1>0, <2>1 DEF Markers, EmbeddedAreSettled
  <2> QED BY <2>2, <2>4, <2>5
<1>8. CASE DrainCompensate
  <2>1. drain.pc = "compensate" /\ drain'.pc = "mark" /\ drain'.todo = drain.todo
    BY <1>8, DrainIsRecord DEF DrainCompensate
  <2> QED BY <1>0, <2>1 DEF Markers, ReadIsCurrent, BatchIsPending, EmbeddedAreSettled
<1>9. CASE DrainMark
  <2>0. PICK r \in drain.todo :
            \/ drain' = Idle
            \/ drain' = [drain EXCEPT !.batch = drain.batch \ {r}, !.todo = drain.todo \ {r}]
    BY <1>9 DEF DrainMark
  <2>3. drain.pc = "mark"
    BY <1>9 DEF DrainMark
  <2>4. ASSUME drain' = [drain EXCEPT !.batch = drain.batch \ {r}, !.todo = drain.todo \ {r}]
        PROVE  drain'.pc = "mark" /\ drain'.todo \subseteq drain.todo
    <3>1. drain'.pc = drain.pc /\ drain'.todo = drain.todo \ {r}
      BY <2>4, DrainIsRecord, Zenon
    <3> QED BY <2>3, <3>1
  <2>1. /\ drain.pc = "mark" /\ drain'.pc \in {"mark", "idle"}
        /\ drain'.todo \subseteq drain.todo
    BY <2>0, <2>3, <2>4
  <2> QED BY <1>0, <2>1 DEF Markers, ReadIsCurrent, BatchIsPending, EmbeddedAreSettled
<1>10. ASSUME DrainPrune \/ DaemonRestart PROVE drain'.pc = "idle"
  BY <1>10 DEF DrainPrune, DaemonRestart
<1>11. CASE drain'.pc = "idle"
  BY <1>11 DEF ReadIsCurrent, BatchIsPending, EmbeddedAreSettled
<1>12. ASSUME NEW q \in Records, BeginAppend(q) \/ FinishAppend(q) \/ Project(q) PROVE drain' = drain
  BY <1>12 DEF BeginAppend, FinishAppend, Project
<1>13. ASSUME NEW p \in Pruners, PruneJudge(p) \/ PruneRemove(p) PROVE drain' = drain
  BY <1>13 DEF PruneJudge, PruneRemove
<1>14. ASSUME \/ Tick \/ UNCHANGED vars \/ PurgeRead \/ PurgeTombstone \/ PurgeGet
              \/ PurgeDelete \/ ServerRestart
       PROVE  drain' = drain
  BY <1>14 DEF Tick, PurgeRead, PurgeTombstone, PurgeGet, PurgeDelete, ServerRestart
<1> QED BY <1>1, <1>2, <1>3, <1>4, <1>5, <1>6, <1>7, <1>8, <1>9, <1>10, <1>11, <1>12, <1>13,
           <1>14, StepCases

LEMMA MarkersNext == TypeOK /\ TypeOK' /\ Calendar /\ Markers /\ [Next]_vars => Markers'
<1> SUFFICES ASSUME TypeOK, TypeOK', Calendar, Markers, [Next]_vars PROVE Markers'
  OBVIOUS
<1>1. MarkedAreSettled' /\ RemovedAreSettled'
  BY MarkedAreSettledNext, RemovedAreSettledNext
<1>2. ReadIsCurrent' /\ BatchIsPending' /\ EmbeddedAreSettled'
  BY DrainInvariantsNext
<1> QED BY <1>1, <1>2 DEF Markers

-----------------------------------------------------------------------------
(***************************************************************************)
(* What is kept                                                            *)
(***************************************************************************)

LEMMA KeptInit == Init => Kept
BY MemoryWalAssumption DEF Init, Kept, AcceptedIsKept, KeptUntilProjected, Pending, PurgeBegun

LEMMA KeptNext == TypeOK /\ TypeOK' /\ Markers /\ Kept /\ [Next]_vars => Kept'
<1> SUFFICES ASSUME TypeOK, TypeOK', Markers, Kept, [Next]_vars PROVE Kept'
  OBVIOUS
<1>1. ASSUME NEW r \in written', ~Settled(r)' PROVE Pending(r)'
  <2>1. CASE r \notin written
    BY <1>1, <2>1, NewRecords DEF Pending
  <2>2. CASE r \in written
    <3>1. r \in Records /\ ~Settled(r)
      BY <1>1, <2>2, VectorsStay DEF TypeOK
    <3>2. r \in disk
      BY <2>2, <3>1 DEF Kept, AcceptedIsKept, Settled, Excused, Pending
    <3>3. r \in disk'
      BY <3>1, <3>2, RecordsStay
    <3>4. r \notin marks'
      BY <1>1, MarkedAreSettledNext DEF MarkedAreSettled
    <3> QED BY <3>3, <3>4 DEF Pending
  <2> QED BY <2>1, <2>2
<1>2. AcceptedIsKept'
  BY <1>1 DEF AcceptedIsKept, Settled, Excused
<1>3. ASSUME NEW r \in written' \ projected' PROVE r \in disk' /\ r \notin gmarks'
  <2>1. r \notin gmarks'
    BY DEF TypeOK
  <2>2. CASE r \in written
    <3>1. r \in disk /\ r \notin projected
      BY <2>2, NewRecords DEF Kept, KeptUntilProjected
    <3> QED BY <2>1, <3>1, RecordsStay
  <2> QED BY <2>1, <2>2, NewRecords
<1>4. KeptUntilProjected'
  BY <1>3 DEF KeptUntilProjected
<1> QED BY <1>2, <1>4 DEF Kept

-----------------------------------------------------------------------------
(***************************************************************************)
(* The purge                                                               *)
(***************************************************************************)

\* A row that is gone, and has its tombstone, comes back in flight only.
LEMMA GoneStays ==
    ASSUME TypeOK, Markers, [Next]_vars, NEW r \in Records, r \notin exposed', ~Pending(r),
           row[r] = "absent" \/ r \in InFlight
    PROVE  row'[r] = "absent" \/ r \in InFlight'
<1>0. r \notin exposed /\ row \in [Records -> {"absent", "vector", "bare"}]
  BY ExcusesStay DEF TypeOK
<1>1. CASE row' = row /\ drain' = drain
  BY <1>1 DEF InFlight
<1>2. CASE DrainEmbed
  <2>1. PICK added \in SUBSET drain.batch, lost \in SUBSET drain.batch :
            /\ \A q \in Records : q \notin added \cup lost => row'[q] = row[q]
            /\ exposed' = exposed \cup OutOfSight(lost)
            /\ drain' = [drain EXCEPT !.pc = "verify", !.todo = added]
    BY <1>2 DEF DrainEmbed
  <2>2. drain.pc = "embed" /\ drain'.pc = "verify" /\ drain'.todo = added
    BY <1>2, <2>1, DrainIsRecord DEF DrainEmbed
  <2>3. row[r] = "absent" /\ InFlight' = added
    BY <2>2 DEF InFlight
  <2>4. r \notin lost
    BY <2>1 DEF OutOfSight
  <2> QED BY <2>1, <2>3, <2>4
<1>3. CASE DrainVerify
  <2>1. PICK unseen, embedded, failed, deleted :
            VerifyOutcome(unseen, embedded, failed, deleted)
    BY <1>3, VerifyHasOutcome
  <2>2. /\ drain.pc = "verify" /\ InFlight = drain.todo
        /\ drain'.pc = IF embedded = {} THEN "mark" ELSE "reread"
        /\ drain'.batch = embedded
    BY <1>3, <2>1, DrainIsRecord DEF DrainVerify, VerifyOutcome, InFlight
  <2>3. embedded \subseteq InFlight'
    BY <2>2 DEF InFlight
  <2>4. r \notin unseen
    BY <2>1 DEF VerifyOutcome, OutOfSight
  <2>5. /\ drain.todo \subseteq embedded \cup deleted \cup unseen
        /\ row' = Without(deleted)
    BY <2>1 DEF VerifyOutcome
  <2> QED BY <1>0, <2>2, <2>3, <2>4, <2>5 DEF Without
<1>4. CASE DrainReread
  <2>1. row' = row /\ drain.pc = "reread" /\ drain'.pc = "decide" /\ drain'.batch = drain.batch
    BY <1>4, DrainIsRecord DEF DrainReread
  <2> QED BY <2>1 DEF InFlight
<1>5. CASE DrainDecide
  <2>1. /\ row' = row /\ drain.pc = "decide" /\ drain'.batch = drain.batch
        /\ drain'.todo = (drain.recs \ marks) \cap drain.batch
        /\ drain'.pc = IF drain'.todo = drain.batch THEN "mark" ELSE "compensate"
    BY <1>5, DrainIsRecord DEF DrainDecide, PendingOf
  <2>2. r \notin drain.recs \ marks
    BY <1>0, <2>1 DEF Markers, ReadIsCurrent, Pending
  <2>3. CASE r \in drain.batch
    <3>1. drain'.pc = "compensate"
      BY <2>1, <2>2, <2>3
    <3> QED BY <2>1, <2>2, <2>3, <3>1 DEF InFlight
  <2> QED BY <2>1, <2>3 DEF InFlight
<1>6. CASE DrainCompensate
  <2>1. /\ InFlight = drain.batch \ drain.todo
        /\ \/ row' = Without(InFlight)
           \/ exposed' = exposed \cup InFlight /\ row' = row
    BY <1>6 DEF DrainCompensate, InFlight
  <2> HIDE DEF InFlight
  <2> QED BY <1>0, <2>1 DEF Without
<1>7. ASSUME DrainRead \/ DrainSelect \/ DrainMark \/ DrainPrune
      PROVE  row' = row /\ InFlight = {}
  BY <1>7 DEF DrainRead, DrainSelect, DrainMark, DrainPrune, InFlight
<1>8. CASE DaemonRestart
  BY <1>8 DEF DaemonRestart, OutOfSight
<1>9. CASE PurgeDelete
  <2>1. drain' = drain /\ (row' = row \/ row' = Without(purge.todo))
    BY <1>9 DEF PurgeDelete
  <2> QED BY <1>0, <2>1 DEF Without, InFlight
<1>10. ASSUME NEW q \in Records, BeginAppend(q) \/ FinishAppend(q) \/ Project(q)
       PROVE  row' = row /\ drain' = drain
  BY <1>10 DEF BeginAppend, FinishAppend, Project
<1>11. ASSUME NEW p \in Pruners, PruneJudge(p) \/ PruneRemove(p) PROVE row' = row /\ drain' = drain
  BY <1>11 DEF PruneJudge, PruneRemove
<1>12. ASSUME \/ Tick \/ UNCHANGED vars \/ PurgeRead \/ PurgeTombstone \/ PurgeGet \/ ServerRestart
       PROVE  row' = row /\ drain' = drain
  BY <1>12 DEF Tick, PurgeRead, PurgeTombstone, PurgeGet, ServerRestart
<1> QED BY <1>1, <1>2, <1>3, <1>4, <1>5, <1>6, <1>7, <1>8, <1>9, <1>10, <1>11, <1>12, StepCases

\* The steps that change nothing about the purge.
LEMMA PurgeFrame ==
    ASSUME TypeOK, [Next]_vars, ~PurgeRead, ~PurgeTombstone, ~PurgeGet, ~PurgeDelete
    PROVE  condemned' = condemned /\ (purge' = purge \/ purge'.pc = "failed")
<1>1. ASSUME NEW q \in Records, BeginAppend(q) \/ FinishAppend(q) \/ Project(q)
      PROVE  purge' = purge /\ condemned' = condemned
  BY <1>1 DEF BeginAppend, FinishAppend, Project
<1>2. ASSUME NEW p \in Pruners, PruneJudge(p) \/ PruneRemove(p)
      PROVE  purge' = purge /\ condemned' = condemned
  BY <1>2 DEF PruneJudge, PruneRemove
<1>3. ASSUME \/ Tick \/ DrainRead \/ DrainSelect \/ DrainEmbed \/ DrainVerify \/ DrainReread
             \/ DrainDecide \/ DrainCompensate \/ DrainMark \/ DrainPrune \/ UNCHANGED vars
             \/ DaemonRestart
      PROVE  purge' = purge /\ condemned' = condemned
  BY <1>3 DEF Tick, DrainRead, DrainSelect, DrainEmbed, DrainVerify, DrainReread, DrainDecide,
     DrainCompensate, DrainMark, DrainPrune, DaemonRestart
<1>4. CASE ServerRestart
  BY <1>4 DEF ServerRestart
<1> QED BY <1>1, <1>2, <1>3, <1>4, StepCases

LEMMA PurgesInit == Init => Purges
BY DEF Init, Purges, TombstonesHold, DeleteIsComplete, PurgedStaysGone

LEMMA PurgesNext == TypeOK /\ TypeOK' /\ Markers /\ Purges /\ [Next]_vars => Purges'
<1> SUFFICES ASSUME TypeOK, TypeOK', Markers, Purges, [Next]_vars PROVE Purges'
  OBVIOUS
<1>0. /\ exposed \subseteq exposed' /\ condemned \subseteq Records
      /\ condemned \subseteq written \cap Purgeable
  BY ExcusesStay DEF TypeOK
<1>1. ASSUME NEW r \in condemned, r \notin exposed', Pending(r)' PROVE Pending(r)
  BY <1>0, <1>1, NewRecords, MarksStay DEF Pending
<1>2. ASSUME purge.pc \in {"delete", "done"}, NEW r \in condemned, r \notin exposed',
             row[r] = "absent" \/ r \in InFlight
      PROVE  row'[r] = "absent" \/ r \in InFlight'
  <2>1. ~Pending(r)
    BY <1>0, <1>2 DEF Purges, TombstonesHold
  <2> QED BY <1>0, <1>2, <2>1, GoneStays
<1>3. CASE purge' = purge /\ condemned' = condemned
  <2>1. TombstonesHold'
    BY <1>0, <1>1, <1>3 DEF Purges, TombstonesHold
  <2>2. DeleteIsComplete'
    BY <1>0, <1>2, <1>3 DEF Purges, DeleteIsComplete
  <2>3. PurgedStaysGone'
    BY <1>0, <1>2, <1>3 DEF Purges, PurgedStaysGone
  <2> QED BY <2>1, <2>2, <2>3 DEF Purges
<1>4. CASE purge'.pc = "failed"
  BY <1>4 DEF Purges, TombstonesHold, DeleteIsComplete, PurgedStaysGone
<1>5. CASE PurgeRead
  <2>1. /\ purge' = [pc |-> "tombstone", todo |-> (disk \ marks) \cap Purgeable]
        /\ condemned' = written \cap Purgeable /\ UNCHANGED <<disk, marks>>
    BY <1>5 DEF PurgeRead, PendingOf
  <2>2. TombstonesHold'
    BY <2>1 DEF TombstonesHold, Pending
  <2> QED BY <2>1, <2>2 DEF Purges, DeleteIsComplete, PurgedStaysGone
<1>6. CASE PurgeTombstone
  <2>1. /\ purge.pc = "tombstone" /\ purge'.pc = "tombstone" /\ condemned' = condemned
        /\ \A r \in purge.todo : r \in purge'.todo \/ r \in marks' \/ r \in exposed'
    BY <1>6 DEF PurgeTombstone, TypeOK
  <2>2. TombstonesHold'
    <3> SUFFICES ASSUME NEW r \in condemned, r \notin exposed', Pending(r)'
                 PROVE  r \in purge'.todo
      BY <2>1 DEF TombstonesHold
    <3>1. r \in purge.todo
      BY <1>0, <1>1, <2>1 DEF Purges, TombstonesHold
    <3> QED BY <2>1, <3>1 DEF Pending
  <2> QED BY <2>1, <2>2 DEF Purges, DeleteIsComplete, PurgedStaysGone
<1>7. CASE PurgeGet
  <2>1. /\ purge.pc = "tombstone" /\ purge.todo = {}
        /\ purge' = [pc |-> "delete", todo |-> {r \in Purgeable \cap written : row[r] # "absent"}]
        /\ UNCHANGED <<row, disk, marks, exposed, condemned>>
    BY <1>7 DEF PurgeGet
  <2>2. TombstonesHold'
    BY <2>1 DEF Purges, TombstonesHold, Pending
  <2>3. DeleteIsComplete'
    BY <1>0, <2>1 DEF DeleteIsComplete
  <2> QED BY <2>1, <2>2, <2>3 DEF Purges, PurgedStaysGone
<1>8. CASE PurgeDelete
  <2>1. /\ purge.pc = "delete" /\ UNCHANGED <<drain, disk, marks, exposed, condemned>>
        /\ \/ row' = Without(purge.todo) /\ purge'.pc = "done"
           \/ purge'.pc = "failed"
    BY <1>8 DEF PurgeDelete
  <2>2. TombstonesHold'
    BY <2>1 DEF Purges, TombstonesHold, Pending
  <2>3. ASSUME row' = Without(purge.todo), NEW r \in condemned \ exposed
        PROVE  row'[r] = "absent" \/ r \in InFlight'
    BY <1>0, <2>1, <2>3 DEF Purges, DeleteIsComplete, Without, InFlight
  <2>4. PurgedStaysGone'
    BY <2>1, <2>3 DEF PurgedStaysGone
  <2> QED BY <2>1, <2>2, <2>4 DEF Purges, DeleteIsComplete
<1> QED BY <1>3, <1>4, <1>5, <1>6, <1>7, <1>8, PurgeFrame

-----------------------------------------------------------------------------
(***************************************************************************)
(* The theorems                                                            *)
(***************************************************************************)

LEMMA MarkersHold == Spec => [](Calendar /\ Markers)
<1>1. Init => Calendar /\ Markers
  BY CalendarInit, MarkersInit
<1>2. TypeOK /\ TypeOK' /\ (Calendar /\ Markers) /\ [Next]_vars => (Calendar /\ Markers)'
  BY CalendarNext, MarkersNext
<1> QED BY <1>1, <1>2, TypeCorrect, PTL DEF Spec

LEMMA KeptHold == Spec => []Kept
BY KeptInit, KeptNext, TypeCorrect, MarkersHold, PTL DEF Spec

LEMMA PurgesHold == Spec => []Purges
BY PurgesInit, PurgesNext, TypeCorrect, MarkersHold, PTL DEF Spec

\* An accepted turn that nobody purges is in the log and pending, or in the
\* content store with its vector, whatever the drain, the pruning passes and
\* the faults do; only the windows collected in exposed are excepted.
THEOREM AcceptedTurnsAreKept == Spec => []AcceptedIsKept
<1>1. Kept => AcceptedIsKept
  BY DEF Kept
<1> QED BY <1>1, KeptHold, PTL

\* No segment is pruned that holds a turn without a node in the graph.
THEOREM UnprojectedTurnsAreKept == Spec => []KeptUntilProjected
<1>1. Kept => KeptUntilProjected
  BY DEF Kept
<1> QED BY <1>1, KeptHold, PTL

\* A purged turn does not come back for good: the drain that added it again
\* finds the tombstone.
THEOREM PurgedTurnsStayGone == Spec => []PurgedStaysGone
<1>1. Purges => PurgedStaysGone
  BY DEF Purges
<1> QED BY <1>1, PurgesHold, PTL

-----------------------------------------------------------------------------
(***************************************************************************)
(* The handover                                                            *)
(***************************************************************************)

LEMMA WaivedIsExcused == ASSUME TypeOK, NEW r \in Records PROVE r \in Waived <=> Excused(r)
BY DEF Waived, Excused, PurgeBegun, TypeOK

LEMMA WaiversStay == ASSUME TypeOK, TypeOK', [Next]_vars PROVE Waived \subseteq Waived'
<1>1. exposed \subseteq exposed' /\ \A r : Excused(r) => Excused(r)'
  BY ExcusesStay
<1>2. \A r : Excused(r)' <=> (r \in exposed' \/ (r \in Purgeable /\ purge'.pc # "idle"))
  BY DEF Excused, PurgeBegun
<1>3. \A r : Excused(r) <=> (r \in exposed \/ (r \in Purgeable /\ purge.pc # "idle"))
  BY DEF Excused, PurgeBegun
<1> QED BY <1>1, <1>2, <1>3 DEF Waived, PurgeBegun

\* What is not waived is where the contract has it.
LEMMA PhaseIsKnown ==
    ASSUME TypeOK, Kept, NEW r \in Records, r \notin Waived
    PROVE  PhaseOf(r) \in {"new", "owed", "handed"}
BY WaivedIsExcused DEF Kept, AcceptedIsKept, PhaseOf, Excused

\* What has left the log does not come back to it.
LEMMA NotPendingAgain ==
    ASSUME TypeOK, [Next]_vars, NEW r \in written, r \notin exposed', ~Pending(r)
    PROVE  ~Pending(r)'
<1>1. r \in disk' => r \in disk
  BY NewRecords
<1>2. r \in marks => r \in marks' \/ r \notin disk
  BY MarksStay
<1> QED BY <1>1, <1>2 DEF Pending

LEMMA HandoverSteps ==
    ASSUME TypeOK, TypeOK', Kept, Kept', [Next]_vars
    PROVE  Store!HandoverNext
<1>1. Waived \subseteq Waived'
  BY WaiversStay
<1>2. ASSUME NEW r \in Records, r \notin Waived'
      PROVE  \/ PhaseOf(r)' = PhaseOf(r)
             \/ PhaseOf(r) = "new" /\ PhaseOf(r)' = "owed"
             \/ PhaseOf(r) \in {"new", "owed"} /\ PhaseOf(r)' = "handed"
  <2>1. /\ r \notin Waived /\ r \notin exposed'
        /\ PhaseOf(r) \in {"new", "owed", "handed"}
        /\ PhaseOf(r)' \in {"new", "owed", "handed"}
    <3>1. r \notin Waived /\ r \notin exposed'
      BY <1>1, <1>2 DEF Waived
    <3>2. PhaseOf(r) \in {"new", "owed", "handed"}
      BY <3>1, PhaseIsKnown
    <3>3. ~PurgeBegun(r)'
      BY <1>2 DEF Waived, PurgeBegun
    <3>4. r \in written' => Pending(r)' \/ row'[r] = "vector"
      BY <3>1, <3>3 DEF Kept, AcceptedIsKept
    <3> QED BY <3>1, <3>2, <3>4 DEF PhaseOf
  <2>2. r \in written => r \in written'
    BY NewRecords
  <2>3. r \in written /\ ~Pending(r) => ~Pending(r)'
    BY <2>1, NotPendingAgain
  <2> QED BY <2>1, <2>2, <2>3 DEF PhaseOf
<1> QED BY <1>1, <1>2 DEF Store!HandoverNext, Store!Stay, Store!Accept, Store!Hand

LEMMA HandoverBegins == Init => Store!HandoverInit
<1> SUFFICES ASSUME Init PROVE Store!HandoverInit
  OBVIOUS
<1>1. ASSUME NEW r \in Records PROVE PhaseOf(r) = IF r \in Earlier THEN "handed" ELSE "new"
  BY <1>1 DEF Init, PhaseOf, Pending
<1>2. Waived = {}
  BY DEF Init, Waived, PurgeBegun, NoPurge
<1> QED BY <1>1, <1>2 DEF Store!HandoverInit

\* The log, its drain, its pruning passes and the purge implement the abstract
\* handover: no accepted turn is lost, and none that is searchable falls back.
THEOREM HandoverIsKept == Spec => ImplementsHandover
<1>1. TypeOK /\ TypeOK' /\ Kept /\ Kept' /\ [Next]_vars => Store!HandoverNext
  BY HandoverSteps
<1>2. TypeOK /\ TypeOK' /\ Kept /\ Kept' /\ [Next]_vars
      => [Store!HandoverNext]_(Store!handoverVars)
  BY <1>1
<1> QED BY <1>2, HandoverBegins, TypeCorrect, KeptHold, PTL
        DEF Spec, ImplementsHandover, Store!HandoverSpec

\* The contract alone keeps turns: whatever implements it has every accepted
\* turn pending or searchable, its purge and the named windows excepted.
THEOREM HandoverSuffices ==
    ImplementsHandover /\ [](written \subseteq Records) => []AcceptedIsKept
<1> DEFINE Known == \A r \in Records \ Waived : PhaseOf(r) # "lost"
<1>1. Store!HandoverInit => Known
  <2>1. ASSUME Store!HandoverInit, NEW r \in Records
        PROVE  PhaseOf(r) = IF r \in Earlier THEN "handed" ELSE "new"
    <3>1. [q \in Records |-> PhaseOf(q)][r]
          = [q \in Records |-> IF q \in Earlier THEN "handed" ELSE "new"][r]
      BY <2>1 DEF Store!HandoverInit
    <3> QED BY <3>1
  <2> QED BY <2>1
<1>2. Known /\ [Store!HandoverNext]_(Store!handoverVars) => Known'
  <2> SUFFICES ASSUME Known, [Store!HandoverNext]_(Store!handoverVars),
                      NEW r \in Records, r \notin Waived'
               PROVE  PhaseOf(r)' # "lost"
    OBVIOUS
  <2>1. CASE Store!HandoverNext
    <3>1. r \notin Waived
      BY <2>1 DEF Store!HandoverNext
    <3>2. PhaseOf(r) # "lost"
      BY <3>1
    <3> QED BY <2>1, <3>2 DEF Store!HandoverNext, Store!Stay, Store!Accept, Store!Hand
  <2>2. CASE UNCHANGED Store!handoverVars
    <3>1. Waived' = Waived /\ [q \in Records |-> PhaseOf(q)]' = [q \in Records |-> PhaseOf(q)]
      BY <2>2 DEF Store!handoverVars
    <3>2. PhaseOf(r)' = PhaseOf(r)
      BY <3>1
    <3> QED BY <3>1, <3>2
  <2> QED BY <2>1, <2>2
<1>3. written \subseteq Records /\ Known => AcceptedIsKept
  BY DEF AcceptedIsKept, PhaseOf, Waived, PurgeBegun
<1> QED BY <1>1, <1>2, <1>3, PTL DEF ImplementsHandover, Store!HandoverSpec
=============================================================================
