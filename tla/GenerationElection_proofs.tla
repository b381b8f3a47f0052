---------------------- MODULE GenerationElection_proofs ----------------------
(***************************************************************************)
(* What is proved of GenerationElection, for any collections, shadows,     *)
(* generations and number of elections: its typing, that a canonical name  *)
(* serves what the record declares, that an outage can be ended, and that  *)
(* the generation to fall back on is kept.                                 *)
(***************************************************************************)
EXTENDS GenerationElection, TLAPS

USE DEF vars

(***************************************************************************)
(* The invariant speaks of one collection at a time.                       *)
(***************************************************************************)

Between == {"aside", "cleared"}

\* The names of k: one collection is served, parking names are of shadows of k.
NamesOK(k) ==
    /\ \A c, d \in Colls : Serves(k, c) /\ Serves(k, d) => c = d
    /\ \A c \in Colls : Of(c) = k /\ place[c] \in Shadows => KeyOf[place[c]] = k
    /\ k \in KbKeys /\ marker[k] # None => KeyOf[marker[k]] = k

\* What swap j of k holds in its hands.
HandsOK(k, j) ==
    /\ j.pc # "idle" =>
          /\ j.kind # "none" /\ j.in \in Colls /\ Of(j.in) = k
          /\ j.kind # "unpark" => j.in \in Shadows
          /\ j.out # None => Of(j.out) = k
          /\ j.kind = "resume" => j.pc \in {"cleared", "landed"} /\ j.out = None
          /\ j.kind = "kb" => j.out # None
    /\ j.pc = "built" => j.kind \in {"kb", "promote"}
    /\ j.pc \in {"admitted", "aside", "cleared"} /\ j.kind = "promote" => j.out # None

\* Its view is not ahead of the record, and belongs to its epoch.
ViewOK(j) ==
    j.pc # "idle" =>
        j.epoch <= rec.epoch /\ (j.epoch = rec.epoch => j.gen = rec.elected)

\* Where the two collections of swap j of k are at each step.
PlacesOK(k, j) ==
    /\ j.pc \in {"built", "admitted", "aside", "cleared"} =>
          IF j.kind = "unpark" THEN Parked(j.in) ELSE place[j.in] = "shadow"
    /\ j.pc \in {"built", "admitted"} /\ j.out # None => Serves(k, j.out)
    /\ j.pc = "admitted" /\ j.out = None => ~ Served(k)
    /\ j.pc = "admitted" /\ j.kind = "promote" =>
          \A c \in Colls : Of(c) = k => place[c] # j.in
    /\ j.pc \in Between =>
          /\ ~ Served(k)
          /\ j.out # None =>
                /\ place[j.out] = IF j.kind = "unpark" THEN "abandoned" ELSE j.in
                /\ \A i \in interrupted : Of(i) # k
          /\ j.kind \in {"kb", "promote"} =>
                \A c \in Colls : Of(c) = k /\ place[c] = j.in => c = j.out
          /\ j.kind = "resume" => j.in \in interrupted
    /\ j.pc = "landed" => Serves(k, j.in)

\* An interruption leaves the name unserved and a parked collection behind, and
\* nothing else leaves it unserved.
OutageOK(k) ==
    /\ \A i \in interrupted : Of(i) = k =>
          /\ ~ Served(k)
          /\ \E c \in Colls : Of(c) = k /\ IF i \in Keys THEN Parked(c) ELSE place[c] = i
    /\ ~ Served(k) /\ job[k].pc \notin Between => \E i \in interrupted : Of(i) = k

\* What is served, what may land, and what may be restored is declared.
DeclaredOK(k, j) ==
    k \notin unproven =>
        /\ \A c \in Colls : Serves(k, c) => DeclaredAs(gen[c], k)
        /\ j.pc \in {"admitted", "aside", "cleared"} => DeclaredAs(j.gen, k)
        /\ j.pc = "landed" => gen[j.in] = j.gen
        /\ j.pc \in Between /\ j.out # None => DeclaredAs(gen[j.out], k)
        /\ \A i \in interrupted \cap Shadows, c \in Colls :
              Of(i) = k /\ Of(c) = k /\ place[c] = i => DeclaredAs(gen[c], k)

KeyInv(k) ==
    /\ NamesOK(k) /\ HandsOK(k, job[k]) /\ ViewOK(job[k]) /\ PlacesOK(k, job[k])
    /\ OutageOK(k) /\ DeclaredOK(k, job[k])

\* There is no epoch before the baseline; a candidate is named and has no
\* promotes yet; a commit names what it replaces.
RecOK ==
    /\ rec.status = "missing" => rec.epoch = 0
    /\ rec.status = "candidate" => rec.candidate # None /\ rec.promoted = {}
    /\ rec.status = "committed" => rec.parked # None

IInv == TypeOK /\ RecOK /\ \A k \in Keys : KeyInv(k)

-----------------------------------------------------------------------------
(***************************************************************************)
(* Typing                                                                  *)
(***************************************************************************)

LEMMA OfType ==
    /\ \A c \in Colls : Of(c) \in Keys
    /\ \A k \in Keys : k \in Colls /\ Of(k) = k
    /\ \A s \in Shadows : s \in Colls /\ s \notin Keys /\ Of(s) = KeyOf[s] /\ KeyOf[s] \in Keys
    /\ None \notin Colls
BY ElectionAssumption DEF Colls, Of

LEMMA RecordTypes ==
    TypeOK /\ RecOK /\ RecordStep => TypeOK' /\ RecOK'
<1> SUFFICES ASSUME TypeOK, RecOK, RecordStep PROVE TypeOK' /\ RecOK'
    OBVIOUS
<1> USE ElectionAssumption, OfType DEF RecOK
<1>1. /\ UNCHANGED <<gen, place, job, marker, interrupted, unproven>>
      /\ rec' \in Record /\ RecOK'
  <2> USE DEF TypeOK, Record, Statuses
  <2>1. CASE DeclareBaseline
    BY <2>1 DEF DeclareBaseline
  <2>2. CASE Commit
    <3>1. PICK w \in {"before", "open"} :
            rec' = [rec EXCEPT !.status = "committed", !.epoch = @ + 1, !.parked = rec.elected,
                               !.elected = rec.candidate, !.candidate = None, !.quiesce = w]
      BY <2>2 DEF Commit
    <3>2. rec.candidate \in Generations /\ rec.elected # None
      BY <2>2 DEF Commit
    <3>4. rec' = [status |-> "committed", epoch |-> rec.epoch + 1, elected |-> rec.candidate,
                  candidate |-> None, parked |-> rec.elected, rolledBack |-> rec.rolledBack,
                  quiesce |-> w, receipts |-> rec.receipts, promoted |-> rec.promoted,
                  unparked |-> rec.unparked]
      BY <3>1
    <3>3. rec' \in Record
      BY <3>2, <3>4
    <3> QED
      BY <2>2, <3>1, <3>2, <3>3 DEF Commit
  <2>3. CASE Rollback
    <3>1. PICK w \in {"before", "open"} :
            rec' = [rec EXCEPT !.status = "rolled-back", !.epoch = @ + 1,
                               !.rolledBack = rec.elected, !.elected = rec.parked,
                               !.parked = None, !.quiesce = w,
                               !.promoted = {}, !.unparked = {}]
      BY <2>3 DEF Rollback
    <3>2. rec.parked \in Generations
      BY <2>3 DEF Rollback
    <3>4. rec' = [status |-> "rolled-back", epoch |-> rec.epoch + 1, elected |-> rec.parked,
                  candidate |-> rec.candidate, parked |-> None, rolledBack |-> rec.elected,
                  quiesce |-> w, receipts |-> rec.receipts, promoted |-> {}, unparked |-> {}]
      BY <3>1
    <3>3. rec' \in Record
      BY <3>2, <3>4
    <3> QED
      BY <2>3, <3>1, <3>3 DEF Rollback
  <2>4. CASE Accept
    BY <2>4 DEF Accept
  <2>5. CASE WindowPasses
    BY <2>5 DEF WindowPasses
  <2>6. CASE RenewQuiesce
    BY <2>6 DEF RenewQuiesce
  <2>7. ASSUME NEW g \in Generations, DeclareCandidate(g)
        PROVE  /\ UNCHANGED <<gen, place, job, marker, interrupted, unproven>>
               /\ rec' \in Record /\ RecOK'
    BY <2>7 DEF DeclareCandidate
  <2>8. ASSUME NEW s \in Shadows, RecordReceipt(s)
        PROVE  /\ UNCHANGED <<gen, place, job, marker, interrupted, unproven>>
               /\ rec' \in Record /\ RecOK'
    BY <2>8 DEF RecordReceipt
  <2> QED
    BY <2>1, <2>2, <2>3, <2>4, <2>5, <2>6, <2>7, <2>8 DEF RecordStep
<1> QED
  BY <1>1 DEF TypeOK

LEMMA ViewType ==
    ASSUME TypeOK, NEW k \in Keys, NEW kind \in {"kb", "promote", "unpark", "resume"},
           NEW i \in Colls, NEW o \in Colls \cup {None},
           NEW pc \in {"built", "admitted", "cleared"}
    PROVE  View(k, kind, i, o, pc) \in Job
BY DEF View, Job, TypeOK, Record

LEMMA ShadowTypes ==
    ASSUME IInv, NEW s \in Shadows, ShadowStep(s) PROVE TypeOK' /\ RecOK'
<1> USE OfType
<1>1. KeyOf[s] \in Keys /\ s \in Colls
  OBVIOUS
<1>2. UNCHANGED rec
  BY DEF ShadowStep, BuildCandidate, StartPromote, StartKbBuild, LoseShadow,
     ReconcileResume, ReconcilePrior
<1>3. RecOK'
  BY <1>2 DEF RecOK, IInv
<1>4. CASE BuildCandidate(s)
  <2>1. gen' \in [Colls -> Generations]
    BY <1>4, ElectionAssumption DEF IInv, TypeOK, BuildCandidate, RecOK, Record
  <2> QED
    BY <1>3, <1>4, <2>1 DEF IInv, TypeOK, BuildCandidate, Places
<1>5. CASE StartPromote(s)
  <2>1. gen' \in [Colls -> Generations]
    BY <1>5 DEF IInv, TypeOK, StartPromote, Record
  <2>2. View(KeyOf[s], "promote", s, None, "built") \in Job
    BY ViewType DEF IInv
  <2> QED
    BY <1>3, <1>5, <2>1, <2>2 DEF IInv, TypeOK, StartPromote, Places
<1>6. CASE StartKbBuild(s)
  <2>1. gen' \in [Colls -> Generations]
    BY <1>6 DEF IInv, TypeOK, StartKbBuild, Record
  <2>2. \A c \in Colls : View(KeyOf[s], "kb", s, c, "built") \in Job
    BY ViewType DEF IInv
  <2> QED
    BY <1>3, <1>6, <2>1, <2>2 DEF IInv, TypeOK, StartKbBuild, Places
<1>7. CASE LoseShadow(s)
  BY <1>3, <1>7 DEF IInv, TypeOK, LoseShadow, Places
<1>8. CASE ReconcileResume(s)
  <2>1. View(KeyOf[s], "resume", s, None, "cleared") \in Job
    BY ViewType DEF IInv
  <2> QED
    BY <1>3, <1>8, <2>1 DEF IInv, TypeOK, ReconcileResume
<1>9. CASE ReconcilePrior(s)
  BY <1>3, <1>9 DEF IInv, TypeOK, ReconcilePrior, Places, Settled
<1> QED
  BY <1>4, <1>5, <1>6, <1>7, <1>8, <1>9 DEF ShadowStep

LEMMA SwapTypes ==
    ASSUME IInv, NEW k \in Keys, SwapStep(k) PROVE TypeOK' /\ RecOK'
<1> USE OfType
<1>1. job[k] \in Job /\ Idle \in Job
  BY ElectionAssumption DEF IInv, TypeOK, Job, Idle, Statuses
<1>2. HandsOK(k, job[k])
  BY DEF IInv, KeyInv
<1>3. ASSUME UNCHANGED rec PROVE RecOK'
  BY <1>3 DEF RecOK, IInv
<1>4. CASE Admit(k)
  <2> DEFINE j == job[k]
  <2>0. rec.status \in Statuses
    BY DEF IInv, TypeOK, Record
  <2>2. \A c \in Colls : [j EXCEPT !.pc = "admitted", !.out = c, !.status = rec.status] \in Job
    BY <1>1, <2>0 DEF Job
  <2>3. [j EXCEPT !.pc = "admitted", !.status = rec.status] \in Job
    BY <1>1, <2>0 DEF Job
  <2>4. job \in [Keys -> Job]
    BY DEF IInv, TypeOK
  <2>1. job' \in [Keys -> Job]
    <3>1. \/ \E c \in Colls : job' = [job EXCEPT ![k] = [j EXCEPT !.pc = "admitted", !.out = c,
                                                                  !.status = rec.status]]
          \/ job' = [job EXCEPT ![k] = [j EXCEPT !.pc = "admitted", !.status = rec.status]]
      BY <1>4 DEF Admit
    <3>2. \E v \in Job : job' = [job EXCEPT ![k] = v]
      <4> HIDE DEF j
      <4> QED
        BY <2>2, <2>3, <3>1
    <3> QED
      BY <2>4, <3>2
  <2> QED
    BY <1>3, <1>4, <2>1 DEF Admit, IInv, TypeOK
<1>5. CASE GiveUp(k)
  BY <1>1, <1>3, <1>5 DEF GiveUp, IInv, TypeOK
<1>6. CASE MoveAside(k)
  <2>1. place' \in [Colls -> Places]
    BY <1>1, <1>2, <1>6 DEF MoveAside, IInv, TypeOK, Places, HandsOK, Job
  <2>2. job' \in [Keys -> Job]
    BY <1>1, <1>6 DEF MoveAside, IInv, TypeOK, Job
  <2> QED
    BY <1>3, <1>6, <2>1, <2>2 DEF MoveAside, IInv, TypeOK
<1>7. CASE FenceAgain(k)
  BY <1>1, <1>3, <1>7 DEF FenceAgain, IInv, TypeOK, Job
<1>8. CASE MoveIn(k)
  <2>1. job' \in [Keys -> Job]
    BY <1>1, <1>8 DEF MoveIn, IInv, TypeOK, Job
  <2> QED
    BY <1>3, <1>8, <2>1 DEF MoveIn, IInv, TypeOK, Places, Settled
<1>9. CASE Restore(k)
  BY <1>1, <1>3, <1>9 DEF Restore, IInv, TypeOK, Places
<1>10. CASE Interrupt(k)
  <2>1. interrupted' \subseteq Colls
    BY <1>1, <1>2, <1>10 DEF Interrupt, IInv, TypeOK, HandsOK
  <2> QED
    BY <1>1, <1>3, <1>10, <2>1 DEF Interrupt, IInv, TypeOK
<1>11. CASE Complete(k)
  <2>1. rec' \in Record /\ RecOK'
    BY <1>11 DEF Complete, RecordCompletion, IInv, TypeOK, Record, RecOK
  <2>2. marker' \in [KbKeys -> Shadows \cup {None}]
    BY <1>11 DEF Complete, IInv, TypeOK
  <2> QED
    BY <1>1, <1>11, <2>1, <2>2 DEF Complete, IInv, TypeOK
<1>12. CASE RecordNothingToUnpark(k)
  <2>1. rec' \in Record /\ RecOK'
    BY <1>12 DEF RecordNothingToUnpark, IInv, TypeOK, Record, RecOK
  <2> QED
    BY <1>12, <2>1 DEF RecordNothingToUnpark, IInv, TypeOK
<1>13. ASSUME NEW c \in Colls, AdmitUnpark(k, c) PROVE TypeOK' /\ RecOK'
  <2>1. \A o \in Colls \cup {None} : View(k, "unpark", c, o, "admitted") \in Job
    BY ViewType DEF IInv
  <2> QED
    BY <1>3, <1>13, <2>1 DEF AdmitUnpark, IInv, TypeOK
<1>14. CASE k \in KbKeys /\ ResumeKbBuild(k)
  <2>1. marker[k] \in Colls
    BY <1>14 DEF ResumeKbBuild, IInv, TypeOK
  <2>2. \A o \in Colls : View(k, "kb", marker[k], o, "built") \in Job
    BY <2>1, ViewType DEF IInv
  <2> QED
    BY <1>3, <1>14, <2>2 DEF ResumeKbBuild, IInv, TypeOK
<1>15. CASE k \in KbKeys /\ DiscardKbShadow(k)
  BY <1>3, <1>15 DEF DiscardKbShadow, IInv, TypeOK, Places
<1> QED
  BY <1>4, <1>5, <1>6, <1>7, <1>8, <1>9, <1>10, <1>11, <1>12, <1>13, <1>14, <1>15
  DEF SwapStep

-----------------------------------------------------------------------------
(***************************************************************************)
(* What leaves k alone keeps the invariant of k                            *)
(***************************************************************************)

\* A step changes nothing that belongs to k.
LocalFrame(k) ==
    /\ \A c \in Colls : Of(c) = k =>
          /\ place'[c] = place[c] /\ gen'[c] = gen[c]
          /\ c \in interrupted' <=> c \in interrupted
    /\ job'[k] = job[k]
    /\ k \in unproven' <=> k \in unproven
    /\ k \in KbKeys => marker'[k] = marker[k]

\* A step of the record takes back no declaration about k, and another
\* generation is elected in another epoch only.
RecFrame(k) ==
    /\ \A g \in Generations : DeclaredAs(g, k) => DeclaredAs(g, k)'
    /\ rec.epoch <= rec'.epoch
    /\ rec'.epoch = rec.epoch => rec'.elected = rec.elected

LEMMA FrameKeeps ==
    ASSUME TypeOK, NEW k \in Keys, KeyInv(k), LocalFrame(k), RecFrame(k), TypeOK'
    PROVE  KeyInv(k)'
<1> DEFINE j == job[k]
<1> USE OfType DEF LocalFrame
<1>1. j \in Job /\ j' = j
  BY DEF TypeOK
<1>2. \A c \in Colls : (Serves(k, c))' <=> Serves(k, c)
  BY DEF Serves
<1>3. Served(k)' <=> Served(k)
  BY <1>2 DEF Served
<1>4. \A c \in Colls : Of(c) = k => (Parked(c)' <=> Parked(c))
  BY DEF Parked
<1>5. \A c \in Colls : Of(c) = k => gen[c] \in Generations /\ gen'[c] = gen[c]
  BY DEF TypeOK
<1>6. NamesOK(k)'
  BY <1>2 DEF NamesOK, KeyInv
<1>7. HandsOK(k, j)'
  BY <1>1 DEF HandsOK, KeyInv
<1>8. ViewOK(j)'
  <2>1. rec.epoch \in Nat /\ rec'.epoch \in Nat /\ j.epoch \in Nat
    BY <1>1 DEF TypeOK, Record, Job
  <2>2. ViewOK(j)
    BY DEF KeyInv
  <2> HIDE DEF j
  <2> QED
    BY <1>1, <2>1, <2>2 DEF ViewOK, RecFrame
<1>9. PlacesOK(k, j)'
  <2>1. j.pc # "idle" => j.in \in Colls /\ Of(j.in) = k
    BY DEF KeyInv, HandsOK
  <2>2. j.pc # "idle" /\ j.out # None => j.out \in Colls /\ Of(j.out) = k
    BY <1>1 DEF KeyInv, HandsOK, Job
  <2>3. PlacesOK(k, j)
    BY DEF KeyInv
  <2>4. interrupted \subseteq Colls /\ interrupted' \subseteq Colls
    BY DEF TypeOK
  <2> HIDE DEF j
  <2> QED
    BY <1>1, <1>2, <1>3, <1>4, <2>1, <2>2, <2>3, <2>4 DEF PlacesOK, Between
<1>10. OutageOK(k)'
  <2>1. interrupted \subseteq Colls /\ interrupted' \subseteq Colls
    BY DEF TypeOK
  <2>2. OutageOK(k)
    BY DEF KeyInv
  <2> QED
    BY <1>1, <1>3, <1>4, <2>1, <2>2 DEF OutageOK, Between
<1>11. DeclaredOK(k, j)'
  <2>1. j.pc # "idle" => j.in \in Colls /\ Of(j.in) = k
    BY DEF KeyInv, HandsOK
  <2>2. j.pc # "idle" /\ j.out # None => j.out \in Colls /\ Of(j.out) = k
    BY <1>1 DEF KeyInv, HandsOK, Job
  <2>3. j.gen \in Generations
    BY <1>1 DEF Job
  <2>4. interrupted \subseteq Colls /\ interrupted' \subseteq Colls
    BY DEF TypeOK
  <2>5. DeclaredOK(k, j)
    BY DEF KeyInv
  <2>6. \A g \in Generations : DeclaredAs(g, k) => DeclaredAs(g, k)'
    BY DEF RecFrame
  <2> HIDE DEF j
  <2> QED
    BY <1>1, <1>2, <1>5, <2>1, <2>2, <2>3, <2>4, <2>5, <2>6 DEF DeclaredOK, Between, Serves
<1> QED
  BY <1>6, <1>7, <1>8, <1>9, <1>10, <1>11 DEF KeyInv

LEMMA RecordFrame ==
    ASSUME TypeOK, RecOK, NEW k \in Keys, RecordStep PROVE RecFrame(k)
<1> USE DEF RecFrame, DeclaredAs, TypeOK, Record, RecOK
<1>1. CASE DeclareBaseline
  BY <1>1 DEF DeclareBaseline
<1>2. CASE Commit
  BY <1>2 DEF Commit
<1>3. CASE Rollback
  BY <1>3 DEF Rollback
<1>4. CASE Accept
  BY <1>4 DEF Accept
<1>5. CASE WindowPasses
  BY <1>5 DEF WindowPasses
<1>6. CASE RenewQuiesce
  BY <1>6 DEF RenewQuiesce
<1>7. ASSUME NEW g \in Generations, DeclareCandidate(g) PROVE RecFrame(k)
  BY <1>7 DEF DeclareCandidate
<1>8. ASSUME NEW s \in Shadows, RecordReceipt(s) PROVE RecFrame(k)
  BY <1>8 DEF RecordReceipt
<1> QED
  BY <1>1, <1>2, <1>3, <1>4, <1>5, <1>6, <1>7, <1>8 DEF RecordStep

\* A step that leaves the record alone, or marks another collection.
LEMMA SameRecord ==
    ASSUME TypeOK, NEW k \in Keys, UNCHANGED rec PROVE RecFrame(k)
BY DEF RecFrame, DeclaredAs, TypeOK, Record

-----------------------------------------------------------------------------
(***************************************************************************)
(* Each step of a swap keeps the invariant                                 *)
(***************************************************************************)

\* An outage stays as it is when no name is served or left and no parked one moves.
LEMMA OutageKept ==
    ASSUME TypeOK, NEW k \in Keys, OutageOK(k), UNCHANGED interrupted,
           job[k].pc \notin Between, job'[k].pc \notin Between,
           \A c \in Colls : Of(c) = k =>
               /\ place'[c] = "canonical" <=> place[c] = "canonical"
               /\ Parked(c) => place'[c] = place[c]
    PROVE  OutageOK(k)'
<1>1. Served(k)' <=> Served(k)
  BY DEF Served, Serves
<1>2. \A c \in Colls : Of(c) = k /\ Parked(c) => Parked(c)' /\ place'[c] = place[c]
  BY DEF Parked
<1>3. \A i \in interrupted, c \in Colls : i \notin Keys /\ place[c] = i => Parked(c)
  BY DEF Parked, TypeOK, Colls
<1> QED
  BY <1>1, <1>2, <1>3 DEF OutageOK, Parked

LEMMA BuildCandidateKeeps ==
    ASSUME IInv, TypeOK', NEW s \in Shadows, BuildCandidate(s)
    PROVE  \A q \in Keys : KeyInv(q)'
<1> DEFINE k == KeyOf[s]
<1> USE OfType
<1>1. /\ k \in Keys /\ KeyInv(k) /\ TypeOK /\ RecOK
      /\ job[k] \in Job /\ interrupted \subseteq Colls
  BY ElectionAssumption DEF IInv, TypeOK
<1>2. \A q \in Keys \ {k} : KeyInv(q)'
  <2> SUFFICES ASSUME NEW q \in Keys \ {k} PROVE KeyInv(q)'
      OBVIOUS
  <2>1. LocalFrame(q)
    BY <1>1 DEF LocalFrame, BuildCandidate, TypeOK, KeyInv, HandsOK, NamesOK
  <2>2. RecFrame(q)
    BY <1>1, SameRecord DEF BuildCandidate
  <2> QED
    BY <2>1, <2>2, FrameKeeps DEF IInv
<1>3. NamesOK(k)'
  BY <1>1, ElectionAssumption DEF BuildCandidate, KeyInv, NamesOK, Serves, TypeOK
<1>4. HandsOK(k, job[k])'
  BY <1>1, ElectionAssumption DEF BuildCandidate, KeyInv, HandsOK, TypeOK, Job
<1>5. ViewOK(job[k])'
  BY <1>1, ElectionAssumption DEF BuildCandidate, KeyInv, ViewOK, TypeOK, Record, Job
<1>6. PlacesOK(k, job[k])'
  BY <1>1, ElectionAssumption
  DEF BuildCandidate, KeyInv, PlacesOK, HandsOK, Between, Serves, Served, Parked, TypeOK
<1>7. OutageOK(k)'
  <2>1. CASE job[k].pc \notin Between
    BY <1>1, <2>1, OutageKept, ElectionAssumption DEF BuildCandidate, KeyInv, Parked, TypeOK
  <2>2. CASE job[k].pc \in Between
    <3>1. Served(k)' <=> Served(k)
      BY <1>1, ElectionAssumption DEF BuildCandidate, Served, Serves, TypeOK
    <3>2. \A c \in Colls : c # s => place'[c] = place[c]
      BY DEF BuildCandidate
    <3>3. place[s] = "unbuilt" /\ UNCHANGED <<job, interrupted>> /\ interrupted \subseteq Colls
      BY <1>1 DEF BuildCandidate
    <3> QED
      BY <1>1, <2>2, <3>1, <3>2, <3>3, ElectionAssumption
      DEF KeyInv, OutageOK, Parked, Colls
  <2> QED
    BY <2>1, <2>2
<1>8. DeclaredOK(k, job[k])'
  BY <1>1, ElectionAssumption
  DEF BuildCandidate, KeyInv, DeclaredOK, PlacesOK, HandsOK, Between, Serves, Parked,
      DeclaredAs, TypeOK, Job
<1> QED
  BY <1>2, <1>3, <1>4, <1>5, <1>6, <1>7, <1>8 DEF KeyInv

LEMMA StartPromoteKeeps ==
    ASSUME IInv, TypeOK', NEW s \in Shadows, StartPromote(s)
    PROVE  \A q \in Keys : KeyInv(q)'
<1> DEFINE k == KeyOf[s]
<1> USE OfType
<1>1. /\ k \in Keys /\ KeyInv(k) /\ TypeOK /\ RecOK
      /\ job[k] \in Job /\ interrupted \subseteq Colls
  BY ElectionAssumption DEF IInv, TypeOK
<1>2. \A q \in Keys \ {k} : KeyInv(q)'
  <2> SUFFICES ASSUME NEW q \in Keys \ {k} PROVE KeyInv(q)'
      OBVIOUS
  <2>1. LocalFrame(q)
    BY <1>1 DEF LocalFrame, StartPromote, TypeOK, KeyInv, HandsOK, NamesOK
  <2>2. RecFrame(q)
    BY <1>1, SameRecord DEF StartPromote
  <2> QED
    BY <2>1, <2>2, FrameKeeps DEF IInv
<1>3. NamesOK(k)'
  BY <1>1, ElectionAssumption DEF StartPromote, KeyInv, NamesOK, Serves, TypeOK
<1>4. HandsOK(k, job[k])'
  BY <1>1, ElectionAssumption DEF StartPromote, KeyInv, HandsOK, View, TypeOK, Job
<1>5. ViewOK(job[k])'
  BY <1>1, ElectionAssumption DEF StartPromote, KeyInv, ViewOK, View, TypeOK, Record, Job
<1>6. PlacesOK(k, job[k])'
  BY <1>1, ElectionAssumption
  DEF StartPromote, KeyInv, PlacesOK, HandsOK, Between, Serves, Served, Parked, View, TypeOK
<1>7. OutageOK(k)'
  <2>1. job'[k].pc = "built" /\ job[k].pc = "idle"
    BY <1>1 DEF StartPromote, View, TypeOK
  <2> QED
    BY <1>1, <2>1, OutageKept, ElectionAssumption
    DEF StartPromote, KeyInv, Parked, TypeOK, Between
<1>8. DeclaredOK(k, job[k])'
  BY <1>1, ElectionAssumption
  DEF StartPromote, KeyInv, DeclaredOK, PlacesOK, HandsOK, Between, Serves, Parked, View,
      DeclaredAs, TypeOK, Job
<1> QED
  BY <1>2, <1>3, <1>4, <1>5, <1>6, <1>7, <1>8 DEF KeyInv

LEMMA StartKbBuildKeeps ==
    ASSUME IInv, TypeOK', NEW s \in Shadows, StartKbBuild(s)
    PROVE  \A q \in Keys : KeyInv(q)'
<1> DEFINE k == KeyOf[s]
<1> USE OfType
<1>1. /\ k \in Keys /\ KeyInv(k) /\ TypeOK /\ RecOK
      /\ job[k] \in Job /\ interrupted \subseteq Colls
  BY ElectionAssumption DEF IInv, TypeOK
<1>2. \A q \in Keys \ {k} : KeyInv(q)'
  <2> SUFFICES ASSUME NEW q \in Keys \ {k} PROVE KeyInv(q)'
      OBVIOUS
  <2>1. LocalFrame(q)
    BY <1>1 DEF LocalFrame, StartKbBuild, TypeOK, KeyInv, HandsOK, NamesOK
  <2>2. RecFrame(q)
    BY <1>1, SameRecord DEF StartKbBuild
  <2> QED
    BY <2>1, <2>2, FrameKeeps DEF IInv
<1>3. NamesOK(k)'
  BY <1>1, ElectionAssumption DEF StartKbBuild, KeyInv, NamesOK, Serves, TypeOK
<1>4. HandsOK(k, job[k])'
  <2>1. PICK c \in Colls : /\ Serves(k, c)
                           /\ job' = [job EXCEPT ![k] = View(k, "kb", s, c, "built")]
    BY DEF StartKbBuild
  <2> QED
    BY <1>1, <2>1, ElectionAssumption DEF HandsOK, View, Serves, TypeOK
<1>5. ViewOK(job[k])'
  BY <1>1, ElectionAssumption DEF StartKbBuild, KeyInv, ViewOK, View, TypeOK, Record, Job
<1>6. PlacesOK(k, job[k])'
  BY <1>1, ElectionAssumption
  DEF StartKbBuild, KeyInv, PlacesOK, HandsOK, Between, Serves, Served, Parked, View, TypeOK
<1>7. OutageOK(k)'
  BY <1>1, ElectionAssumption
  DEF StartKbBuild, KeyInv, OutageOK, PlacesOK, HandsOK, Between, Serves, Served, Parked,
      View, TypeOK
<1>8. DeclaredOK(k, job[k])'
  BY <1>1, ElectionAssumption
  DEF StartKbBuild, KeyInv, DeclaredOK, PlacesOK, HandsOK, Between, Serves, Parked, View,
      DeclaredAs, TypeOK, Job
<1> QED
  BY <1>2, <1>3, <1>4, <1>5, <1>6, <1>7, <1>8 DEF KeyInv

LEMMA LoseShadowKeeps ==
    ASSUME IInv, TypeOK', NEW s \in Shadows, LoseShadow(s) PROVE \A q \in Keys : KeyInv(q)'
<1> DEFINE k == KeyOf[s]
<1> USE OfType
<1>1. /\ k \in Keys /\ KeyInv(k) /\ TypeOK /\ RecOK
      /\ job[k] \in Job /\ interrupted \subseteq Colls
  BY ElectionAssumption DEF IInv, TypeOK
<1>2. \A q \in Keys \ {k} : KeyInv(q)'
  <2> SUFFICES ASSUME NEW q \in Keys \ {k} PROVE KeyInv(q)'
      OBVIOUS
  <2>1. LocalFrame(q)
    BY <1>1 DEF LocalFrame, LoseShadow, TypeOK, KeyInv, HandsOK, NamesOK
  <2>2. RecFrame(q)
    BY <1>1, SameRecord DEF LoseShadow
  <2> QED
    BY <2>1, <2>2, FrameKeeps DEF IInv
<1>3. NamesOK(k)'
  BY <1>1, ElectionAssumption DEF LoseShadow, KeyInv, NamesOK, Serves, TypeOK
<1>4. HandsOK(k, job[k])'
  BY <1>1, ElectionAssumption DEF LoseShadow, KeyInv, HandsOK, TypeOK, Job
<1>5. ViewOK(job[k])'
  BY <1>1, ElectionAssumption DEF LoseShadow, KeyInv, ViewOK, TypeOK, Record, Job
<1>6. PlacesOK(k, job[k])'
  BY <1>1, ElectionAssumption
  DEF LoseShadow, KeyInv, PlacesOK, HandsOK, Between, Serves, Served, Parked, TypeOK
<1>7. OutageOK(k)'
  BY <1>1, OutageKept, ElectionAssumption DEF LoseShadow, KeyInv, Parked, TypeOK, Between
<1>8. DeclaredOK(k, job[k])'
  BY <1>1, ElectionAssumption
  DEF LoseShadow, KeyInv, DeclaredOK, PlacesOK, HandsOK, Between, Serves, Parked,
      DeclaredAs, TypeOK, Job
<1> QED
  BY <1>2, <1>3, <1>4, <1>5, <1>6, <1>7, <1>8 DEF KeyInv

LEMMA ReconcileResumeKeeps ==
    ASSUME IInv, TypeOK', NEW s \in Shadows, ReconcileResume(s)
    PROVE  \A q \in Keys : KeyInv(q)'
<1> DEFINE k == KeyOf[s]
<1> USE OfType
<1>1. /\ k \in Keys /\ KeyInv(k) /\ TypeOK /\ RecOK
      /\ job[k] \in Job /\ interrupted \subseteq Colls
  BY ElectionAssumption DEF IInv, TypeOK
<1>2. \A q \in Keys \ {k} : KeyInv(q)'
  <2> SUFFICES ASSUME NEW q \in Keys \ {k} PROVE KeyInv(q)'
      OBVIOUS
  <2>1. LocalFrame(q)
    BY <1>1 DEF LocalFrame, ReconcileResume, TypeOK, KeyInv, HandsOK, NamesOK
  <2>2. RecFrame(q)
    BY <1>1, SameRecord DEF ReconcileResume
  <2> QED
    BY <2>1, <2>2, FrameKeeps DEF IInv
<1>3. NamesOK(k)'
  BY <1>1, ElectionAssumption DEF ReconcileResume, KeyInv, NamesOK, Serves, TypeOK
<1>4. HandsOK(k, job[k])'
  BY <1>1, ElectionAssumption DEF ReconcileResume, KeyInv, HandsOK, View, TypeOK, Job
<1>5. ViewOK(job[k])'
  BY <1>1, ElectionAssumption DEF ReconcileResume, KeyInv, ViewOK, View, TypeOK, Record, Job
<1>6. PlacesOK(k, job[k])'
  BY <1>1, ElectionAssumption
  DEF ReconcileResume, KeyInv, PlacesOK, HandsOK, Between, Serves, Served, Parked, View,
      TypeOK
<1>7. OutageOK(k)'
  BY <1>1, ElectionAssumption
  DEF ReconcileResume, KeyInv, OutageOK, PlacesOK, HandsOK, Between, Serves, Served,
      Parked, View, TypeOK
<1>8. DeclaredOK(k, job[k])'
  BY <1>1, ElectionAssumption
  DEF ReconcileResume, KeyInv, DeclaredOK, PlacesOK, HandsOK, Between, Serves, Parked,
      View, DeclaredAs, TypeOK, Job
<1> QED
  BY <1>2, <1>3, <1>4, <1>5, <1>6, <1>7, <1>8 DEF KeyInv

LEMMA ReconcilePriorKeeps ==
    ASSUME IInv, TypeOK', NEW s \in Shadows, ReconcilePrior(s)
    PROVE  \A q \in Keys : KeyInv(q)'
<1> DEFINE k == KeyOf[s]
<1> USE OfType
<1>1. /\ k \in Keys /\ KeyInv(k) /\ TypeOK /\ RecOK
      /\ job[k] \in Job /\ interrupted \subseteq Colls
  BY ElectionAssumption DEF IInv, TypeOK
<1>2. PICK c \in Colls : place[c] = s /\ place' = [place EXCEPT ![c] = "canonical"]
  BY DEF ReconcilePrior
<1>3. Of(c) = k
  BY <1>2 DEF IInv, KeyInv, NamesOK
<1>4. /\ ~ Served(k) /\ job[k].pc = "idle" /\ interrupted' = Settled(k)
      /\ UNCHANGED <<rec, gen, job, marker, unproven>>
  BY DEF ReconcilePrior
<1>5. \A d \in Colls : Serves(k, d)' <=> d = c
  BY <1>1, <1>2, <1>3, <1>4 DEF Served, Serves, TypeOK
<1>6. \A q \in Keys \ {k} : KeyInv(q)'
  <2> SUFFICES ASSUME NEW q \in Keys \ {k} PROVE KeyInv(q)'
      OBVIOUS
  <2>1. LocalFrame(q)
    BY <1>1, <1>2, <1>3, <1>4 DEF LocalFrame, Settled, TypeOK
  <2>2. RecFrame(q)
    BY <1>1, SameRecord DEF ReconcilePrior, Settled
  <2> QED
    BY <2>1, <2>2, FrameKeeps DEF IInv
<1>7. NamesOK(k)'
  BY <1>1, <1>2, <1>4, <1>5, ElectionAssumption DEF KeyInv, NamesOK, TypeOK
<1>8. HandsOK(k, job[k])'
  BY <1>1, ElectionAssumption DEF ReconcilePrior, Settled, KeyInv, HandsOK, TypeOK, Job
<1>9. ViewOK(job[k])'
  BY <1>1, ElectionAssumption
  DEF ReconcilePrior, Settled, KeyInv, ViewOK, TypeOK, Record, Job
<1>10. PlacesOK(k, job[k])'
  BY <1>1, ElectionAssumption
  DEF ReconcilePrior, Settled, KeyInv, PlacesOK, HandsOK, Between, Serves, Served, Parked,
      TypeOK
<1>11. OutageOK(k)'
  BY <1>1, <1>4, <1>5 DEF OutageOK, Served, Settled
<1>12. DeclaredOK(k, job[k])'
  BY <1>1, ElectionAssumption
  DEF ReconcilePrior, Settled, KeyInv, DeclaredOK, PlacesOK, HandsOK, Between, Serves,
      Parked, DeclaredAs, TypeOK, Job
<1> QED
  BY <1>6, <1>7, <1>8, <1>9, <1>10, <1>11, <1>12 DEF KeyInv

LEMMA ResumeKbBuildKeeps ==
    ASSUME IInv, TypeOK', NEW k \in KbKeys, ResumeKbBuild(k)
    PROVE  \A q \in Keys : KeyInv(q)'
<1> USE OfType
<1>1. /\ k \in Keys /\ KeyInv(k) /\ TypeOK /\ RecOK
      /\ job[k] \in Job /\ interrupted \subseteq Colls
  BY ElectionAssumption DEF IInv, TypeOK
<1>2. \A q \in Keys \ {k} : KeyInv(q)'
  <2> SUFFICES ASSUME NEW q \in Keys \ {k} PROVE KeyInv(q)'
      OBVIOUS
  <2>1. LocalFrame(q)
    BY <1>1 DEF LocalFrame, ResumeKbBuild, TypeOK, KeyInv, HandsOK, NamesOK
  <2>2. RecFrame(q)
    BY <1>1, SameRecord DEF ResumeKbBuild
  <2> QED
    BY <2>1, <2>2, FrameKeeps DEF IInv
<1>3. NamesOK(k)'
  BY <1>1, ElectionAssumption DEF ResumeKbBuild, KeyInv, NamesOK, Serves, TypeOK
<1>4. HandsOK(k, job[k])'
  <2>1. PICK c \in Colls : /\ Serves(k, c)
                           /\ job' = [job EXCEPT ![k] = View(k, "kb", marker[k], c, "built")]
    BY DEF ResumeKbBuild
  <2>2. marker[k] \in Shadows /\ Of(marker[k]) = k
    BY <1>1 DEF ResumeKbBuild, KeyInv, NamesOK, TypeOK
  <2> QED
    BY <1>1, <2>1, <2>2, ElectionAssumption DEF HandsOK, View, Serves, TypeOK
<1>5. ViewOK(job[k])'
  BY <1>1, ElectionAssumption DEF ResumeKbBuild, KeyInv, ViewOK, View, TypeOK, Record, Job
<1>6. PlacesOK(k, job[k])'
  BY <1>1, ElectionAssumption
  DEF ResumeKbBuild, KeyInv, PlacesOK, HandsOK, Between, Serves, Served, Parked, View,
      TypeOK
<1>7. OutageOK(k)'
  BY <1>1, ElectionAssumption
  DEF ResumeKbBuild, KeyInv, OutageOK, PlacesOK, HandsOK, Between, Serves, Served, Parked,
      View, TypeOK
<1>8. DeclaredOK(k, job[k])'
  BY <1>1, ElectionAssumption
  DEF ResumeKbBuild, KeyInv, DeclaredOK, PlacesOK, HandsOK, Between, Serves, Parked, View,
      DeclaredAs, TypeOK, Job
<1> QED
  BY <1>2, <1>3, <1>4, <1>5, <1>6, <1>7, <1>8 DEF KeyInv

LEMMA DiscardKbShadowKeeps ==
    ASSUME IInv, TypeOK', NEW k \in KbKeys, DiscardKbShadow(k)
    PROVE  \A q \in Keys : KeyInv(q)'
<1> USE OfType
<1>1. /\ k \in Keys /\ KeyInv(k) /\ TypeOK /\ RecOK
      /\ job[k] \in Job /\ interrupted \subseteq Colls
  BY ElectionAssumption DEF IInv, TypeOK
<1>2. \A q \in Keys \ {k} : KeyInv(q)'
  <2> SUFFICES ASSUME NEW q \in Keys \ {k} PROVE KeyInv(q)'
      OBVIOUS
  <2>1. LocalFrame(q)
    BY <1>1 DEF LocalFrame, DiscardKbShadow, TypeOK, KeyInv, HandsOK, NamesOK
  <2>2. RecFrame(q)
    BY <1>1, SameRecord DEF DiscardKbShadow
  <2> QED
    BY <2>1, <2>2, FrameKeeps DEF IInv
<1>3. NamesOK(k)'
  BY <1>1, ElectionAssumption DEF DiscardKbShadow, KeyInv, NamesOK, Serves, TypeOK
<1>4. HandsOK(k, job[k])'
  BY <1>1, ElectionAssumption DEF DiscardKbShadow, KeyInv, HandsOK, TypeOK, Job
<1>5. ViewOK(job[k])'
  BY <1>1, ElectionAssumption DEF DiscardKbShadow, KeyInv, ViewOK, TypeOK, Record, Job
<1>6. PlacesOK(k, job[k])'
  BY <1>1, ElectionAssumption
  DEF DiscardKbShadow, KeyInv, PlacesOK, HandsOK, Between, Serves, Served, Parked, TypeOK
<1>7. OutageOK(k)'
  BY <1>1, ElectionAssumption
  DEF DiscardKbShadow, KeyInv, OutageOK, PlacesOK, HandsOK, Between, Serves, Served,
      Parked, TypeOK
<1>8. DeclaredOK(k, job[k])'
  BY <1>1, ElectionAssumption
  DEF DiscardKbShadow, KeyInv, DeclaredOK, PlacesOK, HandsOK, Between, Serves, Parked,
      DeclaredAs, TypeOK, Job
<1> QED
  BY <1>2, <1>3, <1>4, <1>5, <1>6, <1>7, <1>8 DEF KeyInv

LEMMA AdmitKeeps ==
    ASSUME IInv, TypeOK', NEW k \in Keys, Admit(k) PROVE \A q \in Keys : KeyInv(q)'
<1> USE OfType
<1>1. /\ k \in Keys /\ KeyInv(k) /\ TypeOK /\ RecOK
      /\ job[k] \in Job /\ interrupted \subseteq Colls
  BY ElectionAssumption DEF IInv, TypeOK
<1>2. \A q \in Keys \ {k} : KeyInv(q)'
  <2> SUFFICES ASSUME NEW q \in Keys \ {k} PROVE KeyInv(q)'
      OBVIOUS
  <2>1. LocalFrame(q)
    BY ZenonT(40), <1>1 DEF LocalFrame, Admit, TypeOK, KeyInv, HandsOK, NamesOK
  <2>2. RecFrame(q)
    BY <1>1, SameRecord DEF Admit
  <2> QED
    BY <2>1, <2>2, FrameKeeps DEF IInv
<1>3. /\ job[k].pc = "built" /\ job[k].kind \in {"kb", "promote"}
      /\ job'[k].pc = "admitted" /\ job'[k].kind = job[k].kind /\ job'[k].in = job[k].in
      /\ job'[k].epoch = job[k].epoch /\ job'[k].gen = job[k].gen
      /\ job'[k].out \in Colls /\ Serves(k, job'[k].out)
      /\ job[k].gen = rec.elected
      /\ job[k].kind = "promote" => \A c \in Colls : place[c] # job[k].in
  <2>1. job[k].pc = "built" /\ job[k].gen = rec.elected /\ job \in [Keys -> Job]
    BY <1>1 DEF Admit, Admissible, TypeOK
  <2>2. CASE job[k].kind = "promote"
    <3>1. PICK c \in Colls : /\ Serves(k, c)
                             /\ job' = [job EXCEPT ![k] =
                                    [job[k] EXCEPT !.pc = "admitted", !.out = c,
                                                   !.status = rec.status]]
      BY <2>2 DEF Admit
    <3>2. job'[k] = [job[k] EXCEPT !.pc = "admitted", !.out = c, !.status = rec.status]
      BY <1>1, <2>1, <3>1
    <3> QED
      BY ZenonT(40), <1>1, <2>1, <2>2, <3>1, <3>2 DEF Admit, Job
  <2>3. CASE job[k].kind = "kb"
    <3>1. job'[k] = [job[k] EXCEPT !.pc = "admitted", !.status = rec.status]
      BY <1>1, <2>1, <2>3 DEF Admit
    <3>2. job[k].out \in Colls /\ Serves(k, job[k].out)
      BY <1>1, <2>1, <2>3 DEF KeyInv, HandsOK, PlacesOK, Job
    <3> QED
      BY <1>1, <2>1, <2>3, <3>1, <3>2 DEF Job
  <2> QED
    BY <1>1, <2>1, <2>2, <2>3 DEF KeyInv, HandsOK
<1>4. UNCHANGED <<rec, gen, place, marker, interrupted, unproven>>
  BY DEF Admit
<1>5. NamesOK(k)'
  BY <1>1, ElectionAssumption DEF Admit, KeyInv, NamesOK, Serves, TypeOK
<1>6. HandsOK(k, job[k])'
  BY <1>1, <1>3 DEF KeyInv, HandsOK, Serves
<1>7. ViewOK(job[k])'
  BY <1>1, <1>3, <1>4 DEF KeyInv, ViewOK
<1>8. PlacesOK(k, job[k])'
  BY <1>1, <1>3, <1>4, ElectionAssumption
  DEF KeyInv, PlacesOK, HandsOK, Between, Serves, Served, Parked
<1>9. OutageOK(k)'
  BY <1>1, <1>3, <1>4 DEF KeyInv, OutageOK, Between, Served, Serves, Parked
<1>10. DeclaredOK(k, job[k])'
  BY <1>1, <1>3, <1>4 DEF KeyInv, DeclaredOK, DeclaredAs, Between, Serves
<1> QED
  BY <1>2, <1>5, <1>6, <1>7, <1>8, <1>9, <1>10 DEF KeyInv

LEMMA AdmitUnparkKeeps ==
    ASSUME IInv, TypeOK', NEW k \in Keys, NEW c \in Colls, AdmitUnpark(k, c)
    PROVE  \A q \in Keys : KeyInv(q)'
<1> USE OfType
<1>1. /\ k \in Keys /\ KeyInv(k) /\ TypeOK /\ RecOK
      /\ job[k] \in Job /\ interrupted \subseteq Colls
  BY ElectionAssumption DEF IInv, TypeOK
<1>2. \A q \in Keys \ {k} : KeyInv(q)'
  <2> SUFFICES ASSUME NEW q \in Keys \ {k} PROVE KeyInv(q)'
      OBVIOUS
  <2>1. LocalFrame(q)
    BY <1>1 DEF LocalFrame, AdmitUnpark, TypeOK, KeyInv, HandsOK, NamesOK
  <2>2. RecFrame(q)
    BY <1>1, SameRecord DEF AdmitUnpark
  <2> QED
    BY <2>1, <2>2, FrameKeeps DEF IInv
<1>3. NamesOK(k)'
  BY <1>1, ElectionAssumption DEF AdmitUnpark, KeyInv, NamesOK, Serves, TypeOK
<1>4. HandsOK(k, job[k])'
  <2>1. PICK o \in Colls \cup {None} :
            /\ job' = [job EXCEPT ![k] = View(k, "unpark", c, o, "admitted")]
            /\ o # None => Of(o) = k
    BY DEF AdmitUnpark, Serves
  <2> QED
    BY <1>1, <2>1 DEF AdmitUnpark, HandsOK, View, TypeOK
<1>5. ViewOK(job[k])'
  BY <1>1, ElectionAssumption DEF AdmitUnpark, KeyInv, ViewOK, View, TypeOK, Record, Job
<1>6. PlacesOK(k, job[k])'
  BY <1>1, ElectionAssumption
  DEF AdmitUnpark, KeyInv, PlacesOK, HandsOK, Between, Serves, Served, Parked, View, TypeOK
<1>7. OutageOK(k)'
  BY <1>1, ElectionAssumption
  DEF AdmitUnpark, KeyInv, OutageOK, PlacesOK, HandsOK, Between, Serves, Served, Parked,
      View, TypeOK
<1>8. DeclaredOK(k, job[k])'
  BY <1>1, ElectionAssumption
  DEF AdmitUnpark, KeyInv, DeclaredOK, PlacesOK, HandsOK, Between, Serves, Parked, View,
      DeclaredAs, TypeOK, Job
<1> QED
  BY <1>2, <1>3, <1>4, <1>5, <1>6, <1>7, <1>8 DEF KeyInv

LEMMA GiveUpKeeps ==
    ASSUME IInv, TypeOK', NEW k \in Keys, GiveUp(k) PROVE \A q \in Keys : KeyInv(q)'
<1> USE OfType
<1>1. /\ k \in Keys /\ KeyInv(k) /\ TypeOK /\ RecOK
      /\ job[k] \in Job /\ interrupted \subseteq Colls
  BY ElectionAssumption DEF IInv, TypeOK
<1>2. \A q \in Keys \ {k} : KeyInv(q)'
  <2> SUFFICES ASSUME NEW q \in Keys \ {k} PROVE KeyInv(q)'
      OBVIOUS
  <2>1. LocalFrame(q)
    BY <1>1 DEF LocalFrame, GiveUp, TypeOK, KeyInv, HandsOK, NamesOK
  <2>2. RecFrame(q)
    BY <1>1, SameRecord DEF GiveUp
  <2> QED
    BY <2>1, <2>2, FrameKeeps DEF IInv
<1>3. NamesOK(k)'
  BY <1>1, ElectionAssumption DEF GiveUp, KeyInv, Idle, NamesOK, Serves, TypeOK
<1>4. HandsOK(k, job[k])'
  BY <1>1, ElectionAssumption DEF GiveUp, KeyInv, Idle, HandsOK, TypeOK, Job
<1>5. ViewOK(job[k])'
  BY <1>1, ElectionAssumption DEF GiveUp, KeyInv, Idle, ViewOK, TypeOK, Record, Job
<1>6. PlacesOK(k, job[k])'
  BY <1>1, ElectionAssumption
  DEF GiveUp, KeyInv, Idle, PlacesOK, HandsOK, Between, Serves, Served, Parked, TypeOK
<1>7. OutageOK(k)'
  BY <1>1, ElectionAssumption
  DEF GiveUp, KeyInv, Idle, OutageOK, PlacesOK, HandsOK, Between, Serves, Served, Parked,
      TypeOK
<1>8. DeclaredOK(k, job[k])'
  BY <1>1, ElectionAssumption
  DEF GiveUp, KeyInv, Idle, DeclaredOK, PlacesOK, HandsOK, Between, Serves, Parked,
      DeclaredAs, TypeOK, Job
<1> QED
  BY <1>2, <1>3, <1>4, <1>5, <1>6, <1>7, <1>8 DEF KeyInv

LEMMA MoveAsideKeeps ==
    ASSUME IInv, TypeOK', NEW k \in Keys, MoveAside(k) PROVE \A q \in Keys : KeyInv(q)'
<1> USE OfType
<1>1. /\ k \in Keys /\ KeyInv(k) /\ TypeOK /\ RecOK
      /\ job[k] \in Job /\ interrupted \subseteq Colls
  BY ElectionAssumption DEF IInv, TypeOK
<1> DEFINE j == job[k]
           aside == IF j.kind = "unpark" THEN "abandoned" ELSE j.in
<1>2. /\ j.pc = "admitted" /\ job'[k] = [j EXCEPT !.pc = "aside"]
      /\ \A q \in Keys \ {k} : job'[q] = job[q]
      /\ \A c \in Colls : place'[c] =
            IF c = j.out THEN aside
            ELSE IF j.kind = "kb" /\ place[c] = j.in THEN "parked" ELSE place[c]
      /\ UNCHANGED <<rec, gen, marker, interrupted, unproven>>
  BY <1>1 DEF MoveAside, TypeOK
<1>3. /\ j.in \in Colls /\ Of(j.in) = k /\ j.kind \in {"kb", "promote", "unpark"}
      /\ j.kind # "unpark" => j.in \in Shadows /\ KeyOf[j.in] = k
      /\ j.out # None => j.out \in Colls /\ Serves(k, j.out)
      /\ j.kind # "unpark" => j.out # None
      /\ j.out = None => ~ Served(k)
  BY <1>1, <1>2 DEF KeyInv, HandsOK, PlacesOK, Job
<1>4. aside # "canonical" /\ (aside \in Shadows => KeyOf[aside] = k)
  <2>1. CASE j.kind = "unpark"
    BY <2>1, ElectionAssumption
  <2>2. CASE j.kind # "unpark"
    BY <1>3, <2>2, ElectionAssumption
  <2> QED
    BY <2>1, <2>2
<1>5. /\ ~ Served(k)'
      /\ \A c, d \in Colls : Serves(k, c)' /\ Serves(k, d)' => c = d
  <2>1. \A c \in Colls : ~ Serves(k, c)'
    BY <1>1, <1>2, <1>3, <1>4 DEF KeyInv, NamesOK, Served, Serves
  <2> QED
    BY <2>1 DEF Served
<1> HIDE DEF aside
<1>6. \A q \in Keys \ {k} : KeyInv(q)'
  <2> SUFFICES ASSUME NEW q \in Keys \ {k} PROVE KeyInv(q)'
      OBVIOUS
  <2>1. LocalFrame(q)
    <3>1. KeyInv(q) /\ NamesOK(q)
      BY DEF IInv, KeyInv
    <3>2. \A c \in Colls : Of(c) = q => place'[c] = place[c]
      BY <1>2, <1>3, <3>1, ElectionAssumption DEF NamesOK, Serves
    <3> QED
      BY <1>2, <3>2 DEF LocalFrame
  <2>2. RecFrame(q)
    BY <1>1, SameRecord DEF MoveAside
  <2> QED
    BY <2>1, <2>2, FrameKeeps DEF IInv
<1>7. NamesOK(k)'
  BY <1>1, <1>2, <1>4, <1>5, ElectionAssumption DEF KeyInv, NamesOK
<1>8. HandsOK(k, job[k])'
  BY <1>1, ElectionAssumption DEF MoveAside, KeyInv, HandsOK, TypeOK, Job
<1>9. ViewOK(job[k])'
  BY <1>1, ElectionAssumption DEF MoveAside, KeyInv, ViewOK, TypeOK, Record, Job
<1>10. PlacesOK(k, job[k])'
  <2>1. job'[k].pc = "aside" /\ job'[k].kind = j.kind /\ job'[k].in = j.in /\ job'[k].out = j.out
    BY <1>1, <1>2 DEF Job
  <2>2. IF j.kind = "unpark" THEN place'[j.in] \in Shadows \cup {"parked"}
                             ELSE place'[j.in] = "shadow"
    BY <1>1, <1>2, <1>3, ElectionAssumption DEF KeyInv, PlacesOK, Parked, Serves, Colls
  <2>3. j.out # None =>
            /\ place'[j.out] = IF j.kind = "unpark" THEN "abandoned" ELSE j.in
            /\ \A i \in interrupted' : Of(i) # k
    BY <1>1, <1>2, <1>3 DEF KeyInv, OutageOK, Served, aside
  <2>4. j.kind \in {"kb", "promote"} =>
            \A c \in Colls : Of(c) = k /\ place'[c] = j.in => c = j.out
    BY <1>1, <1>2, <1>3, ElectionAssumption DEF KeyInv, PlacesOK
  <2> QED
    BY <1>3, <1>5, <2>1, <2>2, <2>3, <2>4 DEF PlacesOK, Between, Parked
<1>11. OutageOK(k)'
  <2>1. CASE j.out # None
    <3>1. \A i \in interrupted' : Of(i) # k
      BY <1>1, <1>2, <1>3, <2>1 DEF KeyInv, OutageOK, Served
    <3> QED
      BY <1>1, <1>2, <3>1 DEF OutageOK, Between, Job
  <2>2. CASE j.out = None
    <3>1. \A c \in Colls : place'[c] = place[c]
      BY <1>2, <1>3, <2>2
    <3>2. job'[k].pc = "aside"
      BY <1>1, <1>2 DEF Job
    <3>3. interrupted' = interrupted /\ OutageOK(k)
      BY <1>1, <1>2 DEF KeyInv
    <3> QED
      BY <1>5, <3>1, <3>2, <3>3 DEF OutageOK, Between, Parked
  <2> QED
    BY <2>1, <2>2
<1>12. DeclaredOK(k, job[k])'
  <2>1. job'[k].pc = "aside" /\ job'[k].gen = j.gen /\ job'[k].in = j.in /\ job'[k].out = j.out
    BY <1>1, <1>2 DEF Job
  <2>2. DeclaredOK(k, j) /\ OutageOK(k)
    BY <1>1 DEF KeyInv
  <2>3. \A c \in Colls : ~ Serves(k, c)'
    BY <1>5 DEF Served
  <2>4. \A i \in interrupted \cap Shadows, c \in Colls :
            Of(i) = k /\ place'[c] = i => place[c] = i
    <3>1. CASE j.out # None
      BY <1>3, <2>2, <3>1 DEF OutageOK, Served
    <3>2. CASE j.out = None
      BY <1>2, <1>3, <3>2
    <3> QED
      BY <3>1, <3>2
  <2>5. j.out # None => Serves(k, j.out) /\ j.out \in Colls
    BY <1>3
  <2> HIDE DEF j
  <2> QED
    BY <1>2, <2>1, <2>2, <2>3, <2>4, <2>5 DEF DeclaredOK, DeclaredAs, Between
<1> QED
  BY <1>6, <1>7, <1>8, <1>9, <1>10, <1>11, <1>12 DEF KeyInv

LEMMA FenceAgainKeeps ==
    ASSUME IInv, TypeOK', NEW k \in Keys, FenceAgain(k) PROVE \A q \in Keys : KeyInv(q)'
<1> USE OfType
<1>1. /\ k \in Keys /\ KeyInv(k) /\ TypeOK /\ RecOK
      /\ job[k] \in Job /\ interrupted \subseteq Colls
  BY ElectionAssumption DEF IInv, TypeOK
<1>2. \A q \in Keys \ {k} : KeyInv(q)'
  <2> SUFFICES ASSUME NEW q \in Keys \ {k} PROVE KeyInv(q)'
      OBVIOUS
  <2>1. LocalFrame(q)
    BY <1>1 DEF LocalFrame, FenceAgain, TypeOK, KeyInv, HandsOK, NamesOK
  <2>2. RecFrame(q)
    BY <1>1, SameRecord DEF FenceAgain
  <2> QED
    BY <2>1, <2>2, FrameKeeps DEF IInv
<1>3. NamesOK(k)'
  BY <1>1, ElectionAssumption DEF FenceAgain, KeyInv, NamesOK, Serves, TypeOK
<1>4. HandsOK(k, job[k])'
  BY <1>1, ElectionAssumption DEF FenceAgain, KeyInv, HandsOK, TypeOK, Job
<1>5. ViewOK(job[k])'
  BY <1>1, ElectionAssumption
  DEF FenceAgain, KeyInv, ViewOK, Admissible, TypeOK, Record, Job
<1>6. PlacesOK(k, job[k])'
  BY <1>1, ElectionAssumption
  DEF FenceAgain, KeyInv, PlacesOK, HandsOK, Between, Serves, Served, Parked, TypeOK
<1>7. OutageOK(k)'
  BY <1>1, ElectionAssumption
  DEF FenceAgain, KeyInv, OutageOK, PlacesOK, HandsOK, Between, Serves, Served, Parked,
      TypeOK
<1>8. DeclaredOK(k, job[k])'
  BY <1>1, ElectionAssumption
  DEF FenceAgain, KeyInv, DeclaredOK, PlacesOK, HandsOK, Between, Serves, Parked,
      Admissible, DeclaredAs, TypeOK, Job
<1> QED
  BY <1>2, <1>3, <1>4, <1>5, <1>6, <1>7, <1>8 DEF KeyInv

LEMMA MoveInKeeps ==
    ASSUME IInv, TypeOK', NEW k \in Keys, MoveIn(k) PROVE \A q \in Keys : KeyInv(q)'
<1> USE OfType
<1>1. /\ k \in Keys /\ KeyInv(k) /\ TypeOK /\ RecOK
      /\ job[k] \in Job /\ interrupted \subseteq Colls
  BY ElectionAssumption DEF IInv, TypeOK
<1>2. \A q \in Keys \ {k} : KeyInv(q)'
  <2> SUFFICES ASSUME NEW q \in Keys \ {k} PROVE KeyInv(q)'
      OBVIOUS
  <2>1. LocalFrame(q)
    BY <1>1 DEF LocalFrame, MoveIn, Settled, TypeOK, KeyInv, HandsOK, NamesOK
  <2>2. RecFrame(q)
    BY <1>1, SameRecord DEF MoveIn, Settled
  <2> QED
    BY <2>1, <2>2, FrameKeeps DEF IInv
<1>3. NamesOK(k)'
  <2>1. \A d \in Colls : Serves(k, d)' => d = job[k].in
    BY <1>1 DEF MoveIn, Served, Serves, TypeOK
  <2>2. \A d \in Colls : place'[d] \in Shadows => place'[d] = place[d]
    BY <1>1, ElectionAssumption DEF MoveIn, TypeOK
  <2>3. k \in KbKeys /\ marker'[k] # None => marker'[k] = marker[k]
    BY <1>1 DEF MoveIn, TypeOK
  <2> QED
    BY <1>1, <2>1, <2>2, <2>3 DEF KeyInv, NamesOK
<1>4. HandsOK(k, job[k])'
  BY <1>1, ElectionAssumption DEF MoveIn, Settled, KeyInv, HandsOK, TypeOK, Job
<1>5. ViewOK(job[k])'
  BY <1>1, ElectionAssumption DEF MoveIn, Settled, KeyInv, ViewOK, TypeOK, Record, Job
<1>6. PlacesOK(k, job[k])'
  BY <1>1, ElectionAssumption
  DEF MoveIn, Settled, KeyInv, PlacesOK, HandsOK, Between, Serves, Served, Parked, TypeOK
<1>7. OutageOK(k)'
  BY <1>1, ElectionAssumption
  DEF MoveIn, Settled, KeyInv, OutageOK, PlacesOK, HandsOK, Between, Serves, Served,
      Parked, TypeOK
<1>8. DeclaredOK(k, job[k])'
  BY <1>1, ElectionAssumption
  DEF MoveIn, Settled, KeyInv, DeclaredOK, PlacesOK, HandsOK, Between, Serves, Parked,
      DeclaredAs, TypeOK, Job
<1> QED
  BY <1>2, <1>3, <1>4, <1>5, <1>6, <1>7, <1>8 DEF KeyInv

LEMMA RestoreKeeps ==
    ASSUME IInv, TypeOK', NEW k \in Keys, Restore(k) PROVE \A q \in Keys : KeyInv(q)'
<1> USE OfType
<1>1. /\ k \in Keys /\ KeyInv(k) /\ TypeOK /\ RecOK
      /\ job[k] \in Job /\ interrupted \subseteq Colls
  BY ElectionAssumption DEF IInv, TypeOK
<1>2. \A q \in Keys \ {k} : KeyInv(q)'
  <2> SUFFICES ASSUME NEW q \in Keys \ {k} PROVE KeyInv(q)'
      OBVIOUS
  <2>1. LocalFrame(q)
    BY <1>1 DEF LocalFrame, Restore, TypeOK, KeyInv, HandsOK, NamesOK
  <2>2. RecFrame(q)
    BY <1>1, SameRecord DEF Restore
  <2> QED
    BY <2>1, <2>2, FrameKeeps DEF IInv
<1>3. NamesOK(k)'
  <2>1. \A d \in Colls : Serves(k, d)' => d = job[k].out
    BY <1>1 DEF Restore, Served, Serves, TypeOK
  <2>2. \A d \in Colls : place'[d] \in Shadows => place'[d] = place[d]
    BY <1>1, ElectionAssumption DEF Restore, TypeOK
  <2>3. UNCHANGED marker
    BY DEF Restore
  <2> QED
    BY <1>1, <2>1, <2>2, <2>3 DEF KeyInv, NamesOK
<1>4. HandsOK(k, job[k])'
  BY <1>1, ElectionAssumption DEF Restore, KeyInv, Idle, HandsOK, TypeOK, Job
<1>5. ViewOK(job[k])'
  BY <1>1, ElectionAssumption DEF Restore, KeyInv, Idle, ViewOK, TypeOK, Record, Job
<1>6. PlacesOK(k, job[k])'
  BY <1>1, ElectionAssumption
  DEF Restore, KeyInv, Idle, PlacesOK, HandsOK, Between, Serves, Served, Parked, TypeOK
<1>7. OutageOK(k)'
  BY <1>1, ElectionAssumption
  DEF Restore, KeyInv, Idle, OutageOK, PlacesOK, HandsOK, Between, Serves, Served, Parked,
      TypeOK
<1>8. DeclaredOK(k, job[k])'
  BY <1>1, ElectionAssumption
  DEF Restore, KeyInv, Idle, DeclaredOK, PlacesOK, HandsOK, Between, Serves, Parked,
      DeclaredAs, TypeOK, Job
<1> QED
  BY <1>2, <1>3, <1>4, <1>5, <1>6, <1>7, <1>8 DEF KeyInv

LEMMA InterruptKeeps ==
    ASSUME IInv, TypeOK', NEW k \in Keys, Interrupt(k) PROVE \A q \in Keys : KeyInv(q)'
<1> USE OfType
<1>1. /\ k \in Keys /\ KeyInv(k) /\ TypeOK /\ RecOK
      /\ job[k] \in Job /\ interrupted \subseteq Colls
  BY ElectionAssumption DEF IInv, TypeOK
<1>2. \A q \in Keys \ {k} : KeyInv(q)'
  <2> SUFFICES ASSUME NEW q \in Keys \ {k} PROVE KeyInv(q)'
      OBVIOUS
  <2>1. LocalFrame(q)
    BY <1>1 DEF LocalFrame, Interrupt, TypeOK, KeyInv, HandsOK, NamesOK
  <2>2. RecFrame(q)
    BY <1>1, SameRecord DEF Interrupt
  <2> QED
    BY <2>1, <2>2, FrameKeeps DEF IInv
<1>3. NamesOK(k)'
  BY <1>1, ElectionAssumption DEF Interrupt, KeyInv, Idle, NamesOK, Serves, TypeOK
<1>4. HandsOK(k, job[k])'
  BY <1>1, ElectionAssumption DEF Interrupt, KeyInv, Idle, HandsOK, TypeOK, Job
<1>5. ViewOK(job[k])'
  BY <1>1, ElectionAssumption DEF Interrupt, KeyInv, Idle, ViewOK, TypeOK, Record, Job
<1>6. PlacesOK(k, job[k])'
  BY <1>1, ElectionAssumption
  DEF Interrupt, KeyInv, Idle, PlacesOK, HandsOK, Between, Serves, Served, Parked, TypeOK
<1>7. OutageOK(k)'
  <2> DEFINE n == IF job[k].kind = "unpark" THEN k ELSE job[k].in
  <2>1. interrupted' = interrupted \cup {n} /\ UNCHANGED place /\ job[k].pc \in Between
    BY DEF Interrupt, Between
  <2>2. Of(n) = k /\ ~ Served(k)
    BY <1>1, <2>1 DEF KeyInv, HandsOK, PlacesOK, Between
  <2>3. \E c \in Colls : Of(c) = k /\ IF n \in Keys THEN Parked(c) ELSE place[c] = n
    <3>1. CASE job[k].kind = "unpark"
      BY <1>1, <2>1, <3>1 DEF KeyInv, HandsOK, PlacesOK, Between
    <3>2. CASE job[k].kind = "resume"
      BY <1>1, <2>1, <3>2 DEF KeyInv, HandsOK, PlacesOK, OutageOK, Between
    <3>3. CASE job[k].kind \in {"kb", "promote"}
      BY <1>1, <2>1, <3>3 DEF KeyInv, HandsOK, PlacesOK, Between, Job
    <3> QED
      BY <1>1, <2>1, <3>1, <3>2, <3>3 DEF KeyInv, HandsOK, Between, Job
  <2>4. OutageOK(k)
    BY <1>1 DEF KeyInv
  <2>5. Served(k)' <=> Served(k)
    BY <2>1 DEF Served, Serves
  <2>6. \A c \in Colls : Parked(c)' <=> Parked(c)
    BY <2>1 DEF Parked
  <2> HIDE DEF n
  <2> QED
    BY <2>1, <2>2, <2>3, <2>4, <2>5, <2>6 DEF OutageOK
<1>8. DeclaredOK(k, job[k])'
  BY <1>1, ElectionAssumption
  DEF Interrupt, KeyInv, Idle, DeclaredOK, PlacesOK, HandsOK, Between, Serves, Parked,
      DeclaredAs, TypeOK, Job
<1> QED
  BY <1>2, <1>3, <1>4, <1>5, <1>6, <1>7, <1>8 DEF KeyInv

LEMMA CompleteKeeps ==
    ASSUME IInv, TypeOK', NEW k \in Keys, Complete(k) PROVE \A q \in Keys : KeyInv(q)'
<1> USE OfType
<1>1. /\ k \in Keys /\ KeyInv(k) /\ TypeOK /\ RecOK
      /\ job[k] \in Job /\ interrupted \subseteq Colls
  BY ElectionAssumption DEF IInv, TypeOK
<1>2. \A q \in Keys \ {k} : KeyInv(q)'
  <2> SUFFICES ASSUME NEW q \in Keys \ {k} PROVE KeyInv(q)'
      OBVIOUS
  <2>1. LocalFrame(q)
    BY <1>1 DEF LocalFrame, Complete, RecordCompletion, TypeOK, KeyInv, HandsOK, NamesOK
  <2>2. RecFrame(q)
    BY <1>1, SameRecord DEF Complete, RecordCompletion, RecFrame, DeclaredAs, TypeOK, Record
  <2> QED
    BY <2>1, <2>2, FrameKeeps DEF IInv
<1>3. NamesOK(k)'
  BY <1>1, ElectionAssumption
  DEF Complete, RecordCompletion, KeyInv, Idle, NamesOK, Serves, TypeOK
<1>4. HandsOK(k, job[k])'
  BY <1>1, ElectionAssumption
  DEF Complete, RecordCompletion, KeyInv, Idle, HandsOK, TypeOK, Job
<1>5. ViewOK(job[k])'
  BY <1>1, ElectionAssumption
  DEF Complete, RecordCompletion, KeyInv, Idle, ViewOK, TypeOK, Record, Job
<1>6. PlacesOK(k, job[k])'
  BY <1>1, ElectionAssumption
  DEF Complete, RecordCompletion, KeyInv, Idle, PlacesOK, HandsOK, Between, Serves,
      Served, Parked, TypeOK
<1>7. OutageOK(k)'
  BY <1>1, ElectionAssumption
  DEF Complete, RecordCompletion, KeyInv, Idle, OutageOK, PlacesOK, HandsOK, Between,
      Serves, Served, Parked, TypeOK
<1>8. DeclaredOK(k, job[k])'
  <2>1. PICK c \in Colls : c = job[k].in /\ Serves(k, c)
    BY <1>1 DEF Complete, KeyInv, HandsOK, PlacesOK
  <2>2. /\ \A d \in Colls : Serves(k, d) => d = c
        /\ \A i \in interrupted : Of(i) # k
    BY <1>1, <2>1 DEF KeyInv, NamesOK, OutageOK, Served
  <2>3. job'[k].pc = "idle" /\ UNCHANGED <<gen, place, interrupted, unproven>>
    BY <1>1 DEF Complete, Idle, TypeOK
  <2>4. k \notin unproven => DeclaredAs(gen[c], k)'
    <3>1. k \notin unproven => gen[c] = job[k].gen /\ DeclaredAs(gen[c], k)
      BY <1>1, <2>1 DEF Complete, KeyInv, DeclaredOK
    <3>2. CASE UNCHANGED rec
      BY <2>3, <3>1, <3>2 DEF DeclaredAs
    <3>3. CASE job[k].epoch = rec.epoch /\ rec'.elected = rec.elected
      <4>1. job[k].gen = rec.elected
        BY <1>1, <3>3 DEF Complete, KeyInv, ViewOK
      <4> QED
        BY <2>3, <3>1, <3>3, <4>1 DEF DeclaredAs
    <3> QED
      BY <1>1, <3>2, <3>3 DEF Complete, RecordCompletion, TypeOK, Record
  <2> QED
    BY <2>1, <2>2, <2>3, <2>4 DEF DeclaredOK, Between, Serves
<1> QED
  BY <1>2, <1>3, <1>4, <1>5, <1>6, <1>7, <1>8 DEF KeyInv

LEMMA RecordNothingKeeps ==
    ASSUME IInv, TypeOK', NEW k \in Keys, RecordNothingToUnpark(k)
    PROVE  \A q \in Keys : KeyInv(q)'
<1> USE OfType
<1>1. /\ k \in Keys /\ KeyInv(k) /\ TypeOK /\ RecOK
      /\ job[k] \in Job /\ interrupted \subseteq Colls
  BY ElectionAssumption DEF IInv, TypeOK
<1>2. \A q \in Keys \ {k} : KeyInv(q)'
  <2> SUFFICES ASSUME NEW q \in Keys \ {k} PROVE KeyInv(q)'
      OBVIOUS
  <2>1. LocalFrame(q)
    BY <1>1 DEF LocalFrame, RecordNothingToUnpark, TypeOK, KeyInv, HandsOK, NamesOK
  <2>2. RecFrame(q)
    BY <1>1, SameRecord DEF RecordNothingToUnpark, RecFrame, DeclaredAs, TypeOK, Record
  <2> QED
    BY <2>1, <2>2, FrameKeeps DEF IInv
<1>3. NamesOK(k)'
  BY <1>1, ElectionAssumption DEF RecordNothingToUnpark, KeyInv, NamesOK, Serves, TypeOK
<1>4. HandsOK(k, job[k])'
  BY <1>1, ElectionAssumption DEF RecordNothingToUnpark, KeyInv, HandsOK, TypeOK, Job
<1>5. ViewOK(job[k])'
  BY <1>1, ElectionAssumption DEF RecordNothingToUnpark, KeyInv, ViewOK, TypeOK, Record, Job
<1>6. PlacesOK(k, job[k])'
  BY <1>1, ElectionAssumption
  DEF RecordNothingToUnpark, KeyInv, PlacesOK, HandsOK, Between, Serves, Served, Parked,
      TypeOK
<1>7. OutageOK(k)'
  BY <1>1, ElectionAssumption
  DEF RecordNothingToUnpark, KeyInv, OutageOK, PlacesOK, HandsOK, Between, Serves, Served,
      Parked, TypeOK
<1>8. DeclaredOK(k, job[k])'
  <2>1. PICK c \in Colls : Serves(k, c) /\ gen[c] = rec.elected
    BY DEF RecordNothingToUnpark
  <2>2. /\ \A d \in Colls : Serves(k, d) => d = c
        /\ \A i \in interrupted : Of(i) # k
    BY <1>1, <2>1 DEF KeyInv, NamesOK, OutageOK, Served
  <2>3. job[k].pc \in {"idle", "built"} /\ UNCHANGED <<gen, place, job, interrupted, unproven>>
    BY DEF RecordNothingToUnpark
  <2>4. DeclaredAs(gen[c], k)'
    BY <1>1, <2>1, <2>3 DEF RecordNothingToUnpark, DeclaredAs, TypeOK, Record
  <2> QED
    BY <2>1, <2>2, <2>3, <2>4 DEF DeclaredOK, DeclaredAs, Between, Serves
<1> QED
  BY <1>2, <1>3, <1>4, <1>5, <1>6, <1>7, <1>8 DEF KeyInv

-----------------------------------------------------------------------------
(***************************************************************************)
(* The invariant holds                                                     *)
(***************************************************************************)

LEMMA InitHolds == Init => IInv
<1> SUFFICES ASSUME Init PROVE IInv
    OBVIOUS
<1> USE OfType, ElectionAssumption DEF Init
<1>1. TypeOK
  BY DEF TypeOK, Record, Statuses, Places, Job, Idle
<1>2. \A k \in Keys, c \in Colls : Serves(k, c) <=> c = k
  BY DEF Serves, Colls
<1>3. \A k \in Keys : Served(k) /\ job[k] = Idle
  BY <1>2 DEF Served
<1>4. ASSUME NEW k \in Keys PROVE KeyInv(k)
  <2>1. NamesOK(k)
    BY <1>2 DEF NamesOK
  <2>2. HandsOK(k, job[k]) /\ ViewOK(job[k])
    BY <1>3 DEF HandsOK, ViewOK, Idle
  <2>3. PlacesOK(k, job[k])
    BY <1>3 DEF PlacesOK, Between, Idle
  <2>4. OutageOK(k)
    BY <1>3 DEF OutageOK
  <2>5. DeclaredOK(k, job[k])
    BY <1>2, <1>3 DEF DeclaredOK, DeclaredAs, Between, Idle
  <2> QED
    BY <2>1, <2>2, <2>3, <2>4, <2>5 DEF KeyInv
<1> QED
  BY <1>1, <1>4 DEF IInv, RecOK

LEMMA RecordKeeps == IInv /\ RecordStep => IInv'
<1> SUFFICES ASSUME IInv, RecordStep PROVE IInv'
    OBVIOUS
<1>1. TypeOK' /\ RecOK'
  BY RecordTypes DEF IInv
<1>2. UNCHANGED <<gen, place, job, marker, interrupted, unproven>>
  BY DEF RecordStep, DeclareBaseline, Commit, Rollback, Accept, WindowPasses, RenewQuiesce,
     DeclareCandidate, RecordReceipt
<1>3. ASSUME NEW k \in Keys PROVE KeyInv(k)'
  <2>1. RecFrame(k)
    BY RecordFrame DEF IInv
  <2>2. LocalFrame(k)
    BY <1>2 DEF LocalFrame
  <2> QED
    BY <1>1, <2>1, <2>2, FrameKeeps DEF IInv
<1> QED
  BY <1>1, <1>3 DEF IInv

LEMMA NextHolds == IInv /\ [Next]_vars => IInv'
<1>1. CASE IInv /\ RecordStep
  BY <1>1, RecordKeeps
<1>2. ASSUME IInv, NEW s \in Shadows, ShadowStep(s) PROVE IInv'
  <2>1. TypeOK' /\ RecOK'
    BY <1>2, ShadowTypes
  <2>2. \A q \in Keys : KeyInv(q)'
    BY <1>2, <2>1, BuildCandidateKeeps, StartPromoteKeeps, StartKbBuildKeeps,
       LoseShadowKeeps, ReconcileResumeKeeps, ReconcilePriorKeeps DEF ShadowStep
  <2> QED
    BY <2>1, <2>2 DEF IInv
<1>3. ASSUME IInv, NEW k \in Keys, SwapStep(k) PROVE IInv'
  <2>1. TypeOK' /\ RecOK'
    BY <1>3, SwapTypes
  <2>2. \A q \in Keys : KeyInv(q)'
    BY <1>3, <2>1, ResumeKbBuildKeeps, DiscardKbShadowKeeps, AdmitKeeps, AdmitUnparkKeeps,
       GiveUpKeeps, MoveAsideKeeps, FenceAgainKeeps, MoveInKeeps, RestoreKeeps,
       InterruptKeeps, CompleteKeeps, RecordNothingKeeps DEF SwapStep
  <2> QED
    BY <2>1, <2>2 DEF IInv
<1>4. ASSUME IInv, UNCHANGED vars PROVE IInv'
  <2>1. TypeOK' /\ RecOK'
    BY <1>4 DEF IInv, TypeOK, RecOK
  <2>2. ASSUME NEW k \in Keys PROVE KeyInv(k)'
    <3>1. RecFrame(k)
      BY <1>4, SameRecord DEF IInv
    <3>2. LocalFrame(k)
      BY <1>4 DEF LocalFrame
    <3> QED
      BY <1>4, <2>1, <3>1, <3>2, FrameKeeps DEF IInv
  <2> QED
    BY <2>1, <2>2 DEF IInv
<1> QED
  BY <1>1, <1>2, <1>3, <1>4 DEF Next

THEOREM ElectionInvariant == Spec => []IInv
BY InitHolds, NextHolds, PTL DEF Spec

\* The record, the collections and the swaps keep their shape, whatever the
\* interleaving of record steps, renames, crashes and reconciles.
THEOREM TypeCorrect == Spec => []TypeOK
<1>1. IInv => TypeOK
  BY DEF IInv
<1> QED
  BY <1>1, ElectionInvariant, PTL

\* A canonical name serves only what the record declares, for any number of
\* collections, shadows, generations and elections (electionGatedPromote.mjs:59-112,
\* generationElectionStore.mjs:453-476): the fence before each rename, the
\* restore when it refuses, and a completion reported under its own epoch keep
\* a commit or a rollback in the middle of a swap from serving a generation
\* that the record no longer names.
THEOREM DeclaredServed == Spec => []ServedIsDeclared
<1>1. IInv => ServedIsDeclared
  BY DEF IInv, KeyInv, DeclaredOK, ServedIsDeclared
<1> QED
  BY <1>1, ElectionInvariant, PTL

\* A name that nothing serves while no swap is between its renames has a parked
\* collection that the reconcile, or another un-park, can serve again
\* (electionGatedPromote.mjs:223-267).
THEOREM OutageEnds == Spec => []OutageIsRecoverable
<1>1. IInv => OutageIsRecoverable
  BY DEF IInv, KeyInv, OutageOK, Between, OutageIsRecoverable, TypeOK
<1> QED
  BY <1>1, ElectionInvariant, PTL

-----------------------------------------------------------------------------
(***************************************************************************)
(* The generation to fall back on                                          *)
(***************************************************************************)

Keeps(k, c) == Of(c) = k /\ (Serves(k, c) \/ Parked(c))

\* The collection to fall back on, and the elected one once its promote is recorded.
FallbackOK(k) ==
    k \notin unproven =>
        /\ \E c \in Colls : Keeps(k, c) /\ gen[c] = Prior
        /\ k \in rec.promoted => \E c \in Colls : Keeps(k, c) /\ gen[c] = rec.elected

\* What is un-parked is of that generation, and no promote of k can be recorded
\* before the un-park has ended, so that it stays the one to fall back on.
UnparkOK(k) ==
    job[k].kind = "unpark" /\ job[k].pc \in {"admitted", "aside", "cleared"} =>
        job[k].gen = Prior /\ k \notin rec.promoted /\ gen[job[k].in] = job[k].gen

Fallback ==
    /\ rec.status = "rolled-back" => rec.promoted = {}
    /\ \A k \in Keys : FallbackOK(k) /\ UnparkOK(k)

\* Only an un-park moves a collection where the reconcile does not look for it.
Shelved(k, c) == MoveAside(k) /\ job[k].kind = "unpark" /\ c = job[k].out

LEMMA PlaceNames ==
    /\ "canonical" \notin Shadows /\ "parked" \notin Shadows
    /\ "shadow" \notin Shadows /\ "unbuilt" \notin Shadows
    /\ "abandoned" \notin Shadows /\ "gone" \notin Shadows
BY ElectionAssumption

LEMMA KeepersStay ==
    ASSUME IInv, [Next]_vars, NEW k \in Keys, NEW c \in Colls, Keeps(k, c)
    PROVE  gen'[c] = gen[c] /\ (Keeps(k, c)' \/ Shelved(k, c))
<1> USE OfType, PlaceNames
<1>1. place[c] \in Shadows \cup {"parked", "canonical"} /\ Of(c) = k
  BY DEF Keeps, Serves, Parked
<1> DEFINE OK == gen'[c] = gen[c] /\ place'[c] \in Shadows \cup {"parked", "canonical"}
<1>2. /\ OK => gen'[c] = gen[c] /\ Keeps(k, c)'
      /\ Shelved(k, c) => gen'[c] = gen[c]
  BY <1>1 DEF Keeps, Serves, Parked, Shelved, MoveAside
<1>3. ASSUME UNCHANGED <<gen, place>> PROVE OK
  BY <1>1, <1>3
<1>4. ASSUME RecordStep PROVE OK
  BY <1>3, <1>4 DEF RecordStep, DeclareBaseline, Commit, Rollback, Accept, WindowPasses,
     RenewQuiesce, DeclareCandidate, RecordReceipt
<1>5. ASSUME NEW s \in Shadows, ShadowStep(s) PROVE OK
  <2>1. gen \in [Colls -> Generations] /\ place \in [Colls -> Places]
    BY DEF IInv, TypeOK
  <2> QED
    BY <1>1, <1>5, <2>1 DEF ShadowStep, BuildCandidate, StartPromote, StartKbBuild,
       LoseShadow, ReconcileResume, ReconcilePrior
<1>6. ASSUME NEW q \in Keys, SwapStep(q) PROVE OK \/ Shelved(k, c)
  <2>1. /\ gen \in [Colls -> Generations] /\ place \in [Colls -> Places]
        /\ \A m \in KbKeys : marker[m] \in Shadows \cup {None}
    BY DEF IInv, TypeOK
  <2>2. HandsOK(q, job[q])
    BY DEF IInv, KeyInv
  <2>3. CASE MoveAside(q)
    <3>1. gen' = gen
      BY <2>3 DEF MoveAside
    <3>2. CASE c = job[q].out
      <4>1. q = k
        BY <1>1, <2>2, <2>3, <3>2 DEF HandsOK, MoveAside
      <4>2. CASE job[q].kind = "unpark"
        BY <2>3, <3>2, <4>1, <4>2 DEF Shelved
      <4>3. CASE job[q].kind # "unpark"
        <5>1. job[q].in \in Shadows
          BY <2>2, <2>3, <4>3 DEF HandsOK, MoveAside
        <5> QED
          BY <2>1, <2>3, <3>1, <3>2, <4>3, <5>1 DEF MoveAside
      <4> QED
        BY <4>2, <4>3
    <3>3. CASE c # job[q].out
      BY <1>1, <2>1, <2>3, <3>1, <3>3 DEF MoveAside
    <3> QED
      BY <3>2, <3>3
  <2>4. CASE MoveIn(q)
    BY <1>1, <2>1, <2>4 DEF MoveIn
  <2>5. CASE Restore(q)
    BY <1>1, <2>1, <2>5 DEF Restore
  <2>6. CASE q \in KbKeys /\ DiscardKbShadow(q)
    <3>1. marker[q] \in Shadows
      BY <2>1, <2>6 DEF DiscardKbShadow
    <3> QED
      BY <1>1, <2>1, <2>6, <3>1 DEF DiscardKbShadow
  <2>7. CASE \/ Admit(q) \/ GiveUp(q) \/ FenceAgain(q) \/ Interrupt(q) \/ Complete(q)
             \/ RecordNothingToUnpark(q) \/ \E d \in Colls : AdmitUnpark(q, d)
             \/ q \in KbKeys /\ ResumeKbBuild(q)
    BY <1>3, <2>7 DEF Admit, GiveUp, FenceAgain, Interrupt, Complete, RecordNothingToUnpark,
       AdmitUnpark, ResumeKbBuild
  <2> QED
    BY <1>6, <2>3, <2>4, <2>5, <2>6, <2>7 DEF SwapStep
<1>7. ASSUME UNCHANGED vars PROVE OK
  BY <1>3, <1>7
<1> HIDE DEF OK
<1>8. OK \/ Shelved(k, c)
  BY <1>4, <1>5, <1>6, <1>7 DEF Next
<1> QED
  BY <1>2, <1>8

\* What a step does to the generation to fall back on and to the recorded promotes.
RecordSteps(k) ==
    \/ /\ Prior' = Prior
       /\ \/ k \notin rec'.promoted
          \/ k \in rec.promoted /\ rec'.elected = rec.elected
    \/ Accept
    \/ Complete(k) /\ Prior' = Prior /\ rec'.elected = rec.elected

LEMMA PriorSteps ==
    ASSUME IInv, Fallback, [Next]_vars, NEW k \in Keys
    PROVE  /\ RecordSteps(k)
           /\ rec'.status = "rolled-back" => rec'.promoted = {}
<1> DEFINE Goal == RecordSteps(k) /\ (rec'.status = "rolled-back" => rec'.promoted = {})
<1> USE DEF RecordSteps, Prior, Fallback
<1>0. rec \in Record /\ RecOK
  BY DEF IInv, TypeOK
<1>1. ASSUME UNCHANGED rec PROVE Goal
  BY <1>1
<1>2. ASSUME RecordStep PROVE Goal
  <2> USE DEF RecOK, Record, Statuses
  <2>1. CASE DeclareBaseline
    BY <1>0, <2>1 DEF DeclareBaseline
  <2>2. CASE Commit
    BY <1>0, <2>2 DEF Commit
  <2>3. CASE Rollback
    BY <1>0, <2>3 DEF Rollback
  <2>4. CASE Accept
    BY <1>0, <2>4 DEF Accept
  <2>5. CASE WindowPasses
    BY <1>0, <2>5 DEF WindowPasses
  <2>6. CASE RenewQuiesce
    BY <1>0, <2>6 DEF RenewQuiesce
  <2>7. ASSUME NEW g \in Generations, DeclareCandidate(g) PROVE Goal
    BY <1>0, <2>7 DEF DeclareCandidate
  <2>8. ASSUME NEW s \in Shadows, RecordReceipt(s) PROVE Goal
    BY <1>0, <2>8 DEF RecordReceipt
  <2> QED
    BY <1>2, <2>1, <2>2, <2>3, <2>4, <2>5, <2>6, <2>7, <2>8 DEF RecordStep
<1>3. ASSUME NEW s \in Shadows, ShadowStep(s) PROVE Goal
  BY <1>1, <1>3 DEF ShadowStep, BuildCandidate, StartPromote, StartKbBuild, LoseShadow,
     ReconcileResume, ReconcilePrior
<1>4. ASSUME NEW q \in Keys, SwapStep(q) PROVE Goal
  <2>1. CASE Complete(q)
    <3>1. CASE UNCHANGED rec
      BY <1>1, <3>1
    <3>2. CASE /\ job[q].kind # "unpark" /\ rec.status = "committed"
               /\ rec' = [rec EXCEPT !.promoted = @ \cup {q}]
      <4>1. /\ rec'.status = "committed" /\ rec'.elected = rec.elected
            /\ rec'.parked = rec.parked /\ rec'.promoted = rec.promoted \cup {q}
        BY <1>0, <3>2 DEF Record
      <4> QED
        BY <2>1, <3>2, <4>1
    <3>3. CASE rec' = [rec EXCEPT !.unparked = @ \cup {q}]
      BY <1>0, <3>3 DEF Record
    <3> QED
      BY <2>1, <3>1, <3>2, <3>3 DEF Complete, RecordCompletion
  <2>2. CASE RecordNothingToUnpark(q)
    BY SMTT(30), <1>0, <2>2 DEF RecordNothingToUnpark, Record
  <2>3. CASE \/ Admit(q) \/ GiveUp(q) \/ MoveAside(q) \/ FenceAgain(q) \/ MoveIn(q)
             \/ Restore(q) \/ Interrupt(q) \/ \E d \in Colls : AdmitUnpark(q, d)
             \/ q \in KbKeys /\ (ResumeKbBuild(q) \/ DiscardKbShadow(q))
    BY <1>1, <2>3 DEF Admit, GiveUp, MoveAside, FenceAgain, MoveIn, Restore, Interrupt,
       AdmitUnpark, ResumeKbBuild, DiscardKbShadow
  <2> QED
    BY <1>4, <2>1, <2>2, <2>3 DEF SwapStep
<1>5. ASSUME UNCHANGED vars PROVE Goal
  BY <1>1, <1>5
<1> QED
  BY <1>2, <1>3, <1>4, <1>5 DEF Next

Unparking(j) == j.kind = "unpark" /\ j.pc \in {"admitted", "aside", "cleared"}

LEMMA UnparkSteps ==
    ASSUME IInv, [Next]_vars, NEW k \in Keys, Unparking(job'[k])
    PROVE  \/ /\ Unparking(job[k])
              /\ job'[k].gen = job[k].gen /\ job'[k].in = job[k].in
           \/ \E c \in Colls : AdmitUnpark(k, c)
<1> DEFINE Goal == \/ /\ Unparking(job[k])
                      /\ job'[k].gen = job[k].gen /\ job'[k].in = job[k].in
                   \/ \E c \in Colls : AdmitUnpark(k, c)
<1> USE OfType DEF Unparking
<1>0. job \in [Keys -> Job] /\ ~ Unparking(Idle)
  BY DEF IInv, TypeOK, Idle
<1>1. ASSUME job'[k] = job[k] PROVE Goal
  BY <1>1
<1>2. ASSUME RecordStep PROVE Goal
  BY <1>1, <1>2 DEF RecordStep, DeclareBaseline, Commit, Rollback, Accept, WindowPasses,
     RenewQuiesce, DeclareCandidate, RecordReceipt
<1>3. ASSUME NEW s \in Shadows, ShadowStep(s) PROVE Goal
  <2>1. CASE UNCHANGED job
    BY <1>1, <2>1
  <2>2. ASSUME NEW q \in Keys, NEW j, job' = [job EXCEPT ![q] = j], ~ Unparking(j) PROVE Goal
    BY <1>0, <1>1, <2>2
  <2>3. KeyOf[s] \in Keys
    OBVIOUS
  <2>4. \A q, kind, i, o, pc : kind # "unpark" => ~ Unparking(View(q, kind, i, o, pc))
    BY DEF View
  <2>5. CASE BuildCandidate(s) \/ LoseShadow(s) \/ ReconcilePrior(s)
    BY <2>1, <2>5 DEF BuildCandidate, LoseShadow, ReconcilePrior
  <2>6. CASE StartPromote(s)
    BY <2>2, <2>3, <2>4, <2>6 DEF StartPromote
  <2>7. CASE StartKbBuild(s)
    BY <2>2, <2>3, <2>4, <2>7 DEF StartKbBuild
  <2>8. CASE ReconcileResume(s)
    BY <2>2, <2>3, <2>4, <2>8 DEF ReconcileResume
  <2> QED
    BY <1>3, <2>5, <2>6, <2>7, <2>8 DEF ShadowStep
<1>4. ASSUME NEW q \in Keys, SwapStep(q) PROVE Goal
  <2>1. CASE Admit(q)
    <3>1. job[q].kind # "unpark"
      BY <2>1 DEF Admit
    <3>2. job[q] \in Job
      BY <1>0
    <3>3. CASE q # k
      BY <1>0, <1>1, <2>1, <3>3 DEF Admit
    <3>4. CASE q = k
      <4>0. /\ job'[k] = [job[k] EXCEPT !.pc = "admitted", !.status = rec.status]
            \/ \E c \in Colls : job'[k] = [job[k] EXCEPT !.pc = "admitted", !.out = c,
                                                         !.status = rec.status]
        BY <1>0, <2>1, <3>4 DEF Admit
      <4>1. job'[k].kind = job[k].kind
        <5>1. ASSUME NEW j \in Job, NEW c, NEW x
              PROVE  /\ [j EXCEPT !.pc = "admitted", !.status = x].kind = j.kind
                     /\ [j EXCEPT !.pc = "admitted", !.out = c, !.status = x].kind = j.kind
          BY DEF Job
        <5>2. ASSUME job'[k] = [job[k] EXCEPT !.pc = "admitted", !.status = rec.status]
              PROVE  job'[k].kind = job[k].kind
          BY <3>2, <5>1, <5>2
        <5>3. ASSUME NEW c, job'[k] = [job[k] EXCEPT !.pc = "admitted", !.out = c,
                                                     !.status = rec.status]
              PROVE  job'[k].kind = job[k].kind
          BY <3>2, <5>1, <5>3
        <5> QED
          BY <4>0, <5>2, <5>3
      <4> QED
        BY <3>1, <3>4, <4>1
    <3> QED
      BY <3>3, <3>4
  <2>2. CASE MoveAside(q) \/ FenceAgain(q)
    BY <1>0, <1>1, <2>2 DEF MoveAside, FenceAgain, Job
  <2>3. CASE MoveIn(q)
    BY <1>0, <1>1, <2>3 DEF MoveIn, Job
  <2>4. CASE GiveUp(q) \/ Restore(q) \/ Interrupt(q) \/ Complete(q) \/ RecordNothingToUnpark(q)
    BY <1>0, <1>1, <2>4 DEF GiveUp, Restore, Interrupt, Complete, RecordNothingToUnpark
  <2>5. CASE q \in KbKeys /\ (ResumeKbBuild(q) \/ DiscardKbShadow(q))
    BY <1>0, <1>1, <2>5 DEF ResumeKbBuild, DiscardKbShadow, View
  <2>6. CASE \E c \in Colls : AdmitUnpark(q, c)
    BY <1>0, <1>1, <2>6 DEF AdmitUnpark
  <2> QED
    BY <1>4, <2>1, <2>2, <2>3, <2>4, <2>5, <2>6 DEF SwapStep
<1>5. ASSUME UNCHANGED vars PROVE Goal
  BY SMTT(30), <1>1, <1>5
<1> QED
  BY <1>2, <1>3, <1>4, <1>5 DEF Next

LEMMA UnprovenGrows == [Next]_vars => unproven \subseteq unproven'
BY DEF Next, RecordStep, ShadowStep, SwapStep, DeclareBaseline, Commit, Rollback, Accept,
   WindowPasses, RenewQuiesce, DeclareCandidate, RecordReceipt, BuildCandidate, StartPromote,
   StartKbBuild, LoseShadow, ReconcileResume, ReconcilePrior, Admit, GiveUp, MoveAside,
   FenceAgain, MoveIn, Restore, Interrupt, Complete, RecordNothingToUnpark, AdmitUnpark,
   ResumeKbBuild, DiscardKbShadow

\* When an un-park moves aside what is served, what it restores is kept.
LEMMA FallbackStays ==
    ASSUME IInv, Fallback, [Next]_vars, NEW k \in Keys, NEW c \in Colls, Keeps(k, c)
    PROVE  \/ Keeps(k, c)' /\ gen'[c] = gen[c]
           \/ /\ k \notin rec.promoted
              /\ \E d \in Colls : Keeps(k, d)' /\ gen'[d] = Prior
<1>1. CASE ~ Shelved(k, c)
  BY <1>1, KeepersStay
<1>2. CASE Shelved(k, c)
  <2> DEFINE d == job[k].in
  <2>1. job[k].pc = "admitted" /\ job[k].kind = "unpark" /\ c = job[k].out
    BY <1>2 DEF Shelved, MoveAside
  <2>2. d \in Colls /\ Of(d) = k /\ Parked(d)
    BY <2>1, OfType DEF IInv, KeyInv, HandsOK, PlacesOK
  <2>3. gen[d] = Prior /\ k \notin rec.promoted
    BY <2>1 DEF Fallback, UnparkOK
  <2>4. c # None
    BY OfType
  <2>5. Serves(k, c)
    BY <2>1, <2>4 DEF IInv, KeyInv, PlacesOK
  <2>6. d # c
    BY <2>2, <2>5, PlaceNames DEF Serves, Parked
  <2>7. Keeps(k, d) /\ ~ Shelved(k, d)
    BY <2>1, <2>2, <2>6 DEF Keeps, Shelved
  <2> QED
    BY <2>2, <2>3, <2>7, KeepersStay
<1> QED
  BY <1>1, <1>2

LEMMA FallbackNext == IInv /\ Fallback /\ [Next]_vars => Fallback'
<1> SUFFICES ASSUME IInv, Fallback, [Next]_vars PROVE Fallback'
  OBVIOUS
<1>1. rec'.status = "rolled-back" => rec'.promoted = {}
  <2>1. CASE Keys = {}
    <3>1. rec'.promoted \subseteq Keys
      BY NextHolds DEF IInv, TypeOK, Record
    <3> QED
      BY <2>1, <3>1
  <2>2. ASSUME NEW k \in Keys PROVE rec'.status = "rolled-back" => rec'.promoted = {}
    BY PriorSteps
  <2> QED
    BY <2>1, <2>2
<1>2. ASSUME NEW k \in Keys PROVE FallbackOK(k)'
  <2> SUFFICES ASSUME k \notin unproven'
               PROVE  /\ \E c \in Colls : Keeps(k, c)' /\ gen'[c] = Prior'
                      /\ k \in rec'.promoted =>
                            \E c \in Colls : Keeps(k, c)' /\ gen'[c] = rec'.elected
    BY DEF FallbackOK
  <2>1. k \notin unproven
    BY UnprovenGrows
  <2>2. PICK c \in Colls : Keeps(k, c) /\ gen[c] = Prior
    BY <2>1 DEF Fallback, FallbackOK
  <2>3. \E d \in Colls : Keeps(k, d)' /\ gen'[d] = Prior
    BY <2>2, FallbackStays
  <2>4. ASSUME k \in rec.promoted
        PROVE  \E d \in Colls : Keeps(k, d)' /\ gen'[d] = rec.elected
    <3>1. PICK d \in Colls : Keeps(k, d) /\ gen[d] = rec.elected
      BY <2>1, <2>4 DEF Fallback, FallbackOK
    <3> QED
      BY <2>4, <3>1, FallbackStays
  <2>5. CASE Accept
    BY <2>4, <2>5 DEF Accept, Prior, IInv, TypeOK, Record
  <2>6. CASE Complete(k) /\ Prior' = Prior /\ rec'.elected = rec.elected
    <3>1. CASE k \in rec.promoted
      BY <2>3, <2>4, <2>6, <3>1
    <3>2. CASE k \notin rec.promoted /\ k \in rec'.promoted
      <4> DEFINE j == job[k]
      <4>0. PICK d : d = j.in
        OBVIOUS
      <4>1. /\ j.pc = "landed" /\ j.epoch = rec.epoch /\ j.kind # "unpark"
            /\ UNCHANGED <<gen, place>>
        BY <2>6, <3>2 DEF Complete, RecordCompletion, IInv, TypeOK, Record
      <4>2. Serves(k, j.in) /\ gen[j.in] = j.gen /\ j.gen = rec.elected
        BY <2>1, <4>1 DEF IInv, KeyInv, PlacesOK, DeclaredOK, ViewOK
      <4>3. d \in Colls
        BY <4>0, <4>1 DEF IInv, KeyInv, HandsOK
      <4>4. Keeps(k, d)' /\ gen'[d] = rec.elected
        BY <4>0, <4>1, <4>2 DEF Keeps, Serves
      <4> QED
        BY <2>3, <2>6, <4>3, <4>4
    <3> QED
      BY <2>3, <2>6, <3>1, <3>2
  <2>7. CASE /\ Prior' = Prior
             /\ \/ k \notin rec'.promoted
                \/ k \in rec.promoted /\ rec'.elected = rec.elected
    BY <2>3, <2>4, <2>7
  <2> QED
    BY <2>5, <2>6, <2>7, PriorSteps DEF RecordSteps
<1>3. ASSUME NEW k \in Keys PROVE UnparkOK(k)'
  <2> SUFFICES ASSUME Unparking(job'[k])
               PROVE  /\ job'[k].gen = Prior' /\ k \notin rec'.promoted
                      /\ gen'[job'[k].in] = job'[k].gen
    BY DEF UnparkOK, Unparking
  <2>1. ASSUME NEW c \in Colls, AdmitUnpark(k, c)
        PROVE  /\ job'[k].gen = Prior' /\ k \notin rec'.promoted
               /\ gen'[job'[k].in] = job'[k].gen
    <3>1. /\ rec.status = "rolled-back" /\ gen[c] = rec.elected /\ UNCHANGED <<rec, gen>>
          /\ job'[k].in = c /\ job'[k].gen = rec.elected
      BY <2>1 DEF AdmitUnpark, View, IInv, TypeOK
    <3> QED
      BY <3>1 DEF Fallback, Prior
  <2>2. ASSUME Unparking(job[k]), job'[k].gen = job[k].gen, job'[k].in = job[k].in
        PROVE  /\ job'[k].gen = Prior' /\ k \notin rec'.promoted
               /\ gen'[job'[k].in] = job'[k].gen
    <3> DEFINE d == job[k].in
    <3>1. job[k].gen = Prior /\ k \notin rec.promoted /\ gen[d] = job[k].gen
      BY <2>2 DEF Fallback, UnparkOK, Unparking
    <3>2. d \in Colls /\ Of(d) = k /\ Parked(d)
      BY <2>2 DEF IInv, KeyInv, HandsOK, PlacesOK, Unparking
    <3>3. gen'[d] = gen[d]
      BY <3>2, KeepersStay DEF Keeps
    <3>4. ~ Accept
      BY <3>1 DEF Accept
    <3>5. ~ Complete(k)
      BY <2>2 DEF Complete, Unparking
    <3>6. Prior' = Prior /\ k \notin rec'.promoted
      BY <3>1, <3>4, <3>5, PriorSteps DEF RecordSteps
    <3> QED
      BY <2>2, <3>1, <3>3, <3>6
  <2> QED
    BY <2>1, <2>2, UnparkSteps
<1> QED
  BY <1>1, <1>2, <1>3 DEF Fallback

LEMMA FallbackInit == Init => Fallback
<1> SUFFICES ASSUME Init PROVE Fallback
  OBVIOUS
<1>1. ASSUME NEW k \in Keys PROVE FallbackOK(k) /\ UnparkOK(k)
  <2>1. k \in Colls /\ Keeps(k, k) /\ gen[k] = Prior
    BY OfType DEF Init, Keeps, Serves, Prior
  <2>2. k \notin rec.promoted /\ job[k].kind # "unpark"
    BY DEF Init, Idle
  <2> QED
    BY <2>1, <2>2 DEF FallbackOK, UnparkOK
<1> QED
  BY <1>1 DEF Init, Fallback

\* The generation the plane can fall back on is never lost, whatever order
\* commits, rollbacks, promotes, un-parks and interruptions come in
\* (electionGatedPromote.mjs:59-267): of every collection one of that generation
\* is served or has a parking name.
THEOREM FallbackIsKept == Spec => []PriorIsKept
<1>1. Spec => []Fallback
  BY FallbackInit, FallbackNext, ElectionInvariant, PTL DEF Spec
<1>2. Fallback => PriorIsKept
  BY DEF Fallback, FallbackOK, PriorIsKept, Keeps
<1> QED
  BY <1>1, <1>2, PTL

=============================================================================
