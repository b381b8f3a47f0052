------------------------- MODULE GenerationElection -------------------------
(***************************************************************************)
(* The election record that decides which embedding generation the vector  *)
(* plane serves (src/ai/services/shared/vector/generationElectionStore.mjs) *)
(* together with the renames it admits: the promote, the un-park and the   *)
(* reconcile of electionGatedPromote.mjs in the same directory, and the    *)
(* shadow swap of the knowledge base with its own fence and its resume     *)
(* marker (src/ai/services/knowledge-base/VectorService.mjs).              *)
(*                                                                         *)
(* The vector store cannot exchange two names, so a swap is two renames:   *)
(* the served collection to a parking name, then the shadow to the         *)
(* canonical name.  The record is another file, changed by other           *)
(* processes: a commit or a rollback can come between any two steps of a   *)
(* swap, and so can the death of the process.                              *)
(*                                                                         *)
(* A mutation of the record is one step: serializeMutation runs it inside  *)
(* the lifecycle guard of module LifecycleGuard and requireRecord compares *)
(* the epoch the caller has read.                                          *)
(***************************************************************************)
EXTENDS Naturals

CONSTANTS
    Keys,        \* the collections of the plane; each names its original live corpus
    KbKeys,      \* those promoted by the shadow swap of VectorService as well
    Shadows,     \* the collections that builds create, one name each
    KeyOf,       \* KeyOf[s]: the collection that shadow s is built for
    Generations, \* the embedding generations
    Baseline,    \* the generation the plane holds before any record exists
    None,        \* no collection, no generation
    MaxEpoch     \* bound on commits and rollbacks

ASSUME ElectionAssumption ==
    /\ KbKeys \subseteq Keys
    /\ KeyOf \in [Shadows -> Keys]
    /\ Keys \cap Shadows = {}
    /\ Baseline \in Generations
    /\ None \notin Keys \cup Shadows \cup Generations
    /\ {"unbuilt", "shadow", "canonical", "parked", "abandoned", "gone"} \cap Shadows = {}
    /\ MaxEpoch \in Nat

VARIABLES
    rec,         \* the election record
    gen,         \* gen[c]: the generation the vectors of collection c were made with
    place,       \* place[c]: the kind of name collection c has
    job,         \* job[k]: the swap that is working on collection k
    marker,      \* marker[k]: the shadow the resume marker of a knowledge base names
    interrupted, \* the promotes and un-parks that died, or could not restore, between renames
    unproven     \* history: collections given a shadow of another generation than the fenced view's

vars == <<rec, gen, place, job, marker, interrupted, unproven>>

Colls == Keys \cup Shadows
Of(c) == IF c \in Keys THEN c ELSE KeyOf[c]

(***************************************************************************)
(* A collection is not built yet, is under its own shadow name, serves the *)
(* canonical name, was moved aside by an un-park, or was discarded.  A     *)
(* shadow s as the place of c says: c has the parking name of the latest   *)
(* promote of s; "parked" is the parking name of an earlier one.           *)
(***************************************************************************)
Places == {"unbuilt", "shadow", "canonical", "parked", "abandoned", "gone"} \cup Shadows

Serves(k, c) == Of(c) = k /\ place[c] = "canonical"
Served(k) == \E c \in Colls : Serves(k, c)
Parked(c) == place[c] \in Shadows \cup {"parked"}

Statuses == {"missing", "accepted", "candidate", "committed", "rolled-back"}

Record ==
    [status : Statuses, epoch : Nat, elected : Generations,
     candidate : Generations \cup {None}, parked : Generations \cup {None},
     rolledBack : Generations \cup {None}, quiesce : {"none", "before", "open", "closed"},
     receipts : SUBSET Keys, promoted : SUBSET Keys, unparked : SUBSET Keys]

(***************************************************************************)
(* A swap moves collection out aside and collection in to the canonical    *)
(* name.  epoch and gen are the captured view, and the epoch of the legacy *)
(* view is 0; status is the electionStatus of its admission.               *)
(***************************************************************************)
Job ==
    [pc : {"idle", "built", "admitted", "aside", "cleared", "landed"},
     kind : {"none", "kb", "promote", "unpark", "resume"},
     in : Colls \cup {None}, out : Colls \cup {None},
     epoch : Nat, gen : Generations, status : Statuses]

Idle == [pc |-> "idle", kind |-> "none", in |-> None, out |-> None,
         epoch |-> 0, gen |-> Baseline, status |-> "missing"]

TypeOK ==
    /\ rec \in Record
    /\ gen \in [Colls -> Generations]
    /\ place \in [Colls -> Places]
    /\ job \in [Keys -> Job]
    /\ marker \in [KbKeys -> Shadows \cup {None}]
    /\ interrupted \subseteq Colls
    /\ unproven \subseteq Keys

Init ==
    /\ rec = [status |-> "missing", epoch |-> 0, elected |-> Baseline, candidate |-> None,
              parked |-> None, rolledBack |-> None, quiesce |-> "none",
              receipts |-> {}, promoted |-> {}, unparked |-> {}]
    /\ gen = [c \in Colls |-> Baseline]
    /\ place = [c \in Colls |-> IF c \in Keys THEN "canonical" ELSE "unbuilt"]
    /\ job = [k \in Keys |-> Idle]
    /\ marker = [k \in KbKeys |-> None]
    /\ interrupted = {}
    /\ unproven = {}

-----------------------------------------------------------------------------
(* The record. *)

InTransition == rec.status \in {"committed", "rolled-back"}

DeclareBaseline ==
    /\ rec.status = "missing"
    /\ rec' = [rec EXCEPT !.status = "accepted", !.epoch = 1]
    /\ UNCHANGED <<gen, place, job, marker, interrupted, unproven>>

DeclareCandidate(g) ==
    /\ \/ rec.status = "accepted"
       \/ rec.status = "rolled-back" /\ rec.unparked = Keys
    /\ g # rec.elected
    /\ rec' = [rec EXCEPT !.status = "candidate", !.candidate = g, !.rolledBack = None,
                          !.quiesce = "none", !.receipts = {}, !.promoted = {}, !.unparked = {}]
    /\ UNCHANGED <<gen, place, job, marker, interrupted, unproven>>

\* The receipt names a validated collection of the candidate generation.
RecordReceipt(s) ==
    /\ rec.status = "candidate"
    /\ place[s] = "shadow" /\ gen[s] = rec.candidate
    /\ rec' = [rec EXCEPT !.receipts = @ \cup {KeyOf[s]}]
    /\ UNCHANGED <<gen, place, job, marker, interrupted, unproven>>

\* The declared window may begin later.
Commit ==
    /\ rec.status = "candidate" /\ rec.receipts = Keys
    /\ rec.epoch < MaxEpoch
    /\ \E w \in {"before", "open"} :
         rec' = [rec EXCEPT !.status = "committed", !.epoch = @ + 1, !.parked = rec.elected,
                            !.elected = rec.candidate, !.candidate = None, !.quiesce = w]
    /\ UNCHANGED <<gen, place, job, marker, interrupted, unproven>>

\* Mutant of Rollback: the code's generation is rolled back, the record's is not.
RollbackStatusOnly ==
    /\ rec.status = "committed"
    /\ rec.epoch < MaxEpoch
    /\ \E w \in {"before", "open"} :
         rec' = [rec EXCEPT !.status = "rolled-back", !.epoch = @ + 1, !.rolledBack = rec.parked,
                            !.parked = None, !.quiesce = w, !.promoted = {}, !.unparked = {}]
    /\ UNCHANGED <<gen, place, job, marker, interrupted, unproven>>

Rollback ==
    /\ rec.status = "committed"
    /\ rec.epoch < MaxEpoch
    /\ \E w \in {"before", "open"} :
         rec' = [rec EXCEPT !.status = "rolled-back", !.epoch = @ + 1, !.rolledBack = rec.elected,
                            !.elected = rec.parked, !.parked = None, !.quiesce = w,
                            !.promoted = {}, !.unparked = {}]
    /\ UNCHANGED <<gen, place, job, marker, interrupted, unproven>>

\* Mutant of Accept: the status is not advanced.
AcceptKeepsStatus ==
    /\ rec.status = "committed" /\ rec.promoted = Keys
    /\ rec' = [rec EXCEPT !.parked = None, !.quiesce = "none"]
    /\ UNCHANGED <<gen, place, job, marker, interrupted, unproven>>

\* Mutant of Accept: it does not wait for every promote.
AcceptEarly ==
    /\ rec.status = "committed" /\ rec.promoted # {}
    /\ rec' = [rec EXCEPT !.status = "accepted", !.parked = None, !.quiesce = "none"]
    /\ UNCHANGED <<gen, place, job, marker, interrupted, unproven>>

Accept ==
    /\ rec.status = "committed" /\ rec.promoted = Keys
    /\ rec' = [rec EXCEPT !.status = "accepted", !.parked = None, !.quiesce = "none"]
    /\ UNCHANGED <<gen, place, job, marker, interrupted, unproven>>

\* Time enters the declared window, or leaves it.
WindowPasses ==
    /\ \/ rec.quiesce = "before" /\ rec' = [rec EXCEPT !.quiesce = "open"]
       \/ rec.quiesce = "open" /\ rec' = [rec EXCEPT !.quiesce = "closed"]
    /\ UNCHANGED <<gen, place, job, marker, interrupted, unproven>>

RenewQuiesce ==
    /\ InTransition
    /\ \E w \in {"before", "open"} : rec' = [rec EXCEPT !.quiesce = w]
    /\ UNCHANGED <<gen, place, job, marker, interrupted, unproven>>

-----------------------------------------------------------------------------
(* Views and the fence. *)

WindowAllows == InTransition => rec.quiesce = "open"

\* The captured view of job j is the record's, and a transition rename is in the window.
Admissible(j) == j.epoch = rec.epoch /\ j.gen = rec.elected /\ WindowAllows

View(k, kind, in, out, pc) ==
    [pc |-> pc, kind |-> kind, in |-> in, out |-> out,
     epoch |-> rec.epoch, gen |-> rec.elected, status |-> rec.status]

-----------------------------------------------------------------------------
(* Building shadows. *)

\* The runner builds the candidate's collection before the commit.
BuildCandidate(s) ==
    /\ rec.status = "candidate" /\ place[s] = "unbuilt"
    /\ gen' = [gen EXCEPT ![s] = rec.candidate]
    /\ place' = [place EXCEPT ![s] = "shadow"]
    /\ UNCHANGED <<rec, job, marker, interrupted, unproven>>

\* A runner captures its view and builds a refresh under it, or takes a shadow
\* it knows to be of the elected generation.
StartPromote(s) ==
    LET k == KeyOf[s] IN
    /\ job[k].pc = "idle"
    /\ \/ place[s] = "unbuilt" /\ gen' = [gen EXCEPT ![s] = rec.elected]
       \/ place[s] = "shadow" /\ gen[s] = rec.elected /\ UNCHANGED gen
    /\ place' = [place EXCEPT ![s] = "shadow"]
    /\ job' = [job EXCEPT ![k] = View(k, "promote", s, None, "built")]
    /\ UNCHANGED <<rec, marker, interrupted, unproven>>

\* The knowledge base resolves its live collection, captures its view, and
\* builds a shadow that its resume marker names beforehand.
StartKbBuild(s) ==
    LET k == KeyOf[s] IN
    /\ k \in KbKeys /\ job[k].pc = "idle" /\ place[s] = "unbuilt"
    /\ marker[k] = None
    /\ gen' = [gen EXCEPT ![s] = rec.elected]
    /\ place' = [place EXCEPT ![s] = "shadow"]
    /\ \E c \in Colls :
         /\ Serves(k, c)
         /\ job' = [job EXCEPT ![k] = View(k, "kb", s, c, "built")]
    /\ marker' = [marker EXCEPT ![k] = s]
    /\ UNCHANGED <<rec, interrupted, unproven>>

\* A later embed resumes the shadow of the marker: the fingerprint it compares
\* is of the chunk ids, and the view is captured anew.
ResumeKbBuild(k) ==
    /\ job[k].pc = "idle" /\ marker[k] # None
    /\ place[marker[k]] = "shadow"
    /\ \E c \in Colls :
         /\ Serves(k, c)
         /\ job' = [job EXCEPT ![k] = View(k, "kb", marker[k], c, "built")]
    /\ UNCHANGED <<rec, gen, place, marker, interrupted, unproven>>

\* The corpus has drifted or the attempts are used up: the marked shadow is set aside.
DiscardKbShadow(k) ==
    /\ job[k].pc = "idle" /\ marker[k] # None /\ Served(k)
    /\ place' = [place EXCEPT ![marker[k]] = IF @ = "shadow" THEN "gone" ELSE @]
    /\ marker' = [marker EXCEPT ![k] = None]
    /\ UNCHANGED <<rec, gen, job, interrupted, unproven>>

\* The collection of an interrupted promote is deleted by hand.
LoseShadow(s) ==
    /\ s \in interrupted /\ place[s] = "shadow" /\ job[KeyOf[s]].pc = "idle"
    /\ place' = [place EXCEPT ![s] = "gone"]
    /\ UNCHANGED <<rec, gen, job, marker, interrupted, unproven>>

-----------------------------------------------------------------------------
(* The two renames. *)

\* The fence, then what the helper looks up: live and shadow are there, the
\* parking name is free.  The knowledge base renames the collection it resolved.
Admit(k) ==
    LET j == job[k] IN
    /\ j.pc = "built" /\ Admissible(j)
    /\ \/ /\ j.kind = "promote" /\ place[j.in] = "shadow"
          /\ \A c \in Colls : place[c] # j.in
          /\ \E c \in Colls :
               /\ Serves(k, c)
               /\ job' = [job EXCEPT ![k] = [j EXCEPT !.pc = "admitted", !.out = c,
                                                      !.status = rec.status]]
       \/ /\ j.kind = "kb"
          /\ job' = [job EXCEPT ![k] = [j EXCEPT !.pc = "admitted", !.status = rec.status]]
    /\ UNCHANGED <<rec, gen, place, marker, interrupted, unproven>>

\* An un-park takes its view after the rollback and restores a parked
\* collection of the generation re-elected; what is served moves aside.
AdmitUnpark(k, c) ==
    /\ job[k].pc = "idle"
    /\ rec.status = "rolled-back" /\ WindowAllows
    /\ Of(c) = k /\ Parked(c) /\ gen[c] = rec.elected
    /\ \/ /\ ~ Served(k)
          /\ job' = [job EXCEPT ![k] = View(k, "unpark", c, None, "admitted")]
       \/ \E d \in Colls :
            /\ Serves(k, d) /\ gen[d] # rec.elected
            /\ job' = [job EXCEPT ![k] = View(k, "unpark", c, d, "admitted")]
    /\ UNCHANGED <<rec, gen, place, marker, interrupted, unproven>>

\* The build fails or yields, the fence or a precondition refuses, the process dies.
GiveUp(k) ==
    /\ job[k].pc \in {"built", "admitted"}
    /\ job' = [job EXCEPT ![k] = Idle]
    /\ UNCHANGED <<rec, gen, place, marker, interrupted, unproven>>

\* Every attempt of the knowledge base has a parking name of its own.
MoveAside(k) ==
    LET j == job[k]
        aside == IF j.kind = "unpark" THEN "abandoned" ELSE j.in
    IN
    /\ j.pc = "admitted"
    /\ place' = [c \in Colls |-> IF c = j.out THEN aside
                                ELSE IF j.kind = "kb" /\ place[c] = j.in THEN "parked"
                                ELSE place[c]]
    /\ job' = [job EXCEPT ![k] = [j EXCEPT !.pc = "aside"]]
    /\ UNCHANGED <<rec, gen, marker, interrupted, unproven>>

\* The helper asserts its view a second time.
FenceAgain(k) ==
    LET j == job[k] IN
    /\ j.pc = "aside" /\ j.kind # "kb" /\ Admissible(j)
    /\ job' = [job EXCEPT ![k] = [j EXCEPT !.pc = "cleared"]]
    /\ UNCHANGED <<rec, gen, place, marker, interrupted, unproven>>

\* Once the name is served again nothing of k is interrupted.
Settled(k) == {i \in interrupted : Of(i) # k}

MoveIn(k) ==
    LET j == job[k] IN
    /\ j.pc = "cleared" \/ (j.pc = "aside" /\ j.kind = "kb")
    /\ ~ Served(k)
    /\ place' = [place EXCEPT ![j.in] = "canonical"]
    /\ job' = [job EXCEPT ![k] = [j EXCEPT !.pc = "landed"]]
    /\ interrupted' = Settled(k)
    /\ unproven' = IF gen[j.in] # j.gen THEN unproven \cup {k} ELSE unproven
    /\ UNCHANGED <<rec, gen, marker>>

\* Mutant of Restore: the refusal is thrown without restoring.
RestoreNothing(k) ==
    LET j == job[k] IN
    /\ j.pc \in {"aside", "cleared"} /\ j.out # None
    /\ job' = [job EXCEPT ![k] = Idle]
    /\ UNCHANGED <<rec, gen, place, marker, interrupted, unproven>>

\* The second fence refuses or the second rename fails: what was moved aside
\* gets the canonical name back.
Restore(k) ==
    LET j == job[k] IN
    /\ j.pc \in {"aside", "cleared"} /\ j.out # None
    /\ ~ Served(k)
    /\ place' = [place EXCEPT ![j.out] = "canonical"]
    /\ job' = [job EXCEPT ![k] = Idle]
    /\ UNCHANGED <<rec, gen, marker, interrupted, unproven>>

\* The process dies between the renames, or the restoring rename fails as well,
\* or there is nothing to restore.
Interrupt(k) ==
    LET j == job[k] IN
    /\ j.pc \in {"aside", "cleared"}
    /\ interrupted' = interrupted \cup {IF j.kind = "unpark" THEN k ELSE j.in}
    /\ job' = [job EXCEPT ![k] = Idle]
    /\ UNCHANGED <<rec, gen, place, marker, unproven>>

\* What the admission of swap j of k entitles it to report.
RecordCompletion(k, j) ==
    /\ j.epoch = rec.epoch /\ j.status = rec.status
    /\ \/ /\ j.kind # "unpark" /\ j.status = "committed"
          /\ rec' = [rec EXCEPT !.promoted = @ \cup {k}]
       \/ /\ j.kind = "unpark" /\ j.status = "rolled-back"
          /\ rec' = [rec EXCEPT !.unparked = @ \cup {k}]

\* The knowledge base clears its marker; then the completion is reported under
\* the epoch of the admission.  It may be refused or lost, and the process may
\* die before either: the rename stays.
Complete(k) ==
    LET j == job[k] IN
    /\ j.pc = "landed"
    /\ \/ /\ marker' = IF j.kind = "kb" THEN [marker EXCEPT ![k] = None] ELSE marker
          /\ RecordCompletion(k, j) \/ UNCHANGED rec
       \/ UNCHANGED <<rec, marker>>
    /\ job' = [job EXCEPT ![k] = Idle]
    /\ UNCHANGED <<gen, place, interrupted, unproven>>

\* The runner records a collection whose promote never ran.
RecordNothingToUnpark(k) ==
    /\ rec.status = "rolled-back" /\ job[k].pc \in {"idle", "built"}
    /\ \E c \in Colls : Serves(k, c) /\ gen[c] = rec.elected
    /\ rec' = [rec EXCEPT !.unparked = @ \cup {k}]
    /\ UNCHANGED <<gen, place, job, marker, interrupted, unproven>>

-----------------------------------------------------------------------------
(* The restart path.  When the canonical name is served it changes nothing. *)

\* The shadow is resumed under the view the restarted process captures.
ReconcileResume(s) ==
    LET k == KeyOf[s] IN
    /\ s \in interrupted /\ ~ Served(k) /\ job[k].pc = "idle"
    /\ place[s] = "shadow" /\ WindowAllows
    /\ job' = [job EXCEPT ![k] = View(k, "resume", s, None, "cleared")]
    /\ UNCHANGED <<rec, gen, place, marker, interrupted, unproven>>

\* The shadow is gone: what the promote parked is served again, unfenced.
ReconcilePrior(s) ==
    LET k == KeyOf[s] IN
    /\ s \in interrupted /\ ~ Served(k) /\ job[k].pc = "idle"
    /\ place[s] # "shadow"
    /\ \E c \in Colls :
         /\ place[c] = s
         /\ place' = [place EXCEPT ![c] = "canonical"]
    /\ interrupted' = Settled(k)
    /\ UNCHANGED <<rec, gen, job, marker, unproven>>

-----------------------------------------------------------------------------
RecordStep ==
    \/ DeclareBaseline \/ Commit \/ Rollback \/ Accept \/ WindowPasses \/ RenewQuiesce
    \/ \E g \in Generations : DeclareCandidate(g)
    \/ \E s \in Shadows : RecordReceipt(s)

ShadowStep(s) ==
    \/ BuildCandidate(s) \/ StartPromote(s) \/ StartKbBuild(s) \/ LoseShadow(s)
    \/ ReconcileResume(s) \/ ReconcilePrior(s)

SwapStep(k) ==
    \/ Admit(k) \/ GiveUp(k) \/ MoveAside(k) \/ FenceAgain(k) \/ MoveIn(k)
    \/ Restore(k) \/ Interrupt(k) \/ Complete(k) \/ RecordNothingToUnpark(k)
    \/ \E c \in Colls : AdmitUnpark(k, c)
    \/ k \in KbKeys /\ (ResumeKbBuild(k) \/ DiscardKbShadow(k))

Next ==
    \/ RecordStep
    \/ \E s \in Shadows : ShadowStep(s)
    \/ \E k \in Keys : SwapStep(k)

Spec == Init /\ [][Next]_vars

-----------------------------------------------------------------------------
(* Properties. *)

\* What a canonical name serves is what the record declares: the elected
\* generation in a settled plane, the elected or the one it replaces during a
\* transition, and the elected one as soon as the collection's completion is
\* recorded.  Excepted are the collections in unproven.
DeclaredAs(g, k) ==
    \/ g = rec.elected
    \/ rec.status = "committed" /\ g = rec.parked /\ k \notin rec.promoted
    \/ rec.status = "rolled-back" /\ g = rec.rolledBack /\ k \notin rec.unparked

ServedIsDeclared ==
    \A k \in Keys \ unproven : \A c \in Colls : Serves(k, c) => DeclaredAs(gen[c], k)

\* A canonical name that nothing serves while no swap is between its renames
\* was left so by an interruption, whose parking name still holds a collection
\* to serve: the last error of the reconcile never happens.
OutageIsRecoverable ==
    \A k \in Keys :
        ~ Served(k) /\ job[k].pc \notin {"aside", "cleared"} =>
            \E i \in interrupted, c \in Colls :
                /\ Of(i) = k /\ Of(c) = k
                /\ IF i \in Keys THEN Parked(c) ELSE place[c] = i

\* The generation the plane can fall back on, the parked one while a commit is
\* not accepted and the elected one otherwise, is never lost: of each collection
\* one of that generation is served or has a parking name, in the middle of a
\* swap and after any interruption.
Prior == IF rec.status = "committed" THEN rec.parked ELSE rec.elected

PriorIsKept ==
    \A k \in Keys \ unproven : \E c \in Colls :
        Of(c) = k /\ gen[c] = Prior /\ (Serves(k, c) \/ Parked(c))

\* "a generation commit or rollback landing mid-build fences this writer out
\* instead of letting a corpus built under the old view advertise into the new
\* generation" (VectorService.mjs:2125-2127).
OldBuildsStayOut ==
    \A k \in Keys :
        job[k].kind = "kb" /\ job[k].pc = "landed" => gen[job[k].in] = job[k].gen

=============================================================================
