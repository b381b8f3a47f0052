------------------------ MODULE LifecycleGuard_proofs ------------------------
(***************************************************************************)
(* Safety of the directory mutex for any number of entrants, any set of    *)
(* tokens and any attempt bound.                                           *)
(***************************************************************************)
EXTENDS LifecycleGuard, TLAPS

\* A staged directory and a guard entry are the only places an entrant's
\* token is kept.
TokenKept ==
    \A p \in Entrant :
        token[p] # NoToken <=> pc[p] \in {"staged", "inside", "proved", "done"}

\* crypto.randomUUID: no two entrants ever go by the same token.
TokensDiffer ==
    \A p, q \in Entrant : (p # q /\ token[p] # NoToken) => token[p] # token[q]

StagedIsPrivate == \A p \in Entrant : pc[p] = "staged" => token[p] \notin files

\* Why the steal is identity-safe: what a thief is about to unlink was judged
\* stale under its own name, and the name is never used again.
StolenIsOld == \A p \in Entrant : pc[p] = "stealing" => observed[p] \subseteq old

\* Whoever lost its entry while inside had stalled.
EvictedIsOld ==
    \A p \in Entrant : Inside(p) => token[p] \in files \cup old

\* The inductive invariant: OverlapNeedsStall is its consequence, but alone
\* it says nothing of a thief between its stat and its unlink.
IInv ==
    /\ TypeOK
    /\ OneOwner
    /\ TokenKept
    /\ TokensDiffer
    /\ StagedIsPrivate
    /\ StolenIsOld
    /\ EvictedIsOld

USE DEF Labels

LEMMA InitIInv == Init => IInv
<1> SUFFICES ASSUME Init PROVE IInv
  OBVIOUS
<1> USE LifecycleGuardAssumption DEF Init
<1>1. TypeOK
  <2>1. dirExists \in BOOLEAN /\ dirOld \in BOOLEAN
    OBVIOUS
  <2>2. files \in SUBSET Token /\ old \in SUBSET Token
    OBVIOUS
  <2>3. pc \in [Entrant -> Labels] /\ token \in [Entrant -> Token \cup {NoToken}]
    OBVIOUS
  <2>4. observed \in [Entrant -> SUBSET Token]
    OBVIOUS
  <2>5. attempt \in [Entrant -> 0 .. MaxAttempts]
    OBVIOUS
  <2> QED BY <2>1, <2>2, <2>3, <2>4, <2>5 DEF TypeOK
<1>2. OneOwner BY DEF OneOwner
<1>3. TokenKept /\ TokensDiffer BY DEF TokenKept, TokensDiffer
<1>4. StagedIsPrivate /\ StolenIsOld /\ EvictedIsOld
  BY DEF StagedIsPrivate, StolenIsOld, EvictedIsOld, Inside
<1> QED BY <1>1, <1>2, <1>3, <1>4 DEF IInv

\* The actions of one entrant and those of the environment, one by one: the
\* case split every step lemma below makes.
LEMMA StepCases ==
    ASSUME [Next]_vars
    PROVE  \/ \E p \in Entrant :
                 \/ Stage(p) \/ Win(p) \/ Lose(p) \/ Observe(p) \/ Judge(p)
                 \/ StealFile(p) \/ StealDirectory(p) \/ GiveUp(p)
                 \/ Verify(p) \/ Mutate(p) \/ ExitUnlink(p) \/ ExitRmdir(p)
                 \/ Crash(p) \/ Restart(p)
           \/ \E t \in Token : GrowOld(t)
           \/ DirGrowOld
           \/ UNCHANGED vars
BY DEF Next, Contend, Work, Exit

LEMMA TypeStep == TypeOK /\ TokenKept /\ [Next]_vars => TypeOK'
<1> SUFFICES ASSUME TypeOK, TokenKept, [Next]_vars PROVE TypeOK'
  OBVIOUS
<1> USE LifecycleGuardAssumption DEF TypeOK
<1>1. ASSUME NEW p \in Entrant, Stage(p) PROVE TypeOK'
  BY <1>1 DEF Stage
<1>2. ASSUME NEW p \in Entrant, Win(p) PROVE TypeOK'
  <2>1. token[p] \in Token BY <1>2 DEF Win, TokenKept
  <2> QED BY <1>2, <2>1 DEF Win
<1>3. ASSUME NEW p \in Entrant, Lose(p) PROVE TypeOK'
  BY <1>3 DEF Lose
<1>4. ASSUME NEW p \in Entrant, Observe(p) PROVE TypeOK'
  BY <1>4 DEF Observe
<1>5. ASSUME NEW p \in Entrant, Judge(p) PROVE TypeOK'
  BY <1>5 DEF Judge
<1>6. ASSUME NEW p \in Entrant, StealFile(p) PROVE TypeOK'
  <2>1. PICK t \in observed[p] :
           IF t \in files
           THEN /\ files' = files \ {t}
                /\ dirOld' = FALSE
                /\ observed' = [observed EXCEPT ![p] = @ \ {t}]
                /\ UNCHANGED pc
           ELSE /\ pc' = [pc EXCEPT ![p] = "retry"]
                /\ observed' = [observed EXCEPT ![p] = {}]
                /\ UNCHANGED <<files, dirOld>>
    BY <1>6 DEF StealFile
  <2>2. UNCHANGED <<dirExists, old, token, attempt>>
    BY <1>6 DEF StealFile
  <2>3. CASE t \in files
    <3>1. observed[p] \ {t} \in SUBSET Token
      OBVIOUS
    <3>2. /\ observed' = [observed EXCEPT ![p] = observed[p] \ {t}]
          /\ files' = files \ {t} /\ dirOld' = FALSE /\ pc' = pc
      BY <2>1, <2>3
    <3> QED BY <3>1, <3>2, <2>2
  <2>4. CASE t \notin files
    BY <2>1, <2>2, <2>4
  <2> QED BY <2>3, <2>4
<1>7. ASSUME NEW p \in Entrant, StealDirectory(p) PROVE TypeOK'
  BY <1>7 DEF StealDirectory
<1>8. ASSUME NEW p \in Entrant, GiveUp(p) PROVE TypeOK'
  BY <1>8 DEF GiveUp
<1>9. ASSUME NEW p \in Entrant, Verify(p) \/ Mutate(p) PROVE TypeOK'
  BY <1>9 DEF Verify, Mutate
<1>10. ASSUME NEW p \in Entrant, ExitUnlink(p) PROVE TypeOK'
  <2>1. files \ {token[p]} \in SUBSET Token
    OBVIOUS
  <2>2. (dirOld /\ token[p] \notin files) \in BOOLEAN
    OBVIOUS
  <2> QED BY <1>10, <2>1, <2>2 DEF ExitUnlink
<1>11. ASSUME NEW p \in Entrant, ExitRmdir(p) PROVE TypeOK'
  BY <1>11 DEF ExitRmdir
<1>12. ASSUME NEW p \in Entrant, Crash(p) \/ Restart(p) PROVE TypeOK'
  BY <1>12 DEF Crash, Restart
<1>13. ASSUME NEW t \in Token, GrowOld(t) PROVE TypeOK'
  BY <1>13 DEF GrowOld
<1>14. CASE DirGrowOld
  BY <1>14 DEF DirGrowOld
<1>15. CASE UNCHANGED vars
  BY <1>15 DEF vars
<1> QED BY StepCases, <1>1, <1>2, <1>3, <1>4, <1>5, <1>6, <1>7, <1>8, <1>9,
          <1>10, <1>11, <1>12, <1>13, <1>14, <1>15

\* Tokens: an entrant gets a token nobody remembers when it stages and keeps
\* it until it loses, leaves or dies.
LEMMA TokenStep ==
    ASSUME TypeOK, TokenKept, TokensDiffer, [Next]_vars
    PROVE  TokenKept' /\ TokensDiffer'
<1> USE LifecycleGuardAssumption DEF TypeOK, TokenKept, TokensDiffer
<1> DEFINE Goal == TokenKept' /\ TokensDiffer'
<1>1. ASSUME NEW p \in Entrant, Stage(p) PROVE Goal
  BY <1>1 DEF Stage, Unremembered
<1>2. ASSUME NEW p \in Entrant, Win(p) \/ Lose(p) PROVE Goal
  BY <1>2 DEF Win, Lose
<1>3. ASSUME NEW p \in Entrant, Observe(p) \/ Judge(p) \/ GiveUp(p) PROVE Goal
  BY <1>3 DEF Observe, Judge, GiveUp
<1>4. ASSUME NEW p \in Entrant, StealFile(p) PROVE Goal
  BY <1>4 DEF StealFile
<1>5. ASSUME NEW p \in Entrant, StealDirectory(p) PROVE Goal
  BY <1>5 DEF StealDirectory
<1>6. ASSUME NEW p \in Entrant, Verify(p) \/ Mutate(p) PROVE Goal
  BY <1>6 DEF Verify, Mutate
<1>7. ASSUME NEW p \in Entrant, ExitUnlink(p) \/ ExitRmdir(p) PROVE Goal
  BY <1>7 DEF ExitUnlink, ExitRmdir
<1>8. ASSUME NEW p \in Entrant, Crash(p) \/ Restart(p) PROVE Goal
  BY <1>8 DEF Crash, Restart
<1>9. ASSUME NEW t \in Token, GrowOld(t) PROVE Goal
  BY <1>9 DEF GrowOld
<1>10. CASE DirGrowOld BY <1>10 DEF DirGrowOld
<1>11. CASE UNCHANGED vars BY <1>11 DEF vars
<1> QED BY StepCases, <1>1, <1>2, <1>3, <1>4, <1>5, <1>6, <1>7, <1>8, <1>9,
          <1>10, <1>11

\* The directory: a rename fills it only when it was empty, and only with a
\* token that was never in it.
LEMMA DirectoryStep ==
    ASSUME TypeOK, TokenKept, TokensDiffer, OneOwner, StagedIsPrivate, [Next]_vars
    PROVE  OneOwner' /\ StagedIsPrivate'
<1> USE LifecycleGuardAssumption
    DEF TypeOK, TokenKept, TokensDiffer, OneOwner, StagedIsPrivate
<1> DEFINE Goal == OneOwner' /\ StagedIsPrivate'
<1>1. ASSUME NEW p \in Entrant, Stage(p) PROVE Goal
  BY <1>1 DEF Stage, Unremembered
<1>2. ASSUME NEW p \in Entrant, Win(p) PROVE Goal
  BY <1>2 DEF Win
<1>3. ASSUME NEW p \in Entrant, Lose(p) \/ Observe(p) \/ Judge(p) \/ GiveUp(p) PROVE Goal
  BY <1>3 DEF Lose, Observe, Judge, GiveUp
<1>4. ASSUME NEW p \in Entrant, StealFile(p) PROVE Goal
  BY <1>4 DEF StealFile
<1>5. ASSUME NEW p \in Entrant, StealDirectory(p) PROVE Goal
  BY <1>5 DEF StealDirectory
<1>6. ASSUME NEW p \in Entrant, Verify(p) \/ Mutate(p) PROVE Goal
  BY <1>6 DEF Verify, Mutate
<1>7. ASSUME NEW p \in Entrant, ExitUnlink(p) \/ ExitRmdir(p) PROVE Goal
  BY <1>7 DEF ExitUnlink, ExitRmdir
<1>8. ASSUME NEW p \in Entrant, Crash(p) \/ Restart(p) PROVE Goal
  BY <1>8 DEF Crash, Restart
<1>9. ASSUME NEW t \in Token, GrowOld(t) PROVE Goal
  BY <1>9 DEF GrowOld
<1>10. CASE DirGrowOld BY <1>10 DEF DirGrowOld
<1>11. CASE UNCHANGED vars BY <1>11 DEF vars
<1> QED BY StepCases, <1>1, <1>2, <1>3, <1>4, <1>5, <1>6, <1>7, <1>8, <1>9,
          <1>10, <1>11

\* Staleness: a thief holds only names it judged old, an old name stays old
\* until everybody has forgotten it, so an entry it takes away was old.
LEMMA StaleStep ==
    ASSUME TypeOK, TokenKept, TokensDiffer, StolenIsOld, EvictedIsOld, [Next]_vars
    PROVE  StolenIsOld' /\ EvictedIsOld'
<1> USE LifecycleGuardAssumption
    DEF TypeOK, TokenKept, TokensDiffer, StolenIsOld, EvictedIsOld, Inside
<1> DEFINE Goal == StolenIsOld' /\ EvictedIsOld'
<1>1. ASSUME NEW p \in Entrant, Stage(p) PROVE Goal
  BY <1>1 DEF Stage, Unremembered
<1>2. ASSUME NEW p \in Entrant, Win(p) PROVE Goal
  BY <1>2 DEF Win
<1>3. ASSUME NEW p \in Entrant, Lose(p) \/ Observe(p) \/ GiveUp(p) PROVE Goal
  BY <1>3 DEF Lose, Observe, GiveUp
<1>4. ASSUME NEW p \in Entrant, Judge(p) PROVE Goal
  BY <1>4 DEF Judge, FullyStale
<1>5. ASSUME NEW p \in Entrant, StealFile(p) PROVE Goal
  BY <1>5 DEF StealFile
<1>6. ASSUME NEW p \in Entrant, StealDirectory(p) PROVE Goal
  BY <1>6 DEF StealDirectory
<1>7. ASSUME NEW p \in Entrant, Verify(p) \/ Mutate(p) PROVE Goal
  BY <1>7 DEF Verify, Mutate
<1>8. ASSUME NEW p \in Entrant, ExitUnlink(p) \/ ExitRmdir(p) PROVE Goal
  BY <1>8 DEF ExitUnlink, ExitRmdir
<1>9. ASSUME NEW p \in Entrant, Crash(p) \/ Restart(p) PROVE Goal
  BY <1>9 DEF Crash, Restart
<1>10. ASSUME NEW t \in Token, GrowOld(t) PROVE Goal
  BY <1>10 DEF GrowOld
<1>11. CASE DirGrowOld BY <1>11 DEF DirGrowOld
<1>12. CASE UNCHANGED vars BY <1>12 DEF vars
<1> QED BY StepCases, <1>1, <1>2, <1>3, <1>4, <1>5, <1>6, <1>7, <1>8, <1>9,
          <1>10, <1>11, <1>12

\* The inductive invariant holds in every reachable state.
THEOREM Invariance == Spec => []IInv
<1>1. IInv /\ [Next]_vars => IInv'
  BY TypeStep, TokenStep, DirectoryStep, StaleStep DEF IInv
<1> QED BY InitIInv, <1>1, PTL DEF Spec

\* Type correctness, for every number of entrants and attempts.
THEOREM TypeCorrect == Spec => []TypeOK
<1>1. IInv => TypeOK BY DEF IInv
<1> QED BY Invariance, <1>1, PTL

\* The guard directory never carries two owner files, whatever enters, exits,
\* steals and crashes interleave.
THEOREM GuardHasOneOwner == Spec => []OneOwner
<1>1. IInv => OneOwner BY DEF IInv
<1> QED BY Invariance, <1>1, PTL

\* Mutual exclusion up to the documented exposure: two entrants are inside
\* together only if one stalled past guardStaleAfterMs.
THEOREM MutualExclusion == Spec => []OverlapNeedsStall
<1>1. ASSUME IInv, NEW p \in Entrant, NEW q \in Entrant,
             Inside(p), Inside(q), p # q
      PROVE  token[p] \in old \/ token[q] \in old
  <2>1. token[p] # token[q]
    BY <1>1 DEF IInv, TokenKept, TokensDiffer, Inside
  <2>2. ~(token[p] \in files /\ token[q] \in files)
    BY <1>1, <2>1 DEF IInv, OneOwner
  <2> QED BY <1>1, <2>2 DEF IInv, EvictedIsOld
<1>2. IInv => OverlapNeedsStall
  BY <1>1 DEF OverlapNeedsStall
<1> QED BY Invariance, <1>2, PTL

\* No step of a steal or of a late exit consumes an owner file that is
\* neither stale nor the entrant's own.
THEOREM StealsAreIdentitySafe == Spec => OnlyStaleFilesAreStolen
<1> DEFINE A == \A t \in files \ files' :
                   t \in old \/ \E p \in Entrant : token[p] = t /\ ExitUnlink(p)
<1>1. IInv /\ [Next]_vars => A
  <2> SUFFICES ASSUME IInv, [Next]_vars, NEW t \in files, t \notin files'
               PROVE  t \in old \/ \E p \in Entrant : token[p] = t /\ ExitUnlink(p)
    OBVIOUS
  <2>1. ASSUME NEW p \in Entrant, StealFile(p) PROVE t \in old
    BY <2>1 DEF StealFile, IInv, StolenIsOld
  <2>2. ASSUME NEW p \in Entrant, ExitUnlink(p) PROVE token[p] = t
    BY <2>2 DEF ExitUnlink
  <2>3. ASSUME NEW p \in Entrant, Win(p) PROVE FALSE
    BY <2>3 DEF Win
  <2> QED
    BY StepCases, <2>1, <2>2, <2>3
    DEF Stage, Lose, Observe, Judge, StealDirectory, GiveUp, Verify, Mutate,
        ExitRmdir, Crash, Restart, GrowOld, DirGrowOld, vars
<1>2. IInv /\ [Next]_vars => [A]_vars
  BY <1>1
<1> QED BY Invariance, <1>2, PTL DEF Spec, OnlyStaleFilesAreStolen

-----------------------------------------------------------------------------
(***************************************************************************)
(* The directory protocol implements GuardMutex, for every value of the    *)
(* constants: the leases may be specified and proved on top of the mutex.  *)
(***************************************************************************)

\* Without stalls the name of a live entrant never gets old.
LiveIsFresh ==
    ~Stalls => \A p \in Entrant : token[p] # NoToken => token[p] \notin old

LEMMA FreshInvariant == Spec => []LiveIsFresh
<1>1. Init => LiveIsFresh
  BY DEF Init, LiveIsFresh
<1>2. IInv /\ LiveIsFresh /\ [Next]_vars => LiveIsFresh'
  <2> SUFFICES ASSUME IInv, LiveIsFresh, [Next]_vars PROVE LiveIsFresh'
    OBVIOUS
  <2> USE DEF IInv, TypeOK, LiveIsFresh
  <2>1. ASSUME NEW p \in Entrant, Stage(p) PROVE LiveIsFresh'
    BY <2>1 DEF Stage, Unremembered
  <2>2. ASSUME NEW p \in Entrant, Lose(p) \/ ExitUnlink(p) \/ Crash(p) PROVE LiveIsFresh'
    BY <2>2 DEF Lose, ExitUnlink, Crash
  <2>3. ASSUME NEW t \in Token, GrowOld(t) PROVE LiveIsFresh'
    BY <2>3 DEF GrowOld, Orphan
  <2>4. CASE UNCHANGED <<old, token>>
    BY <2>4
  <2> QED
    BY StepCases, <2>1, <2>2, <2>3, <2>4
    DEF Win, Observe, Judge, StealFile, StealDirectory, GiveUp, Verify, Mutate,
        ExitRmdir, Restart, DirGrowOld, vars
<1> QED BY Invariance, <1>1, <1>2, PTL DEF Spec

-----------------------------------------------------------------------------
\* Who owns the guard, before and after a step.
LEMMA OwnerOf ==
    ASSUME OneOwner, TokensDiffer, files \in SUBSET Token,
           NEW p \in Entrant, token[p] \in files
    PROVE  GuardOwner = p
BY LifecycleGuardAssumption DEF GuardOwner, OneOwner, TokensDiffer

LEMMA OwnerOfNext ==
    ASSUME OneOwner', TokensDiffer', files' \in SUBSET Token,
           NEW p \in Entrant, token'[p] \in files'
    PROVE  GuardOwner' = p
BY LifecycleGuardAssumption DEF GuardOwner, OneOwner, TokensDiffer

\* A step that changes neither the directory nor whose token is in it keeps
\* the owner.
LEMMA SameOwner ==
    ASSUME IInv, IInv', files' = files,
           \A q \in Entrant : token'[q] \in files <=> token[q] \in files
    PROVE  GuardOwner' = GuardOwner
<1> USE LifecycleGuardAssumption DEF IInv, TypeOK
<1>1. ASSUME NEW q \in Entrant, token[q] \in files PROVE GuardOwner' = GuardOwner
  BY <1>1, OwnerOf, OwnerOfNext
<1>2. ASSUME \A q \in Entrant : token[q] \notin files PROVE GuardOwner' = GuardOwner
  BY <1>2 DEF GuardOwner
<1> QED BY <1>1, <1>2

\* A step the mutex does not see.
LEMMA Invisible ==
    ASSUME IInv, IInv', files' = files,
           \A q \in Entrant : token'[q] \in files <=> token[q] \in files,
           \A q \in Entrant : Inside(q)' <=> Inside(q),
           old' \cap files = old \cap files
    PROVE  UNCHANGED Mutex!guardVars
<1>1. GuardOwner' = GuardOwner
  BY SameOwner
<1>2. {q \in Entrant : Inside(q)}' = {q \in Entrant : Inside(q)}
  OBVIOUS
<1>3. (files \cap old # {})' = (files \cap old # {})
  OBVIOUS
<1> QED BY <1>1, <1>2, <1>3 DEF Mutex!guardVars

\* A successful rename enters the mutex.
LEMMA WinEnters ==
    ASSUME IInv, IInv', LiveIsFresh, NEW p \in Entrant, Win(p)
    PROVE  Mutex!Enter(p)
<1> USE LifecycleGuardAssumption DEF IInv, TypeOK
<1>1. token[p] \in Token /\ files' = {token[p]} /\ token' = token /\ old' = old /\ files = {}
  BY DEF Win, TokenKept
<1>2. GuardOwner = NoOne
  BY <1>1 DEF GuardOwner
<1>3. GuardOwner' = p
  BY <1>1, OwnerOfNext
<1>4. ~Inside(p) /\ {q \in Entrant : Inside(q)}' = {q \in Entrant : Inside(q)} \cup {p}
  BY DEF Win, Inside
<1>5. (files \cap old # {})' \in (IF Stalls THEN BOOLEAN ELSE {FALSE})
  <2>1. CASE Stalls
    <3>1. (files \cap old # {})' \in BOOLEAN
      OBVIOUS
    <3> QED BY <2>1, <3>1
  <2>2. CASE ~Stalls
    <3>1. token[p] \notin old
      BY <1>1, <2>2 DEF LiveIsFresh
    <3>2. (files \cap old # {})' = FALSE
      BY <1>1, <3>1
    <3> QED BY <2>2, <3>2
  <2> QED BY <2>1, <2>2
<1> QED BY <1>2, <1>3, <1>4, <1>5 DEF Mutex!Enter

\* The unlink of the own owner file leaves the mutex, evicted or not.
LEMMA ExitLeaves ==
    ASSUME IInv, IInv', NEW p \in Entrant, ExitUnlink(p)
    PROVE  Mutex!Leave(p)
<1> USE LifecycleGuardAssumption DEF IInv, TypeOK
<1>1. token[p] \in Token /\ files' = files \ {token[p]} /\ old' = old
  BY DEF ExitUnlink, TokenKept
<1>2. Inside(p) /\ {q \in Entrant : Inside(q)}' = {q \in Entrant : Inside(q)} \ {p}
  BY DEF ExitUnlink, Inside
<1>3. CASE token[p] \in files
  <2>1. GuardOwner = p
    BY <1>3, OwnerOf
  <2>2. files' = {}
    BY <1>1, <1>3 DEF OneOwner
  <2>3. GuardOwner' = NoOne /\ ~(files \cap old # {})'
    BY <2>2 DEF GuardOwner
  <2> QED BY <1>2, <2>1, <2>3 DEF Mutex!Leave
<1>4. CASE token[p] \notin files
  <2>1. files' = files
    BY <1>1, <1>4
  <2>2. \A q \in Entrant : token'[q] \in files <=> token[q] \in files
    BY <1>4 DEF ExitUnlink
  <2>3. GuardOwner' = GuardOwner
    BY <2>1, <2>2, SameOwner
  <2>4. GuardOwner # p
    <3>1. ASSUME NEW q \in Entrant, token[q] \in files PROVE GuardOwner = q /\ q # p
      BY <3>1, <1>4, OwnerOf
    <3>2. ASSUME \A q \in Entrant : token[q] \notin files PROVE GuardOwner \in {NoOne, Abandoned}
      BY <3>2 DEF GuardOwner
    <3> QED BY <3>1, <3>2
  <2>5. (files \cap old # {})' = (files \cap old # {})
    BY <1>1, <2>1
  <2> QED BY <1>2, <2>3, <2>4, <2>5 DEF Mutex!Leave
<1> QED BY <1>3, <1>4

\* A crash inside dies in the mutex; a crash anywhere else is invisible.
LEMMA CrashDies ==
    ASSUME IInv, IInv', NEW p \in Entrant, Crash(p)
    PROVE  Mutex!Die(p) \/ UNCHANGED Mutex!guardVars
<1> USE LifecycleGuardAssumption DEF IInv, TypeOK
<1>1. files' = files /\ old' = old /\ token' = [token EXCEPT ![p] = NoToken]
  BY DEF Crash
<1>2. ~Inside(p)' /\ \A q \in Entrant \ {p} : Inside(q)' <=> Inside(q)
  BY DEF Crash, Inside
<1>3. CASE Inside(p)
  <2>1. {q \in Entrant : Inside(q)}' = {q \in Entrant : Inside(q)} \ {p}
    BY <1>2
  <2>2. (files \cap old # {})' = (files \cap old # {})
    BY <1>1
  <2>3. CASE token[p] \in files
    <3>1. GuardOwner = p
      BY <2>3, OwnerOf
    <3>2. \A q \in Entrant : token'[q] \notin files'
      BY <1>1, <2>3 DEF TokensDiffer, OneOwner
    <3>3. GuardOwner' = Abandoned
      BY <3>2, <1>1, <2>3 DEF GuardOwner
    <3> QED BY <1>3, <2>1, <2>2, <3>1, <3>3 DEF Mutex!Die
  <2>4. CASE token[p] \notin files
    <3>1. \A q \in Entrant : token'[q] \in files <=> token[q] \in files
      BY <1>1, <2>4
    <3>2. GuardOwner' = GuardOwner
      BY <1>1, <3>1, SameOwner
    <3>3. GuardOwner # p
      <4>1. ASSUME NEW q \in Entrant, token[q] \in files PROVE GuardOwner = q /\ q # p
        BY <4>1, <2>4, OwnerOf
      <4>2. ASSUME \A q \in Entrant : token[q] \notin files PROVE GuardOwner \in {NoOne, Abandoned}
        BY <4>2 DEF GuardOwner
      <4> QED BY <4>1, <4>2
    <3> QED BY <1>3, <2>1, <2>2, <3>2, <3>3 DEF Mutex!Die
  <2> QED BY <2>3, <2>4
<1>4. CASE ~Inside(p)
  <2>1. token[p] \notin files
    BY <1>4 DEF TokenKept, StagedIsPrivate, Inside
  <2>2. \A q \in Entrant : token'[q] \in files <=> token[q] \in files
    BY <1>1, <2>1
  <2>3. \A q \in Entrant : Inside(q)' <=> Inside(q)
    BY <1>2, <1>4
  <2> QED BY <1>1, <2>2, <2>3, Invisible
<1> QED BY <1>3, <1>4

\* An unlink by a thief steals an overdue entry.
LEMMA StealFileSteals ==
    ASSUME IInv, IInv', NEW p \in Entrant, StealFile(p)
    PROVE  Mutex!Steal \/ UNCHANGED Mutex!guardVars
<1> USE LifecycleGuardAssumption DEF IInv, TypeOK
<1>1. PICK t \in observed[p] :
         IF t \in files THEN files' = files \ {t} /\ UNCHANGED pc
                        ELSE UNCHANGED files /\ pc' = [pc EXCEPT ![p] = "retry"]
  BY DEF StealFile
<1>2. pc[p] = "stealing" /\ token' = token /\ old' = old
  BY DEF StealFile
<1>3. \A q \in Entrant : Inside(q)' <=> Inside(q)
  BY <1>1, <1>2 DEF Inside
<1>4. CASE t \in files
  <2>1. files = {t} /\ files' = {}
    BY <1>1, <1>4 DEF OneOwner
  <2>2. t \in old
    BY <1>2 DEF StolenIsOld
  <2>3. GuardOwner # NoOne
    <3>1. ASSUME NEW q \in Entrant, token[q] \in files PROVE GuardOwner = q
      BY <3>1, OwnerOf
    <3>2. ASSUME \A q \in Entrant : token[q] \notin files PROVE GuardOwner = Abandoned
      BY <3>2, <2>1 DEF GuardOwner
    <3> QED BY <3>1, <3>2
  <2>4. GuardOwner' = NoOne
    BY <2>1 DEF GuardOwner
  <2>5. (files \cap old # {}) /\ ~(files \cap old # {})'
    BY <2>1, <2>2
  <2>6. {q \in Entrant : Inside(q)}' = {q \in Entrant : Inside(q)}
    BY <1>3
  <2> QED BY <2>3, <2>4, <2>5, <2>6 DEF Mutex!Steal
<1>5. CASE t \notin files
  BY <1>1, <1>2, <1>3, <1>5, Invisible
<1> QED BY <1>4, <1>5

\* A file in the guard getting old makes its entry overdue.
LEMMA GrowOldGrowsOld ==
    ASSUME IInv, IInv', NEW t \in Token, GrowOld(t)
    PROVE  Mutex!GrowOld \/ UNCHANGED Mutex!guardVars
<1> USE LifecycleGuardAssumption DEF IInv, TypeOK
<1>1. /\ files' = files /\ token' = token /\ pc' = pc /\ old' = old \cup {t} /\ t \notin old
      /\ Orphan(t) \/ Stalls
  BY DEF GrowOld
<1>2. {q \in Entrant : Inside(q)}' = {q \in Entrant : Inside(q)}
  BY <1>1 DEF Inside
<1>3. GuardOwner' = GuardOwner
  BY <1>1, SameOwner
<1>4. CASE t \in files
  <2>1. files = {t}
    BY <1>4 DEF OneOwner
  <2>2. ~(files \cap old # {}) /\ (files \cap old # {})'
    BY <1>1, <2>1
  <2>3. GuardOwner # NoOne /\ (GuardOwner = Abandoned \/ Stalls)
    <3>1. ASSUME NEW q \in Entrant, token[q] \in files PROVE GuardOwner = q /\ Stalls
      BY <3>1, <2>1, <1>1, OwnerOf DEF Orphan
    <3>2. ASSUME \A q \in Entrant : token[q] \notin files PROVE GuardOwner = Abandoned
      BY <3>2, <2>1 DEF GuardOwner
    <3> QED BY <3>1, <3>2
  <2> QED BY <1>2, <1>3, <2>2, <2>3 DEF Mutex!GrowOld
<1>5. CASE t \notin files
  BY <1>1, <1>5, Invisible DEF Inside
<1> QED BY <1>4, <1>5

-----------------------------------------------------------------------------
\* Every file-system call of the directory protocol is a step of the mutex or
\* invisible to it: LifecycleGuard implements GuardMutex.
THEOREM Refinement == Spec => ImplementsMutex
<1>1. Init => Mutex!GuardInit
  BY DEF Init, Mutex!GuardInit, GuardOwner, Inside
<1>2. IInv /\ IInv' /\ LiveIsFresh /\ [Next]_vars => [Mutex!GuardNext]_(Mutex!guardVars)
  <2> SUFFICES ASSUME IInv, IInv', LiveIsFresh, [Next]_vars
               PROVE  Mutex!GuardNext \/ UNCHANGED Mutex!guardVars
    OBVIOUS
  <2> USE DEF Mutex!GuardNext
  <2>1. ASSUME NEW p \in Entrant, Win(p) PROVE Mutex!GuardNext
    BY <2>1, WinEnters
  <2>2. ASSUME NEW p \in Entrant, ExitUnlink(p) PROVE Mutex!GuardNext
    BY <2>2, ExitLeaves
  <2>3. ASSUME NEW p \in Entrant, Crash(p) PROVE Mutex!GuardNext \/ UNCHANGED Mutex!guardVars
    BY <2>3, CrashDies
  <2>4. ASSUME NEW p \in Entrant, StealFile(p) PROVE Mutex!GuardNext \/ UNCHANGED Mutex!guardVars
    BY <2>4, StealFileSteals
  <2>5. ASSUME NEW t \in Token, GrowOld(t) PROVE Mutex!GuardNext \/ UNCHANGED Mutex!guardVars
    BY <2>5, GrowOldGrowsOld
  <2>6. ASSUME NEW p \in Entrant, Stage(p) PROVE UNCHANGED Mutex!guardVars
    <3>1. \A q \in Entrant : token'[q] \in files <=> token[q] \in files
      BY <2>6, LifecycleGuardAssumption
      DEF Stage, Unremembered, IInv, TypeOK, TokenKept
    <3>2. old' \cap files = old \cap files /\ files' = files
      BY <2>6 DEF Stage, Unremembered
    <3>3. \A q \in Entrant : Inside(q)' <=> Inside(q)
      BY <2>6 DEF Stage, Inside, IInv, TypeOK
    <3> QED BY <3>1, <3>2, <3>3, Invisible
  <2>7. ASSUME NEW p \in Entrant, Lose(p) PROVE UNCHANGED Mutex!guardVars
    <3>1. \A q \in Entrant : token'[q] \in files <=> token[q] \in files
      BY <2>7, LifecycleGuardAssumption DEF Lose, IInv, TypeOK, StagedIsPrivate
    <3>2. \A q \in Entrant : Inside(q)' <=> Inside(q)
      BY <2>7 DEF Lose, Inside, IInv, TypeOK
    <3> QED BY <2>7, <3>1, <3>2, Invisible DEF Lose
  <2>8. ASSUME NEW p \in Entrant,
               \/ Observe(p) \/ Judge(p) \/ StealDirectory(p) \/ GiveUp(p)
               \/ Verify(p) \/ Mutate(p) \/ ExitRmdir(p) \/ Restart(p)
        PROVE  UNCHANGED Mutex!guardVars
    <3>1. files' = files /\ token' = token /\ old' = old
      BY <2>8 DEF Observe, Judge, StealDirectory, GiveUp, Verify, Mutate, ExitRmdir, Restart
    <3>2. \A q \in Entrant : Inside(q)' <=> Inside(q)
      BY <2>8 DEF Observe, Judge, StealDirectory, GiveUp, Verify, Mutate, ExitRmdir,
                  Restart, Inside, IInv, TypeOK
    <3> QED BY <3>1, <3>2, Invisible
  <2>9. CASE DirGrowOld \/ UNCHANGED vars
    BY <2>9, Invisible DEF DirGrowOld, vars, Inside
  <2> QED BY StepCases, <2>1, <2>2, <2>3, <2>4, <2>5, <2>6, <2>7, <2>8, <2>9
<1> QED BY Invariance, FreshInvariant, <1>1, <1>2, PTL DEF Spec, ImplementsMutex, Mutex!GuardSpec
=============================================================================
