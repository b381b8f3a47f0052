--------------------- MODULE MaintenanceFairness_proofs ---------------------
(***************************************************************************)
(* What is proved of MaintenanceFairness, for any heavy tasks and          *)
(* actuators, any staleness of entries and any amount of trouble.  Most of *)
(* it is about dates: Settle renames those in use after each step that     *)
(* opens or ends a streak, and must keep them apart from none, in order    *)
(* and below their bound.                                                  *)
(***************************************************************************)
EXTENDS MaintenanceFairness, FiniteSetTheorems, TLAPS

-----------------------------------------------------------------------------
(***************************************************************************)
(* The dates of the ledger                                                 *)
(***************************************************************************)

\* Before Settle an entry may bear any date.
LooseEntries == [rank : 0 .. 2, since : Nat, age : 0 .. StalePolls - 1]

Used(streaks, ledger) ==
    {streaks[p] : p \in Party} \cup {ledger[p].since : p \in {q \in Party : ledger[q] # NoEntry}}

Place(U, d) == Cardinality({u \in U \ {0} : u <= d})

LEMMA PartyFinite == IsFiniteSet(Party) /\ Cardinality(Party) \in Nat
<1>1. IsFiniteSet(Party)
  BY FS_Union, FairnessAssumption DEF Party
<1> QED BY <1>1, FS_CardinalityType

\* The image of a set of parties under a function.
LEMMA ImageFinite ==
    ASSUME NEW S \in SUBSET Party, NEW f
    PROVE  /\ IsFiniteSet({f[p] : p \in S})
           /\ Cardinality({f[p] : p \in S}) \in Nat
           /\ Cardinality({f[p] : p \in S}) <= Cardinality(Party)
<1> DEFINE T == {f[p] : p \in S}
           g == [p \in S |-> f[p]]
<1>1. IsFiniteSet(S) /\ Cardinality(S) <= Cardinality(Party)
  BY PartyFinite, FS_Subset
<1>2. g \in Surjection(S, T)
  BY DEF Surjection
<1>3. IsFiniteSet(T) /\ Cardinality(T) <= Cardinality(S)
  BY <1>1, <1>2, FS_Surjection
<1>4. Cardinality(T) \in Nat /\ Cardinality(S) \in Nat
  BY <1>1, <1>3, FS_CardinalityType
<1> QED BY <1>1, <1>3, <1>4, PartyFinite

LEMMA UsedFinite ==
    ASSUME NEW streaks, NEW ledger
    PROVE  /\ IsFiniteSet(Used(streaks, ledger))
           /\ Cardinality(Used(streaks, ledger)) \in 0 .. 2 * Cardinality(Party)
<1> DEFINE Q == {q \in Party : ledger[q] # NoEntry}
           f == [p \in Party |-> ledger[p].since]
           A == {streaks[p] : p \in Party}
           B == {f[p] : p \in Q}
<1>1. Used(streaks, ledger) = A \cup B
  BY DEF Used
<1>2. IsFiniteSet(A) /\ Cardinality(A) \in Nat /\ Cardinality(A) <= Cardinality(Party)
  BY ImageFinite
<1>3. IsFiniteSet(B) /\ Cardinality(B) \in Nat /\ Cardinality(B) <= Cardinality(Party)
  <2>1. Q \in SUBSET Party
    OBVIOUS
  <2> HIDE DEF Q, f
  <2> QED BY <2>1, ImageFinite
<1> HIDE DEF A, B
<1>4. /\ IsFiniteSet(A \cup B)
      /\ Cardinality(A \cup B) = Cardinality(A) + Cardinality(B) - Cardinality(A \cap B)
  BY <1>2, <1>3, FS_Union
<1>5. Cardinality(A \cap B) \in Nat /\ Cardinality(A \cup B) \in Nat
  BY <1>2, <1>4, FS_Intersection, FS_CardinalityType
<1> QED BY <1>1, <1>2, <1>3, <1>4, <1>5, PartyFinite

\* A place is within the number of dates, none stays none, a date in use
\* keeps one, and the order is kept.
LEMMA PlaceOfDate ==
    ASSUME NEW U, IsFiniteSet(U), NEW d \in Nat
    PROVE  /\ Place(U, d) \in 0 .. Cardinality(U)
           /\ d = 0 /\ U \subseteq Nat => Place(U, d) = 0
           /\ d \in U /\ d # 0 => Place(U, d) > 0
<1> DEFINE T == {u \in U \ {0} : u <= d}
<1>1. IsFiniteSet(T) /\ Cardinality(T) <= Cardinality(U)
  <2>1. T \in SUBSET U
    OBVIOUS
  <2> HIDE DEF T
  <2> QED BY <2>1, FS_Subset
<1>2. Cardinality(T) \in Nat /\ Cardinality(U) \in Nat
  BY <1>1, FS_CardinalityType
<1>3. Cardinality(T) = 0 <=> T = {}
  <2> HIDE DEF T
  <2> QED BY <1>1, FS_EmptySet
<1>4. Place(U, d) = Cardinality(T)
  BY DEF Place
<1>5. ASSUME d = 0, U \subseteq Nat PROVE T = {}
  <2>1. \A u \in U \ {0} : ~(u <= d)
    BY <1>5
  <2> QED BY <2>1
<1>6. d \in U /\ d # 0 => d \in T
  OBVIOUS
<1> HIDE DEF T
<1>7. d \in T => T # {}
  OBVIOUS
<1> QED BY <1>1, <1>2, <1>3, <1>4, <1>5, <1>6, <1>7

LEMMA PlacesInOrder ==
    ASSUME NEW U, IsFiniteSet(U), U \subseteq Nat,
           NEW d \in Nat, NEW e \in Nat, d <= e
    PROVE  Place(U, d) <= Place(U, e)
<1> DEFINE T == {u \in U \ {0} : u <= d}
           V == {u \in U \ {0} : u <= e}
<1>1. T \in SUBSET V /\ V \in SUBSET U
  <2>1. \A u \in U : u <= d => u <= e
    OBVIOUS
  <2> QED BY <2>1
<1>2. Place(U, d) = Cardinality(T) /\ Place(U, e) = Cardinality(V)
  BY DEF Place
<1> HIDE DEF T, V
<1>3. IsFiniteSet(V)
  BY <1>1, FS_Subset
<1> QED BY <1>1, <1>2, <1>3, FS_Subset

LEMMA SettleIsPlacing ==
    ASSUME NEW streaks, NEW ledger, Settle(streaks, ledger)
    PROVE  LET U == Used(streaks, ledger)
           IN  /\ since' = [p \in Party |-> Place(U, streaks[p])]
               /\ entry' = [p \in Party |-> IF ledger[p] = NoEntry THEN NoEntry
                                            ELSE [ledger[p] EXCEPT !.since = Place(U, @)]]
               /\ starved' = Place(U, starved)
BY DEF Settle, Used, Place

-----------------------------------------------------------------------------
(***************************************************************************)
(* The invariant                                                           *)
(***************************************************************************)

\* An entry has a date, and never a later one than the streak of its party:
\* nobody seems to have waited for less than it has.
Agree(streaks, ledger) ==
    /\ streaks \in [Party -> Nat]
    /\ ledger \in [Party -> LooseEntries \cup {NoEntry}]
    /\ \A p \in Party : ledger[p] # NoEntry =>
          /\ ledger[p].since > 0
          /\ streaks[p] # 0 => ledger[p].since <= streaks[p]

DatesTyped ==
    /\ since \in [Party -> Dates]
    /\ starved \in Dates
    /\ entry \in [Party -> Entries \cup {NoEntry}]

Honest == TypeOK /\ Agree(since, entry)

LEMMA NoEntryIsLoose == NoEntry \notin LooseEntries
BY FairnessAssumption DEF LooseEntries

LEMMA SettleAgrees ==
    ASSUME NEW streaks, NEW ledger, Agree(streaks, ledger), starved \in Nat,
           Settle(streaks, ledger)
    PROVE  Agree(since, entry)' /\ DatesTyped'
<1> DEFINE U == Used(streaks, ledger)
<1>1. /\ since' = [p \in Party |-> Place(U, streaks[p])]
      /\ entry' = [p \in Party |-> IF ledger[p] = NoEntry THEN NoEntry
                                   ELSE [ledger[p] EXCEPT !.since = Place(U, @)]]
      /\ starved' = Place(U, starved)
  BY SettleIsPlacing
<1>2. IsFiniteSet(U) /\ Cardinality(U) \in 0 .. 2 * Cardinality(Party)
  BY UsedFinite
<1>3. \A p \in Party : /\ streaks[p] \in Nat
                       /\ ledger[p] # NoEntry => ledger[p] \in LooseEntries
  BY DEF Agree
<1>4. U \subseteq Nat
  BY <1>3 DEF Used, LooseEntries
<1>5. \A p \in Party : ledger[p] # NoEntry => ledger[p].since \in U
  BY DEF Used
<1> HIDE DEF U
<1>6. \A d \in Nat : Place(U, d) \in Dates /\ Place(U, d) \in Nat
  <2> SUFFICES ASSUME NEW d \in Nat PROVE Place(U, d) \in Dates /\ Place(U, d) \in Nat
    OBVIOUS
  <2>1. Place(U, d) \in 0 .. Cardinality(U)
    BY <1>2, PlaceOfDate
  <2> QED BY <1>2, <2>1, PartyFinite DEF Dates
<1>7. since' \in [Party -> Dates] /\ since' \in [Party -> Nat] /\ starved' \in Dates
  BY <1>1, <1>3, <1>6
<1>8. ASSUME NEW p \in Party, ledger[p] # NoEntry
      PROVE  /\ entry'[p] \in Entries /\ entry'[p] \in LooseEntries
             /\ entry'[p].since = Place(U, ledger[p].since)
  <2>1. ledger[p] \in LooseEntries /\ ledger[p].since \in Nat
    BY <1>3, <1>8 DEF LooseEntries
  <2>2. entry'[p] = [ledger[p] EXCEPT !.since = Place(U, ledger[p].since)]
    BY <1>1, <1>8
  <2>3. Place(U, ledger[p].since) \in Dates /\ Place(U, ledger[p].since) \in Nat
    BY <1>6, <2>1
  <2> QED BY <2>1, <2>2, <2>3 DEF LooseEntries, Entries
<1>9. \A p \in Party : ledger[p] = NoEntry => entry'[p] = NoEntry
  BY <1>1
<1>10. /\ entry' \in [Party -> Entries \cup {NoEntry}]
       /\ entry' \in [Party -> LooseEntries \cup {NoEntry}]
  <2>1. entry' = [p \in Party |-> entry'[p]]
    BY <1>1
  <2> QED BY <1>8, <1>9, <2>1
<1>11. ASSUME NEW p \in Party, entry'[p] # NoEntry
       PROVE  /\ entry'[p].since > 0
              /\ since'[p] # 0 => entry'[p].since <= since'[p]
  <2>1. ledger[p] # NoEntry
    BY <1>9, <1>11
  <2>2. /\ ledger[p].since \in Nat /\ ledger[p].since > 0 /\ streaks[p] \in Nat
        /\ streaks[p] # 0 => ledger[p].since <= streaks[p]
    BY <1>3, <2>1 DEF Agree, LooseEntries
  <2>3. entry'[p].since = Place(U, ledger[p].since) /\ since'[p] = Place(U, streaks[p])
    BY <1>1, <1>8, <2>1
  <2>4. Place(U, ledger[p].since) > 0
    BY <1>2, <1>5, <2>1, <2>2, PlaceOfDate
  <2>5. since'[p] # 0 => streaks[p] # 0
    BY <1>2, <1>4, <2>2, <2>3, PlaceOfDate
  <2>6. ledger[p].since <= streaks[p] => entry'[p].since <= since'[p]
    BY <1>2, <1>4, <2>2, <2>3, PlacesInOrder
  <2> QED BY <2>2, <2>3, <2>4, <2>5, <2>6
<1> QED BY <1>7, <1>10, <1>11 DEF Agree, DatesTyped

\* Streaks that end and entries that age or go do no harm.
LEMMA AgreeLessens ==
    ASSUME NEW streaks, NEW ledger, Agree(streaks, ledger),
           NEW streaks2 \in [Party -> Nat], NEW ledger2 \in [Party -> LooseEntries \cup {NoEntry}],
           \A p \in Party : /\ streaks2[p] = streaks[p] \/ streaks2[p] = 0
                            /\ ledger2[p] # NoEntry =>
                                  ledger[p] # NoEntry /\ ledger2[p].since = ledger[p].since
    PROVE  Agree(streaks2, ledger2)
BY DEF Agree

LEMMA AgedEntry ==
    ASSUME NEW e \in LooseEntries \cup {NoEntry}
    PROVE  /\ Aged(e) \in LooseEntries \cup {NoEntry}
           /\ Aged(e) # NoEntry => e # NoEntry /\ Aged(e).since = e.since
<1>1. StalePolls \in Nat \ {0}
  BY FairnessAssumption
<1> QED BY <1>1, NoEntryIsLoose DEF Aged, LooseEntries

LEMMA HonestDates ==
    ASSUME Honest
    PROVE  /\ Agree(since, entry) /\ starved \in Nat
           /\ \A p \in Party : since[p] \in 0 .. 2 * Cardinality(Party)
           /\ \A p \in Party : entry[p] # NoEntry =>
                 entry[p] \in Entries /\ entry[p].since <= 2 * Cardinality(Party)
           /\ \A p \in Party : entry[p] \in LooseEntries \cup {NoEntry}
<1>1. TypeOK /\ Agree(since, entry)
  BY DEF Honest
<1> QED BY <1>1, PartyFinite DEF TypeOK, Dates, Entries, Agree

\* What is deferred and registered in one step agrees.
LEMMA DeferredAgrees ==
    ASSUME Honest, NEW D, NEW R, R \in SUBSET D
    PROVE  Agree(Streaks(D), PolledLedger(R)) /\ Agree(Streaks(D), Ledger(R))
<1> DEFINE C == Cardinality(Party) * 2 + 1
<1>1. C \in Nat /\ \A d \in 0 .. 2 * Cardinality(Party) : d <= C /\ d \in Nat /\ C # 0
  BY PartyFinite
<1> HIDE DEF C
<1>2. \A p \in Party : /\ Streaks(D)[p] = IF p \in D /\ since[p] = 0 THEN C ELSE since[p]
                       /\ Streaks(R)[p] = IF p \in R /\ since[p] = 0 THEN C ELSE since[p]
  BY DEF Streaks, C
<1>3. Streaks(D) \in [Party -> Nat]
  <2>1. \A p \in Party : Streaks(D)[p] \in Nat
    BY <1>1, <1>2, HonestDates
  <2> QED BY <2>1 DEF Streaks
<1>4. ASSUME NEW p \in Party, p \in R
      PROVE  /\ PolledLedger(R)[p] = Ledger(R)[p]
             /\ Ledger(R)[p] \in LooseEntries
             /\ Ledger(R)[p].since = Streaks(D)[p] /\ Streaks(D)[p] > 0
  <2>1. Ledger(R)[p] = [rank |-> Rank(p), since |-> Streaks(R)[p], age |-> 0]
    BY <1>4 DEF Ledger
  <2>2. PolledLedger(R)[p] = Ledger(R)[p]
    BY <1>4 DEF PolledLedger
  <2>3. Rank(p) \in 0 .. 2 /\ 0 \in 0 .. StalePolls - 1
    BY FairnessAssumption DEF Rank
  <2>4. Streaks(R)[p] = Streaks(D)[p] /\ Streaks(D)[p] \in Nat /\ Streaks(D)[p] > 0
    BY <1>1, <1>2, <1>4, HonestDates
  <2> QED BY <2>1, <2>2, <2>3, <2>4 DEF LooseEntries
<1>5. ASSUME NEW p \in Party, p \notin R
      PROVE  PolledLedger(R)[p] = Aged(entry[p]) /\ Ledger(R)[p] = entry[p]
  BY <1>5 DEF PolledLedger, Ledger
<1>6. ASSUME NEW p \in Party, entry[p] # NoEntry
      PROVE  entry[p].since > 0 /\ (Streaks(D)[p] # 0 => entry[p].since <= Streaks(D)[p])
  <2>1. entry[p].since \in 0 .. 2 * Cardinality(Party) /\ entry[p].since > 0
    BY <1>6, HonestDates, PartyFinite DEF Agree, Entries, Dates
  <2> QED BY <1>1, <1>2, <1>6, <2>1, HonestDates DEF Agree
<1>7. Agree(Streaks(D), PolledLedger(R))
  <2>1. PolledLedger(R) = [p \in Party |-> PolledLedger(R)[p]]
    BY DEF PolledLedger
  <2>2. ASSUME NEW p \in Party PROVE PolledLedger(R)[p] \in LooseEntries \cup {NoEntry}
    BY <1>4, <1>5, AgedEntry, HonestDates
  <2>3. ASSUME NEW p \in Party, PolledLedger(R)[p] # NoEntry
        PROVE  /\ PolledLedger(R)[p].since > 0
               /\ Streaks(D)[p] # 0 => PolledLedger(R)[p].since <= Streaks(D)[p]
    <3>1. CASE p \in R
      BY <1>3, <1>4, <3>1
    <3>2. CASE p \notin R
      BY <1>5, <1>6, <2>3, <3>2, AgedEntry, HonestDates
    <3> QED BY <3>1, <3>2
  <2> QED BY <1>3, <2>1, <2>2, <2>3 DEF Agree
<1>8. Agree(Streaks(D), Ledger(R))
  <2>1. Ledger(R) = [p \in Party |-> Ledger(R)[p]]
    BY DEF Ledger
  <2>2. ASSUME NEW p \in Party PROVE Ledger(R)[p] \in LooseEntries \cup {NoEntry}
    BY <1>4, <1>5, HonestDates
  <2>3. ASSUME NEW p \in Party, Ledger(R)[p] # NoEntry
        PROVE  /\ Ledger(R)[p].since > 0
               /\ Streaks(D)[p] # 0 => Ledger(R)[p].since <= Streaks(D)[p]
    BY <1>3, <1>4, <1>5, <1>6, <2>3
  <2> QED BY <1>3, <2>1, <2>2, <2>3 DEF Agree
<1> QED BY <1>7, <1>8

\* What a poll leaves of entries nobody writes, and of a task that is let go.
LEMMA PolledAgrees ==
    ASSUME Honest, NEW streaks \in [Party -> Nat], NEW ledger,
           \A p \in Party : streaks[p] = since[p] \/ streaks[p] = 0,
           \/ ledger = entry \/ ledger = PolledLedger({})
           \/ \E t \in Party : \/ ledger = [PolledLedger({}) EXCEPT ![t] = NoEntry]
                               \/ ledger = [entry EXCEPT ![t] = NoEntry]
    PROVE  Agree(streaks, ledger)
<1>1. PolledLedger({}) = [p \in Party |-> Aged(entry[p])]
  BY DEF PolledLedger
<1>2. entry \in [Party -> LooseEntries \cup {NoEntry}]
  BY HonestDates DEF Agree
<1>3. /\ ledger \in [Party -> LooseEntries \cup {NoEntry}]
      /\ \A p \in Party : ledger[p] # NoEntry =>
            entry[p] # NoEntry /\ ledger[p].since = entry[p].since
  BY <1>1, <1>2, AgedEntry
<1> QED BY <1>3, HonestDates, AgreeLessens

\* What is not about dates.
RestTyped ==
    /\ due \subseteq Task
    /\ running \in Task \cup {NoTask}
    /\ lease \in Task \cup {NoTask, Outside}
    /\ running # NoTask => lease = running
    /\ passed \in [Task -> 0 .. MaxPasses]
    /\ critical \subseteq Bootstrap
    /\ shed \in BOOLEAN
    /\ trouble \in 0 .. MaxTrouble

LEMMA TypeOKParts == TypeOK <=> RestTyped /\ DatesTyped
BY DEF TypeOK, RestTyped, DatesTyped

LEMMA SettleHonest ==
    ASSUME Honest, NEW streaks, NEW ledger, Agree(streaks, ledger),
           Settle(streaks, ledger), RestTyped'
    PROVE  Honest'
<1>1. Agree(since, entry)' /\ DatesTyped'
  BY HonestDates, SettleAgrees
<1>2. TypeOK'
  BY <1>1 DEF TypeOK, RestTyped, DatesTyped
<1> QED BY <1>1, <1>2 DEF Honest

LEMMA DatesStayHonest ==
    ASSUME Honest, UNCHANGED <<since, entry, starved>>, RestTyped'
    PROVE  Honest'
<1>1. TypeOK'
  BY DEF Honest, TypeOK, RestTyped, DatesTyped, Dates, Entries
<1> QED BY <1>1 DEF Honest, Agree

LEMMA InitHonest == Init => Honest
<1> SUFFICES ASSUME Init PROVE Honest
  OBVIOUS
<1> USE DEF Init
<1>1. RestTyped
  <2>1. MaxPasses \in Nat /\ MaxTrouble \in Nat
    BY FairnessAssumption
  <2>2. passed \in [Task -> 0 .. MaxPasses] /\ trouble \in 0 .. MaxTrouble
    BY <2>1
  <2>3. shed \in BOOLEAN
    OBVIOUS
  <2> QED BY <2>2, <2>3 DEF RestTyped
<1>2. 0 \in Dates
  BY PartyFinite DEF Dates
<1>3. DatesTyped
  BY <1>2 DEF DatesTyped
<1>4. Agree(since, entry)
  BY DEF Agree
<1> QED BY <1>1, <1>3, <1>4, TypeOKParts DEF Honest

LEMMA WinnersAreDue == Winners \subseteq due
<1>1. \A t \in due : Promoted(t) \subseteq due
  BY DEF Promoted, WaitersToYieldTo
<1>2. MostOverdue \subseteq due
  BY DEF MostOverdue
<1> QED BY <1>1, <1>2 DEF Winners

LEMMA StartedTyped ==
    ASSUME RestTyped, NEW t \in Task, Started(t)
    PROVE  /\ running' = t /\ due' \subseteq Task
           /\ passed' \in [Task -> 0 .. MaxPasses]
<1>1. MaxPasses \in Nat
  BY FairnessAssumption
<1> QED BY <1>1 DEF Started, RestTyped

LEMMA SufferTyped ==
    ASSUME RestTyped, NEW kind, Suffer(kind)
    PROVE  trouble' \in 0 .. MaxTrouble
BY FairnessAssumption DEF Suffer, RestTyped

LEMMA NextRest == RestTyped /\ [Next]_vars => RestTyped'
<1> SUFFICES ASSUME RestTyped, [Next]_vars PROVE RestTyped'
  OBVIOUS
<1> USE FairnessAssumption DEF RestTyped
<1>1. CASE PollBehind \/ PollNothing
  BY <1>1 DEF PollBehind, PollNothing
<1>2. CASE PollPicks
  <2>1. PICK t \in Winners : ShedOff(t) \/ Abstain(t) \/ FindHeld(t) \/ Admit(t)
    BY <1>2 DEF PollPicks
  <2>2. t \in Task /\ UNCHANGED <<critical, shed, trouble>> /\ running = NoTask
    BY <1>2, <2>1, WinnersAreDue DEF PollPicks
  <2>3. CASE ShedOff(t) \/ Abstain(t) \/ FindHeld(t)
    BY <2>2, <2>3 DEF ShedOff, Abstain, FindHeld
  <2>4. CASE Admit(t)
    <3>1. lease' = t
      BY <2>4 DEF Admit
    <3>2. CASE t \in LateStart
      BY <2>2, <2>4, <3>1, <3>2 DEF Admit
    <3>3. CASE t \notin LateStart
      BY <2>2, <2>4, <3>1, <3>3, StartedTyped DEF Admit
    <3> QED BY <3>2, <3>3
  <2> QED BY <2>1, <2>3, <2>4
<1>3. CASE PollElsewhere
  BY <1>3 DEF PollElsewhere, Suffer
<1>4. ASSUME NEW t \in Task, ComeDue(t) \/ SkipOwnLease(t) \/ Withdraw(t) PROVE RestTyped'
  BY <1>4 DEF ComeDue, SkipOwnLease, Withdraw, Suffer
<1>5. ASSUME NEW t \in Task, Begin(t) PROVE RestTyped'
  BY <1>5, StartedTyped DEF Begin
<1>6. CASE Finish \/ Starve
  BY <1>6 DEF Finish, Starve
<1>7. ASSUME NEW a \in Actuator, ActuatorChecks(a) PROVE RestTyped'
  BY <1>7 DEF ActuatorChecks
<1>8. CASE OutsideTakes \/ OutsideLeaves
  BY <1>8 DEF OutsideTakes, OutsideLeaves, Suffer
<1>9. CASE OpenShedWindow \/ CloseShedWindow
  <2>1. trouble' \in 0 .. MaxTrouble
    BY <1>9, SufferTyped DEF OpenShedWindow, CloseShedWindow
  <2>2. shed' \in BOOLEAN
    BY <1>9 DEF OpenShedWindow, CloseShedWindow
  <2> QED BY <1>9, <2>1, <2>2 DEF OpenShedWindow, CloseShedWindow
<1>10. ASSUME NEW t \in Bootstrap, ChangeClass(t) PROVE RestTyped'
  BY <1>10 DEF ChangeClass, Suffer
<1>11. CASE Restart
  <2>1. trouble' \in 0 .. MaxTrouble
    BY <1>11, SufferTyped DEF Restart
  <2>2. shed' \in BOOLEAN
    BY <1>11 DEF Restart
  <2>3. /\ running' = NoTask /\ lease' \in {NoTask, Outside}
        /\ UNCHANGED <<due, passed, critical>>
    BY <1>11 DEF Restart
  <2> QED BY <2>1, <2>2, <2>3
<1>12. CASE UNCHANGED vars
  BY <1>12 DEF vars
<1> QED BY <1>1, <1>2, <1>3, <1>4, <1>5, <1>6, <1>7, <1>8, <1>9, <1>10, <1>11, <1>12
        DEF Next, Poll

LEMMA PicksHonest ==
    ASSUME Honest, RestTyped', PollPicks
    PROVE  Honest'
<1>1. PICK t \in Winners : ShedOff(t) \/ Abstain(t) \/ FindHeld(t) \/ Admit(t)
  BY DEF PollPicks
<1>2. t \in Party
  BY WinnersAreDue DEF Honest, TypeOK, Party
<1>3. since \in [Party -> Nat]
  BY HonestDates DEF Agree
<1>4. CASE ShedOff(t)
  <2>1. Agree(Streaks({t}), PolledLedger({}))
    BY DeferredAgrees
  <2> QED BY <1>4, <2>1, SettleHonest DEF ShedOff
<1>5. CASE Abstain(t) \/ FindHeld(t)
  <2>1. Agree(Streaks({t}), PolledLedger({t}))
    BY DeferredAgrees
  <2> QED BY <1>5, <2>1, SettleHonest DEF Abstain, FindHeld
<1>6. CASE Admit(t)
  <2> DEFINE l == [PolledLedger({}) EXCEPT ![t] = NoEntry]
             s == [since EXCEPT ![t] = 0]
  <2>1. \E u \in Party : l = [PolledLedger({}) EXCEPT ![u] = NoEntry]
    BY <1>2
  <2>2. s \in [Party -> Nat] /\ \A p \in Party : s[p] = since[p] \/ s[p] = 0
    BY <1>3
  <2>3. Settle(since, l) \/ Settle(s, l)
    BY <1>6 DEF Admit
  <2> HIDE DEF l, s
  <2>4. Agree(since, l) /\ Agree(s, l)
    BY <1>3, <2>1, <2>2, PolledAgrees
  <2> QED BY <2>3, <2>4, SettleHonest
<1> QED BY <1>1, <1>4, <1>5, <1>6

LEMMA NextHonest == Honest /\ [Next]_vars => Honest'
<1> SUFFICES ASSUME Honest, [Next]_vars PROVE Honest'
  OBVIOUS
<1>1. RestTyped'
  BY NextRest, TypeOKParts DEF Honest
<1>2. since \in [Party -> Nat]
  BY HonestDates DEF Agree
<1>3. CASE PollBehind
  <2>1. Agree(Streaks(due \ {running}), PolledLedger(due \ {running}))
    BY DeferredAgrees
  <2> QED BY <1>1, <1>3, <2>1, SettleHonest DEF PollBehind
<1>4. CASE PollNothing \/ PollElsewhere
  <2>1. Agree(since, PolledLedger({}))
    BY <1>2, PolledAgrees
  <2> QED BY <1>1, <1>4, <2>1, SettleHonest DEF PollNothing, PollElsewhere
<1>5. CASE PollPicks
  BY <1>1, <1>5, PicksHonest
<1>6. ASSUME NEW t \in Task, ComeDue(t) \/ SkipOwnLease(t) \/ Withdraw(t) PROVE Honest'
  BY <1>1, <1>6, DatesStayHonest DEF ComeDue, SkipOwnLease, Withdraw
<1>7. ASSUME NEW t \in Task, Begin(t) PROVE Honest'
  <2> DEFINE s == [since EXCEPT ![t] = 0]
  <2>1. s \in [Party -> Nat] /\ \A p \in Party : s[p] = since[p] \/ s[p] = 0
    BY <1>2
  <2>2. Settle(s, entry)
    BY <1>7 DEF Begin
  <2> HIDE DEF s
  <2>3. Agree(s, entry)
    BY <2>1, PolledAgrees
  <2> QED BY <1>1, <2>2, <2>3, SettleHonest
<1>8. CASE Finish
  BY <1>1, <1>8, DatesStayHonest DEF Finish
<1>9. ASSUME NEW a \in Actuator, ActuatorChecks(a) PROVE Honest'
  <2>1. Agree(Streaks({a}), Ledger({a}))
    BY DeferredAgrees
  <2>2. a \in Party
    BY DEF Party
  <2>3. Agree(since, [entry EXCEPT ![a] = NoEntry])
    BY <1>2, <2>2, PolledAgrees
  <2> QED BY <1>1, <1>9, <2>1, <2>3, SettleHonest DEF ActuatorChecks
<1>10. CASE Starve
  <2>1. PICK p \in Party : since[p] > starved \/ (entry[p] # NoEntry /\ entry[p].since > starved)
    BY <1>10 DEF Starve
  <2>2. starved + 1 \in Dates
    BY <2>1, HonestDates, PartyFinite DEF Dates, Agree, LooseEntries, Entries
  <2>3. UNCHANGED <<since, entry>> /\ starved' \in Dates
    BY <1>10, <2>2 DEF Starve
  <2>4. DatesTyped'
    BY <2>3, TypeOKParts DEF Honest, DatesTyped, Dates, Entries
  <2>5. TypeOK'
    BY <1>1, <2>4 DEF TypeOK, RestTyped, DatesTyped
  <2> QED BY <2>3, <2>5 DEF Honest, Agree
<1>11. CASE OutsideTakes \/ OutsideLeaves \/ OpenShedWindow \/ CloseShedWindow
  BY <1>1, <1>11, DatesStayHonest DEF OutsideTakes, OutsideLeaves, OpenShedWindow, CloseShedWindow
<1>12. ASSUME NEW t \in Bootstrap, ChangeClass(t) PROVE Honest'
  BY <1>1, <1>12, DatesStayHonest DEF ChangeClass
<1>13. CASE Restart
  <2> DEFINE s == [p \in Party |-> IF p \in Task THEN since[p] ELSE 0]
  <2>1. Agree(s, entry)
    BY <1>2, PolledAgrees
  <2>2. Settle(s, entry)
    BY <1>13 DEF Restart
  <2> HIDE DEF s
  <2> QED BY <1>1, <2>1, <2>2, SettleHonest
<1>14. CASE UNCHANGED vars
  BY <1>1, <1>14, DatesStayHonest DEF vars
<1> QED BY <1>3, <1>4, <1>5, <1>6, <1>7, <1>8, <1>9, <1>10, <1>11, <1>12, <1>13, <1>14
        DEF Next, Poll

LEMMA AlwaysHonest == Spec => []Honest
BY InitHonest, NextHonest, PTL DEF Spec

\* Type correctness: whatever the steps, the dates in use stay within twice
\* the parties, which is what lets Settle stand for real timestamps.
THEOREM TypeCorrect == Spec => []TypeOK
<1>1. Honest => TypeOK
  BY DEF Honest
<1> QED BY <1>1, AlwaysHonest, PTL

\* No entry of the ledger is later than the streak it stands for, also one
\* that outlived a start, a restart or a withdrawal: a party never seems to
\* have waited for less than it has.
EntriesAreHonest ==
    \A p \in Party : entry[p] # NoEntry =>
        entry[p].since > 0 /\ (since[p] # 0 => entry[p].since <= since[p])

THEOREM LedgerIsHonest == Spec => []EntriesAreHonest
<1>1. Honest => EntriesAreHonest
  BY DEF Honest, Agree, EntriesAreHonest
<1> QED BY <1>1, AlwaysHonest, PTL

-----------------------------------------------------------------------------
(***************************************************************************)
(* The selection and the admission                                         *)
(***************************************************************************)

LEMMA RankOf ==
    ASSUME Honest, NEW p
    PROVE  /\ p \in PriorityZero => Rank(p) = 2
           /\ p \notin PriorityZero => Rank(p) \in {0, 1}
<1>1. p \in PriorityZero => p \notin critical
  BY FairnessAssumption DEF Honest, TypeOK
<1>2. CASE p \in PriorityZero
  BY <1>1, <1>2 DEF Rank
<1>3. CASE p \notin PriorityZero /\ p \in critical
  BY <1>3 DEF Rank
<1>4. CASE p \notin PriorityZero /\ p \notin critical
  BY <1>4 DEF Rank
<1> QED BY <1>2, <1>3, <1>4

Current == \A t \in due : IsCurrent(t)

\* Nobody is ahead of what the selection picks: for whom it had to yield the
\* representative would have had to yield, and to nobody before it.
LEMMA PromotedMayGo ==
    ASSUME Honest, Waiters \subseteq due, Current,
           NEW r \in due, NEW t \in Promoted(r)
    PROVE  WaitersToYieldTo(t, Waiters) = {}
<1> DEFINE ahead == WaitersToYieldTo(r, Waiters)
<1>1. Waiters \cap due = Waiters
  OBVIOUS
<1>2. Promoted(r) = IF ahead = {} THEN {r} ELSE ahead
  BY <1>1 DEF Promoted
<1>3. CASE ahead = {}
  BY <1>2, <1>3
<1>4. CASE ahead # {}
  <2>1. /\ t \in Waiters /\ Qualifies(t, r)
        /\ \A v \in Waiters : Qualifies(v, r) => ~Outranks(v, t)
    BY <1>2, <1>4 DEF WaitersToYieldTo
  <2> SUFFICES ASSUME NEW w \in Waiters, Qualifies(w, t) PROVE FALSE
    BY DEF WaitersToYieldTo
  <2>2. ASSUME NEW v \in Waiters
        PROVE  /\ entry[v].rank \in Nat /\ entry[v].since \in Nat /\ entry[v].since > 0
               /\ v \in due /\ entry[v].rank = Rank(v) /\ entry[v].since = since[v]
    BY HonestDates DEF Waiters, Agree, LooseEntries, Current, IsCurrent
  <2>3. Rank(r) \in Nat /\ since[r] \in Nat /\ starved \in Nat
    <3>1. r \in Party
      BY DEF Honest, TypeOK, Party
    <3> QED BY <3>1, HonestDates DEF Rank, Agree
  <2>4. Outranks(w, t)
    BY <2>1, <2>2 DEF Qualifies, Outranks
  <2>5. ~Qualifies(w, r)
    BY <2>1, <2>4
  <2>6. w = r
    BY <2>1, <2>2, <2>3, <2>4, <2>5 DEF Qualifies, Outranks
  <2> QED BY <2>1, <2>2, <2>3, <2>4, <2>6 DEF Qualifies, Outranks
<1> QED BY <1>3, <1>4

\* A task that protects data yields to none: there is one of its rank.
LEMMA DataMayGo ==
    ASSUME Honest, Waiters \subseteq due, Current,
           NEW t \in due \cap PriorityZero
    PROVE  WaitersToYieldTo(t, Waiters) = {}
<1> SUFFICES ASSUME NEW w \in Waiters, Qualifies(w, t) PROVE FALSE
  BY DEF WaitersToYieldTo
<1>1. entry[w].rank = Rank(w) /\ w # t
  BY DEF Waiters, Current, IsCurrent, Qualifies
<1>2. Rank(t) = 2
  BY RankOf
<1>3. w \notin PriorityZero
  BY <1>1, OnePriorityZero
<1>4. Rank(w) \in {0, 1}
  BY <1>3, RankOf
<1> QED BY <1>1, <1>2, <1>4 DEF Qualifies

LEMMA PicksAreAdmitted ==
    ASSUME Honest, running = NoTask, lease = NoTask, ~shed,
           Waiters \subseteq due, Current, PollPicks
    PROVE  lease' # NoTask
<1>1. PICK t \in Winners : ShedOff(t) \/ Abstain(t) \/ FindHeld(t) \/ Admit(t)
  BY DEF PollPicks
<1>2. WaitersToYieldTo(t, Waiters) = {}
  <2>1. CASE due \cap PriorityZero # {}
    BY <2>1, DataMayGo DEF Winners
  <2>2. CASE due \cap PriorityZero = {}
    <3>1. PICK r \in due : t \in Promoted(r)
      BY <2>2 DEF Winners, MostOverdue
    <3> QED BY <3>1, PromotedMayGo
  <2> QED BY <2>1, <2>2
<1>3. Admit(t)
  BY <1>1, <1>2 DEF ShedOff, Abstain, FindHeld
<1>4. t \in Task
  BY WinnersAreDue DEF Honest, TypeOK
<1> QED BY <1>3, <1>4, FairnessAssumption DEF Admit

\* The action property of the run: with a free lane, a ledger that is not out
\* of date and waiters that are candidates, a poll that picks admits its pick.
\* The rule of the selection and the rule of the admission are two functions
\* of the code; what the first promotes, the second never turns away.
THEOREM PollsAreSpentWell == Spec => NoPollIsWasted
<1> DEFINE Admits == /\ running = NoTask /\ lease = NoTask /\ ~shed
                     /\ due # {}
                     /\ Waiters \subseteq due
                     /\ \A t \in due : IsCurrent(t)
                     /\ PollPicks
                     => lease' # NoTask
<1>1. Honest /\ [Next]_vars => Admits
  BY PicksAreAdmitted DEF Current
<1>2. Honest /\ [Next]_vars => [Admits]_vars
  BY <1>1
<1> QED BY <1>2, AlwaysHonest, PTL DEF Spec, NoPollIsWasted
=============================================================================
