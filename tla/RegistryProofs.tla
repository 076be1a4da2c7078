---------------------------- MODULE RegistryProofs ---------------------------
(* Theorems about MatchRegistry, for every set of members, names, teams,   *)
(* dates, times and matches.                                               *)
EXTENDS Statistics, NumberLemmas, FiniteSetTheorems, SequenceTheorems

(* The numbers of the hour 99 that may be taken. *)
ManualBounded ==
    \A i \in Registered : match[i].no.at = None => match[i].no.nth <= LastManual

(* The numbers of a second are those _unique_match_no tries.               *)
TwinsNumbered ==
    \A i \in Registered : match[i].no.at # None => match[i].no.nth \in {1} \cup 2..LastTwin

RegistryInv ==
    /\ TypeOK
    /\ ManualBounded
    /\ TwinsNumbered
    /\ NumbersDistinct
    /\ NumberTellsTheDate
    /\ ReplayNamedAfterMatch

-----------------------------------------------------------------------------
(* Numbers.                                                                *)

LEMMA RegisteredRow ==
    ASSUME TypeOK, NEW i \in Registered
    PROVE  i \in Match /\ match[i] \in RowType
  BY DEF TypeOK, Registered

(* The next number of the hour 99 is new. *)
LEMMA NextImpossibleIsNew ==
    ASSUME TypeOK, ManualBounded, NEW day \in Day
    PROVE  /\ NextImpossible(day) \in Number
           /\ NextImpossible(day).day = day
           /\ NextImpossible(day).at = None
           /\ NextImpossible(day) \notin Used
  <1> DEFINE taken == {no \in Used : no.day = day /\ no.at = None}
             nths  == {no.nth : no \in taken}
             nth   == IF taken = {} THEN 0 ELSE Max(nths) + 1
  <1>1. Used \in SUBSET Number
    BY RegisteredRow DEF Used, RowType
  <1>2. nths \in SUBSET Nat
    BY <1>1 DEF Number
  <1>3. \A k \in nths : k <= LastManual
    BY DEF Used, ManualBounded
  <1>4. nth \in Nat /\ \A k \in nths : k < nth
    <2>1. CASE taken = {}
      BY <2>1
    <2>2. CASE taken # {}
      <3>1. nths # {}
        BY <2>2
      <3>2. PICK top \in nths : \A k \in nths : k <= top
        <4> HIDE DEF nths
        <4> QED
          BY <1>2, <1>3, <3>1, GreatestNumber, TimeAssumption
      <3>3. \A k \in nths : top >= k
        <4> HIDE DEF nths
        <4> QED
          BY <3>2, <1>2
      <3>4. Max(nths) \in nths /\ \A k \in nths : Max(nths) >= k
        <4> HIDE DEF nths
        <4> QED
          BY <3>2, <3>3 DEF Max
      <3>5. Max(nths) \in Nat /\ \A k \in nths : k < Max(nths) + 1
        <4> HIDE DEF nths
        <4>1. Max(nths) \in Nat
          BY <1>2, <3>4
        <4>2. \A k \in nths : k \in Nat /\ Max(nths) >= k
          BY <1>2, <3>4
        <4> QED
          BY <4>1, <4>2
      <3> QED
        BY <2>2, <3>5
    <2> QED
      BY <2>1, <2>2
  <1>5. NextImpossible(day) = [day |-> day, at |-> None, nth |-> nth]
    BY DEF NextImpossible
  <1> HIDE DEF nth
  <1>6. NextImpossible(day) \in Number
    BY <1>4, <1>5, TimeAssumption DEF Number
  <1>7. NextImpossible(day) \notin Used
    <2>1. SUFFICES ASSUME NextImpossible(day) \in Used PROVE FALSE
      OBVIOUS
    <2>2. NextImpossible(day) \in taken
      BY <1>5, <2>1
    <2>3. nth \in nths
      BY <1>5, <2>2
    <2> QED
      BY <1>4, <2>3
  <1> QED
    BY <1>5, <1>6, <1>7

(* A number that is given tells the date and the time, and is free or the   *)
(* one the match has.                                                      *)
LEMMA NumberGiven ==
    ASSUME TypeOK, ManualBounded,
           NEW day \in Day, NEW at \in Moment \cup {None}, NEW keep,
           NEW no \in UniqueMatchNo(day, at, keep)
    PROVE  /\ no \in Number
           /\ no.day = day
           /\ no.at = at
           /\ no.at # None => no.nth \in {1} \cup 2..LastTwin
           /\ no = keep \/ no \notin Used
  <1>1. CASE at = None
    BY <1>1, NextImpossibleIsNew DEF UniqueMatchNo
  <1>2. CASE at # None
    <2>1. no \in TimedNumbers(day, at) /\ (no = keep \/ no \notin Used)
      BY <1>2 DEF UniqueMatchNo
    <2>2. {1} \cup 2..LastTwin \in SUBSET Nat
      BY TimeAssumption
    <2> QED
      BY <2>1, <2>2 DEF TimedNumbers, Number
  <1> QED
    BY <1>1, <1>2

(* The time in a number is one of the date. *)
LEMMA BaseOfDate ==
    ASSUME NEW day \in Day, NEW start \in Moment \cup {None}
    PROVE  /\ MatchNoBase(day, start) \in Moment \cup {None}
           /\ MatchNoBase(day, start) # None => DayOf(MatchNoBase(day, start)) = day
  BY DEF MatchNoBase

-----------------------------------------------------------------------------
(* Rows.                                                                   *)

LEMMA TeamOf ==
    ASSUME NEW n \in Nat, NEW team \in [1..n -> [name : Name, race : Race]]
    PROVE  team \in Team
  BY SeqDef DEF Team

LEMMA StoredTeamType ==
    ASSUME NEW lineup \in Lineup, NEW team \in {lineup[1], lineup[2]},
           NEW stored \in StoredTeams(team)
    PROVE  stored \in Team
  <1>1. team \in Seq(RequestSlot)
    BY LineupAssumption
  <1>2. stored \in [1..Len(team) -> [name : Name, race : Race]]
    BY <1>1 DEF StoredTeams
  <1>3. Len(team) \in Nat
    BY <1>1
  <1> QED
    BY <1>2, <1>3, TeamOf

LEMMA RereadType ==
    ASSUME NEW team \in Team, NEW race \in ReadRaces
    PROVE  Reread(team, race) \in Team
  <1>1. /\ Len(team) \in Nat /\ DOMAIN team = 1..Len(team)
        /\ \A k \in DOMAIN team : team[k] \in [name : Name, race : Race]
    BY ElementOfSeq, LenProperties DEF Team
  <1>2. \A k \in DOMAIN team :
           race[team[k].name] = None \/ race[team[k].name] \in Race
    BY <1>1 DEF ReadRaces
  <1>3. Reread(team, race) \in [1..Len(team) -> [name : Name, race : Race]]
    BY <1>1, <1>2 DEF Reread
  <1> QED
    BY <1>1, <1>3, TeamOf

(* One row written: the rest stays as it is. *)
LEMMA RowWritten ==
    ASSUME RegistryInv,
           NEW i \in Match, NEW row \in RowType,
           match' = [match EXCEPT ![i] = row],
           alias' \in [Name -> Owner \cup {None}],
           row.no.at = None => row.no.nth <= LastManual,
           row.no.at # None => row.no.nth \in {1} \cup 2..LastTwin,
           \A j \in Registered : match[j].no = row.no => j = i,
           row.no.day = row.day,
           row.no.at # None => DayOf(row.no.at) = row.day,
           row.replay \in {None, row.no}
    PROVE  RegistryInv'
  <1>1. match \in [Match -> RowType \cup {None}]
    BY DEF RegistryInv, TypeOK
  <1>2. TypeOK'
    BY <1>1 DEF TypeOK
  <1>3. match'[i] = row /\ \A j \in Match : j # i => match'[j] = match[j]
    BY <1>1
  <1>4. \A j \in Registered' : j = i \/ (j # i /\ j \in Registered /\ match'[j] = match[j])
    BY <1>3 DEF Registered
  <1>5. ManualBounded'
    BY <1>3, <1>4 DEF RegistryInv, ManualBounded
  <1>9. TwinsNumbered'
    BY <1>3, <1>4 DEF RegistryInv, TwinsNumbered
  <1>6. NumbersDistinct'
    BY <1>3, <1>4 DEF RegistryInv, NumbersDistinct
  <1>7. NumberTellsTheDate'
    BY <1>3, <1>4 DEF RegistryInv, NumberTellsTheDate
  <1>8. ReplayNamedAfterMatch'
    BY <1>3, <1>4 DEF RegistryInv, ReplayNamedAfterMatch
  <1> QED
    BY <1>2, <1>5, <1>6, <1>7, <1>8, <1>9 DEF RegistryInv

(* Rows that stay or go. *)
LEMMA RowsKept ==
    ASSUME RegistryInv,
           alias' \in [Name -> Owner \cup {None}],
           match' \in [Match -> RowType \cup {None}],
           \A j \in Match : match'[j] \in {match[j], None}
    PROVE  RegistryInv'
  <1>1. TypeOK'
    BY DEF TypeOK
  <1>2. \A j \in Registered' : j \in Registered /\ match'[j] = match[j]
    BY DEF Registered
  <1> QED
    BY <1>1, <1>2 DEF RegistryInv, ManualBounded, TwinsNumbered, NumbersDistinct,
                      NumberTellsTheDate, ReplayNamedAfterMatch

-----------------------------------------------------------------------------
(* The requests.                                                           *)

LEMMA RememberedType ==
    ASSUME TypeOK, NEW lineup \in Lineup
    PROVE  Remembered(lineup) \in [Name -> Owner \cup {None}]
  <1>1. \A slot \in SlotsOf(lineup) : slot.who \in Owner
    <2>1. lineup[1] \in Seq(RequestSlot) /\ lineup[2] \in Seq(RequestSlot)
      BY LineupAssumption
    <2>2. /\ \A k \in DOMAIN lineup[1] : lineup[1][k] \in RequestSlot
          /\ \A k \in DOMAIN lineup[2] : lineup[2][k] \in RequestSlot
      BY <2>1, ElementOfSeq, LenProperties
    <2> QED
      BY <2>2 DEF SlotsOf, ToSet, RequestSlot
  <1>2. \A n \in Name :
           (\E slot \in NewNames(lineup) : slot.name = n)
             => (CHOOSE slot \in NewNames(lineup) : slot.name = n).who \in Owner
    BY <1>1 DEF NewNames
  <1> QED
    BY <1>2 DEF Remembered, TypeOK

LEMMA CreateKeeps ==
    ASSUME RegistryInv,
           NEW i \in Match, NEW lineup \in Lineup, NEW day \in Day,
           NEW start \in Moment \cup {None}, NEW result \in Outcome, NEW replay \in BOOLEAN,
           CreateMatch(i, lineup, day, start, result, replay)
    PROVE  RegistryInv'
  <1> DEFINE base == MatchNoBase(day, start)
  <1>1. PICK no \in UniqueMatchNo(day, base, None),
             team1 \in StoredTeams(lineup[1]), team2 \in StoredTeams(lineup[2]) :
           /\ no.at = None => no.nth <= LastManual
           /\ match' = [match EXCEPT ![i] =
                 MatchRow(no, day, start, result, team1, team2, IF replay THEN no ELSE None)]
    BY DEF CreateMatch
  <1> DEFINE row == MatchRow(no, day, start, result, team1, team2, IF replay THEN no ELSE None)
  <1>2. base \in Moment \cup {None} /\ (base # None => DayOf(base) = day)
    BY BaseOfDate
  <1>3. /\ no \in Number /\ no.day = day /\ no.at = base
        /\ no.at # None => no.nth \in {1} \cup 2..LastTwin
        /\ no = None \/ no \notin Used
    <2> HIDE DEF base
    <2> QED
      BY <1>1, <1>2, NumberGiven DEF RegistryInv
  <1>4. no \notin Used
    BY <1>3, NullAssumption
  <1>5. team1 \in Team /\ team2 \in Team
    BY <1>1, StoredTeamType
  <1>6. row \in RowType
    BY <1>3, <1>5 DEF MatchRow, RowType
  <1>7. alias' \in [Name -> Owner \cup {None}]
    BY RememberedType DEF RegistryInv, CreateMatch
  <1>8. /\ row.no = no /\ row.day = day
        /\ row.replay \in {None, row.no}
    BY DEF MatchRow
  <1>9. \A j \in Registered : match[j].no # row.no
    BY <1>4, <1>8 DEF Used
  <1>10. match' = [match EXCEPT ![i] = row]
    BY <1>1
  <1> HIDE DEF row, base
  <1>11. /\ row.no.at = None => row.no.nth <= LastManual
         /\ row.no.at # None => row.no.nth \in {1} \cup 2..LastTwin
         /\ row.no.day = row.day
         /\ row.no.at # None => DayOf(row.no.at) = row.day
    BY <1>1, <1>2, <1>3, <1>8
  <1> QED
    BY <1>6, <1>7, <1>8, <1>9, <1>10, <1>11, RowWritten

LEMMA MergeKeeps ==
    ASSUME RegistryInv,
           NEW i \in Match, NEW start \in Moment, NEW result \in Outcome \cup {None},
           NEW race \in ReadRaces,
           MergeReplay(i, start, result, race)
    PROVE  RegistryInv'
  <1> DEFINE old == match[i]
             row == [old EXCEPT
                       !.result = IF result = None THEN @ ELSE result,
                       !.team1  = Reread(@, race),
                       !.team2  = Reread(@, race),
                       !.replay = IF @ = None THEN None ELSE old.no]
  <1>1. i \in Registered /\ old \in RowType
    BY RegisteredRow DEF RegistryInv, MergeReplay
  <1>2. row \in RowType
    BY <1>1, RereadType DEF RowType
  <1>3. match' = [match EXCEPT ![i] = row]
    BY <1>1 DEF MergeReplay, RegistryInv, TypeOK
  <1>4. alias' \in [Name -> Owner \cup {None}]
    BY DEF MergeReplay, RegistryInv, TypeOK
  <1>5. /\ row.no = match[i].no /\ row.day = match[i].day
        /\ row.replay \in {None, row.no}
    BY <1>1 DEF RowType
  <1>6. /\ row.no.at = None => row.no.nth <= LastManual
        /\ row.no.at # None => row.no.nth \in {1} \cup 2..LastTwin
        /\ \A j \in Registered : match[j].no = row.no => j = i
        /\ row.no.day = row.day
        /\ row.no.at # None => DayOf(row.no.at) = row.day
    <2> HIDE DEF row
    <2> QED
      BY <1>1, <1>5
         DEF RegistryInv, ManualBounded, TwinsNumbered, NumbersDistinct, NumberTellsTheDate
  <1> HIDE DEF row
  <1> QED
    BY <1>2, <1>3, <1>4, <1>5, <1>6, RowWritten

(* The number after reading a match again is one of its date and its time,  *)
(* and nobody else's.                                                      *)
LEMMA NumberAfterType ==
    ASSUME RegistryInv, NEW i \in Registered, NEW start \in Moment \cup {None},
           NEW no \in NumberAfter(i, start)
    PROVE  /\ StartAfter(i, start) \in Moment \cup {None}
           /\ no \in Number
           /\ no.day = match[i].day
           /\ no.at = None => no.nth <= LastManual
           /\ no.at # None => no.nth \in {1} \cup 2..LastTwin
           /\ no.at # None => DayOf(no.at) = match[i].day
           /\ \A j \in Registered : match[j].no = no => j = i
  <1> DEFINE began == StartAfter(i, start)
             base  == MatchNoBase(match[i].day, began)
  <1>1. match[i] \in RowType
    BY RegisteredRow DEF RegistryInv
  <1>2. began \in Moment \cup {None}
    BY <1>1 DEF StartAfter, RowType
  <1>3. base \in Moment \cup {None} /\ (base # None => DayOf(base) = match[i].day)
    <2> HIDE DEF began
    <2> QED
      BY <1>1, <1>2, BaseOfDate DEF RowType
  <1>4. CASE no = match[i].no
    BY <1>1, <1>2, <1>4
       DEF RegistryInv, ManualBounded, TwinsNumbered, NumbersDistinct, NumberTellsTheDate,
           RowType
  <1>5. CASE no # match[i].no
    <2>1. base # None /\ no \in UniqueMatchNo(match[i].day, base, match[i].no)
      BY <1>5 DEF NumberAfter
    <2> HIDE DEF base, began
    <2>2. match[i].day \in Day
      BY <1>1 DEF RowType
    <2>3. /\ no \in Number /\ no.day = match[i].day /\ no.at = base /\ no \notin Used
          /\ no.at # None => no.nth \in {1} \cup 2..LastTwin
      BY <1>3, <1>5, <2>1, <2>2, NumberGiven DEF RegistryInv
    <2>4. \A j \in Registered : match[j].no # no
      BY <2>3 DEF Used
    <2> QED
      BY <1>2, <1>3, <2>1, <2>3, <2>4 DEF began
  <1> QED
    BY <1>4, <1>5

LEMMA RewrittenRow ==
    ASSUME RegistryInv,
           NEW i \in Match, NEW start \in Moment \cup {None}, NEW race \in ReadRaces,
           RewriteSummary(i, start, race)
    PROVE  \E no \in NumberAfter(i, start), row \in RowType :
              /\ match' = [match EXCEPT ![i] = row]
              /\ row.no = no
              /\ row.day = match[i].day
              /\ row.start = StartAfter(i, start)
              /\ row.replay \in {None, no}
  <1>1. i \in Registered /\ match[i] \in RowType
    BY RegisteredRow DEF RegistryInv, RewriteSummary
  <1>2. PICK no \in NumberAfter(i, start) :
           match' = [match EXCEPT
              ![i].no     = no,
              ![i].start  = StartAfter(i, start),
              ![i].team1  = Reread(@, race),
              ![i].team2  = Reread(@, race),
              ![i].replay = IF @ = None THEN None ELSE no]
    BY DEF RewriteSummary
  <1> DEFINE old == match[i]
             row == [old EXCEPT
                       !.no     = no,
                       !.start  = StartAfter(i, start),
                       !.team1  = Reread(@, race),
                       !.team2  = Reread(@, race),
                       !.replay = IF @ = None THEN None ELSE no]
  <1>3. StartAfter(i, start) \in Moment \cup {None} /\ no \in Number
    BY <1>1, <1>2, NumberAfterType
  <1>4. row \in RowType
    BY <1>1, <1>3, RereadType DEF RowType
  <1>5. match' = [match EXCEPT ![i] = row]
    BY <1>1, <1>2 DEF RegistryInv, TypeOK
  <1>6. /\ row.no = no /\ row.day = match[i].day
        /\ row.start = StartAfter(i, start)
        /\ row.replay \in {None, no}
    BY <1>1 DEF RowType
  <1> HIDE DEF row
  <1> QED
    BY <1>4, <1>5, <1>6

LEMMA RewriteKeeps ==
    ASSUME RegistryInv,
           NEW i \in Match, NEW start \in Moment \cup {None}, NEW race \in ReadRaces,
           RewriteSummary(i, start, race)
    PROVE  RegistryInv'
  <1>1. i \in Registered
    BY DEF RewriteSummary
  <1>2. PICK no \in NumberAfter(i, start), row \in RowType :
           /\ match' = [match EXCEPT ![i] = row]
           /\ row.no = no /\ row.day = match[i].day
           /\ row.replay \in {None, no}
    BY RewrittenRow
  <1>3. /\ no.day = match[i].day
        /\ no.at = None => no.nth <= LastManual
        /\ no.at # None => no.nth \in {1} \cup 2..LastTwin
        /\ no.at # None => DayOf(no.at) = match[i].day
        /\ \A j \in Registered : match[j].no = no => j = i
    BY <1>1, NumberAfterType
  <1>4. alias' \in [Name -> Owner \cup {None}]
    BY DEF RewriteSummary, RegistryInv, TypeOK
  <1> QED
    BY <1>2, <1>3, <1>4, RowWritten

LEMMA InitRegistry == Init => RegistryInv
  <1> SUFFICES ASSUME Init PROVE RegistryInv
    OBVIOUS
  <1>1. TypeOK /\ Registered = {}
    BY DEF Init, TypeOK, Registered
  <1> QED
    BY <1>1 DEF RegistryInv, ManualBounded, TwinsNumbered, NumbersDistinct, NumberTellsTheDate,
                ReplayNamedAfterMatch

LEMMA NextRegistry == RegistryInv /\ [Next]_vars => RegistryInv'
  <1> SUFFICES ASSUME RegistryInv, [Next]_vars PROVE RegistryInv'
    OBVIOUS
  <1>1. alias \in [Name -> Owner \cup {None}] /\ match \in [Match -> RowType \cup {None}]
    BY DEF RegistryInv, TypeOK
  <1>2. ASSUME NEW i \in Match, NEW lineup \in Lineup, NEW day \in Day,
               NEW start \in Moment \cup {None}, NEW result \in Outcome, NEW replay \in BOOLEAN,
               CreateMatch(i, lineup, day, start, result, replay)
        PROVE  RegistryInv'
    BY <1>2, CreateKeeps
  <1>3. ASSUME NEW i \in Match, NEW start \in Moment, NEW result \in Outcome \cup {None},
               NEW race \in ReadRaces, MergeReplay(i, start, result, race)
        PROVE  RegistryInv'
    BY <1>3, MergeKeeps
  <1>4. ASSUME NEW i \in Match, NEW start \in Moment \cup {None}, NEW race \in ReadRaces,
               RewriteSummary(i, start, race)
        PROVE  RegistryInv'
    BY <1>4, RewriteKeeps
  <1>5. ASSUME NEW i \in Match, DeleteMatch(i) PROVE RegistryInv'
    BY <1>1, <1>5, RowsKept DEF DeleteMatch
  <1>6. CASE DeleteAllMatches
    BY <1>1, <1>6, RowsKept DEF DeleteAllMatches
  <1>7. ASSUME NEW n \in Name, NEW kind \in Kind, SetClassification(n, kind) PROVE RegistryInv'
    BY <1>1, <1>7, RowsKept DEF SetClassification, Owner
  <1>8. ASSUME NEW n \in Name, NEW owner \in Owner \cup {None}, SetMapping(n, owner)
        PROVE  RegistryInv'
    BY <1>1, <1>8, RowsKept DEF SetMapping
  <1>9. ASSUME NEW m \in Member, NEW names \in SUBSET Name, ReplaceAliases(m, names)
        PROVE  RegistryInv'
    BY <1>1, <1>9, RowsKept DEF ReplaceAliases, Owner
  <1>10. ASSUME NEW m \in Member, NEW n \in Name, AddAlias(m, n) PROVE RegistryInv'
    BY <1>1, <1>10, RowsKept DEF AddAlias, Owner
  <1>11. CASE UNCHANGED vars
    BY <1>1, <1>11, RowsKept DEF vars
  <1> QED
    BY <1>2, <1>3, <1>4, <1>5, <1>6, <1>7, <1>8, <1>9, <1>10, <1>11 DEF Next

-----------------------------------------------------------------------------
(* What a step does to the names and the numbers.                          *)

LEMMA SlotsAreRequested ==
    ASSUME NEW lineup \in Lineup, NEW slot \in SlotsOf(lineup)
    PROVE  /\ slot \in RequestSlot
           /\ \E k \in DOMAIN (lineup[1] \o lineup[2]) : (lineup[1] \o lineup[2])[k] = slot
  <1> DEFINE t1 == lineup[1]
             t2 == lineup[2]
  <1>1. t1 \in Seq(RequestSlot) /\ t2 \in Seq(RequestSlot)
    BY LineupAssumption
  <1>2. slot \in ToSet(t1) \/ slot \in ToSet(t2)
    BY DEF SlotsOf
  <1> HIDE DEF t1, t2
  <1>3. CASE slot \in ToSet(t1)
    <2>1. PICK k \in 1..Len(t1) : t1[k] = slot
      BY <1>1, <1>3, LenProperties DEF ToSet
    <2>2. k \in DOMAIN (t1 \o t2) /\ (t1 \o t2)[k] = slot
      BY <1>1, <2>1, ConcatProperties
    <2> QED
      BY <1>1, <2>1, <2>2, ElementOfSeq DEF t1, t2
  <1>4. CASE slot \in ToSet(t2)
    <2>1. PICK k \in 1..Len(t2) : t2[k] = slot
      BY <1>1, <1>4, LenProperties DEF ToSet
    <2>2. Len(t1) + k \in DOMAIN (t1 \o t2) /\ (t1 \o t2)[Len(t1) + k] = slot
      BY <1>1, <2>1, ConcatProperties, LenProperties
    <2> QED
      BY <1>1, <2>1, <2>2, ElementOfSeq DEF t1, t2
  <1> QED
    BY <1>2, <1>3, <1>4

(* The new name of a slot is remembered as the owner of that slot. *)
LEMMA NewNameRemembered ==
    ASSUME TypeOK, NEW lineup \in Lineup, NoNameTwice(lineup), NEW slot \in NewNames(lineup)
    PROVE  Remembered(lineup)[slot.name] = slot.who
  <1> DEFINE both  == lineup[1] \o lineup[2]
             other == CHOOSE t \in NewNames(lineup) : t.name = slot.name
  <1>1. other \in NewNames(lineup) /\ other.name = slot.name
    OBVIOUS
  <1>2. slot.name \in Name
    BY SlotsAreRequested DEF NewNames, RequestSlot
  <1>3. PICK k \in DOMAIN both : both[k] = slot
    BY SlotsAreRequested DEF NewNames
  <1>4. PICK l \in DOMAIN both : both[l] = other
    BY <1>1, SlotsAreRequested DEF NewNames
  <1> HIDE DEF other
  <1>5. k = l
    BY <1>1, <1>3, <1>4 DEF NoNameTwice
  <1> QED
    BY <1>2, <1>3, <1>4, <1>5 DEF Remembered, other

(* A name known already is left alone. *)
LEMMA KnownNameKept ==
    ASSUME NEW lineup, NEW n \in Name, alias[n] # None
    PROVE  Remembered(lineup)[n] = alias[n]
  BY DEF Remembered, NewNames

LEMMA NamesKeptByStep ==
    ASSUME TypeOK, [Next]_vars, NEW n \in Name, alias[n] \in Member, alias'[n] # alias[n]
    PROVE  \/ \E owner \in Owner \cup {None} : SetMapping(n, owner)
           \/ \E names \in SUBSET Name : ReplaceAliases(alias[n], names)
  <1>1. alias \in [Name -> Owner \cup {None}] /\ alias[n] # None
    BY OwnerAssumption DEF TypeOK, Owner
  <1>2. ASSUME NEW i \in Match, NEW lineup \in Lineup, NEW day \in Day,
               NEW start \in Moment \cup {None}, NEW result \in Outcome, NEW replay \in BOOLEAN,
               CreateMatch(i, lineup, day, start, result, replay)
        PROVE  FALSE
    BY <1>1, <1>2, KnownNameKept DEF CreateMatch
  <1>3. ASSUME NEW k \in Name, NEW owner \in Owner \cup {None}, SetMapping(k, owner)
        PROVE  SetMapping(n, owner)
    BY <1>1, <1>3 DEF SetMapping
  <1>4. ASSUME NEW m \in Member, NEW names \in SUBSET Name, ReplaceAliases(m, names)
        PROVE  m = alias[n]
    BY <1>1, <1>4 DEF ReplaceAliases
  <1>5. ASSUME NEW k \in Name, NEW kind \in Kind, SetClassification(k, kind) PROVE FALSE
    BY <1>1, <1>5 DEF SetClassification
  <1>6. ASSUME NEW m \in Member, NEW k \in Name, AddAlias(m, k) PROVE FALSE
    BY <1>1, <1>6 DEF AddAlias
  <1>7. ASSUME NEW i \in Match, NEW start, NEW result, NEW race,
               MergeReplay(i, start, result, race) \/ RewriteSummary(i, start, race)
        PROVE  FALSE
    BY <1>7 DEF MergeReplay, RewriteSummary
  <1>8. ASSUME NEW i \in Match, DeleteMatch(i) PROVE FALSE
    BY <1>8 DEF DeleteMatch
  <1>9. ~ DeleteAllMatches /\ ~ UNCHANGED vars
    BY DEF DeleteAllMatches, vars
  <1>10. Next
    BY <1>9
  <1>11. CASE \E k \in Name, owner \in Owner \cup {None} : SetMapping(k, owner)
    BY <1>3, <1>11
  <1>12. CASE \E m \in Member, names \in SUBSET Name : ReplaceAliases(m, names)
    BY <1>4, <1>12
  <1> QED
    BY <1>2, <1>5, <1>6, <1>7, <1>8, <1>9, <1>10, <1>11, <1>12 DEF Next

LEMMA NamedByStep ==
    ASSUME TypeOK,
           NEW i \in Match, NEW lineup \in Lineup, NEW day \in Day,
           NEW start \in Moment \cup {None}, NEW result \in Outcome, NEW replay \in BOOLEAN,
           CreateMatch(i, lineup, day, start, result, replay),
           NEW slot \in SlotsOf(lineup), slot.who \in Member, slot.name # None
    PROVE  alias'[slot.name] = slot.who
  <1>1. alias' = Remembered(lineup) /\ NoNameTwice(lineup)
    BY DEF CreateMatch
  <1>2. alias[slot.name] \in {None, slot.who} /\ slot.who # None
    BY OwnerAssumption DEF CreateMatch, NamesAllowed, Owner
  <1>3. slot.name \in Name
    BY SlotsAreRequested DEF RequestSlot
  <1>4. CASE alias[slot.name] = None
    BY <1>1, <1>4, NewNameRemembered DEF NewNames
  <1>5. CASE alias[slot.name] = slot.who
    BY <1>1, <1>2, <1>3, <1>5, KnownNameKept
  <1> QED
    BY <1>2, <1>4, <1>5

(* A match read again keeps its number or gets the first free one of the    *)
(* second it started at.                                                   *)
LEMMA RenumberedByReading ==
    ASSUME RegistryInv,
           NEW i \in Match, NEW start \in Moment \cup {None}, NEW race \in ReadRaces,
           RewriteSummary(i, start, race),
           match'[i].no # match[i].no
    PROVE  LET old == match[i].no
               new == match'[i].no
           IN  /\ new.at # None /\ new.at = match'[i].start
               /\ new \notin Used
               /\ \A no \in TimedNumbers(new.day, new.at) : no.nth < new.nth => no \in Used
               /\ new.at = old.at => new.nth < old.nth
  <1> DEFINE old  == match[i].no
             new  == match'[i].no
             day  == match[i].day
             base == MatchNoBase(day, StartAfter(i, start))
             free == {no \in TimedNumbers(day, base) : no = old \/ no \notin Used}
  <1>1. i \in Registered /\ match[i] \in RowType
    BY RegisteredRow DEF RegistryInv, RewriteSummary
  <1>2. /\ new \in NumberAfter(i, start)
        /\ match'[i].start = StartAfter(i, start)
    <2>1. PICK row \in RowType, no \in NumberAfter(i, start) :
             /\ match' = [match EXCEPT ![i] = row]
             /\ row.no = no
             /\ row.start = StartAfter(i, start)
      BY RewrittenRow
    <2>2. match'[i] = row
      BY <2>1 DEF RegistryInv, TypeOK
    <2> QED
      BY <2>1, <2>2
  <1>3. base # None /\ new \in UniqueMatchNo(day, base, old)
    BY <1>2 DEF NumberAfter
  <1>4. base = StartAfter(i, start)
    BY <1>3 DEF MatchNoBase
  <1>5. new \in free /\ \A no \in free : new.nth <= no.nth
    BY <1>3 DEF UniqueMatchNo
  <1>6. \A no \in TimedNumbers(day, base) :
           /\ no.day = day /\ no.at = base /\ no.nth \in Nat
           /\ no = [day |-> day, at |-> base, nth |-> no.nth]
    BY TimeAssumption DEF TimedNumbers
  <1>7. old \in Number /\ old.day = day
        /\ (old.at # None => old.nth \in {1} \cup 2..LastTwin)
    BY <1>1 DEF RowType, RegistryInv, NumberTellsTheDate, TwinsNumbered
  <1>8. old.at = base => old \in free
    BY <1>3, <1>7 DEF TimedNumbers, Number
  <1> HIDE DEF base
  <1>9. new.day = day /\ new.at = base /\ new \notin Used
    BY <1>5, <1>6
  <1>10. \A no \in TimedNumbers(day, base) : no.nth < new.nth => no \in Used
    BY <1>5, <1>6
  <1>11. new.at = old.at => new.nth < old.nth
    <2>1. SUFFICES ASSUME old.at = base PROVE new.nth < old.nth
      BY <1>9
    <2>2. old \in TimedNumbers(day, base) /\ new \in TimedNumbers(day, base)
      BY <1>5, <1>8, <2>1
    <2>3. old.nth # new.nth
      BY <1>6, <2>2
    <2> HIDE DEF free
    <2> QED
      BY <1>5, <1>6, <1>8, <2>1, <2>2, <2>3
  <1> QED
    BY <1>2, <1>3, <1>4, <1>9, <1>10, <1>11

(* No other request changes the number of a match that stays.              *)
LEMMA RenumberedByStep ==
    ASSUME RegistryInv, [Next]_vars,
           NEW i \in Match, match[i] # None, match'[i] # None,
           match'[i].no # match[i].no
    PROVE  \E start \in Moment \cup {None}, race \in ReadRaces :
              RewriteSummary(i, start, race)
  <1>1. match \in [Match -> RowType \cup {None}] /\ match' # match
    BY DEF RegistryInv, TypeOK
  <1>2. ASSUME NEW j \in Match, NEW lineup \in Lineup, NEW day \in Day,
               NEW start \in Moment \cup {None}, NEW result \in Outcome, NEW replay \in BOOLEAN,
               CreateMatch(j, lineup, day, start, result, replay)
        PROVE  FALSE
    BY <1>1, <1>2 DEF CreateMatch
  <1>3. ASSUME NEW j \in Match, NEW start \in Moment, NEW result \in Outcome \cup {None},
               NEW race \in ReadRaces, MergeReplay(j, start, result, race)
        PROVE  FALSE
    <2>1. CASE j = i
      <3>1. match[i] \in RowType
        BY <1>1
      <3>2. match'[i].no = match[i].no
        BY <1>1, <1>3, <2>1, <3>1 DEF MergeReplay, RowType
      <3> QED
        BY <3>2
    <2>2. CASE j # i
      BY <1>1, <1>3, <2>2 DEF MergeReplay
    <2> QED
      BY <2>1, <2>2
  <1>4. ASSUME NEW j \in Match, NEW start \in Moment \cup {None}, NEW race \in ReadRaces,
               RewriteSummary(j, start, race)
        PROVE  j = i
    BY <1>1, <1>4 DEF RewriteSummary
  <1>5. ASSUME NEW j \in Match, DeleteMatch(j) PROVE FALSE
    BY <1>1, <1>5 DEF DeleteMatch
  <1>6. CASE DeleteAllMatches
    BY <1>6 DEF DeleteAllMatches
  <1>7. ASSUME NEW n \in Name, NEW kind \in Kind, SetClassification(n, kind) PROVE FALSE
    BY <1>1, <1>7 DEF SetClassification
  <1>8. ASSUME NEW n \in Name, NEW owner \in Owner \cup {None}, SetMapping(n, owner)
        PROVE  FALSE
    BY <1>1, <1>8 DEF SetMapping
  <1>9. ASSUME NEW m \in Member, NEW names \in SUBSET Name, ReplaceAliases(m, names)
        PROVE  FALSE
    BY <1>1, <1>9 DEF ReplaceAliases
  <1>10. ASSUME NEW m \in Member, NEW n \in Name, AddAlias(m, n) PROVE FALSE
    BY <1>1, <1>10 DEF AddAlias
  <1>11. Next
    BY <1>1 DEF vars
  <1> QED
    BY <1>2, <1>3, <1>4, <1>5, <1>6, <1>7, <1>8, <1>9, <1>10, <1>11 DEF Next

-----------------------------------------------------------------------------
(* Counting.                                                               *)

(* What a finite set is mapped onto is finite, and as large if the mapping *)
(* is one to one.                                                          *)
LEMMA MappedOnto ==
    ASSUME NEW S, NEW T, IsFiniteSet(S), NEW g \in [S -> T],
           \A t \in T : \E s \in S : g[s] = t
    PROVE  /\ IsFiniteSet(T)
           /\ (\A a, b \in S : g[a] = g[b] => a = b) => Cardinality(T) = Cardinality(S)
  <1>1. g \in Surjection(S, T)
    BY DEF Surjection
  <1>2. IsFiniteSet(T)
    BY <1>1, FS_Surjection, Zenon
  <1>3. ASSUME \A a, b \in S : g[a] = g[b] => a = b
        PROVE  Cardinality(T) = Cardinality(S)
    <2>1. g \in Bijection(S, T)
      BY <1>1, <1>3 DEF Bijection, Injection, IsInjective
    <2> QED
      BY <2>1, FS_Bijection, Zenon DEF ExistsBijection
  <1> QED
    BY <1>2, <1>3

(* A set of pairs has as many elements as the set of the pairs turned over.*)
LEMMA MirrorCardinality ==
    ASSUME NEW R, NEW S \in SUBSET (R \X R), NEW T \in SUBSET (R \X R), IsFiniteSet(S),
           \A p \in S : <<p[2], p[1]>> \in T,
           \A p \in T : <<p[2], p[1]>> \in S
    PROVE  IsFiniteSet(T) /\ Cardinality(T) = Cardinality(S)
  <1> DEFINE f == [p \in S |-> <<p[2], p[1]>>]
  <1>1. f \in [S -> T]
    OBVIOUS
  <1>2. \A p \in S \cup T : p = <<p[1], p[2]>>
    OBVIOUS
  <1>3. \A p, q \in S : f[p] = f[q] => p = q
    BY <1>2
  <1>4. \A p \in T : \E q \in S : f[q] = p
    <2> TAKE p \in T
    <2>1. f[<<p[2], p[1]>>] = p
      BY <1>2
    <2> QED
      BY <2>1
  <1> HIDE DEF f
  <1> QED
    BY <1>1, <1>3, <1>4, MappedOnto

(* A finite set in two parts. *)
LEMMA PartsAddUp ==
    ASSUME NEW A, NEW B, IsFiniteSet(A), IsFiniteSet(B), A \cap B = {}
    PROVE  /\ IsFiniteSet(A \cup B)
           /\ Cardinality(A \cup B) = Cardinality(A) + Cardinality(B)
           /\ Cardinality(A) \in Nat /\ Cardinality(B) \in Nat
  <1>1. /\ IsFiniteSet(A \cup B)
        /\ Cardinality(A \cup B) = Cardinality(A) + Cardinality(B) - Cardinality(A \cap B)
    BY FS_Union
  <1>2. Cardinality(A \cap B) = 0
    BY FS_EmptySet
  <1>3. Cardinality(A) \in Nat /\ Cardinality(B) \in Nat
    BY FS_CardinalityType
  <1> QED
    BY <1>1, <1>2, <1>3

-----------------------------------------------------------------------------
(* The statistics.                                                         *)

(* A row is of a registered match and one of its teams. *)
RowsOf(rows) ==
    \A r \in rows : r.of \in Registered /\ r.team \in {"team1", "team2"}

RowsOfTeam(i, t) ==
    {[of |-> i, team |-> t, pos |-> k, member |-> MemberOf(match[i][t][k].name)] :
        k \in DOMAIN match[i][t]}

TeamRows == {RowsOfTeam(i, t) : i \in Registered, t \in {"team1", "team2"}}

LEMMA TeamRowsFinite ==
    ASSUME TypeOK, NEW i \in Registered, NEW t \in {"team1", "team2"}
    PROVE  IsFiniteSet(RowsOfTeam(i, t))
  <1> DEFINE D == DOMAIN match[i][t]
             g == [k \in D |-> [of |-> i, team |-> t, pos |-> k,
                                member |-> MemberOf(match[i][t][k].name)]]
             S == RowsOfTeam(i, t)
  <1>1. match[i].team1 \in Team /\ match[i].team2 \in Team
    BY RegisteredRow DEF RowType
  <1>2. match[i][t] \in Team
    BY <1>1
  <1>3. D = 1..Len(match[i][t]) /\ Len(match[i][t]) \in Nat
    BY <1>2 DEF Team
  <1>4. IsFiniteSet(D)
    BY <1>3, FS_Interval
  <1>5. g \in [D -> S] /\ \A r \in S : \E k \in D : g[k] = r
    BY DEF RowsOfTeam
  <1>6. IsFiniteSet(S)
    <2> HIDE DEF D, g, S
    <2> QED
      BY <1>4, <1>5, MappedOnto
  <1> QED
    BY <1>6

LEMMA TeamsFinite ==
    ASSUME IsFiniteSet(Registered)
    PROVE  IsFiniteSet(TeamRows)
  <1> DEFINE Sides == {"team1", "team2"}
             D == Registered \X Sides
             g == [p \in D |-> RowsOfTeam(p[1], p[2])]
  <1>1. IsFiniteSet(Sides)
    <2>1. Sides = {"team1"} \cup {"team2"}
      OBVIOUS
    <2>2. IsFiniteSet({"team1"}) /\ IsFiniteSet({"team2"})
      BY FS_Singleton
    <2> QED
      BY <2>1, <2>2, FS_Union
  <1>2. IsFiniteSet(D)
    BY <1>1, FS_Product
  <1>3. g \in [D -> TeamRows]
    BY DEF TeamRows
  <1>4. ASSUME NEW s \in TeamRows
        PROVE  \E p \in D : g[p] = s
    <2>1. PICK i \in Registered, t \in Sides : s = RowsOfTeam(i, t)
      BY DEF TeamRows
    <2>2. <<i, t>> \in D /\ g[<<i, t>>] = s
      BY <2>1
    <2> QED
      BY <2>2
  <1> HIDE DEF D, g
  <1> QED
    BY <1>2, <1>3, <1>4, MappedOnto

LEMMA RowsSound ==
    ASSUME TypeOK, IsFiniteSet(Registered)
    PROVE  RowsOf(Rows) /\ IsFiniteSet(Rows)
  <1>1. Rows = UNION TeamRows
    BY DEF Rows, TeamRows, RowsOfTeam
  <1>2. RowsOf(Rows)
    BY DEF RowsOf, Rows
  <1>3. \A s \in TeamRows : IsFiniteSet(s)
    BY TeamRowsFinite DEF TeamRows
  <1> QED
    BY <1>1, <1>2, <1>3, TeamsFinite, FS_UNION

(* What is counted was held. *)
LEMMA HeldSound ==
    ASSUME TypeOK, IsFiniteSet(Registered), NEW f \in Filter
    PROVE  /\ HeldRows(f, Rows) \in SUBSET Rows
           /\ RowsOf(HeldRows(f, Rows)) /\ IsFiniteSet(HeldRows(f, Rows))
           /\ \A r \in HeldRows(f, Rows) : match[r.of].result \in {"team1", "team2", "draw"}
  <1>1. HeldRows(f, Rows) \in SUBSET Rows
    BY DEF HeldRows
  <1>2. RowsOf(HeldRows(f, Rows)) /\ IsFiniteSet(HeldRows(f, Rows))
    BY <1>1, RowsSound, FS_Subset DEF RowsOf
  <1>3. ASSUME NEW r \in HeldRows(f, Rows)
        PROVE  match[r.of].result \in {"team1", "team2", "draw"}
    <2>1. match[r.of] \in RowType
      BY <1>2, RegisteredRow DEF RowsOf
    <2>2. match[r.of].result \in Outcome /\ match[r.of].result # "not_held"
      BY <2>1 DEF RowType, HeldRows
    <2> QED
      BY <2>2, OutcomeAssumption
  <1> QED
    BY <1>1, <1>2, <1>3

(* Both members of a pair have met as often, with as many draws, and one   *)
(* has won what the other has lost.                                        *)
LEMMA MeetingsMirror ==
    ASSUME NEW rows, RowsOf(rows), IsFiniteSet(rows),
           \A r \in rows : match[r.of].result \in {"team1", "team2", "draw"},
           NEW m, NEW o
    PROVE  LET mine == HeadToHead(m, o, rows)
               hers == HeadToHead(o, m, rows)
           IN  /\ mine.plays = hers.plays /\ mine.draws = hers.draws
               /\ mine.wins = Losses(hers)
               /\ mine.wins \in Nat /\ mine.plays \in Nat /\ mine.draws \in Nat
               /\ IsFiniteSet(Meetings(m, o, rows))
  <1> DEFINE A == Meetings(m, o, rows)
             B == Meetings(o, m, rows)
             Draws(S) == {p \in S : match[p[1].of].result = "draw"}
             Won(S) == {p \in S : match[p[1].of].result = p[1].team}
             Lost(S) == {p \in S : match[p[1].of].result \notin {"draw", p[1].team}}
  <1>1. /\ A \in SUBSET (rows \X rows) /\ B \in SUBSET (rows \X rows)
        /\ \A p \in A : <<p[2], p[1]>> \in B
        /\ \A p \in B : <<p[2], p[1]>> \in A
        /\ \A p \in A \cup B : p[1] \in rows /\ p[2] \in rows
                               /\ p[1].of = p[2].of /\ p[1].team # p[2].team
    BY DEF Meetings
  <1>2. IsFiniteSet(A) /\ IsFiniteSet(B)
    BY <1>1, FS_Product, FS_Subset
  <1>3. \A p \in A \cup B :
           /\ match[p[1].of].result \in {"team1", "team2", "draw"}
           /\ p[1].team \in {"team1", "team2"} /\ p[2].team \in {"team1", "team2"}
           /\ p[1].team # p[2].team /\ p[1].of = p[2].of
    BY <1>1 DEF RowsOf
  <1> HIDE DEF A, B
  <1>4. Cardinality(A) = Cardinality(B)
    BY <1>1, <1>2, MirrorCardinality
  <1>5. Cardinality(Draws(A)) = Cardinality(Draws(B))
    <2>1. /\ Draws(A) \in SUBSET (rows \X rows) /\ Draws(B) \in SUBSET (rows \X rows)
          /\ Draws(A) \in SUBSET A
          /\ \A p \in Draws(A) : <<p[2], p[1]>> \in Draws(B)
          /\ \A p \in Draws(B) : <<p[2], p[1]>> \in Draws(A)
      BY <1>1
    <2>2. IsFiniteSet(Draws(A))
      BY <1>2, <2>1, FS_Subset
    <2> HIDE DEF Draws
    <2> QED
      BY <2>1, <2>2, MirrorCardinality
  <1>6. Cardinality(Won(A)) = Cardinality(Lost(B))
    <2>1. /\ Won(A) \in SUBSET (rows \X rows) /\ Lost(B) \in SUBSET (rows \X rows)
          /\ Won(A) \in SUBSET A
          /\ \A p \in Won(A) : <<p[2], p[1]>> \in Lost(B)
          /\ \A p \in Lost(B) : <<p[2], p[1]>> \in Won(A)
      BY <1>1, <1>3
    <2>2. IsFiniteSet(Won(A))
      BY <1>2, <2>1, FS_Subset
    <2> HIDE DEF Won, Lost
    <2> QED
      BY <2>1, <2>2, MirrorCardinality
  <1>7. /\ Cardinality(B) = Cardinality(Won(B)) + Cardinality(Draws(B)) + Cardinality(Lost(B))
        /\ Cardinality(Won(B)) \in Nat /\ Cardinality(Draws(B)) \in Nat
        /\ Cardinality(Lost(B)) \in Nat
    <2>1. /\ Won(B) \in SUBSET B /\ Draws(B) \in SUBSET B /\ Lost(B) \in SUBSET B
          /\ B = (Won(B) \cup Draws(B)) \cup Lost(B)
          /\ Won(B) \cap Draws(B) = {} /\ (Won(B) \cup Draws(B)) \cap Lost(B) = {}
      BY <1>3
    <2> DEFINE W == Won(B)
               D == Draws(B)
               L == Lost(B)
               E == W \cup D
    <2>2. /\ W \in SUBSET B /\ D \in SUBSET B /\ L \in SUBSET B
          /\ B = E \cup L /\ W \cap D = {} /\ E \cap L = {}
      BY <2>1
    <2>3. /\ Cardinality(B) = Cardinality(W) + Cardinality(D) + Cardinality(L)
          /\ Cardinality(W) \in Nat /\ Cardinality(D) \in Nat /\ Cardinality(L) \in Nat
      <3> HIDE DEF W, D, L
      <3>1. IsFiniteSet(W) /\ IsFiniteSet(D) /\ IsFiniteSet(L)
        BY <1>2, <2>2, FS_Subset
      <3>2. /\ IsFiniteSet(E) /\ Cardinality(E) = Cardinality(W) + Cardinality(D)
            /\ Cardinality(W) \in Nat /\ Cardinality(D) \in Nat
        BY <2>2, <3>1, PartsAddUp
      <3> HIDE DEF E
      <3>3. /\ Cardinality(E \cup L) = Cardinality(E) + Cardinality(L)
            /\ Cardinality(L) \in Nat
        BY <2>2, <3>1, <3>2, PartsAddUp
      <3> QED
        BY <2>2, <3>2, <3>3
    <2> QED
      BY <2>3, Zenon
  <1>8. /\ HeadToHead(m, o, rows) =
              [plays |-> Cardinality(A), draws |-> Cardinality(Draws(A)), wins |-> Cardinality(Won(A))]
        /\ HeadToHead(o, m, rows) =
              [plays |-> Cardinality(B), draws |-> Cardinality(Draws(B)), wins |-> Cardinality(Won(B))]
    BY DEF HeadToHead, Tally, A, B
  <1> HIDE DEF Draws, Won, Lost
  <1>9. Losses(HeadToHead(o, m, rows)) = Cardinality(Lost(B))
    BY <1>7, <1>8 DEF Losses
  <1> QED
    BY <1>2, <1>4, <1>5, <1>6, <1>7, <1>8, <1>9 DEF A

(* Every pair has one record, in the ranking and in the rivalries. *)
LEMMA PairsDoAgree ==
    ASSUME TypeOK, IsFiniteSet(Registered), NEW f \in Filter
    PROVE  PairsAgree(f, HeldRows(f, Rows))
  <1> DEFINE rows == HeldRows(f, Rows)
  <1>1. /\ RowsOf(rows) /\ IsFiniteSet(rows)
        /\ \A r \in rows : match[r.of].result \in {"team1", "team2", "draw"}
    BY HeldSound
  <1>2. \A r \in rows : f.type \in {"any", Type[r.of]}
    BY DEF HeldRows, Passes
  <1> HIDE DEF rows
  <1> SUFFICES ASSUME NEW m \in Member, NEW o \in Member
               PROVE  LET mine == HeadToHead(m, o, rows)
                          hers == HeadToHead(o, m, rows)
                      IN  /\ mine.plays = hers.plays /\ mine.draws = hers.draws
                          /\ mine.wins = Losses(hers)
                          /\ Ahead(mine) <=> Behind(hers)
                          /\ m # o /\ f.type = "0102" => mine.wins = RivalWins(m, o, TRUE, rows)
                          /\ m # o /\ f.type = "0101" => mine.wins >= RivalWins(m, o, FALSE, rows)
    BY DEF PairsAgree, rows
  <1> DEFINE mine == HeadToHead(m, o, rows)
             hers == HeadToHead(o, m, rows)
             Won(S) == {p \in S : match[p[1].of].result = p[1].team}
             M == Meetings(m, o, rows)
  <1>3. /\ mine.plays = hers.plays /\ mine.draws = hers.draws
        /\ mine.wins = Losses(hers) /\ hers.wins = Losses(mine)
        /\ mine.wins \in Nat /\ hers.wins \in Nat
        /\ IsFiniteSet(M)
    BY <1>1, MeetingsMirror
  <1>4. mine.wins = Cardinality(Won(M))
    BY DEF HeadToHead, Tally
  <1>5. Ahead(mine) <=> Behind(hers)
    BY <1>3 DEF Ahead, Behind
  <1>6. ASSUME m # o, f.type = "0102"
        PROVE  mine.wins = RivalWins(m, o, TRUE, rows)
    <2>1. \A r \in rows : Type[r.of] = "0102"
      BY <1>2, <1>6
    <2>2. Rivals(m, o, TRUE, rows) = M
      BY <1>6, <2>1 DEF Rivals, Meetings
    <2> QED
      BY <1>4, <2>2 DEF RivalWins
  <1>7. ASSUME m # o, f.type = "0101"
        PROVE  mine.wins >= RivalWins(m, o, FALSE, rows)
    <2> DEFINE N == Rivals(m, o, FALSE, rows)
    <2>1. N \in SUBSET M
      BY DEF Rivals, Meetings
    <2>2. Won(N) \in SUBSET Won(M) /\ Won(M) \in SUBSET M
      BY <2>1
    <2>3. RivalWins(m, o, FALSE, rows) = Cardinality(Won(N))
      BY DEF RivalWins
    <2> HIDE DEF Won, N, M
    <2>4. IsFiniteSet(Won(M)) /\ IsFiniteSet(Won(N)) /\ Cardinality(Won(N)) <= Cardinality(Won(M))
      BY <1>3, <2>2, FS_Subset
    <2>5. Cardinality(Won(N)) \in Nat /\ Cardinality(Won(M)) \in Nat
      BY <2>4, FS_CardinalityType
    <2> QED
      BY <1>4, <2>3, <2>4, <2>5
  <1> HIDE DEF mine, hers
  <1>8. /\ mine.plays = hers.plays /\ mine.draws = hers.draws
        /\ mine.wins = Losses(hers)
        /\ Ahead(mine) <=> Behind(hers)
        /\ m # o /\ f.type = "0102" => mine.wins = RivalWins(m, o, TRUE, rows)
        /\ m # o /\ f.type = "0101" => mine.wins >= RivalWins(m, o, FALSE, rows)
    BY <1>3, <1>5, <1>6, <1>7
  <1> QED
    BY <1>8 DEF mine, hers

(* A record, the list behind it, the place and the points are of the same  *)
(* matches.                                                                *)
LEMMA RecordsDoAgree ==
    ASSUME TypeOK, IsFiniteSet(Registered), NEW f \in Filter
    PROVE  RecordsAgree(f, HeldRows(f, Rows), Rows)
  <1> DEFINE rows == HeldRows(f, Rows)
             all == Rows
  <1>1. /\ RowsOf(rows) /\ IsFiniteSet(rows) /\ RowsOf(all)
        /\ rows = {r \in all : Passes(r.of, f) /\ match[r.of].result # "not_held"}
    BY HeldSound, RowsSound DEF HeldRows
  <1> HIDE DEF rows, all
  <1> SUFFICES ASSUME NEW m \in Member
               PROVE  /\ Regular(all) =>
                            /\ Record(m, rows).plays =
                                  Cardinality({i \in ListOf(m, f, all) : match[i].result # "not_held"})
                            /\ RatingGames(m, rows) <= Record(m, rows).plays
                      /\ HasHistory(m, rows) => Rated(m, f, all)
    BY DEF RecordsAgree, rows, all
  <1> DEFINE Q == {q \in rows : q.member = m}
             S == {<<r>> : r \in Q}
             I == {i \in ListOf(m, f, all) : match[i].result # "not_held"}
             G == {i \in LoggedMatches(rows) :
                      match[i].result # "draw" /\ \E r \in rows : r.of = i /\ r.member = m}
  <1>2. Record(m, rows).plays = Cardinality(S)
    BY DEF Record, Tally
  <1>3. IsFiniteSet(S) /\ Cardinality(S) \in Nat
    <2> DEFINE g == [r \in Q |-> <<r>>]
    <2>1. Q \in SUBSET rows
      OBVIOUS
    <2>2. IsFiniteSet(Q)
      BY <1>1, <2>1, FS_Subset
    <2>3. g \in [Q -> S] /\ \A s \in S : \E r \in Q : g[r] = s
      OBVIOUS
    <2> HIDE DEF Q, S, g
    <2> QED
      BY <2>2, <2>3, MappedOnto, FS_CardinalityType
  <1>4. ASSUME Regular(all)
        PROVE  /\ Record(m, rows).plays = Cardinality(I)
               /\ RatingGames(m, rows) <= Record(m, rows).plays
    <2> DEFINE g == [s \in S |-> s[1].of]
    <2>1. g \in [S -> I]
      <3>1. ASSUME NEW r \in Q
            PROVE  r.of \in I
        BY <1>1 DEF ListOf, RowsOf
      <3>2. \A s \in S : s[1] \in Q
        OBVIOUS
      <3> HIDE DEF I, S, Q
      <3> QED
        BY <3>1, <3>2
    <2>2. \A s, t \in S : g[s] = g[t] => s = t
      <3> SUFFICES ASSUME NEW r \in Q, NEW q \in Q, r.of = q.of
                   PROVE  r = q
        OBVIOUS
      <3>1. m # None
        BY OwnerAssumption DEF Owner
      <3> QED
        BY <1>1, <1>4, <3>1 DEF Regular
    <2>3. \A i \in I : \E s \in S : g[s] = i
      <3> SUFFICES ASSUME NEW i \in I
                   PROVE  \E s \in S : g[s] = i
        OBVIOUS
      <3>1. PICK r \in all : r.of = i /\ r.member = m
        BY DEF ListOf
      <3>2. r \in Q
        BY <1>1, <3>1 DEF ListOf
      <3>3. <<r>> \in S /\ g[<<r>>] = i
        BY <3>1, <3>2
      <3> QED
        BY <3>3
    <2>4. IsFiniteSet(I) /\ Cardinality(I) = Cardinality(S)
      <3> HIDE DEF g, S, I
      <3> QED
        BY <1>3, <2>1, <2>2, <2>3, MappedOnto
    <2>5. G \in SUBSET I
      BY <1>1 DEF ListOf, RowsOf, LoggedMatches
    <2>6. RatingGames(m, rows) = Cardinality(G)
      BY DEF RatingGames
    <2> HIDE DEF G, I, S
    <2>7. Cardinality(G) <= Cardinality(I)
      BY <2>4, <2>5, FS_Subset
    <2> QED
      BY <1>2, <2>4, <2>6, <2>7
  <1>5. ASSUME HasHistory(m, rows)
        PROVE  Rated(m, f, all)
    <2>1. S # {}
      BY <1>5 DEF HasHistory
    <2> HIDE DEF S
    <2>2. Cardinality(S) > 0
      BY <1>3, <2>1, FS_EmptySet
    <2> QED
      BY <1>2, <2>2 DEF Rated, rows, all
  <1> QED
    BY <1>4, <1>5

LEMMA StatisticsAgree ==
    ASSUME TypeOK, IsFiniteSet(Registered)
    PROVE  StatsAgree
  BY PairsDoAgree, RecordsDoAgree DEF StatsAgree

-----------------------------------------------------------------------------
(* The theorems.                                                           *)

(* Whatever is registered, read again, deleted or renamed: the types, the   *)
(* numbers and the names of the replays are right.                         *)
THEOREM RegistryInvariance == Spec => []RegistryInv
  <1>1. Init => RegistryInv
    BY InitRegistry
  <1>2. RegistryInv /\ [Next]_vars => RegistryInv'
    BY NextRegistry
  <1> QED
    BY <1>1, <1>2, PTL DEF Spec

(* Rows are whole, and each name stands for one owner (replay_aliases).     *)
THEOREM RegistryTypeCorrect == Spec => []TypeOK
  <1>1. RegistryInv => TypeOK
    BY DEF RegistryInv
  <1> QED
    BY <1>1, RegistryInvariance, PTL

(* _unique_match_no never gives a number that another match has.           *)
THEOREM NumbersAreDistinct == Spec => []NumbersDistinct
  <1>1. RegistryInv => NumbersDistinct
    BY DEF RegistryInv
  <1> QED
    BY <1>1, RegistryInvariance, PTL

(* A number tells the date of its match, whatever time the match was given  *)
(* (_match_no_base).                                                       *)
THEOREM NumbersTellTheDate == Spec => []NumberTellsTheDate
  <1>1. RegistryInv => NumberTellsTheDate
    BY DEF RegistryInv
  <1> QED
    BY <1>1, RegistryInvariance, PTL

(* A replay is called by the number of its match through every renumbering  *)
(* (build_replay_display_name).                                            *)
THEOREM ReplaysAreNamed == Spec => []ReplayNamedAfterMatch
  <1>1. RegistryInv => ReplayNamedAfterMatch
    BY DEF RegistryInv
  <1> QED
    BY <1>1, RegistryInvariance, PTL

(* A match is renumbered by a reading only, and then to the first free       *)
(* number of the second it started at (_unique_match_no, rewrite_summary);   *)
(* a number of the hour 99 is never exchanged for another one.              *)
THEOREM NumbersHaveSettled == Spec => NumbersSettle
  <1>1. RegistryInv /\ [Next]_vars =>
           [\A i \in Match : match[i] # None /\ match'[i] # None =>
               LET old == match[i].no
                   new == match'[i].no
               IN  new # old =>
                      /\ new.at # None /\ new.at = match'[i].start
                      /\ new \notin Used
                      /\ \A no \in TimedNumbers(new.day, new.at) :
                            no.nth < new.nth => no \in Used
                      /\ new.at = old.at => new.nth < old.nth]_vars
    BY RenumberedByStep, RenumberedByReading
  <1> QED
    BY <1>1, RegistryInvariance, PTL DEF Spec, NumbersSettle

(* Registering and classifying take no member's name away                  *)
(* (_remember_placeholder_raw_names, set_replay_name_classification).       *)
THEOREM MembersHaveTheirNames == Spec => MembersKeepTheirNames
  <1>1. TypeOK /\ [Next]_vars =>
           [\A n \in Name :
               alias[n] \in Member /\ alias'[n] # alias[n]
                 => \/ \E owner \in Owner \cup {None} : SetMapping(n, owner)
                    \/ \E names \in SUBSET Name : ReplaceAliases(alias[n], names)]_vars
    BY NamesKeptByStep
  <1> QED
    BY <1>1, RegistryTypeCorrect, PTL DEF Spec, MembersKeepTheirNames

(* A member registered under a name is who that name stands for afterwards  *)
(* (_ensure_player_name_classifications).                                  *)
THEOREM NamedMembersAreRead == Spec => NamedMembersReadBack
  <1>1. TypeOK /\ [Next]_vars =>
           [\A i \in Match, lineup \in Lineup :
               match[i] = None /\ match'[i] # None
                 /\ (\E day \in Day, start \in Moment \cup {None},
                        result \in Outcome, replay \in BOOLEAN :
                        CreateMatch(i, lineup, day, start, result, replay))
                 => \A slot \in SlotsOf(lineup) :
                        slot.who \in Member /\ slot.name # None
                          => alias'[slot.name] = slot.who]_vars
    BY NamedByStep
  <1> QED
    BY <1>1, RegistryTypeCorrect, PTL DEF Spec, NamedMembersReadBack

(* No more matches are registered than requests have registered. *)
LEMMA RegisteredGrows ==
    ASSUME TypeOK, IsFiniteSet(Registered), [Next]_vars
    PROVE  IsFiniteSet(Registered')
  <1>1. ASSUME NEW i \in Match, Registered' \subseteq Registered \cup {i}
        PROVE  IsFiniteSet(Registered')
    <2>1. IsFiniteSet(Registered \cup {i})
      BY FS_AddElement, Zenon
    <2> QED
      BY <1>1, <2>1, FS_Subset, Zenon
  <1>2. ASSUME Registered' \subseteq Registered
        PROVE  IsFiniteSet(Registered')
    BY <1>2, FS_Subset, Zenon
  <1>3. ASSUME NEW i \in Match, NEW row, match' = [match EXCEPT ![i] = row]
        PROVE  Registered' \subseteq Registered \cup {i}
    BY <1>3 DEF Registered, TypeOK
  <1>4. ASSUME NEW i \in Match, NEW lineup \in Lineup, NEW day \in Day,
               NEW start \in Moment \cup {None}, NEW result \in Outcome,
               NEW replay \in BOOLEAN, CreateMatch(i, lineup, day, start, result, replay)
        PROVE  IsFiniteSet(Registered')
    <2>1. PICK row : match' = [match EXCEPT ![i] = row]
      BY <1>4 DEF CreateMatch
    <2> QED
      BY <1>1, <1>3, <2>1
  <1>5. ASSUME NEW i \in Match, NEW start \in Moment, NEW result \in Outcome \cup {None},
               NEW race \in ReadRaces, MergeReplay(i, start, result, race)
        PROVE  IsFiniteSet(Registered')
    BY <1>1, <1>5 DEF MergeReplay, Registered, TypeOK
  <1>6. ASSUME NEW i \in Match, NEW start \in Moment \cup {None}, NEW race \in ReadRaces,
               RewriteSummary(i, start, race)
        PROVE  IsFiniteSet(Registered')
    BY <1>1, <1>6 DEF RewriteSummary, Registered, TypeOK
  <1>7. ASSUME NEW i \in Match, DeleteMatch(i)
        PROVE  IsFiniteSet(Registered')
    BY <1>1, <1>7 DEF DeleteMatch, Registered, TypeOK
  <1>8. CASE DeleteAllMatches
    BY <1>2, <1>8 DEF DeleteAllMatches, Registered
  <1>9. CASE UNCHANGED match
    BY <1>2, <1>9 DEF Registered
  <1> QED
    BY <1>4, <1>5, <1>6, <1>7, <1>8, <1>9
    DEF Next, vars, SetClassification, SetMapping, ReplaceAliases, AddAlias

(* The queries of the statistics tell one story: whom two members met and   *)
(* who won is the same seen from either side, the rivalries and the records *)
(* count the same matches, and whoever is rated can look his matches up     *)
(* (head_to_head_rows, rivalry_rows, aggregate_stats,                       *)
(* list_match_ids_for_player).                                              *)
THEOREM StatisticsDoAgree == Spec => []StatsAgree
  <1>1. Init => IsFiniteSet(Registered)
    <2>1. Init => Registered = {}
      BY DEF Init, Registered
    <2> QED
      BY <2>1, FS_EmptySet
  <1>2. TypeOK /\ IsFiniteSet(Registered) /\ [Next]_vars => IsFiniteSet(Registered)'
    BY RegisteredGrows
  <1>3. TypeOK /\ IsFiniteSet(Registered) => StatsAgree
    BY StatisticsAgree
  <1> QED
    BY <1>1, <1>2, <1>3, RegistryTypeCorrect, PTL DEF Spec

=============================================================================
