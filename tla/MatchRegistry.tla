---------------------------- MODULE MatchRegistry ----------------------------
(***************************************************************************)
(* The registered matches and the names the players had in them            *)
(* (src/app/domain/game_results).                                          *)
(*                                                                         *)
(* A match keeps the names its players had in the game and nothing else    *)
(* about who they are: one table, replay_aliases, says whom each name      *)
(* stands for, and every read goes through it.  The number of a match      *)
(* tells the second it started at; a match whose time is not known has a   *)
(* number of the impossible hour 99 of its day.                            *)
(*                                                                         *)
(* A request is one transaction and one step here.  One that fails leaves  *)
(* nothing behind and is no step.                                          *)
(***************************************************************************)
EXTENDS Naturals, FiniteSets, SequencesExt, FiniteSetsExt

CONSTANTS
    Member,      \* the members of the club
    Kind,        \* what else a name may stand for: a computer, an unregistered player
    Name,        \* the names players have in a game
    Tag,         \* the battletag of each member
    Race,        \* the races
    Outcome,     \* what a match may end with
    Lineup,      \* the two teams a request may register
    Day,         \* the dates of matches
    Moment,      \* the times of matches, in hours of KST
    Match,       \* the identities of matches
    LastTwin,    \* the last number of matches of one second: 9
    LastManual,  \* bound: the last number of the hour 99 of a day
    None         \* NULL

HoursPerDay == 24

Owner == Member \cup Kind

\* A slot of a request names who played, with which race, and, in general,
\* under which name.
RequestSlot == [who : Owner, race : Race, name : Name \cup {None}]

ASSUME OwnerAssumption ==
    /\ Member \cap Kind = {}
    /\ None \notin Owner
    /\ None \notin Name
    /\ None \notin Race
    /\ None \notin Outcome
    /\ None \notin Moment

ASSUME OutcomeAssumption == Outcome \subseteq {"team1", "team2", "draw", "not_held"}

ASSUME TagAssumption == Tag \in [Member -> Name]

ASSUME TimeAssumption ==
    /\ Day \subseteq Nat
    /\ Moment \subseteq Nat
    /\ LastTwin \in Nat
    /\ LastManual \in Nat

ASSUME LineupAssumption == Lineup \subseteq Seq(RequestSlot) \X Seq(RequestSlot)

VARIABLES
    alias,  \* replay_aliases: whom each name stands for, or None
    match   \* game_results with its outcome, players and replay, or None

vars == <<alias, match>>

-----------------------------------------------------------------------------
(* Numbers.  at is the second in the number, None for the hour 99; nth     *)
(* counts the matches of that second, the first of which shows no count,   *)
(* or the matches of the hour 99.                                          *)

Number == [day : Day, at : Moment \cup {None}, nth : Nat]

DayOf(moment) == moment \div HoursPerDay

Registered == {i \in Match : match[i] # None}

Used == {match[i].no : i \in Registered}

\* Mutant: the time of registering used where the match was played another day.
MatchNoBaseOfAnyDay(day, start) == start

MatchNoBase(day, start) ==
    IF start # None /\ DayOf(start) = day THEN start ELSE None

\* The first number of that second, then -2 to -9.
TimedNumbers(day, at) ==
    {[day |-> day, at |-> at, nth |-> n] : n \in {1} \cup 2..LastTwin}

NextImpossible(day) ==
    LET taken == {no \in Used : no.day = day /\ no.at = None}
    IN  [day |-> day, at |-> None,
         nth |-> IF taken = {} THEN 0 ELSE Max({no.nth : no \in taken}) + 1]

\* The numbers _unique_match_no may return: the least free one, where keep is
\* the number the match has already.
UniqueMatchNo(day, at, keep) ==
    IF at = None
    THEN {NextImpossible(day)}
    ELSE LET free == {no \in TimedNumbers(day, at) : no = keep \/ no \notin Used}
         IN  {no \in free : \A other \in free : no.nth <= other.nth}

-----------------------------------------------------------------------------
(* Names.                                                                  *)

NamesOf(m) == {n \in Name : alias[n] = m}

SlotsOf(lineup) == ToSet(lineup[1]) \cup ToSet(lineup[2])

\* No member twice, and a player that is no member has a name.
ValidLineup(lineup) ==
    LET both == lineup[1] \o lineup[2]
    IN  /\ \A k, l \in DOMAIN both :
              both[k].who \in Member /\ both[l].who = both[k].who => k = l
        /\ \A slot \in SlotsOf(lineup) : slot.who \in Kind => slot.name # None

\* Mutant: a member may be given any name.
NamesAllowedUnchecked(lineup) == TRUE

\* A name a member plays under is nobody else's.
NamesAllowed(lineup) ==
    \A slot \in SlotsOf(lineup) :
        slot.who \in Member /\ slot.name # None => alias[slot.name] \in {None, slot.who}

\* The slots whose name is new.  Two of one name break the unique key.
NewNames(lineup) ==
    {slot \in SlotsOf(lineup) : slot.name # None /\ alias[slot.name] = None}

NoNameTwice(lineup) ==
    LET both == lineup[1] \o lineup[2]
    IN  \A k, l \in DOMAIN both :
            both[k] \in NewNames(lineup) /\ both[l].name = both[k].name => k = l

\* Mutant: the names known before are overwritten.
RememberedAnew(lineup) ==
    [n \in Name |->
        IF \E slot \in SlotsOf(lineup) : slot.name = n
        THEN (CHOOSE slot \in SlotsOf(lineup) : slot.name = n).who
        ELSE alias[n]]

Remembered(lineup) ==
    [n \in Name |->
        IF \E slot \in NewNames(lineup) : slot.name = n
        THEN (CHOOSE slot \in NewNames(lineup) : slot.name = n).who
        ELSE alias[n]]

\* The name a slot is stored with: its own, or one of the names the member
\* had, or the battletag.
StoredNames(slot) ==
    IF slot.name # None
    THEN {slot.name}
    ELSE IF NamesOf(slot.who) # {} THEN NamesOf(slot.who) ELSE {Tag[slot.who]}

\* The teams as they may be stored.
StoredTeams(team) ==
    {stored \in [DOMAIN team -> [name : Name, race : Race]] :
        \A k \in DOMAIN team :
            stored[k].name \in StoredNames(team[k]) /\ stored[k].race = team[k].race}

-----------------------------------------------------------------------------
(* A match.  replay is the number its replay file is called by, or None    *)
(* when there is no replay.                                                *)

\* The races of a team put right from a replay, which may give one for each
\* name.
Reread(team, race) ==
    [k \in DOMAIN team |->
        IF race[team[k].name] = None
        THEN team[k]
        ELSE [team[k] EXCEPT !.race = race[team[k].name]]]

MatchRow(no, day, start, result, team1, team2, replay) ==
    [no |-> no, day |-> day, start |-> start, result |-> result,
     team1 |-> team1, team2 |-> team2, replay |-> replay]

Init ==
    /\ alias = [n \in Name |-> None]
    /\ match = [i \in Match |-> None]

CreateMatch(i, lineup, day, start, result, replay) ==
    /\ match[i] = None
    /\ ValidLineup(lineup)
    /\ NamesAllowed(lineup)
    /\ NoNameTwice(lineup)
    /\ \E no \in UniqueMatchNo(day, MatchNoBase(day, start), None) :
       \E team1 \in StoredTeams(lineup[1]), team2 \in StoredTeams(lineup[2]) :
          /\ no.at = None => no.nth <= LastManual
          /\ match' = [match EXCEPT ![i] =
                MatchRow(no, day, start, result, team1, team2,
                         IF replay THEN no ELSE None)]
    /\ alias' = Remembered(lineup)

\* The replay of a registered match uploaded again: found by its start.
MergeReplay(i, start, result, race) ==
    /\ i \in Registered
    /\ match[i].start = start
    /\ start # None
    /\ match' = [match EXCEPT
          ![i].result = IF result = None THEN @ ELSE result,
          ![i].team1  = Reread(@, race),
          ![i].team2  = Reread(@, race),
          ![i].replay = IF @ = None THEN None ELSE match[i].no]
    /\ UNCHANGED alias

\* The start of a match after it is read again.
StartAfter(i, start) == IF start = None THEN match[i].start ELSE start

\* Mutant: the number is taken from the match that has it.
NumberAfterTaken(i, start) ==
    LET base == MatchNoBase(match[i].day, StartAfter(i, start))
    IN  IF base = None
        THEN {match[i].no}
        ELSE {[day |-> match[i].day, at |-> base, nth |-> 1]}

\* Mutant: a match whose time is not known is given a new number each time.
NumberAfterAnew(i, start) ==
    LET base == MatchNoBase(match[i].day, StartAfter(i, start))
    IN  IF match[i].no = [day |-> match[i].day, at |-> base, nth |-> 1]
        THEN {match[i].no}
        ELSE UniqueMatchNo(match[i].day, base, match[i].no)

\* The number it has when the time tells nothing about it, or tells the same.
NumberAfter(i, start) ==
    LET base == MatchNoBase(match[i].day, StartAfter(i, start))
    IN  IF base = None \/ match[i].no = [day |-> match[i].day, at |-> base, nth |-> 1]
        THEN {match[i].no}
        ELSE UniqueMatchNo(match[i].day, base, match[i].no)

\* Mutant: the replay keeps its old name.
RewriteSummaryKeepsFile(i, start, race) ==
    /\ i \in Registered
    /\ \E no \in NumberAfter(i, start) :
          match' = [match EXCEPT
             ![i].no    = no,
             ![i].start = StartAfter(i, start),
             ![i].team1 = Reread(@, race),
             ![i].team2 = Reread(@, race)]
    /\ UNCHANGED alias

\* The match read again by the analyser of the client.
RewriteSummary(i, start, race) ==
    /\ i \in Registered
    /\ \E no \in NumberAfter(i, start) :
          match' = [match EXCEPT
             ![i].no     = no,
             ![i].start  = StartAfter(i, start),
             ![i].team1  = Reread(@, race),
             ![i].team2  = Reread(@, race),
             ![i].replay = IF @ = None THEN None ELSE no]
    /\ UNCHANGED alias

DeleteMatch(i) ==
    /\ i \in Registered
    /\ match' = [match EXCEPT ![i] = None]
    /\ UNCHANGED alias

DeleteAllMatches ==
    /\ match' = [i \in Match |-> None]
    /\ UNCHANGED alias

-----------------------------------------------------------------------------
(* The edits of the names.                                                 *)

\* A member's name is not seen by the lookup, and the insert that follows
\* then fails on the unique key.
SetClassification(n, kind) ==
    /\ alias[n] \notin Member
    /\ alias' = [alias EXCEPT ![n] = kind]
    /\ UNCHANGED match

SetMapping(n, owner) ==
    /\ alias' = [alias EXCEPT ![n] = owner]
    /\ UNCHANGED match

ReplaceAliases(m, names) ==
    /\ \A n \in names : alias[n] \in {None, m}
    /\ alias' = [n \in Name |->
          IF n \in names THEN m ELSE IF alias[n] = m THEN None ELSE alias[n]]
    /\ UNCHANGED match

AddAlias(m, n) ==
    /\ alias[n] = None
    /\ alias' = [alias EXCEPT ![n] = m]
    /\ UNCHANGED match

-----------------------------------------------------------------------------

ReadRaces == [Name -> Race \cup {None}]

Next ==
    \/ \E i \in Match, lineup \in Lineup, day \in Day, start \in Moment \cup {None},
          result \in Outcome, replay \in BOOLEAN :
          CreateMatch(i, lineup, day, start, result, replay)
    \/ \E i \in Match, start \in Moment, result \in Outcome \cup {None}, race \in ReadRaces :
          MergeReplay(i, start, result, race)
    \/ \E i \in Match, start \in Moment \cup {None}, race \in ReadRaces :
          RewriteSummary(i, start, race)
    \/ \E i \in Match : DeleteMatch(i)
    \/ DeleteAllMatches
    \/ \E n \in Name, kind \in Kind : SetClassification(n, kind)
    \/ \E n \in Name, owner \in Owner \cup {None} : SetMapping(n, owner)
    \/ \E m \in Member, names \in SUBSET Name : ReplaceAliases(m, names)
    \/ \E m \in Member, n \in Name : AddAlias(m, n)

Spec == Init /\ [][Next]_vars

-----------------------------------------------------------------------------
(* Properties.                                                             *)

Team == Seq([name : Name, race : Race])

RowType ==
    [no : Number, day : Day, start : Moment \cup {None}, result : Outcome,
     team1 : Team, team2 : Team, replay : Number \cup {None}]

\* NULL is not one of the rows.
ASSUME NullAssumption == None \notin RowType /\ None \notin Number

\* A match is stored whole or not at all, each player under a name; a name
\* stands for one owner.
TypeOK ==
    /\ alias \in [Name -> Owner \cup {None}]
    /\ match \in [Match -> RowType \cup {None}]

\* No two matches have one number: _unique_match_no alone keeps them apart,
\* the unique key of the column never has to refuse one.
NumbersDistinct ==
    \A i, j \in Registered : match[i].no = match[j].no => i = j

\* The number of a match begins with the date of the match, also where the
\* time of a hand-registered match is that of another day.
NumberTellsTheDate ==
    \A i \in Registered :
        /\ match[i].no.day = match[i].day
        /\ match[i].no.at # None => DayOf(match[i].no.at) = match[i].day

\* The file of a replay is called by the number of its match, whichever
\* request renumbered the match or uploaded the replay.
ReplayNamedAfterMatch ==
    \A i \in Registered : match[i].replay \in {None, match[i].no}

\* A match gets another number only for the second it is known to have started
\* at, the first one nobody has; never another one of the hour 99, which would
\* change at every reading what people remember (the comment at
\* service.py:1626).  Of matches of one second, those left move up into the
\* places of deleted and renumbered ones: a number never counts upwards.
NumbersSettle ==
    [][\A i \in Match : match[i] # None /\ match'[i] # None =>
          LET old == match[i].no
              new == match'[i].no
          IN  new # old =>
                 /\ new.at # None /\ new.at = match'[i].start
                 /\ new \notin Used
                 /\ \A no \in TimedNumbers(new.day, new.at) : no.nth < new.nth => no \in Used
                 /\ new.at = old.at => new.nth < old.nth]_vars

\* A name of a member passes to somebody else only when an operator maps it
\* or the list of that member is edited: not by registering a match, and not
\* by classifying the name.
MembersKeepTheirNames ==
    [][\A n \in Name :
          alias[n] \in Member /\ alias'[n] # alias[n]
            => \/ \E owner \in Owner \cup {None} : SetMapping(n, owner)
               \/ \E names \in SUBSET Name : ReplaceAliases(alias[n], names)]_vars

\* A member registered under a name is who the readers of the match see
\* there, however the name was known before.
NamedMembersReadBack ==
    [][\A i \in Match, lineup \in Lineup :
          match[i] = None /\ match'[i] # None
            /\ (\E day \in Day, start \in Moment \cup {None}, result \in Outcome, replay \in BOOLEAN :
                   CreateMatch(i, lineup, day, start, result, replay))
            => \A slot \in SlotsOf(lineup) :
                   slot.who \in Member /\ slot.name # None => alias'[slot.name] = slot.who]_vars

\* One member cannot be in both teams (the message at service.py:1979): a
\* match is never registered so that its readers see a member on both sides.
NobodyRegisteredTwice ==
    [][\A i \in Match :
          match[i] = None /\ match'[i] # None
            => \A p \in ToSet(match'[i].team1), q \in ToSet(match'[i].team2) :
                   alias'[p.name] \in Member => alias'[q.name] # alias'[p.name]]_vars

=============================================================================
