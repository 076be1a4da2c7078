----------------------------- MODULE RatingCache -----------------------------
(***************************************************************************)
(* The ratings of the members and the memory of earlier replays of all     *)
(* matches (_replay_ratings in src/app/domain/game_results/service.py).    *)
(*                                                                         *)
(* A reader of the ranking plays every match up to a date again, in the    *)
(* order they took place, from a new rating engine.  The process keeps the *)
(* last few such replays, each under the list of its matches; a reader     *)
(* whose list begins with a kept one goes on from there.  Nothing tells    *)
(* the memory of a change of the matches or of the names: a list with a    *)
(* changed match in it is another list.                                    *)
(*                                                                         *)
(* The state of the engine stands for what each match did to it, in order, *)
(* since it is a function of that: a win, or nothing (None).  The log      *)
(* stands for who had a part in which match.                               *)
(***************************************************************************)
EXTENDS MatchRegistry

CONSTANTS
    MaxKept,   \* _REPLAY_CACHE_MAX
    MaxWrites  \* bound: the writes of matches and names

\* A data base holds finitely many rows.
ASSUME MatchAssumption == IsFiniteSet(Match)

ASSUME BoundAssumption == MaxKept \in Nat \ {0} /\ MaxWrites \in Nat

VARIABLES
    kept,   \* _REPLAY_CACHE, the oldest first
    writes  \* how many writes there were, for the bound

allVars == <<alias, match, kept, writes>>

-----------------------------------------------------------------------------
(* The matches a reader plays again.                                       *)

\* A match whose start is not known counts as played at midnight UTC of its
\* date, nine o'clock in Korea.
OrderTime(i) ==
    IF match[i].start = None THEN match[i].day * HoursPerDay + 9 ELSE match[i].start

\* The order of the numbers as text.
NumberBefore(a, b) ==
    \/ a.day < b.day
    \/ /\ a.day = b.day
       /\ \/ a.at # None /\ b.at = None
          \/ a.at # None /\ b.at # None /\ a.at < b.at
          \/ a.at = b.at /\ a.nth < b.nth

PlayedBefore(i, j) ==
    \/ OrderTime(i) < OrderTime(j)
    \/ OrderTime(i) = OrderTime(j) /\ NumberBefore(match[i].no, match[j].no)

\* Who is rated for the part of a player: a member, or a member with the race
\* it played; nobody for a player that is no member.
Ident(player, byRace) ==
    IF alias[player.name] \notin Member
    THEN None
    ELSE <<alias[player.name], IF byRace THEN player.race ELSE None>>

Idents(team, byRace) == [k \in DOMAIN team |-> Ident(team[k], byRace)]

\* The matches up to a date.
Played(to) == {i \in Registered : match[i].result # "not_held" /\ match[i].day <= to}

\* Their order: the earlier match first.
Orders(ids) ==
    {order \in [1..Cardinality(ids) -> ids] :
        \A k, l \in DOMAIN order : k < l => PlayedBefore(order[k], order[l])}

\* What is kept of a match is its mark: the mark has no date.
Game(i, byRace) ==
    [no     |-> match[i].no,
     result |-> match[i].result,
     team1  |-> Idents(match[i].team1, byRace),
     team2  |-> Idents(match[i].team2, byRace),
     day    |-> match[i].day]

\* The list of a reader, as the one member of a set.
Games(byRace, to) ==
    {[k \in DOMAIN order |-> Game(order[k], byRace)] : order \in Orders(Played(to))}

\* Mutant: a corrected result leaves the mark alone.
MarkWithoutResult(game) == [no |-> game.no, team1 |-> game.team1, team2 |-> game.team2]

Mark(game) ==
    [no |-> game.no, result |-> game.result, team1 |-> game.team1, team2 |-> game.team2]

Marks(games) == [k \in DOMAIN games |-> Mark(games[k])]

-----------------------------------------------------------------------------
(* Playing them.                                                           *)

Players(game) == ToSet(game.team1) \cup ToSet(game.team2)

\* A match with somebody in it who is no member moves nobody's points.
Counts(game) == None \notin Players(game)

\* The others update the engine unless they were drawn.
Decides(game) == Counts(game) /\ game.result \in {"team1", "team2"}

Update(game) ==
    CASE ~ Decides(game)       -> None
      [] game.result = "team1" -> [won |-> game.team1, lost |-> game.team2]
      [] OTHER                 -> [won |-> game.team2, lost |-> game.team1]

Move(game) ==
    IF Counts(game) THEN [no |-> game.no, day |-> game.day, moved |-> Players(game)] ELSE None

Updates(games) == [k \in DOMAIN games |-> Update(games[k])]

Moves(games) == [k \in DOMAIN games |-> Move(games[k])]

\* The matches from the one after start played on.
RunReplay(games, engine, log, start) ==
    LET rest == SubSeq(games, start + 1, Len(games))
    IN  [engine |-> engine \o Updates(rest), log |-> log \o Moves(rest)]

-----------------------------------------------------------------------------
(* The memory.                                                             *)

Fitting(byRace, marks) ==
    {k \in DOMAIN kept : kept[k].byRace = byRace /\ IsPrefix(kept[k].marks, marks)}

\* The longest fitting entry, the first of them; no entry is 0.
Best(byRace, marks) ==
    LET fitting == Fitting(byRace, marks)
        longest == {k \in fitting : \A l \in fitting :
                       Len(kept[l].marks) <= Len(kept[k].marks)}
    IN  IF fitting = {} THEN 0 ELSE Min(longest)

\* What the reader gets.
Replayed(byRace, games) ==
    LET best == Best(byRace, Marks(games))
    IN  IF best = 0
        THEN RunReplay(games, <<>>, <<>>, 0)
        ELSE RunReplay(games, kept[best].engine, kept[best].log, Len(kept[best].marks))

Entry(byRace, games, answer) ==
    [byRace |-> byRace, marks |-> Marks(games), engine |-> answer.engine, log |-> answer.log]

\* Mutant: the entry it went on from stays.
KeptAfterWithBoth(byRace, games) ==
    LET added == Append(kept, Entry(byRace, games, Replayed(byRace, games)))
    IN  SubSeq(added, Max({1, Len(added) - MaxKept + 1}), Len(added))

\* Mutant: nothing goes.
KeptAfterAll(byRace, games) ==
    LET best == Best(byRace, Marks(games))
        left == IF best = 0 THEN kept ELSE RemoveAt(kept, best)
    IN  Append(left, Entry(byRace, games, Replayed(byRace, games)))

\* The entry it went on from is taken out; the new one comes last, and the
\* oldest go.
KeptAfter(byRace, games) ==
    LET best  == Best(byRace, Marks(games))
        left  == IF best = 0 THEN kept ELSE RemoveAt(kept, best)
        added == Append(left, Entry(byRace, games, Replayed(byRace, games)))
    IN  SubSeq(added, Max({1, Len(added) - MaxKept + 1}), Len(added))

-----------------------------------------------------------------------------

InitCache ==
    /\ Init
    /\ kept = <<>>
    /\ writes = 0

Write ==
    /\ writes < MaxWrites
    /\ Next
    /\ writes' = writes + 1
    /\ UNCHANGED kept

ReadRatings(byRace, to) ==
    /\ \E games \in Games(byRace, to) : kept' = KeptAfter(byRace, games)
    /\ UNCHANGED <<alias, match, writes>>

Restart ==
    /\ kept' = <<>>
    /\ UNCHANGED <<alias, match, writes>>

NextCache ==
    \/ Write
    \/ \E byRace \in BOOLEAN, to \in Day : ReadRatings(byRace, to)
    \/ Restart

SpecCache == InitCache /\ [][NextCache]_allVars

-----------------------------------------------------------------------------
(* Properties.                                                             *)

Fresh(games) == RunReplay(games, <<>>, <<>>, 0)

\* Whatever the memory holds, a reader gets what playing all its matches from
\* the first would give, with the dates and the names of now.
AnswersAreFresh ==
    \A byRace \in BOOLEAN, to \in Day :
        \A games \in Games(byRace, to) : Replayed(byRace, games) = Fresh(games)

\* The memory keeps one replay of a list, however often the list is read.
OneEntryPerList ==
    \A k, l \in DOMAIN kept :
        kept[k].byRace = kept[l].byRace /\ kept[k].marks = kept[l].marks => k = l

CacheTypeOK ==
    /\ TypeOK
    /\ Len(kept) <= MaxKept
    /\ writes \in 0..MaxWrites

=============================================================================
