----------------------------- MODULE Statistics -----------------------------
(***************************************************************************)
(* What the readers of the registry count: the record of a member, the     *)
(* records of members against each other, the rivalries, the matches that  *)
(* are rated, and the list a member's matches are looked up in             *)
(* (src/app/domain/game_results, repository.py and service.py).  Each is a *)
(* query of its own over the same tables; nothing but their conditions     *)
(* keeps them in step, while names are mapped to other members, matches    *)
(* read again and deleted.                                                 *)
(*                                                                         *)
(* Averages of metrics, searches by text and the points themselves are     *)
(* left out.                                                               *)
(***************************************************************************)
EXTENDS MatchRegistry

CONSTANT Type  \* match_type of each match: 0101 one against one, 0102 teams

(* A period of dates, and the type of matches asked for, or any.           *)
Filter == {f \in [from : Day, to : Day, type : {"0101", "0102", "any"}] : f.from <= f.to}

(* The ratings are made of all matches up to the end of the period. *)
SinceEver(f) == [f EXCEPT !.from = 0]

(* The member a name stands for now; no member for other names. *)
MemberOf(name) == IF alias[name] \in Member THEN alias[name] ELSE None

(* match_participants, each joined with the member. *)
Rows ==
    UNION {{[of |-> i, team |-> t, pos |-> k, member |-> MemberOf(match[i][t][k].name)] :
              k \in DOMAIN match[i][t]} : i \in Registered, t \in {"team1", "team2"}}

Passes(i, f) == match[i].day \in f.from..f.to /\ f.type \in {"any", Type[i]}

(* The rows of the matches that pass and were held. *)
HeldRows(f, all) == {r \in all : Passes(r.of, f) /\ match[r.of].result # "not_held"}

(* A tally of tuples of rows, each of which begins with whom it is about. *)
Tally(tuples) ==
    [plays |-> Cardinality(tuples),
     draws |-> Cardinality({p \in tuples : match[p[1].of].result = "draw"}),
     wins  |-> Cardinality({p \in tuples : match[p[1].of].result = p[1].team})]

Losses(tally) == tally.plays - tally.wins - tally.draws

(* aggregate_stats, the races taken together. *)
Record(m, rows) == Tally({<<r>> : r \in {q \in rows : q.member = m}})

(* Mutant of Meetings: whoever played in the same match is an opponent. *)
MeetingsOfAll(m, o, rows) ==
    {p \in rows \X rows :
        p[1].of = p[2].of /\ p[1] # p[2] /\ p[1].member = m /\ p[2].member = o}

(* head_to_head_rows: every row of m with every row of o across from it. *)
Meetings(m, o, rows) ==
    {p \in {r \in rows : r.member = m} \X {q \in rows : q.member = o} :
        p[1].of = p[2].of /\ p[1].team # p[2].team}

HeadToHead(m, o, rows) == Tally(Meetings(m, o, rows))

(* get_rivalries counts pairs of the two teams: in matches of teams all of *)
(* them, in matches of one against one only if each side has one member.   *)
OneMemberEach(i, rows) ==
    \A t \in {"team1", "team2"} :
        Cardinality({r \in rows : r.of = i /\ r.team = t /\ r.member # None}) = 1

Rivals(m, o, team, rows) ==
    {p \in {r \in rows : r.member = m} \X {q \in rows : q.member = o} :
        /\ m # o /\ p[1].of = p[2].of /\ p[1].team # p[2].team
        /\ IF team THEN Type[p[1].of] # "0101"
           ELSE Type[p[1].of] = "0101" /\ OneMemberEach(p[1].of, rows)}

(* The wins of m over o among them. *)
RivalWins(m, o, team, rows) ==
    Cardinality({p \in Rivals(m, o, team, rows) : match[p[1].of].result = p[1].team})

(* The matches the ratings are made of: nobody in it who is no member. *)
LoggedMatches(rows) ==
    {i \in Match : LET its == {r \in rows : r.of = i}
                   IN  its # {} /\ \A r \in its : r.member # None}

(* Those of m that update the ratings (RatingEngine.games). *)
RatingGames(m, rows) ==
    Cardinality({i \in LoggedMatches(rows) :
        match[i].result # "draw" /\ \E r \in rows : r.of = i /\ r.member = m})

(* get_stats shows a place for m: m was ever rated, or played now. *)
Rated(m, f, all) ==
    \/ RatingGames(m, HeldRows(SinceEver(f), all)) > 0
    \/ Record(m, HeldRows(f, all)).plays > 0

(* get_rating_history shows points for m: m is in a match of the period    *)
(* that is in the log.                                                     *)
HasHistory(m, rows) ==
    \E i \in LoggedMatches(rows) : \E r \in rows : r.of = i /\ r.member = m

(* _person_record counts those a member is ahead of, and is behind of. *)
Ahead(record) == record.wins > Losses(record)

Behind(record) == record.wins < Losses(record)

(* list_page and count_page for one member. *)
ListOf(m, f, all) == {i \in Registered : Passes(i, f) /\ \E r \in all : r.of = i /\ r.member = m}

-----------------------------------------------------------------------------

(* Both sides of a pair have one record of their matches, in the ranking   *)
(* and in the rivalries, and who is ahead is what the other is behind.     *)
PairsAgree(f, rows) ==
    \A m, o \in Member :
        LET mine == HeadToHead(m, o, rows)
            hers == HeadToHead(o, m, rows)
        IN  /\ mine.plays = hers.plays /\ mine.draws = hers.draws
            /\ mine.wins = Losses(hers)
            /\ Ahead(mine) <=> Behind(hers)
            /\ m # o /\ f.type = "0102" => mine.wins = RivalWins(m, o, TRUE, rows)
            /\ m # o /\ f.type = "0101" => mine.wins >= RivalWins(m, o, FALSE, rows)

(* Nobody is in a match twice, as its readers see it now. *)
Regular(all) ==
    \A r, q \in all : r.of = q.of /\ r.member = q.member /\ r.member # None => r = q

(* The record of a member, the list of matches behind it, the place in the *)
(* ranking and the history of points are about the same matches.           *)
RecordsAgree(f, rows, all) ==
    \A m \in Member :
        /\ Regular(all) =>
              /\ Record(m, rows).plays =
                    Cardinality({i \in ListOf(m, f, all) : match[i].result # "not_held"})
              /\ RatingGames(m, rows) <= Record(m, rows).plays
        /\ HasHistory(m, rows) => Rated(m, f, all)

(* However matches are registered, read again and deleted and names mapped *)
(* anew, the queries of the statistics tell the same story                 *)
(* (aggregate_stats, head_to_head_rows, rivalry_rows, rank_replay_rows,    *)
(* _apply_list_filters).                                                   *)
StatsAgree ==
    LET all == Rows
    IN  \A f \in Filter :
            LET rows == HeldRows(f, all)
            IN  PairsAgree(f, rows) /\ RecordsAgree(f, rows, all)

=============================================================================
