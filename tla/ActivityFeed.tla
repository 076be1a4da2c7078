---------------------------- MODULE ActivityFeed ----------------------------
(***************************************************************************)
(* The list of activities and a reader who fetches it page by page         *)
(* (src/app/domain/activity/service.py, ActivityListService).  The list is *)
(* composed anew for every page: challenges, matches, shifts of the        *)
(* ranking, league matches, schedules and notices, the newest on top, and  *)
(* what is still to come above what is past.  Matches of one session that  *)
(* stand together are one row.  Between two pages everything may change;   *)
(* the reader's place is the key of the last row of the page before.       *)
(*                                                                         *)
(* Texts, comments and the contents of the rows are left out.  A day has   *)
(* four marks: midnight, eight o'clock, an afternoon, and its last second. *)
(***************************************************************************)
EXTENDS Integers, Sequences, FiniteSets

CONSTANTS
    Mark,      \* the times activities are dated with
    Day,       \* the dates
    Start,     \* when the story begins
    End,       \* and when it ends
    MaxItems,  \* bounds how many activities are ever posted
    Limit,     \* rows of a page
    NoValue    \* NULL, an item that is gone, and no cursor

ASSUME FeedAssumption ==
    /\ Mark \subseteq Nat /\ Day \subseteq Nat
    /\ Start \in Nat /\ End \in Nat /\ Start <= End
    /\ MaxItems \in Nat /\ Limit \in Nat \ {0}
    /\ NoValue \notin Int

VARIABLES
    time,   \* the clock
    items,  \* all activities by number, in the order of their registration
    reader  \* who is fetching the list, or NoValue

feedVars == <<time, items, reader>>

Midnight(d) == 4 * d
Morning(d) == 4 * d + 1
LastSecond(d) == 4 * d + 3
DateOf(t) == t \div 4

(* The order in which activities of one time are listed. *)
Rank == [challenge |-> 1, gameResult |-> 2, rankingShift |-> 3, leagueMatch |-> 4,
         schedule |-> 5, notice |-> 6]

(* A match whose start is known belongs to the session of the night        *)
(* before until eight in the morning.                                      *)
SessionDay(r) ==
    IF r.at = NoValue THEN r.day
    ELSE IF r.at < Morning(DateOf(r.at)) THEN DateOf(r.at) - 1 ELSE DateOf(r.at)

(* Sort keys count half marks, so that "just after now" is one of them. *)
JustAhead(t, n) == IF 2 * t > 2 * n + 1 THEN 2 * t ELSE 2 * n + 1

(* An open challenge without a date was made before now.  A result comes   *)
(* with a date.                                                            *)
ChallengeKey(r, n) ==
    CASE r.state = "open" -> JustAhead(IF r.day = NoValue THEN n ELSE LastSecond(r.day), n)
      [] r.state = "discarded" -> 2 * r.closed
      [] r.state = "done" -> 2 * Morning(r.day)

SortKey(r, n) ==
    CASE r.kind = "challenge" -> ChallengeKey(r, n)
      [] r.kind = "gameResult" -> 2 * (IF r.at = NoValue THEN Midnight(r.day) ELSE r.at)
      [] r.kind = "leagueMatch" -> IF r.played THEN 2 * r.at ELSE JustAhead(r.at, n)
      [] OTHER -> 2 * r.at

Entries(its) == {i \in DOMAIN its : its[i] # NoValue}

(* Of one kind and time the latest registered comes first, but league      *)
(* matches and schedules come in the order of their rows.                  *)
Before(its, n, i, j) ==
    LET r == its[i]
        q == its[j]
        lead == SortKey(r, n) - SortKey(q, n)
    IN  \/ lead > 0
        \/ lead = 0 /\ Rank[r.kind] < Rank[q.kind]
        \/ lead = 0 /\ r.kind = q.kind
           /\ IF r.kind \in {"leagueMatch", "schedule"} THEN i < j ELSE i > j

(* A match right below another one of the same session joins its row. *)
JoinsRow(its, n, i) ==
    /\ its[i].kind = "gameResult"
    /\ \E j \in Entries(its) :
          /\ its[j].kind = "gameResult"
          /\ SessionDay(its[j]) = SessionDay(its[i])
          /\ Before(its, n, j, i)
          /\ ~\E k \in Entries(its) : Before(its, n, j, k) /\ Before(its, n, k, i)

(* The items that start a row; the key of the row is theirs. *)
Heads(its, n) == {i \in Entries(its) : ~JoinsRow(its, n, i)}

RowOf(its, n, h) ==
    LET next == {k \in Heads(its, n) : Before(its, n, h, k)}
    IN  {i \in Entries(its) :
            /\ i = h \/ Before(its, n, h, i)
            /\ i \notin next /\ ~\E k \in next : Before(its, n, k, i)}

(* Mutant of RowsAfter: a reader whose row has vanished is at the end. *)
RowsAfterOrNone(its, n, cursor) ==
    LET heads == Heads(its, n)
    IN  IF cursor \in heads THEN {h \in heads : Before(its, n, cursor, h)} ELSE {}

(* What is still to be read; all of it if the row of the cursor is gone.   *)
RowsAfter(its, n, cursor) ==
    LET heads == Heads(its, n)
    IN  IF cursor \in heads THEN {h \in heads : Before(its, n, cursor, h)} ELSE heads

PageOf(its, n, rest) ==
    {h \in rest : Cardinality({k \in rest : Before(its, n, k, h)}) < Limit}

NextCursor(its, n, rest) ==
    IF Cardinality(rest) <= Limit THEN NoValue
    ELSE CHOOSE h \in PageOf(its, n, rest) :
             \A k \in PageOf(its, n, rest) \ {h} : Before(its, n, k, h)

-----------------------------------------------------------------------------

(* What a request puts on the list, now being n. *)
NewItems(n) ==
         [kind : {"gameResult"}, at : {NoValue}, day : {d \in Day : d <= DateOf(n)}]
    \cup {[kind |-> "gameResult", at |-> t, day |-> DateOf(t)] : t \in {u \in Mark : u <= n}}
    \cup [kind : {"challenge"}, day : Day \cup {NoValue}, state : {"open"}, closed : {NoValue}]
    \cup [kind : {"leagueMatch"}, at : Mark, played : BOOLEAN]
    \cup [kind : {"schedule"}, at : Mark]
    \cup [kind : {"rankingShift", "notice"}, at : {n}]

(* What an item may become: a match read again with another start, a       *)
(* challenge rescheduled, closed or given a result after all, a league     *)
(* match or a schedule at another time, a league result entered or cleared.*)
Becomes(r, n) ==
    CASE r.kind = "gameResult" ->
            {[r EXCEPT !.at = t, !.day = DateOf(t)] : t \in {u \in Mark : u <= n}}
      [] r.kind = "challenge" ->
              {[r EXCEPT !.day = d] : d \in IF r.state = "open" THEN Day \cup {NoValue} ELSE {}}
         \cup {[r EXCEPT !.state = "done", !.day = d, !.closed = NoValue] :
                   d \in IF r.state = "done" THEN {} ELSE Day}
         \cup {[r EXCEPT !.state = "discarded", !.closed = c] :
                   c \in IF r.state = "open" THEN {n} ELSE {}}
      [] r.kind = "leagueMatch" -> [kind : {"leagueMatch"}, at : Mark, played : BOOLEAN]
      [] r.kind = "schedule" -> [kind : {"schedule"}, at : Mark]
      [] OTHER -> {}

(* The reader, while the list changes: an item that moves is no longer     *)
(* owed to it, and the item of the cursor may be one that moves.           *)
Observing(its, n) ==
    LET Moved(i) == i \notin Entries(its) \/ SortKey(its[i], n) # SortKey(items[i], time)
    IN  IF reader = NoValue \/ reader.cursor = NoValue THEN NoValue
        ELSE [reader EXCEPT
                 !.owed = {i \in @ : ~Moved(i)},
                 !.jumped = @ \/ (reader.cursor \in Entries(items) /\ Moved(reader.cursor))]

Edits(its) ==
    /\ items' = its
    /\ reader' = Observing(its, time)
    /\ UNCHANGED time

Post ==
    /\ Len(items) < MaxItems
    /\ \E r \in NewItems(time) : Edits(Append(items, r))

Change(i) == \E r \in Becomes(items[i], time) \ {items[i]} : Edits([items EXCEPT ![i] = r])

(* Notices and shifts stay for ever. *)
Take(i) ==
    /\ items[i].kind \notin {"rankingShift", "notice"}
    /\ Edits([items EXCEPT ![i] = NoValue])

Pass ==
    /\ time < End
    /\ time' = time + 1
    /\ reader' = Observing(items, time + 1)
    /\ UNCHANGED items

Given(rest) == UNION {RowOf(items, time, h) : h \in PageOf(items, time, rest)}

(* list_feed without a cursor. *)
FirstPage ==
    /\ reader = NoValue
    /\ LET rest == Heads(items, time)
       IN  reader' = [cursor |-> NextCursor(items, time, rest),
                      owed |-> Entries(items) \ Given(rest),
                      jumped |-> FALSE, lost |-> {}]
    /\ UNCHANGED <<time, items>>

(* How the place has been lost: the row of the cursor has moved, or has    *)
(* grown by matches the reader is owed.                                    *)
PlaceLost ==
    IF reader.cursor \notin Heads(items, time) THEN {}
    ELSE {w \in {"moved", "grown"} :
             IF w = "moved" THEN reader.jumped
             ELSE RowOf(items, time, reader.cursor) \cap reader.owed # {}}

NextPage ==
    /\ reader # NoValue /\ reader.cursor # NoValue
    /\ LET rest == RowsAfter(items, time, reader.cursor)
       IN  reader' = [cursor |-> NextCursor(items, time, rest),
                      owed |-> reader.owed \ Given(rest),
                      jumped |-> FALSE, lost |-> reader.lost \cup PlaceLost]
    /\ UNCHANGED <<time, items>>

FeedInit ==
    /\ time = Start
    /\ items = <<>>
    /\ reader = NoValue

FeedNext ==
    \/ Post
    \/ \E i \in Entries(items) : Change(i) \/ Take(i)
    \/ Pass
    \/ FirstPage
    \/ NextPage

FeedSpec == FeedInit /\ [][FeedNext]_feedVars

-----------------------------------------------------------------------------

(* The reader's cursor and what it is owed are items there have been.      *)
FeedTypeOK ==
    /\ time \in Start..End
    /\ Len(items) <= MaxItems
    /\ reader # NoValue =>
          /\ reader.owed \subseteq Entries(items)
          /\ reader.cursor \in DOMAIN items \cup {NoValue}

(* The reader has come to the end, and has been given what was listed when *)
(* the reading began and has stayed where it was.                          *)
Finished == reader # NoValue /\ reader.cursor = NoValue

Complete == reader.owed = {}

(* A reader who has come to the end has missed nothing, whatever was       *)
(* posted, changed, deleted and regrouped between the pages, as long as    *)
(* the place was never lost (list_feed, _cursor_index).                    *)
NothingSkipped == Finished /\ reader.lost = {} => Complete

(* "The key points at the row itself; whatever slips in above it, what     *)
(* comes after stays the same" (_cursor_index): nothing is missed as long  *)
(* as no row a cursor points at has moved.  The code fails it: rows grow.  *)
NoHole == Finished /\ "moved" \notin reader.lost => Complete

=============================================================================
