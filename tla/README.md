# A verification development for stargayte-api

stargayte-api is the server of a StarCraft club: members, replays and their
statistics, leagues, challenges, schedules and a feed of activities. It is a
FastAPI program over PostgreSQL; every request runs one handler in one
database session and commits once, as a rule at its end.

This directory holds TLA+ models of the parts whose states can contradict
themselves, TLC configurations that check them on small instances, and proofs
checked by TLAPS that hold for every instance. Paths below are relative to
`src/src/app/`.

## 1. The system

| Part | State | Operations | What makes it correct |
|---|---|---|---|
| Leagues (`domain/leagues`) | league, teams with rosters, one row per match (slots, winner, set score, dead, schedule) | create, delete, set teams, set bracket, seed bracket, confirm, schedule, enter/clear result | places always follow from seeds and scores; byes only where nobody can come; nothing hangs |
| Challenges (`domain/challenges`) | the call (date, discarded_at, deleted_at, canceled_by, result), one row per participant (response, notified, result_notified) | create, list (with two batches), respond, cancel, reschedule, enter result, two popups, delete | the status computed from the columns has one meaning; first result stands; trash and expiry respect their times |
| Auth (`domain/auth`) | refresh tokens, access log | login, refresh, logout, record access, sign up | a refresh token is used once |
| Members (`domain/members`) | status, roles, nickname, replay aliases, avatar | status, roles, create, withdraw, profile, password, aliases | an active administrator remains; names and aliases are unique; a picture is on disk while a row names it |
| Ranking shifts (`domain/activity`, `main.py`) | rows with the changes of each ranking; the last slot in the memory of the scheduler | recompute at two slots a day, reseed, seed at start | rows connect; one row per slot; a slot is not lost |
| Activity feed and comments (`domain/activity`) | comments with mentions | list with cursor, write, edit, delete | no item is shown twice or skipped |
| Match registry (`domain/game_results/service.py`) | matches, players, replays, what each name stands for | create, merge replay, read again, delete, map and classify names | a number belongs to one match and tells its date; a name stands for one owner and is not lost |
| Rating and replay cache (`domain/game_results/rating.py`, `service.py`) | ratings after prefixes of the matches, in memory | replay all, resume from a mark | the cached result equals a full replay |
| Schedules (`domain/schedules`, `storage/local.py`) | schedules, answers, files on disk | create, update, delete, attend | no row names a missing file |
| App versions (`domain/app_version`) | versions, the active one | add, activate, delete | the active version exists |
| Environment variables, core, routers, schemas, startup migrations, OpenBW bridge, scripts | none of their own, or settings | | see section 7 |

How they interact. The handlers share nothing but the data base (one
`AsyncSession` per request, `db/session.py`: `autoflush=False`,
`expire_on_commit=False`, isolation READ COMMITTED, no `FOR UPDATE`, no version
columns), the files on disk and two things in memory: the replay cache and the
scheduler's last slot. The activity feed reads challenges, league matches,
schedules and ranking shifts; deleting one of these deletes its comments.
Members are named by every other table.

What is hard:

* *Interleaving.* A handler decides on rows it read earlier and writes at its
  commit only the columns it changed. Two handlers that overlap can both pass
  a check that only one of them should.
* *Long sequences.* A bracket is edited, confirmed, played, corrected and
  thinned out by deletions; each handler repairs the cached slots by hand.
* *Order.* Winners arrive in any order; the bye of one branch depends on what
  another branch may still produce.
* *Time.* Nothing runs at a deadline. Expiry is written when somebody lists.
* *Restart and partial failure.* The scheduler forgets, and files are deleted
  before the commit.

`PROJECT.json` lists every hazard with its line and the properties on it.

## 2. The plan

1. **LeagueBracket** with **LeagueLoops**, **Tournament**, **LeagueProofs**,
   **LoopProofs**: the largest rule set of the program. *Done.* Left: a
   variant whose requests overlap (confirming against saving a shape).
2. **Challenge** with **ChallengeLifecycle**, **ChallengeProofs**: requests
   that overlap. *Done.*
3. Accounts: **Members** (status and roles, the last administrator),
   **Profiles** (the three names), **Tokens** (rotation of refresh tokens),
   **AppVersions**, all as read-decide-write requests (**Requests**), with
   **RequestProofs**. *Done.*
4. **RankingShift** with **RankingProofs**: the scheduler loop with restarts,
   the chain of rows; the one place with a liveness property. *Done.* Left: a
   finer clock around the end of a month, and two processes during a
   deployment.
5. **MatchRegistry** (match numbers, merging, names) with **RegistryProofs**,
   and **RatingCache** (marks and resumption) with **RatingProofs**. *Done.*
   Left: the replay files, and pages of matches read while matches are
   renumbered.
6. Files and rows, with requests that fail between: **Avatars**,
   **Schedules** (with the comments that go with a schedule), proved in
   **RequestProofs**. *Done.*
7. **ActivityFeed** (the composed list and a reader with a cursor) and
   **Statistics** (the queries over the registry), proved in **RequestProofs**
   and **RegistryProofs**. *Done.*

Every safety property a passing run checks is proved (section 6). Proofs worth
having that are left: more of what the ranking rows promise without the
assumption that keeps sessions apart, and which of the faces of a challenge
two overlapping requests may leave it with.

## 3. Modules

`LeagueBracket` - one league. A match is named by its path from the final, a
sequence of `"a"` and `"b"`; the code stores `(round, slot_in_round)`.

| Variable | Column |
|---|---|
| `mode` | `League.mode`, `"none"` before the row exists |
| `lineup`, `roster` | `LeagueTeam` in label order, `LeagueTeamMember` in position order |
| `tree` | the rows of `LeagueMatch` (`draw_size` is NULL exactly when there are none) |
| `locked` | `bracket_locked_at` is not NULL |
| `slot`, `winner`, `sets` | `team_a_id`/`team_b_id`, `winner_team_id`, `sets_won_a`/`sets_won_b` |
| `dead`, `sched` | `is_dead`, `scheduled_at` with `schedule_posted_at` |

There is one action per handler of `LeagueService`; `set_match_result` and
`set_match_schedule` are two each, for the payload that sets and the one that
clears. The foreign keys `ON DELETE SET NULL` are part of
`SetTeamComposition`. The loops that climb the tree (`_undo_decided`,
`_propagate_winner` with `_maybe_auto_resolve`) and the two sweeps of
`_prune_and_resolve` are closed forms (`Undo`, `Propagate`, `Pruned`, `Lone`):
sets of matches described by what must hold on the way up. This keeps the
module free of recursion, so that theorems can be proved about it.

`LeagueLoops` writes the same methods as the recursions and sweeps they are,
and the conversion of coordinates, and states that both agree wherever a
handler would call them. A method that calls itself is a recursive function of
its arguments (`UndoDecided`, `PropagateWinner`), a loop over the sorted
matches a function of the matches it has been over (`Live`, `Resolved`); the
arithmetic of `_slot_of_path` and `_path_of` is `SlotOfPath` and `PathOf`.

`Tournament` is the abstract promise: shape, seeds, scores, and `place`, what
these determine. `Placed` says how, one match at a time; in a tree of bounded
depth only one `place` satisfies it (`PlacesAreDetermined`). It is a relation
and not a recursion so that it can be proved about. `LeagueRefinement` maps
LeagueBracket to it; `MCLeague` gives the instance.

`Challenge` - one challenge with its participants, and the open requests.
`db` holds the committed columns, `txn[s]` what request `s` will write. Each
handler reads and decides in its own action (`Begin`) and writes the columns
in which its rows differ from what it read at `Commit`; Delete and
CreateChallenge, on which nothing overlapping depends, are one step. A
request that only fails or writes nothing is not a step. Time is `age`, the
hours or days since the call in coarse units: `Tick` is the clock.

`ChallengeLifecycle` is the abstract promise (pending, confirmed, discarded,
done, and a winner that stays); `MCChallenge` states that Challenge
implements it.

`RankingShift` - the rows of `ranking_shifts`, the scheduler that writes them
and the operators who can do the same by hand.

| Variable | Code |
|---|---|
| `now` | the slot (`_rank_slot_start`); `Month` of it is `_period_of` |
| `table` | what `_compute_standings` returns now, both match types together |
| `rows` | the rows: `born` orders `created_at`, `at` is its slot, `from` is the base of the shifts |
| `up`, `lastSlot` | the process, and `last_slot` in the memory of its scheduler |
| `txn` | the row each open session is going to insert, or the baseline it is going to rewrite |

A session reads the latest row and the standings in one action (`CheckMoved`,
`Recompute`, `ReseedNow`) and ends in `Commit` or `Fail`; between the two,
matches are played, the clock goes on and the process may crash. A session
that finds nothing to write is one step (`CheckIdle`; an operator's leaves no
trace and is no step). With `Overlap = FALSE` a session begins only when none
is open. Two of the code's choices matter and are kept: `created_at` is the
start of the transaction, so that a row commits under the slot it began in;
and a row is a card's base by being the latest, whatever wrote it. The month
changes with a slot, as it does with the default hours 0 and 12.

`MatchRegistry` - the registered matches and the names in them.

| Variable | Code |
|---|---|
| `alias` | `replay_aliases`: the member or the kind (computer, unregistered) each name stands for |
| `match` | `game_results` with its outcome, players and replay, one record or `None` |

`game_result_participants` keeps only the name a player had in the game; every
reader finds the member through `alias`. A number `YYMMDDHHMMSS[-n]` or
`YYMMDD99####` is the record `[day, at, nth]`, `at = None` for the hour 99;
`UniqueMatchNo` is the set of results `_unique_match_no` may have. `Moment` is
the time in hours of Korea, so that the day of a moment can differ from the
date of its match, as it does for a match entered by hand. `replay` is the
number the display name of the replay was made of. One action per handler
that changes matches or names: `CreateMatch`, `MergeReplay`, `RewriteSummary`,
`DeleteMatch`, `DeleteAllMatches`, `SetClassification`, `SetMapping`,
`ReplaceAliases`, `AddAlias`; a request is one step.

`RatingCache` - adds the readers of the ratings and `_REPLAY_CACHE`.

| Variable | Code |
|---|---|
| `kept` | `_REPLAY_CACHE`, oldest first; an entry is the flag, the marks, the engine and the log |
| `writes` | none: a bound on the requests that write |

`Games` is what a reader plays (`rank_replay_rows`, grouped and sorted): a set
that holds the one sorted list. `KeptAfter` is `_replay_from_cache` with the
entry it leaves; `Replayed` is what the reader gets from it. The engine is
the sequence of updates made to it and the log the sequence of moves, since
both are functions of those; whether a match counts, decides, and whom it
moves is modelled, by how many points is not. A mark (number, result, teams)
has no date and no start, while the log has the date: that a fitting prefix of
marks has the right dates is exactly what `NumberTellsTheDate` contributes.

`MCRatings` gives both their instance.

`Requests` - what the modules of overlapping requests share. A handler is the
action named after it, which reads, checks and does what the handler does to
files, and a commit (`CommitMember`, `CommitEdit`, ...), at which the rows may
be others than those read; a request may also die between the two
(`DropMemberJob`, ...). The data base refuses a second row under a unique key.

Nothing in the code prevents that a check is overtaken by another commit. Each
of these modules therefore keeps one variable that has no column: whether that
has happened. It is set at a commit exactly when the check of the request
would fail on the rows of that moment, and the properties say what holds until
then: that the *checks* are enough, in every interleaving in which they are
still true when they take effect.

| Module | State | Actions | Noted |
|---|---|---|---|
| `Members` | `member`: status and role of each; `job`: what an open request commits | `CreateMember` (signup, the first one becomes administrator), `CreateMemberByAdmin`, `UpdateStatus`, `UpdateRoles`, `Withdraw` | `raced` |
| `Profiles` | `profile`: login id, battletag and nickname of each; `edit` | `CreateProfile`, `UpdateProfile` | `overtaken` |
| `Tokens` | `token`: the rows of `refresh_tokens`; `usable`: members who are active; `exchange` | `Login`, `Signup`, `Refresh`, `Logout`, `ExpireToken`, `ChangeUsable` | `forked` |
| `AppVersions` | `registered`, `active`, `notice` (an environment variable), `change` | `SetVersion`, `AddVersion`, `DeleteVersion`, `SetNotes`, `SetNoticeEnabled` | `outrun` |
| `Avatars` | `avatar`: the URL of each member; `pictures`: the files; `shown`: those whose URL has been in a row; `upload` | `SetAvatar` (a new picture, none, or any URL), `ReprocessAvatar`, `LetGo` | `lent`, `torn` |
| `Schedules` | `schedule` with its files and attendees, `comments`, `docs`: the files; `task` | `CreateSchedule`, `UpdateSchedule`, `DeleteSchedule`, `Attend`, `CreateComment`, `DeleteComment`, `LoseDoc` | `adrift`, `spoiled` |

`Profiles` folds names as `func.lower` does (`Fold`), and `BeforeTag` is what
a battletag has before its `#`, the default nickname. In `Tokens` a login and
everything issued in exchange for it is one session; the code stores no such
thing, the tokens of the model carry it so that "one at a time" can be said.
In `AppVersions` the lazy seeding of both tables is part of every handler: a
reader seeds and does not commit. `Avatars` and `Schedules` write and delete
files in the first step, as the code does, so that a failing commit leaves
files without rows or rows without files; `torn` and `adrift` note these
files.

The two parts share the disk. A member's form may bring any URL and it is
stored unchecked (`_store_avatar_if_needed`), so that rows may name one file,
or a file of another part, and whoever replaces such a picture deletes it for
all (`_delete_by_url`). `lent` notes the files whose URL a form has brought
when it had been in a row before. Each module models the other's part in this
by its effect: in `Avatars` the files of other parts (attachments, backdrops,
replays) are `Attached`, a picture may name them, and `LetGo` is their own
part deleting one; in `Schedules`, `LoseDoc` is a picture taking an attachment
with it. Which file goes with which row is checked for pictures and
attachments; that matches and challenges lose theirs in the same way is not
said there, for their modules leave files out.

`ActivityFeed` - `items` are all things listed, by number in the order in
which they were made, `time` the clock, `reader` somebody fetching the list.
`SortKey` is the order (what is to come on top, then the newest), `Heads` and
`RowOf` the grouping of the matches of one session day that stand together,
`RowsAfter` the rows behind a cursor, found again by key or, when its row is
gone, begun anew. The reader carries what it is still owed (`owed`): all that
was listed at its first page and has not moved or gone since; `lost` notes
how the row of its cursor changed under it.

`Statistics` - the conditions of the queries, over every state of
`MatchRegistry`: `Record` is `aggregate_stats`, `HeadToHead`
`head_to_head_rows`, `RivalWins` `rivalry_rows`, `Rated` and `RatingGames`
`rank_replay_rows` and the replay over it, `ListOf` the filter of a list.

`MCRequests` - these modules side by side with Challenge, and with a second
instance of Challenge (`Crowd`) on which requests overlap. They share no rows
in the code either, and what pictures and attachments do to each other on
the disk is a step of each (`LetGo`, `LoseDoc`), so a behaviour exercises one
of them (`part`) while the others rest; one run covers all.

`LeagueProofs` (the bracket, who stands where, what can be played, the
refinement), `LoopProofs` (LeagueLoops), `RankingProofs`, `RegistryProofs` (MatchRegistry and
Statistics), `RatingProofs`, `ChallengeProofs` and `RequestProofs` (Members,
Tokens, AppVersions, Profiles, Avatars, Schedules, ActivityFeed and their
composition) hold the theorems of section 6; `NumberLemmas` the facts about
sets of numbers that several of them use.

## 4. Runs

| Run | Shows |
|---|---|
| `league` | nine properties of the bracket in every reachable state of the instance |
| `league_tournament` | the refinement of Tournament, and that some match can always be played, as long as no seated team is deleted after confirming (`LateDeletes = FALSE`) |
| `league_late_delete` | *violated*: with `LateDeletes = TRUE` an opponent can wait for ever |
| `league_silent_erase` | *violated*: one correction can erase another score |
| `requests` | a challenge when requests do not overlap, and Members, Profiles, Avatars, Tokens, AppVersions, Schedules, ActivityFeed and Statistics when they do; and a challenge on which requests overlap in every way, where no commit wipes out what another has written (`NothingIsLost`): thirteen properties |
| `feed_hole` | *violated*: the row of a cursor grows by a match read again or by the removal of what stood between, and a match is never given |
| `challenge_race` | *violated*: the second of two overlapping results replaces the first |
| `challenge_late` | *violated*: an answer after the deadline is accepted |
| `ranking` | the chain of ranking rows, one row per slot, and that no slot with changes is skipped, when sessions do not overlap |
| `ranking_race` | *violated*: two overlapping recomputations leave the same card twice |
| `ratings` | that numbers are distinct, tell the date and name the replay, and that a reading changes one only to the first free number of a known second (a match whose time is not known keeps its own, and of twins the later moves into the place of a deleted one); that names stay with their members; that the cache never changes an answer, holds a list once and keeps its limit |
| `registry_both_teams` | *violated*: a match can be registered that reads as one member in both teams |

The properties, each with the code it is about, are at the end of each module.

Bounds. The league instance has three teams, two members and five matches:
the final, both semifinals and the two quarterfinals of the left semifinal
(`MCPath`), so that it has trees of depth one to three, unbalanced ones
included. Three teams on six seats give byes, cascades of byes and dead
branches; depth three is the least at which undoing and propagating go on
beyond the next match. `MaxSets = 2` over `BestOf = 1` makes a score that is
too high and a draw both possible and refused. Compositions are a list that
removes each team and changes one roster; seatings are tried in one order of
the teams, which are interchangeable except for `t1`'s roster, and with one
team in two slots, which must be refused.

The challenge instance has one caller and two members called (one suffices
for the race), dates before and after the expiry, and moments up to
`MaxAge = 4` (5 in the two violations): `Expire = 2` and `Retention = 1` leave
room for expiry, a full trash and a result after both. `Date` holds ends of
days; order relative to `Expire` is all the code looks at. `Ally = {}`: allies
behave as the creator does except that they cannot cancel, and `Participant`
already has members who cannot. `Session` has one member, the assumption under
which these properties are stated. The `Crowd` has two requests open at once,
the least that can overlap, one member called, whose answer meets a
cancellation, a refusal of its own or a result, and times cut down to what
still expires and fills the trash (`Date = {0}`, `Expire = 0`, `Retention = 0`,
`MaxAge = 1`). The columns are independent of each other in `Commit`, so that
another member and a third request only repeat what these do; the theorem is
for any number of both, and any times.

The other parts of `requests` have two open requests (`Worker`), the least
that can overlap: more only repeat what two do, for every commit is decided by
the rows it finds. Three members suffice for two administrators who act on
each other and a third who signs up; two accounts with two spellings of one
name (`kim`, `KIM`) and another name for a name taken in another case; two users
and three tokens for a refresh, its repetition and a login beside it; three
versions, two of them the seed, for a deletion in an empty table; two
pictured members, two files they may save and one of another part (`File`,
`Attached`), for a replacement, a form sent late and a file two rows name;
two guests, one an operator, and two attachments; a feed of three items with
one row to the page (`Limit = 1`), where every row is the end of a page, and
one day. Start times and two days, which let rows grow across midnight, are in
`feed_hole`. The statistics see two matches of two days, one against one and
two against one with a name that is nobody's, and every mapping of two names.

The ranking instance has three standings, the empty one among them, so that a
month may begin empty; four slots in two months, the least with a slot behind
the first in each month and a change of month between; one operator, and two
for the race. `MaxRows = 3` bounds play and operators, never the scheduler,
which writes a row per slot at most; a card, a reset behind it and another
card fit in it.

The rating instance has two members, two names and two matches. One lineup
leaves a member's name open (the code then takes a name of the member's or the
battletag), the other has a computer, whose name may be a member's. There are
two days and one moment, which lies in the first: a match of the second day
has a time of another date. With two matches `LastTwin = 2` (9 in
the code) is enough for both numbers of a second to be given and given back;
that all are taken, which the code refuses, is left to the proofs.
`LastManual = 1` caps the hour 99. `MaxKept = 2` (6 in
the code) is the least limit at which one entry can be gone on from while
another waits; `MaxWrites = 3` lets a match be registered, another registered
or deleted, and one corrected or its players renamed, with readings of both
kinds and restarts anywhere between. One race and one decided outcome stand
for all: the proofs are for any. `registry_both_teams` needs one match and
three writes.

Symmetry is used in `ratings` over the identities of matches and in `requests`
over open requests and accounts: they are compared and nothing else, the code
orders matches by time and number, and neither run has a liveness property.

## 5. Fairness

None is assumed outside `RankingShift`: every other step is a request of a
user, who may stop, and the properties are safety properties.

`RankingShift` assumes

* weak fairness of `Boot`: the host restarts a process that has ended
  (`restartPolicyType` in `railway.json`);
* weak fairness of the end of each operator's session: a request ends, with a
  commit or an error;
* strong fairness of `Check` and of `Commit(Scheduler)`: the loop wakes every
  ten minutes as long as the process runs, a slot has many such checks, and
  crashes and failures come again and again but not at every one of them. A
  failure that lasts is outside this assumption, as it is outside what the
  code hopes for ("a brief failure is made good at the next check",
  `main.py` 795).

Nothing makes users play, operators press a button or the clock go on.
`CaughtUp` therefore says that a slot with changes nobody has been told of
ends in a row, in the changes being taken back, or in the end of the slot; the
mutant that marks the slot before it has succeeded violates it by a single
failure.

Deadlock is checked in every run but `requests` and `feed_hole`. There the
system of the instance may stop: all files and tokens have been given away,
the clock has reached its bound, the list is full, or all who could act are
suspended.

## 6. Proofs

`LeagueProofs` proves, for every set of teams, members, paths closed under
"the match above", payloads and depth bound, from the named assumptions of
`LeagueBracket` (`PathAssumption`, `SizeAssumption`, `TeamAssumption`,
`CompositionAssumption`, `SeatingAssumption`, `ModeAssumption`,
`LateDeletesAssumption`):

* `Invariance`: `Spec => []IInv`, where `IInv` is the conjunction of `TypeOK`,
  `DraftIsClean`, `WinnersAdvance`, `ScoreNamesWinner`, `ByesAreFinal` and
  `DeadStaysEmpty`; hence each of the six (`TypeCorrect`, `DraftsAreClean`,
  `AdvancementCorrect`, `ScoresCorrect`, `ByesCorrect`,
  `DeadBranchesCorrect`).
* `SeedsAreFrozen`, `PlayedTeamsAreFrozen`: the two action properties. The
  first (`SeedsFrozen`) no run states by itself: `Tournament` fixes the seeds,
  and its refinement fails on a bracket that can be edited after confirming.

No conjunct is inductive alone. That a correction leaves no score behind
(`ScoreNamesWinner`) needs `WinnersAdvance`, which says that what the undo
chain empties is what the winners below had filled; `WinnersAdvance` itself
needs `DeadStaysEmpty` to know that propagation never enters a dead branch,
and `ByesAreFinal` to know that an undecided match above a bye is the end of
the chain; and confirming starts from a board of which `DraftIsClean` says
that nothing is decided. The proof has one lemma per closed form (what `Undo`
and `Propagate` change and leave alone), then one step per action and
conjunct. Facts on sequences (a prefix is a prefix of the front or the whole)
are lemmas of their own.

Three more, under `ScoreAssumption` (NULL is no side) and the same assumptions:

* `PlacesCorrect`: `OnePlacePerTeam`. Its invariant `PlaceInv` adds to `IInv`
  that no two seats hold one team (`OneSeatPerTeam`), that the tree is no
  deeper than its bound and that a confirmed league has matches. A team in a
  slot came up from a seat and won every match on its way (`CameUp`), by going
  down from the slot; two slots with one team come from one seat, and lie
  above each other on its way.
* `NeverStuck`: `SomeMatchPlayable`, from `PlayInv`, which adds that every bye
  is taken at once (`ByesTaken`) and that dead are exactly the matches nobody
  is seated below (`DeadUnentered`). The deepest live match without a winner
  then has two teams: a side it still waited for would be fed by a deeper live
  match without a winner, a side nobody can come to would have been a bye.
* `ImplementsTournament`: `IsTournament`, step by step. Confirming is `Start`,
  a request on a result is `Result`, deleting the league is `Abandon`, every
  edit of a draft arranges it. That the slots obey `Placed` follows from
  `PlayInv` in each state; that a score left standing keeps its pairing
  follows from what `Undo` and `Propagate` leave alone.

The last two assume `~LateDeletes`: no seated team is deleted after
confirming. The code allows it, and `league_late_delete` shows that both then
fail; the assumption is what the run `league_tournament` makes.
`PlacesCorrect` does without.

`LoopProofs` proves `LoopsDoAgree`: `Spec => []LoopsAgree`, from the invariant
`PlaceInv` and the same assumptions. In every reachable state, for a bracket of
any size, each recursion and each sweep of the code does what the closed form
in LeagueBracket says, and the index arithmetic is a walk along the path.

* A recursive function in TLA+ is a choice among the functions that obey its
  equation, so it must be shown that there is one. The library's theorems for
  this take the equation as an operator parameter, which no prover here
  instantiates. `Recursion` replaces them: arguments have a measure in `Nat`,
  calls go to smaller ones, and the rule is a *function* of the argument and
  of the values below it, so that it is an ordinary bound variable. It follows
  from least numbers alone (`MeasureInduction`), as do all inductions after it:
  over the length of a path, what is left of the climb, the number of matches
  a sweep has been over.
* `PathOfSlot`, `SlotsBounded`, `BeforeOrder`: a path and its slot determine
  each other at each depth, slots of a depth stay below its power of two, and
  sorting by (round, slot) is a strict total order in which what feeds a match
  comes before it.
* `UndoIsUndo`, `UndoLoopDoes`: `_undo_decided` clears exactly the chain of
  matches whose winners rest on the one corrected (`UndoChain`).
* `PropagateIsCarried`, `AdvanceLoopDoes`: `_propagate_winner` with
  `_maybe_auto_resolve` carries a winner as far as `ByeChain` says, on any
  board. That the code returns early in the first round makes no difference:
  no carried winner reaches it (`AboveFirstRound`).
* `LiveIs`, `ResolvedSwept`, `PruneLoopDoes`: when the first sweep has been
  over an initial segment of the order, alive in it are the matches somebody
  is seated below; when the second has, the winners in it are those of `Lone`.
  The invariant of the second (`SweptOver`) also says that a winner carried
  ahead of the sweep is the one the sweep would find there, and that every fed
  slot holds the winner of the match below.

`RankingProofs` proves, for every set of standings and operators and any
number of slots and rows, from `TableAssumption`, `SlotAssumption` and
`SessionAssumption`:

* however sessions overlap: `RankingTypeCorrect` and `CardsAreKept`, from the
  invariant `RowsInv` (types, the numbers in use are bounded, and two writers
  share a number only when they rewrite the same baseline);
* when they do not (`~ Overlap`): `CardsAlwaysConnect`, `CardsNeverRepeat`,
  `SeedsNeverPile` and `SchedulerWritesOnce`, from `ChainInv`. It adds to the
  three chain properties what a session knows of the rows it will commit
  over: its row extends the chain (`Extends`) or rewrites its last baseline
  (`Rewrites`), and the scheduler's slot is still free. One lemma says that
  extending keeps the chain, one that rewriting does, and one that an action
  that leaves the rows alone leaves all of this alone.

`RegistryProofs` proves, for every set of members, names, races, lineups,
days, moments and matches, from `OwnerAssumption`, `TagAssumption`,
`TimeAssumption`, `LineupAssumption` and `NullAssumption`:

* `RegistryInvariance`: `RegistryInv`, the conjunction of `TypeOK`, the bound
  on numbers of the hour 99 (without which there need be no largest to count
  on from), that the numbers of a second are those `UniqueMatchNo` tries
  (`TwinsNumbered`), `NumbersDistinct`, `NumberTellsTheDate` and
  `ReplayNamedAfterMatch`; hence `NumbersAreDistinct`, `NumbersTellTheDate`,
  `ReplaysAreNamed`. The heart is one lemma about `UniqueMatchNo`: what it
  returns is free or the match's own, and carries the date.
* `NumbersHaveSettled`, `MembersHaveTheirNames`, `NamedMembersAreRead`: the
  action properties. For the first, no request but a reading changes the
  number of a match that stays (`RenumberedByStep`), and a reading gives the
  first free number of its second, where the match's own counts as free
  (`RenumberedByReading`); by `TwinsNumbered` the own number is one of those
  compared, so that within a second the new one is smaller.
* `StatisticsDoAgree`: `Statistics!StatsAgree`, from the types and one more
  invariant, that finitely many matches are registered (`RegisteredGrows`),
  and with `OutcomeAssumption`, the values `result` may have. Two counts are shown equal by a mapping between what they count:
  turning pairs of rows over for the two sides of a pair of members
  (`MirrorCardinality`), rows to their matches for a record and its list
  (`MappedOnto`). A pair's meetings are in three parts, won, lost and drawn
  (`PartsAddUp`), for a held match has one of three outcomes.

`RatingProofs` proves, from these, `BoundAssumption` and `MatchAssumption` (a
data base holds finitely many matches), `CacheInvariance`:
every entry is what a full replay of *some* list gives, a list whose numbers
tell its dates (`CacheInv`). It says nothing about the matches of now, which
is why no write can break it. `RatingsAreFresh` follows: if the marks of an
entry are a prefix of the marks of now, the games are a prefix, dates
included, and a replay of two parts is the replay of the whole.
`ListsAreKeptOnce` needs that the longest fitting entry is the very list when
the list is kept. `CacheTypeCorrect` is the limit.

`ChallengeProofs` proves, for every set of participants, dates and times, from
`TimeAssumption`, `PeopleAssumption` and `NoneAssumption`, and under the
assumption that requests do not overlap (`OneByOne`: there is at most one
session), without which `challenge_race` shows more than one result:

* `ChallengeInvariance`: `ChallengeInv`, of `TypeOK`, `OneFace` and
  `PendingLegal`. `OneFace` is not inductive, since a commit writes what was
  decided before: `PendingLegal` says that the columns an open request holds
  are the difference between the committed rows and rows that are consistent,
  respect the trash and follow the life cycle, and that the clock cannot spoil
  this. One lemma per handler shows that it opens with such rows; one shows
  that writing a difference over what was read gives exactly those rows.
* `StatusHasOneFace`, `TrashIsPatient`, `AgreedIsKept`, and
  `ChallengeImplementsLifecycle`, the refinement of `ChallengeLifecycle`, all
  from the same invariant.

And for any number of requests open at once, without `OneByOne`:

* `OverlapInvariance`: `OverlapInv`, of `TypeOK` and `Writes`, which says of
  every column an open request is about to write that the value is of its type
  and is a decision: an answer and not "pending", a member who cancelled, a
  result and not NULL, a popup seen. One lemma shows that a handler goes only
  onward from the rows it has read, one that the difference of such rows
  (`Dirty`) is of decisions only, and one that a commit of decisions, over
  whatever rows it finds by then, goes onward from *them*.
* `RowsKeepTypes` (`TypeOK`) and `NothingLost` (`NothingIsUndone`) follow. This
  is as much as the code guarantees without locks: that no update is lost, not
  that the columns of two requests fit together (`challenge_race`).

`RequestProofs` proves, for every set of people, files, tokens, versions and
names, every clock and every number of open requests, from the assumptions of
these modules, most of which say that NULL is no value,

* for Members: `MembersInvariance`, `MembersTypeCorrect` and `AnAdminRemains`.
  The invariant adds only that nobody is about to join as an ordinary member
  while no member exists (`NotFirst`): otherwise the table would stop being
  empty without an administrator;
* for Tokens: `TokensInvariance` and `TokensAlwaysRotate`. The invariant adds
  that a session begins with a row (`SessionsRooted`), that an open exchange
  issues a token nobody has and stays in the session of the token it revokes
  (`ExchangesSound`), and that no two issue the same (`IssuesApart`);
* for AppVersions: `VersionsInvariance` and `TheActiveIsRegistered`. A request
  that found versions registered still finds some when it commits
  (`FoundStays`): otherwise the rows it read from a seeded table would be
  none;
* for Profiles: `ProfilesInvariance` and `NamesStayUnambiguous`. The property
  needs only the types of what is written (`EditsSound`), since a commit that
  is not overtaken finds its names free;
* for Avatars and Schedules: `AvatarsInvariance`, `SchedulesInvariance` and,
  from both, `FilesAreThere` (`FilesExist`). A URL may be anybody's, so that
  the invariant says what can be shared: `RowsApart`, that two rows name one
  file, or a row a file of another part, only if it is lent; `UploadsSound`,
  that a request is about to commit a URL that has been in a row or a file it
  has saved, and deletes nothing when it changes nothing; `UploadsApart`, that
  no two saved one file. A request that begins then deletes a file that only
  the row it is for may name unlent, and one that commits brings a file that
  is there or one that is lent by this. Of a schedule, `TasksSound` and
  `TasksApart` say that an open request has saved what it adds, deleted what
  it drops, and shares neither with another; a commit then leaves on disk
  exactly what it names, but for what a picture took (`adrift`);
* for ActivityFeed: `FeedInvariance` and `ReaderMissesNothing`
  (`NothingSkipped`). While the row of the cursor keeps its place, all the
  reader is owed lies below the cursor (`OwedBelow`). It rests on the order
  being total and on what an edit may do to it: a row that has not moved keeps
  its place among those that have not. That the last row of a page is the
  least of those it gave is a fact about counting (`RowsAfter`);
* for all of them: `PartsRunAlongside`, that each part of `MCRequests` behaves
  as it does alone, and hence `PromisesAreKept`, `RequestsStatistics`
  (`StatsAgree`; the small registry of `MCRequests` is shown to meet what
  MatchRegistry assumes) and `RequestsTypesKept` (`RequestsTypeOK`), for
  challenges from `RowsKeepTypes`; and from `NothingLost`, `RequestsLoseNothing`
  (`NothingIsLost`), for the `Crowd` is shown to meet what Challenge assumes.

Only model-checked: `CaughtUp`, for liveness is outside the prover's reach. A
property that a theorem proves under an assumption (`OneByOne`, `~Overlap`,
`~LateDeletes`) is checked by its run under the same, and a run of its own
shows what happens without.

## 7. Not modelled, and why

* `update_league` (title, dates, best_of): best_of is a constant of the model;
  it bounds only the scores accepted later. Substitutions of a match and all
  texts and time stamps: no decision reads them.
* Requests on a league or on the registry that overlap; overlapping requests
  on a challenge are (the `Crowd` of `requests`), and break it (`challenge_race`).
* The two selects by which a handler loads a challenge and its participants
  are one read; so are the look-ups of the other handlers.
* Free texts and backdrop images of challenges; texts and mentions of
  comments, and comments on anything but a schedule.
* Passwords and access tokens, the access history (an append-only log), birth
  dates, phone numbers and the other columns of a member no decision reads.
* The splits of the statistics by race, averages of metrics, series over time,
  searches by text and paging.
* Rating arithmetic (floating point), image resizing, routing, and payload
  validation that only checks formats.
* Matches: the files of replays (deleted before the commit, as pictures and
  attachments are), maps, unit tracks, view counts, memos; the filter by match
  type, which only makes the list of a reader a smaller one; the order in
  which the rows of one team come back, on which a mark depends, so that
  another order misses the cache and is no wrong answer; two requests that
  register a match at once (the unique key refuses the second). Times carry a
  zone; a first match found by its start is any match of that start.
* The switch `ranking_shift_enabled` is on; ranking rows whose standings moved
  without any rank moving are cards in the model, while the feed hides them
  (`snapshot_has_shifts`); two server processes at once during a deployment.
* Startup migrations (raw SQL whose effect depends on the data base it finds),
  the OpenBW bridge (an external program), settings, hashing and logging, and
  the offline script: they keep no state the handlers share.

## 8. Running

    tlc -workers 2 -config League.cfg MCLeague
    tlc -workers 2 -config Requests.cfg MCRequests
    tlc -workers 2 -config FeedHole.cfg ActivityFeed
    tlc -workers 2 -config RankingShift.cfg RankingShift
    tlc -workers 2 -config Ratings.cfg MCRatings
    tlapm LeagueProofs.tla
    tlapm LoopProofs.tla
    tlapm RankingProofs.tla
    tlapm RegistryProofs.tla
    tlapm RatingProofs.tla
    tlapm ChallengeProofs.tla
    tlapm RequestProofs.tla
