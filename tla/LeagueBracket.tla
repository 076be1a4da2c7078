--------------------------- MODULE LeagueBracket ---------------------------
(***************************************************************************)
(* One league of src/app/domain/leagues: its teams, and the elimination    *)
(* bracket its matches form.  Each handler of LeagueService is one action; *)
(* a handler runs in one database session and commits once, at its end.    *)
(*                                                                         *)
(* A match is named by its path from the final, a sequence over {"a","b"}: *)
(* <<>> is the final, Append(p, s) the match whose winner takes side s of  *)
(* p.  The code stores (round, slot_in_round) instead and converts; module *)
(* LeagueLoops checks that conversion, so that here a row keeps its path.  *)
(*                                                                         *)
(* The loops of the code that climb the tree (_undo_decided,               *)
(* _propagate_winner) and the two sweeps of _prune_and_resolve are written *)
(* here in closed form; LeagueLoops checks them against the loops.         *)
(***************************************************************************)
EXTENDS Naturals, Sequences, FiniteSets, SequencesExt

CONSTANTS
    Team,         \* team ids: rows of league_teams
    Member,       \* the members a roster may name
    Path,         \* the paths a payload may name
    MaxDepth,     \* _MAX_DEPTH: how many rounds a bracket may have
    BestOf,       \* best_of of the league
    MaxSets,      \* the largest set score a payload carries (99 in the code)
    Schedulable,  \* the matches for which a payload sets a time
    Composition,  \* the team compositions a payload may ask for
    Seating,      \* the seatings a payload may ask for: functions from slots
    Mode,         \* the modes a league is created in
    LateDeletes,  \* do admins delete seated teams after confirming?
    None          \* NULL

Side == {"a", "b"}

ASSUME PathAssumption ==
    /\ Path \subseteq Seq(Side)
    /\ <<>> \in Path
    /\ \A p \in Path : p # <<>> => Front(p) \in Path

ASSUME SizeAssumption ==
    /\ MaxDepth \in Nat \ {0}
    /\ BestOf \in Nat \ {0}
    /\ MaxSets \in Nat
    /\ Schedulable \subseteq Path

ASSUME TeamAssumption == None \notin Team /\ None \notin Nat \X Nat

ASSUME CompositionAssumption ==
    Composition \subseteq Seq([team : Team, roster : Seq(Member)])

ASSUME SeatingAssumption ==
    \A g \in Seating : DOMAIN g \subseteq Path \X Side /\ \A x \in DOMAIN g : g[x] \in Team

ASSUME ModeAssumption == Mode \subseteq {"team", "individual"}

ASSUME LateDeletesAssumption == LateDeletes \in BOOLEAN

VARIABLES
    mode,     \* "none" while the league does not exist
    lineup,   \* the league's teams in label order (A, B, C, ...)
    roster,   \* the members of each team, in position order
    tree,     \* the matches of the bracket, {} before there is one
    locked,   \* bracket_locked_at is set
    slot,     \* team_a_id and team_b_id of each match
    winner,   \* winner_team_id of each match
    sets,     \* <<sets_won_a, sets_won_b>> of each match played
    dead,     \* the matches with is_dead
    sched     \* the matches with a scheduled_at (and a schedule_posted_at)

vars == <<mode, lineup, roster, tree, locked, slot, winner, sets, dead, sched>>
boardVars == <<tree, locked, slot, winner, sets, dead, sched>>

-----------------------------------------------------------------------------
(* The tree.                                                               *)

Slot == Path \X Side

Other(s) == IF s = "a" THEN "b" ELSE "a"

(* The slot the winner of p moves up to. *)
Feeds(p) == <<Front(p), Last(p)>>

(* p and the matches above it, up to the final. *)
Above(p) == Prefixes(p)

(* The side of r on which the path p climbs into it. *)
SideToward(r, p) == p[Len(r) + 1]

(* The seats of a tree: the slots no match feeds. *)
Seats(T) == {x \in T \X Side : Append(x[1], x[2]) \notin T}

(* Mutant of ValidShape: a branch may hang in the air. *)
ValidShapeWithGaps(T) ==
    T # {} => <<>> \in T /\ \A p \in T : Len(p) + 1 <= MaxDepth

ValidShape(T) ==
    T # {} =>
        /\ <<>> \in T
        /\ \A p \in T : Len(p) + 1 <= MaxDepth
        /\ \A p \in T : p # <<>> => Front(p) \in T

-----------------------------------------------------------------------------
(* What the loops of the code compute.  A board b is a record with the     *)
(* fields slot, winner and sets.                                           *)

Board == [slot |-> slot, winner |-> winner, sets |-> sets]

(* _undo_decided climbs from p as long as the match above has a winner. *)
UndoChain(b, p) ==
    {q \in Above(p) :
        \A r \in Above(p) :
            IsPrefix(q, r) /\ r # p => r \in tree /\ b.winner[r] # None}

(* Mutants of Undo: it stops at the first match above; it leaves the team  *)
(* in the slot above; it forgets the scores above.                         *)
UndoOneRound(b, p) ==
    [slot   |-> [x \in Slot |-> IF p # <<>> /\ x = Feeds(p)
                                THEN None ELSE b.slot[x]],
     winner |-> [q \in Path |-> IF q = p THEN None ELSE b.winner[q]],
     sets   |-> [q \in Path |-> IF q = p THEN None ELSE b.sets[q]]]

UndoKeepsSlots(b, p) ==
    LET C == UndoChain(b, p)
    IN  [slot   |-> b.slot,
         winner |-> [q \in Path |-> IF q \in C THEN None ELSE b.winner[q]],
         sets   |-> [q \in Path |-> IF q \in C THEN None ELSE b.sets[q]]]

UndoKeepsScores(b, p) ==
    LET C == UndoChain(b, p)
    IN  [slot   |-> [x \in Slot |->
                        IF \E q \in C : q # <<>> /\ x = Feeds(q)
                        THEN None ELSE b.slot[x]],
         winner |-> [q \in Path |-> IF q \in C THEN None ELSE b.winner[q]],
         sets   |-> [b.sets EXCEPT ![p] = None]]

Undo(b, p) ==
    LET C == UndoChain(b, p)
    IN  [slot   |-> [x \in Slot |->
                        IF \E q \in C : q # <<>> /\ x = Feeds(q)
                        THEN None ELSE b.slot[x]],
         winner |-> [q \in Path |-> IF q \in C THEN None ELSE b.winner[q]],
         sets   |-> [q \in Path |-> IF q \in C THEN None ELSE b.sets[q]]]

(* _maybe_auto_resolve: a team that reached side s of r needs no opponent  *)
(* when the other side is empty and nobody can ever come up to it.         *)
(* Mutant of Bye: an empty side counts as a bye, awaited or not. *)
ByeWhenEmpty(b, r, s) ==
    /\ r \in tree \ dead
    /\ b.winner[r] = None
    /\ b.slot[<<r, Other(s)>>] = None

Bye(b, r, s) ==
    /\ r \in tree \ dead
    /\ b.winner[r] = None
    /\ b.slot[<<r, Other(s)>>] = None
    /\ Append(r, Other(s)) \notin tree \ dead

(* _propagate_winner carries the winner w of p up through every bye. *)
ByeChain(b, p) ==
    {q \in Above(p) :
        \A r \in Above(p) :
            IsPrefix(q, r) /\ r # p => Bye(b, r, SideToward(r, p))}

(* Mutant of Propagate: it does not go on through byes. *)
PropagateOneRound(b, p, w) ==
    [slot   |-> [x \in Slot |-> IF p # <<>> /\ x = Feeds(p)
                                THEN w ELSE b.slot[x]],
     winner |-> [q \in Path |-> IF q = p THEN w ELSE b.winner[q]],
     sets   |-> b.sets]

Propagate(b, p, w) ==
    LET C == ByeChain(b, p)
    IN  [slot   |-> [x \in Slot |->
                        IF \E q \in C : q # <<>> /\ x = Feeds(q)
                        THEN w ELSE b.slot[x]],
         winner |-> [q \in Path |-> IF q \in C THEN w ELSE b.winner[q]],
         sets   |-> b.sets]

(* The slots of the subtree of p that hold a team when the bracket is confirmed. *)
SeatedBelow(p) ==
    {x \in tree \X Side : IsPrefix(p, x[1]) /\ slot[x] # None}

(* _prune_and_resolve: a branch with one team sends it up unopposed. *)
Lone(p) ==
    IF \E x \in Slot : SeatedBelow(p) = {x}
    THEN slot[CHOOSE x \in Slot : SeatedBelow(p) = {x}] ELSE None

(* Mutant of Pruned: a match without a seed of its own is dead. *)
PrunedUnseeded == {p \in tree : \A s \in Side : slot[<<p, s>>] = None}

Pruned == {p \in tree : SeatedBelow(p) = {}}

-----------------------------------------------------------------------------
(* The handlers.                                                           *)

Init ==
    /\ mode = "none"
    /\ lineup = <<>>
    /\ roster = [t \in Team |-> <<>>]
    /\ tree = {}
    /\ locked = FALSE
    /\ slot = [x \in Slot |-> None]
    /\ winner = [p \in Path |-> None]
    /\ sets = [p \in Path |-> None]
    /\ dead = {}
    /\ sched = {}

CreateLeague(m) ==
    /\ mode = "none"
    /\ mode' = m
    /\ UNCHANGED <<lineup, roster, boardVars>>

(* Matches, teams and rosters go with the league (delete-orphan cascades). *)
DeleteLeague ==
    /\ mode # "none"
    /\ mode' = "none"
    /\ lineup' = <<>>
    /\ roster' = [t \in Team |-> <<>>]
    /\ tree' = {} /\ locked' = FALSE /\ dead' = {} /\ sched' = {}
    /\ slot' = [x \in Slot |-> None]
    /\ winner' = [p \in Path |-> None]
    /\ sets' = [p \in Path |-> None]

-----------------------------------------------------------------------------
(* set_team_composition                                                    *)

InLineup == {lineup[i] : i \in DOMAIN lineup}

(* Has the team played?  A walkover does not count: it leaves no score. *)
HasDecidedMatch(t) ==
    \E p \in tree : sets[p] # None /\ \E s \in Side : slot[<<p, s>>] = t

TeamsOf(c) == {c[i].team : i \in DOMAIN c}

ValidComposition(c) ==
    /\ \A i, j \in DOMAIN c :
        i # j => /\ c[i].team # c[j].team
                 /\ ToSet(c[i].roster) \cap ToSet(c[j].roster) = {}
    /\ mode = "individual" => \A i \in DOMAIN c : Len(c[i].roster) <= 1

(* Mutant of KeepsDecidedTeams: the roster may change. *)
KeepsDecidedNames(c) == \A t \in InLineup : HasDecidedMatch(t) => t \in TeamsOf(c)

KeepsDecidedTeams(c) ==
    \A t \in InLineup :
        HasDecidedMatch(t) =>
            \E i \in DOMAIN c : c[i].team = t /\ c[i].roster = roster[t]

(* A new entry takes a fresh id.  With the finite Team it may be the id of *)
(* a team deleted before, of which no foreign key is left in any row.      *)
SetTeamComposition(c) ==
    /\ mode # "none"
    /\ ValidComposition(c)
    /\ KeepsDecidedTeams(c)
    /\ locked /\ ~LateDeletes =>
        \A x \in Slot : slot[x] # None => slot[x] \in TeamsOf(c)
    /\ lineup' = [i \in DOMAIN c |-> c[i].team]
    /\ roster' = [t \in Team |->
                    IF \E i \in DOMAIN c : c[i].team = t
                    THEN c[CHOOSE i \in DOMAIN c : c[i].team = t].roster
                    ELSE <<>>]
    /\ slot' = [x \in Slot |-> IF slot[x] \in TeamsOf(c) THEN slot[x] ELSE None]
    /\ winner' = [p \in Path |->
                    IF winner[p] \in TeamsOf(c) THEN winner[p] ELSE None]
    /\ UNCHANGED <<mode, tree, locked, sets, dead, sched>>

-----------------------------------------------------------------------------
(* set_bracket and set_bracket_seeding.  A payload seats teams by a        *)
(* function from slots to teams; slots it does not name stay empty.        *)

(* Mutant of OneSeatEach. *)
OneSeatEachUnchecked(seating) == TRUE

OneSeatEach(seating) ==
    \A x, y \in DOMAIN seating : seating[x] = seating[y] => x = y

ValidSeating(T, seating) ==
    /\ DOMAIN seating \subseteq Seats(T)
    /\ \A x \in DOMAIN seating : seating[x] \in InLineup
    /\ OneSeatEach(seating)

SeatedBy(seating) ==
    [x \in Slot |-> IF x \in DOMAIN seating THEN seating[x] ELSE None]

(* Mutant of BracketEditable: the lock is not looked at. *)
BracketEditableAlways == mode # "none"

BracketEditable == mode # "none" /\ ~locked

(* The rows on the paths of T stay, the others are deleted, the missing    *)
(* ones are made; the winner column is not written.                        *)
SetBracket(T, seating) ==
    /\ BracketEditable
    /\ \A p \in tree : sets[p] = None
    /\ ValidShape(T)
    /\ ValidSeating(T, seating)
    /\ tree' = T
    /\ slot' = SeatedBy(seating)
    /\ winner' = [p \in Path |-> IF p \in T \cap tree THEN winner[p] ELSE None]
    /\ dead' = {}
    /\ sched' = sched \cap T
    /\ UNCHANGED <<mode, lineup, roster, locked, sets>>

(* A match without a score is editable: a walkover there is taken back,    *)
(* its slots are emptied, and the payload seats the teams again.           *)
Editable == {p \in tree : sets[p] = None}

SetBracketSeeding(seating) ==
    /\ BracketEditable
    /\ tree # {}
    /\ \A x \in DOMAIN seating : x[1] \in Editable
    /\ \A x \in Slot : slot[x] # None /\ x[1] \notin Editable => x \in Seats(tree)
    /\ ValidSeating(tree, seating)
    /\ slot' = [x \in Slot |-> IF x \in DOMAIN seating THEN seating[x]
                               ELSE IF x[1] \in Editable THEN None ELSE slot[x]]
    /\ winner' = [p \in Path |-> IF p \in Editable THEN None ELSE winner[p]]
    /\ UNCHANGED <<mode, lineup, roster, tree, locked, sets, dead, sched>>

-----------------------------------------------------------------------------
(* confirm_bracket                                                         *)

AdvanceLone(x) ==
    IF Append(x[1], x[2]) \in tree THEN Lone(Append(x[1], x[2])) ELSE slot[x]

ConfirmBracket ==
    /\ mode # "none"
    /\ tree # {}
    /\ ~locked
    /\ \E x \in Slot : slot[x] # None
    /\ locked' = TRUE
    /\ dead' = Pruned
    /\ winner' = [p \in Path |-> IF p \in tree THEN Lone(p) ELSE None]
    /\ slot' = [x \in Slot |-> IF x[1] \in tree THEN AdvanceLone(x) ELSE None]
    /\ UNCHANGED <<mode, lineup, roster, tree, sets, sched>>

-----------------------------------------------------------------------------
(* set_match_schedule and set_match_result                                 *)

SetMatchSchedule(p) ==
    /\ mode # "none"
    /\ p \in tree \ dead
    /\ sched' = sched \cup {p}
    /\ UNCHANGED <<mode, lineup, roster, tree, locked, slot, winner, sets, dead>>

ClearMatchSchedule(p) ==
    /\ mode # "none"
    /\ p \in tree \ dead
    /\ sched' = sched \ {p}
    /\ UNCHANGED <<mode, lineup, roster, tree, locked, slot, winner, sets, dead>>

(* Mutant of ResultWritable: results are taken before confirming. *)
ResultWritableInDraft(p) ==
    /\ mode # "none"
    /\ p \in tree \ dead
    /\ p # <<>> => sets[Front(p)] = None

(* The checks both kinds of result request share. *)
ResultWritable(p) ==
    /\ mode # "none"
    /\ locked
    /\ p \in tree \ dead
    /\ p # <<>> => sets[Front(p)] = None

ClearMatchResult(p) ==
    /\ ResultWritable(p)
    /\ sets[p] # None
    /\ LET b == Undo(Board, p)
       IN  slot' = b.slot /\ winner' = b.winner /\ sets' = b.sets
    /\ UNCHANGED <<mode, lineup, roster, tree, locked, dead, sched>>

WinningSide(a, b) == IF a > b THEN "a" ELSE "b"

ScoreAllowed(a, b) == a # b /\ a <= BestOf /\ b <= BestOf

WithScore(b, p, x, y) ==
    [slot |-> b.slot, winner |-> b.winner, sets |-> [b.sets EXCEPT ![p] = <<x, y>>]]

(* A corrected score first takes back what the old one sent up. *)
SetMatchResult(p, x, y) ==
    /\ ResultWritable(p)
    /\ \A s \in Side : slot[<<p, s>>] # None
    /\ ScoreAllowed(x, y)
    /\ LET u == IF sets[p] # None THEN Undo(Board, p) ELSE Board
           w == slot[<<p, WinningSide(x, y)>>]
           b == Propagate(WithScore(u, p, x, y), p, w)
       IN  slot' = b.slot /\ winner' = b.winner /\ sets' = b.sets
    /\ UNCHANGED <<mode, lineup, roster, tree, locked, dead, sched>>

-----------------------------------------------------------------------------

Next ==
    \/ \E m \in Mode : CreateLeague(m)
    \/ DeleteLeague
    \/ \E c \in Composition : SetTeamComposition(c)
    \/ \E T \in SUBSET Path, g \in Seating : SetBracket(T, g)
    \/ \E g \in Seating : SetBracketSeeding(g)
    \/ ConfirmBracket
    \/ \E p \in Schedulable : SetMatchSchedule(p) \/ ClearMatchSchedule(p)
    \/ \E p \in Path : ClearMatchResult(p)
    \/ \E p \in Path, x, y \in 0..MaxSets : SetMatchResult(p, x, y)

Spec == Init /\ [][Next]_vars

-----------------------------------------------------------------------------
(* Properties.                                                             *)

(* Every column holds a value of its type: a team column names a team of   *)
(* the league (the foreign keys), no row lies outside the tree, and the    *)
(* tree is closed under "the match above".                                 *)
TypeOK ==
    /\ mode \in {"none", "team", "individual"}
    /\ lineup \in Seq(Team)
    /\ roster \in [Team -> Seq(Member)]
    /\ tree \subseteq Path
    /\ \A p \in tree : p # <<>> => Front(p) \in tree
    /\ locked \in BOOLEAN
    /\ slot \in [Slot -> InLineup \cup {None}]
    /\ winner \in [Path -> InLineup \cup {None}]
    /\ sets \in [Path -> (Nat \X Nat) \cup {None}]
    /\ dead \subseteq tree
    /\ sched \subseteq tree
    /\ \A p \in Path \ tree :
          /\ winner[p] = None /\ sets[p] = None
          /\ \A s \in Side : slot[<<p, s>>] = None

(* Until it is confirmed a bracket is only a plan: nothing is decided,     *)
(* nobody has advanced, and teams sit on the seats alone, whatever shapes  *)
(* and seatings were saved before (set_bracket keeps the winner column).   *)
DraftIsClean ==
    ~locked =>
        /\ dead = {}
        /\ \A p \in Path : winner[p] = None /\ sets[p] = None
        /\ \A x \in Slot : slot[x] # None => x \in Seats(tree)

(* The side of a match that another match feeds holds exactly that match's *)
(* winner: propagation, undoing and walkovers keep the two rows in step    *)
(* (_propagate_winner, _undo_decided, _prune_and_resolve).                 *)
WinnersAdvance == \A p \in tree \ {<<>>} : slot[Feeds(p)] = winner[p]

(* A match with a score has both its teams, and the winner is the one the  *)
(* score names: no correction below and no deletion leaves a score behind  *)
(* that another pairing played.                                            *)
ScoreNamesWinner ==
    \A p \in tree : sets[p] # None =>
        /\ \A s \in Side : slot[<<p, s>>] # None
        /\ winner[p] = slot[<<p, WinningSide(sets[p][1], sets[p][2])>>]

(* A team wins unopposed only where no opponent can ever come up: the      *)
(* comment of _maybe_auto_resolve tells of a three-team bracket whose bye  *)
(* went straight to the title.                                             *)
ByesAreFinal ==
    \A p \in tree : winner[p] # None /\ sets[p] = None =>
        \E s \in Side :
            /\ slot[<<p, s>>] = winner[p]
            /\ slot[<<p, Other(s)>>] = None
            /\ Append(p, Other(s)) \notin tree \ dead

(* A branch confirm_bracket killed stays empty for ever, and everything    *)
(* below it is dead too: no result and no advancement reaches it.          *)
DeadStaysEmpty ==
    \A p \in dead :
        /\ winner[p] = None /\ sets[p] = None
        /\ \A s \in Side :
              /\ slot[<<p, s>>] = None
              /\ Append(p, s) \in tree => Append(p, s) \in dead

(* A team stands in two matches only when one is above the other and the   *)
(* team won its way up: nobody plays in two branches at once.              *)
OnePlacePerTeam ==
    \A p, q \in tree : \A s, u \in Side :
        slot[<<p, s>>] # None /\ slot[<<p, s>>] = slot[<<q, u>>] /\ p # q =>
            \/ IsPrefix(p, q) /\ winner[q] = slot[<<q, u>>]
            \/ IsPrefix(q, p) /\ winner[p] = slot[<<p, s>>]

(* While teams wait in a confirmed bracket without a champion some match   *)
(* can be played: the league never waits for a result nobody can enter.    *)
SomeMatchPlayable ==
    locked /\ winner[<<>>] = None /\ (\E x \in Slot : slot[x] # None) =>
        \E p \in tree \ dead :
            /\ ResultWritable(p)
            /\ sets[p] = None
            /\ \A s \in Side : slot[<<p, s>>] # None

(* After confirming, a seat keeps its team until the team is deleted, and  *)
(* the tree keeps its matches: no later request reseeds the bracket.       *)
SeedsFrozen ==
    [][locked /\ mode' # "none" =>
          /\ locked' /\ tree' = tree
          /\ \A x \in Seats(tree) :
                slot'[x] = slot[x] \/ slot[x] \notin {lineup'[i] : i \in DOMAIN lineup'}]_vars

(* A team that has played keeps its place and its members as long as its   *)
(* result stands (set_team_composition).                                   *)
PlayedTeamsFrozen ==
    [][\A t \in Team : HasDecidedMatch(t) /\ mode' # "none" =>
          /\ t \in {lineup'[i] : i \in DOMAIN lineup'}
          /\ roster'[t] = roster[t]]_vars

(* One request writes or clears the score of one match at most.            *)
OneScorePerRequest ==
    [][mode' # "none" => Cardinality({p \in Path : sets'[p] # sets[p]}) <= 1]_vars

=============================================================================
