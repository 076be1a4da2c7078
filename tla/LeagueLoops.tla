---------------------------- MODULE LeagueLoops ----------------------------
(***************************************************************************)
(* The recursive methods of LeagueService, step by step as they run, and   *)
(* the conversions between a path and (round, slot_in_round).  They are    *)
(* the reference for the closed forms of LeagueBracket: in every reachable *)
(* state in which a handler would call one, both must agree.               *)
(*                                                                         *)
(* Each recursion is a recursive function of the arguments of its method,  *)
(* each loop over the matches a function of the matches it has been over.  *)
(***************************************************************************)
EXTENDS LeagueBracket

-----------------------------------------------------------------------------
(* Coordinates.                                                            *)

TotalRounds(T) ==
    IF T = {} THEN 0 ELSE 1 + CHOOSE n \in {Len(p) : p \in T} : \A q \in T : Len(q) <= n

Round(T, p) == TotalRounds(T) - Len(p)

Digit(s) == IF s = "a" THEN 0 ELSE 1

(* _slot_of_path reads the path as a binary number, "a" = 0 and "b" = 1. *)
SlotOfPath[p \in Seq(Side)] ==
    IF p = <<>> THEN 0 ELSE 2 * SlotOfPath[Front(p)] + Digit(Last(p))

Coord(T, p) == <<Round(T, p), SlotOfPath[p]>>

ChildKey(c, s) == <<c[1] - 1, 2 * c[2] + Digit(s)>>

(* The coordinates _propagate_winner computes for the match above. *)
NextKey(c) == <<c[1] + 1, c[2] \div 2>>
NextSide(c) == IF c[2] % 2 = 0 THEN "a" ELSE "b"

(* _path_of writes the slot n with as many binary digits as the match lies deep. *)
PathOf[depth \in Nat] ==
    [n \in Nat |->
        IF depth = 0 THEN <<>>
        ELSE Append(PathOf[depth - 1][n \div 2], IF n % 2 = 0 THEN "a" ELSE "b")]

-----------------------------------------------------------------------------
(* The methods that climb.  They work on a board: the columns of the rows. *)

Boards ==
    [slot : [Slot -> Team \cup {None}], winner : [Path -> Team \cup {None}],
     sets : [Path -> (Nat \X Nat) \cup {None}], dead : SUBSET Path]

Rows == [slot |-> slot, winner |-> winner, sets |-> sets, dead |-> dead]

(* The writes of one row: a team into a slot, a winner, nothing decided. *)
Put(b, x, t) ==
    [slot |-> [b.slot EXCEPT ![x] = t], winner |-> b.winner, sets |-> b.sets, dead |-> b.dead]

Decide(b, p, t) ==
    [slot |-> b.slot, winner |-> [b.winner EXCEPT ![p] = t], sets |-> b.sets, dead |-> b.dead]

Undecide(b, p) ==
    [slot |-> b.slot, winner |-> [b.winner EXCEPT ![p] = None],
     sets |-> [b.sets EXCEPT ![p] = None], dead |-> b.dead]

UndoDecided[p \in Path] ==
    [b \in Boards |->
        IF p = <<>> \/ Front(p) \notin tree THEN Undecide(b, p)
        ELSE LET d == Put(Undecide(b, p), Feeds(p), None)
             IN  IF d.winner[Front(p)] # None THEN UndoDecided[Front(p)][d] ELSE d]

Filled(b, p) == {s \in Side : b.slot[<<p, s>>] # None}

(* What both _maybe_auto_resolve and the second sweep ask: is one side     *)
(* filled, and can nobody come to the other?                               *)
WalksOver(b, p) ==
    /\ p \notin b.dead /\ b.winner[p] = None
    /\ \E s \in Side : /\ Filled(b, p) = {s}
                        /\ Append(p, Other(s)) \notin tree \ b.dead

TheFilled(b, p) == b.slot[<<p, CHOOSE s \in Side : s \in Filled(b, p)>>]

(* _propagate_winner, with _maybe_auto_resolve called for the match above. *)
PropagateWinner[p \in Path] ==
    [b \in Boards |-> [w \in Team |->
        IF p = <<>> \/ Front(p) \notin tree THEN b
        ELSE LET r == Front(p)
                 c == Put(b, Feeds(p), w)
             IN  IF Round(tree, r) # 1 /\ WalksOver(c, r)
                 THEN PropagateWinner[r][Decide(c, r, TheFilled(c, r))][TheFilled(c, r)]
                 ELSE c]]

-----------------------------------------------------------------------------
(* _prune_and_resolve goes over the matches from the first round to the    *)
(* final, by slot within a round, and does so twice.                       *)

Before(p, q) ==
    \/ Round(tree, p) < Round(tree, q)
    \/ Round(tree, p) = Round(tree, q) /\ SlotOfPath[p] < SlotOfPath[q]

LastOf(S) == CHOOSE p \in S : \A q \in S \ {p} : Before(q, p)

(* The branches found alive once the first sweep has been over S. *)
Live[S \in SUBSET tree] ==
    IF S = {} THEN {}
    ELSE LET p == LastOf(S)
             L == Live[S \ {p}]
         IN  IF (\E s \in Side : slot[<<p, s>>] # None) \/ (\E s \in Side : Append(p, s) \in L)
             THEN L \cup {p} ELSE L

ResolveOne(b, p) ==
    IF WalksOver(b, p)
    THEN PropagateWinner[p][Decide(b, p, TheFilled(b, p))][TheFilled(b, p)]
    ELSE b

(* The board once the second sweep has been over S. *)
Resolved[S \in SUBSET tree] ==
    IF S = {} THEN [slot |-> slot, winner |-> winner, sets |-> sets, dead |-> tree \ Live[tree]]
    ELSE ResolveOne(Resolved[S \ {LastOf(S)}], LastOf(S))

PruneAndResolve == Resolved[tree]

-----------------------------------------------------------------------------
(* Rows keep their place when they are renumbered: a path and its          *)
(* (round, slot) determine each other, and the index arithmetic of         *)
(* _child_key and _propagate_winner moves one step along the path.         *)
CoordinatesAgree ==
    \A p \in tree :
        /\ PathOf[TotalRounds(tree) - Coord(tree, p)[1]][Coord(tree, p)[2]] = p
        /\ \A s \in Side : ChildKey(Coord(tree, p), s) = <<Round(tree, p) - 1, SlotOfPath[Append(p, s)]>>
        /\ p # <<>> => /\ NextKey(Coord(tree, p)) = Coord(tree, Front(p))
                       /\ NextSide(Coord(tree, p)) = Last(p)

Columns(b) == [slot |-> b.slot, winner |-> b.winner, sets |-> b.sets]

(* Undo clears what the recursion of _undo_decided clears. *)
UndoLoopAgrees ==
    \A p \in tree : sets[p] # None => Undo(Board, p) = Columns(UndoDecided[p][Rows])

(* Propagate carries a winner as far as _propagate_winner and              *)
(* _maybe_auto_resolve do.                                                 *)
AdvanceLoopAgrees ==
    \A p \in tree : \A s \in Side :
        locked /\ ResultWritable(p) /\ (\A u \in Side : slot[<<p, u>>] # None) =>
            LET w == slot[<<p, s>>]
                u == IF sets[p] # None THEN Undo(Board, p) ELSE Board
                b == [slot |-> u.slot, winner |-> u.winner, sets |-> u.sets, dead |-> dead]
            IN  Propagate(u, p, w) = Columns(PropagateWinner[p][Decide(b, p, w)][w])

(* Confirming leaves the board the two sweeps of _prune_and_resolve leave. *)
PruneLoopAgrees ==
    ~locked /\ tree # {} =>
        /\ PruneAndResolve.dead = Pruned
        /\ \A p \in tree : PruneAndResolve.winner[p] = Lone(p)
        /\ \A x \in tree \X Side : PruneAndResolve.slot[x] = AdvanceLone(x)

(* On every board the league can come to, the closed forms LeagueBracket   *)
(* is written in give what the index arithmetic, the recursions and the    *)
(* sweeps of the code give.                                                *)
LoopsAgree ==
    /\ CoordinatesAgree
    /\ UndoLoopAgrees
    /\ AdvanceLoopAgrees
    /\ PruneLoopAgrees

=============================================================================
