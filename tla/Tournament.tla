----------------------------- MODULE Tournament -----------------------------
(***************************************************************************)
(* What a league's bracket promises, told without stored winners, byes or  *)
(* dead branches: a tree of matches, the teams seeded on its seats, and    *)
(* the scores.  Who stands where (place) is at every moment what the seeds *)
(* and the scores say, and a score stands only between the two teams that  *)
(* played it.  LeagueBracket implements this; there place is a cache,      *)
(* kept up to date by hand in every handler.                               *)
(***************************************************************************)
EXTENDS Naturals, Sequences, SequencesExt

CONSTANTS Team, Path, None

Side == {"a", "b"}
Slot == Path \X Side
Other(s) == IF s = "a" THEN "b" ELSE "a"

VARIABLES
    shape,    \* the matches
    seed,     \* the team seeded on each slot no match feeds
    started,  \* the bracket is confirmed
    score,    \* the side that won each match played
    place     \* the team in each slot

vars == <<shape, seed, started, score, place>>

-----------------------------------------------------------------------------

(* The seeds that may come up to match p. *)
Entrants(T, g, p) == {x \in T \X Side : IsPrefix(p, x[1]) /\ g[x] # None}

(* The seeds that may come up to one side of p: its own, or those below. *)
SideEntrants(T, g, p, s) ==
    {x \in Entrants(T, g, p) : x = <<p, s>> \/ IsPrefix(Append(p, s), x[1])}

Unopposed(T, g, p, s) ==
    SideEntrants(T, g, p, s) # {} /\ SideEntrants(T, g, p, Other(s)) = {}

(* The winner by score, or else the side that has no opponent to wait for. *)
Wins(T, g, r, p, s) == IF r[p] # None THEN r[p] = s ELSE Unopposed(T, g, p, s)

(* Who stands where.  The rule for a slot that a match feeds looks at the  *)
(* slots of that match only; as a tree is finite the rules determine every *)
(* slot (PlacesAreDetermined in LeagueProofs).                             *)
Placed(T, g, on, r, at) ==
    /\ at \in [Slot -> Team \cup {None}]
    /\ \A p \in Path, s \in Side :
          LET c == Append(p, s)
          IN  /\ p \notin T => at[<<p, s>>] = None
              /\ p \in T /\ (on => c \notin T) => at[<<p, s>>] = g[<<p, s>>]
              /\ p \in T /\ on /\ c \in T =>
                    \/ \E u \in Side : Wins(T, g, r, c, u) /\ at[<<p, s>>] = at[<<c, u>>]
                    \/ (\A u \in Side : ~Wins(T, g, r, c, u)) /\ at[<<p, s>>] = None

Blank == [p \in Path |-> None]

Init ==
    /\ shape = {}
    /\ seed = [x \in Slot |-> None]
    /\ started = FALSE
    /\ score = Blank
    /\ place = [x \in Slot |-> None]

OneSeatEach ==
    \A x, y \in Slot : seed[x] # None /\ seed[x] = seed[y] => x = y

(* Before the start the organisers arrange the tree and its seeds. *)
Arrange ==
    /\ ~started /\ ~started'
    /\ OneSeatEach'
    /\ score' = Blank

Start ==
    /\ ~started /\ started'
    /\ \E x \in Slot : seed[x] # None
    /\ UNCHANGED <<shape, seed, score>>

(* A result is entered, corrected or cleared; it may take scores above it  *)
(* away, and must where the teams of a match above change.                 *)
Result(p) ==
    /\ started
    /\ p \in shape
    /\ \A s \in Side : place[<<p, s>>] # None
    /\ p # <<>> => score[Front(p)] = None
    /\ score' \in [Path -> Side \cup {None}]
    /\ \A q \in Path \ {p} :
          \/ score'[q] = score[q]
          \/ IsStrictPrefix(q, p) /\ score'[q] = None
    /\ \A q \in Path : score'[q] # None =>
          \A s \in Side : place'[<<q, s>>] # None /\ (q # p => place'[<<q, s>>] = place[<<q, s>>])
    /\ UNCHANGED <<shape, seed, started>>

Abandon ==
    /\ shape' = {} /\ ~started'
    /\ seed' = [x \in Slot |-> None]
    /\ score' = Blank

Next ==
    /\ Arrange \/ Start \/ Abandon \/ \E p \in Path : Result(p)
    /\ Placed(shape', seed', started', score', place')

Spec == Init /\ [][Next]_vars

=============================================================================
