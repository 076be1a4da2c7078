-------------------------- MODULE LeagueRefinement --------------------------
(* LeagueBracket implements Tournament.                                    *)
EXTENDS LeagueBracket

ASSUME ScoreAssumption == None \notin Side

(* Seeds are the slots no match feeds; a score tells which side won.       *)
Seed == [x \in Slot |-> IF x \in Seats(tree) THEN slot[x] ELSE None]

Score ==
    [p \in Path |-> IF sets[p] = None THEN None ELSE WinningSide(sets[p][1], sets[p][2])]

Abstract ==
    INSTANCE Tournament WITH
        shape   <- tree,
        started <- locked,
        place   <- slot,
        seed    <- Seed,
        score   <- Score

(* The slots of the bracket hold, after every handler, what the seeds and  *)
(* the scores imply, and a score is never left to another pairing: the     *)
(* team columns written by seeding, confirming, advancing, correcting and  *)
(* clearing stay a faithful cache.                                         *)
IsTournament == Abstract!Spec

=============================================================================
