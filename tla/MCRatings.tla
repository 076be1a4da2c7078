------------------------------ MODULE MCRatings ------------------------------
(* Instances of RatingCache and MatchRegistry for TLC.                     *)
EXTENDS RatingCache

CONSTANTS m, n, a, b, computer, zerg

MCTag == (m :> a) @@ (n :> b)

Slots(who, name) == <<[who |-> who, race |-> zerg, name |-> name]>>

\* A match of two members, one known by its list only, and one in which a
\* player is no member.
MCLineup ==
    {<<Slots(m, None), Slots(n, b)>>,
     <<Slots(m, a), Slots(computer, b)>>}

MCMatchSymmetry == Permutations(Match)

=============================================================================
