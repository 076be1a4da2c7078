------------------------------ MODULE MCLeague ------------------------------
(* Instances of LeagueBracket for TLC: three teams over brackets of up to  *)
(* three rounds that grow to the left.                                     *)
EXTENDS LeagueRefinement, LeagueLoops

CONSTANTS t1, t2, t3, m1, m2

MCTeam == {t1, t2, t3}

MCMember == {m1, m2}

MCPath == {<<>>, <<"a">>, <<"b">>, <<"a", "a">>, <<"a", "b">>}

MCSchedulable == {<<"b">>}

Entry(t, r) == [team |-> t, roster |-> r]

(* All three teams, one with another roster, every single team missing,    *)
(* and a composition that puts one member in two teams.                    *)
MCComposition ==
    { <<>>,
      <<Entry(t1, <<m1>>), Entry(t2, <<>>), Entry(t3, <<>>)>>,
      <<Entry(t1, <<m2>>), Entry(t2, <<>>), Entry(t3, <<>>)>>,
      <<Entry(t1, <<m1>>), Entry(t3, <<>>)>>,
      <<Entry(t2, <<>>), Entry(t3, <<>>)>>,
      <<Entry(t1, <<m1>>), Entry(t2, <<m1>>)>> }

(* Teams differ in nothing but their ids, so a seating of k slots is tried *)
(* in one order of the teams only: later slots hold later teams.  To these *)
(* come the seatings that put one team in two slots.                       *)
TeamNumber == (t1 :> 1) @@ (t2 :> 2) @@ (t3 :> 3)

PathNumber ==
    (<<>> :> 0) @@ (<<"a">> :> 1) @@ (<<"b">> :> 2) @@ (<<"a", "a">> :> 3) @@ (<<"a", "b">> :> 4)

SlotNumber(x) == 2 * PathNumber[x[1]] + (IF x[2] = "a" THEN 0 ELSE 1)

InOrder(g) ==
    \A x, y \in DOMAIN g :
        SlotNumber(x) < SlotNumber(y) => TeamNumber[g[x]] < TeamNumber[g[y]]

MCSeating ==
    LET Domains == {E \in SUBSET (MCPath \X Side) : Cardinality(E) <= 3}
    IN  {g \in UNION {[D -> MCTeam] : D \in Domains} : InOrder(g)}
        \cup UNION {[D -> {t1}] : D \in {E \in Domains : Cardinality(E) = 2}}

=============================================================================
