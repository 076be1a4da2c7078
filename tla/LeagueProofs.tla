---------------------------- MODULE LeagueProofs ----------------------------
(* Theorems about LeagueBracket, for every set of teams, every tree and    *)
(* every payload: what every reachable bracket is like, who stands where   *)
(* in it, which matches can be played, and that it implements Tournament.  *)
EXTENDS LeagueRefinement, NumberLemmas, SequenceTheorems

(* Facts about paths: a path other than the final is the slot it feeds.    *)
LEMMA PathType ==
    ASSUME NEW p \in Path
    PROVE  p \in Seq(Side) /\ Len(p) \in Nat
  BY PathAssumption

LEMMA FeedsType ==
    ASSUME NEW p \in Path, p # <<>>
    PROVE  /\ Front(p) \in Path
           /\ Last(p) \in Side
           /\ Feeds(p) \in Slot
           /\ Append(Front(p), Last(p)) = p
  <1>1. p \in Seq(Side) /\ Len(p) \in Nat \ {0}
    BY PathAssumption
  <1>2. Front(p) \in Path
    BY PathAssumption
  <1>3. Last(p) \in Side
    BY <1>1 DEF Last
  <1>4. Append(Front(p), Last(p)) = p
    BY <1>1 DEF Front, Last
  <1>5. QED
    BY <1>2, <1>3, <1>4 DEF Feeds, Slot

LEMMA FeedsInjective ==
    ASSUME NEW p \in Path, NEW q \in Path, p # <<>>, q # <<>>, Feeds(p) = Feeds(q)
    PROVE  p = q
  BY FeedsType DEF Feeds

LEMMA AppendFeeds ==
    ASSUME NEW p \in Path, NEW s \in Side
    PROVE  Append(p, s) # <<>> /\ Feeds(Append(p, s)) = <<p, s>>
  <1> DEFINE c == Append(p, s)
  <1>1. /\ p \in Seq(Side)
        /\ c \in Seq(Side)
        /\ Len(c) = Len(p) + 1
        /\ c[Len(p) + 1] = s
        /\ \A i \in 1..Len(p) : c[i] = p[i]
    BY PathAssumption
  <1>2. /\ SubSeq(c, 1, Len(p)) \in Seq(Side)
        /\ Len(SubSeq(c, 1, Len(p))) = Len(p)
        /\ \A i \in 1..Len(p) : SubSeq(c, 1, Len(p))[i] = c[i]
    BY <1>1
  <1>3. SubSeq(c, 1, Len(p)) = p
    BY <1>1, <1>2, SeqEqual
  <1>4. Front(c) = p /\ Last(c) = s
    BY <1>1, <1>3 DEF Front, Last
  <1>5. c # <<>>
    BY <1>1
  <1> QED
    BY <1>4, <1>5 DEF Feeds

-----------------------------------------------------------------------------
(* The matches above p are told apart by their length alone.               *)

LEMMA AboveType ==
    ASSUME NEW p \in Path, NEW q \in Above(p)
    PROVE  /\ q \in Seq(Side)
           /\ Len(q) \in 0..Len(p)
           /\ q = SubSeq(p, 1, Len(q))
           /\ \A i \in 1..Len(q) : q[i] = p[i]
  <1>1. p \in Seq(Side) /\ Len(p) \in Nat
    BY PathAssumption
  <1>2. PICK l \in 0..Len(p) : q = SubSeq(p, 1, l)
    BY DEF Above, Prefixes
  <1>3. /\ SubSeq(p, 1, l) \in Seq(Side)
        /\ Len(SubSeq(p, 1, l)) = l
        /\ \A i \in 1..l : SubSeq(p, 1, l)[i] = p[i]
    BY <1>1
  <1> QED
    BY <1>1, <1>2, <1>3

LEMMA AboveByLength ==
    ASSUME NEW p \in Path, NEW q \in Above(p), NEW r \in Above(p)
    PROVE  /\ IsPrefix(q, r) <=> Len(q) <= Len(r)
           /\ Len(q) = Len(r) => q = r
           /\ Len(q) = Len(p) => q = p
  <1>1. /\ p \in Seq(Side) /\ q \in Seq(Side) /\ r \in Seq(Side)
        /\ Len(q) \in 0..Len(p) /\ Len(r) \in 0..Len(p) /\ Len(p) \in Nat
        /\ q = SubSeq(p, 1, Len(q)) /\ r = SubSeq(p, 1, Len(r))
        /\ \A i \in 1..Len(q) : q[i] = p[i]
        /\ \A i \in 1..Len(r) : r[i] = p[i]
    BY AboveType, PathType
  <1>2. SubSeq(q, 1, Len(q)) = q /\ SubSeq(p, 1, Len(p)) = p
    BY <1>1, SubSeqFull
  <1>3. ASSUME Len(q) <= Len(r)
        PROVE  SubSeq(r, 1, Len(q)) = q
    <2>1. /\ SubSeq(r, 1, Len(q)) \in Seq(Side)
          /\ Len(SubSeq(r, 1, Len(q))) = Len(q)
          /\ \A i \in 1..Len(q) : SubSeq(r, 1, Len(q))[i] = r[i]
      BY <1>1, <1>3
    <2>2. \A i \in 1..Len(q) : r[i] = q[i]
      BY <1>1, <1>3
    <2> QED
      BY <1>1, <2>1, <2>2, SeqEqual
  <1>4. IsPrefix(q, r) <=> Len(q) <= Len(r)
    BY <1>2, <1>3 DEF IsPrefix
  <1> QED
    BY <1>1, <1>2, <1>4

LEMMA SelfAbove ==
    ASSUME NEW p \in Path
    PROVE  p \in Above(p)
  BY PathType, SubSeqFull DEF Above, Prefixes

(* One step up the path of p, and one step back down to it. *)
LEMMA FrontAbove ==
    ASSUME NEW p \in Path, NEW q \in Above(p), q # <<>>
    PROVE  Front(q) \in Above(p) /\ Len(Front(q)) = Len(q) - 1
  <1>1. /\ p \in Seq(Side) /\ Len(p) \in Nat
        /\ q \in Seq(Side) /\ Len(q) \in 0..Len(p)
        /\ \A i \in 1..Len(q) : q[i] = p[i]
    BY AboveType, PathType
  <1>2. Len(q) \in 1..Len(p)
    BY <1>1, EmptySeq
  <1> DEFINE l == Len(q) - 1
  <1>3. l \in 0..Len(p) /\ l \in 0..Len(q) /\ l + 1 = Len(q)
    BY <1>1, <1>2
  <1> HIDE DEF l
  <1>4. /\ SubSeq(q, 1, l) \in Seq(Side)
        /\ Len(SubSeq(q, 1, l)) = l
        /\ \A i \in 1..l : SubSeq(q, 1, l)[i] = q[i]
    BY <1>1, <1>2, <1>3
  <1>5. /\ SubSeq(p, 1, l) \in Seq(Side)
        /\ Len(SubSeq(p, 1, l)) = l
        /\ \A i \in 1..l : SubSeq(p, 1, l)[i] = p[i]
    BY <1>1, <1>3
  <1>6. \A i \in 1..l : SubSeq(q, 1, l)[i] = SubSeq(p, 1, l)[i]
    BY <1>1, <1>3, <1>4, <1>5
  <1>7. SubSeq(q, 1, l) = SubSeq(p, 1, l)
    BY <1>4, <1>5, <1>6, SeqEqual
  <1> QED
    BY <1>3, <1>4, <1>7 DEF l, Front, Above, Prefixes

LEMMA StepDown ==
    ASSUME NEW p \in Path, NEW q \in Above(p), q # p
    PROVE  /\ SideToward(q, p) \in Side
           /\ \E c \in Above(p) : /\ c # <<>> /\ Len(c) = Len(q) + 1
                                  /\ Feeds(c) = <<q, SideToward(q, p)>>
  <1>1. /\ p \in Seq(Side) /\ Len(p) \in Nat
        /\ q \in Seq(Side) /\ Len(q) \in 0..Len(p)
        /\ q = SubSeq(p, 1, Len(q))
        /\ \A i \in 1..Len(q) : q[i] = p[i]
    BY AboveType, PathType
  <1>2. Len(q) < Len(p)
    BY <1>1, AboveByLength
  <1> DEFINE c == SubSeq(p, 1, Len(q) + 1)
  <1>3. /\ c \in Seq(Side)
        /\ Len(c) = Len(q) + 1
        /\ \A i \in 1..Len(q) + 1 : c[i] = p[i]
    BY <1>1, <1>2
  <1>4. c \in Above(p)
    <2>1. Len(q) + 1 \in 0..Len(p)
      BY <1>1, <1>2
    <2> QED
      BY <2>1 DEF Above, Prefixes
  <1> HIDE DEF c
  <1>5. Last(c) = SideToward(q, p) /\ SideToward(q, p) \in Side
    BY <1>1, <1>2, <1>3 DEF Last, SideToward
  <1>6. c # <<>>
    BY <1>1, <1>3
  <1>7. Front(c) \in Above(p) /\ Len(Front(c)) = Len(q)
    BY <1>1, <1>3, <1>4, <1>6, FrontAbove
  <1>8. Front(c) = q
    BY <1>7, AboveByLength
  <1> QED
    BY <1>3, <1>4, <1>5, <1>6, <1>8 DEF Feeds

(* A tree closed under "the match above" holds every match above its own. *)
LEMMA TreeHoldsAbove ==
    ASSUME NEW T, T \subseteq Path, \A q \in T : q # <<>> => Front(q) \in T,
           NEW p \in T, NEW q \in Above(p)
    PROVE  q \in T
  <1>1. SUFFICES ASSUME q \notin T PROVE FALSE
    OBVIOUS
  <1> DEFINE S == {Len(p) - Len(r) : r \in Above(p) \ T}
  <1>2. \A r \in Above(p) : Len(r) \in 0..Len(p) /\ Len(p) \in Nat
    BY AboveType, PathType
  <1>3. S \in SUBSET Nat /\ S # {}
    BY <1>1, <1>2
  <1>4. PICK n \in S : \A m \in S : n <= m
    BY <1>3, LeastNumber, Zenon
  <1>5. PICK r \in Above(p) \ T : n = Len(p) - Len(r)
    BY <1>4
  <1>6. r # p
    BY <1>5
  <1>7. PICK c \in Above(p) : /\ c # <<>> /\ Len(c) = Len(r) + 1
                              /\ Feeds(c) = <<r, SideToward(r, p)>>
    BY <1>5, <1>6, StepDown
  <1>8. c \in T
    <2>1. SUFFICES ASSUME c \notin T PROVE FALSE
      OBVIOUS
    <2>2. Len(p) - Len(c) \in S
      BY <2>1
    <2>3. Len(p) - Len(r) <= Len(p) - Len(c)
      BY <2>2, <1>4, <1>5
    <2> QED
      BY <2>3, <1>2, <1>5, <1>7
  <1>9. Front(c) = r
    BY <1>7 DEF Feeds
  <1> QED
    BY <1>5, <1>7, <1>8, <1>9

-----------------------------------------------------------------------------
(* The chains of matches that undoing and propagating climb.               *)

LEMMA UndoChainSelf ==
    ASSUME NEW b, NEW p \in Path
    PROVE  p \in UndoChain(b, p)
  BY SelfAbove, AboveByLength, AboveType, PathType DEF UndoChain

LEMMA UndoChainIn ==
    ASSUME NEW b, NEW p \in Path, NEW q \in UndoChain(b, p)
    PROVE  /\ q \in Above(p)
           /\ q # p => q \in tree /\ b.winner[q] # None
  <1>1. q \in Above(p) /\ Len(q) \in Nat
    BY AboveType, PathType DEF UndoChain
  <1>2. IsPrefix(q, q)
    BY <1>1, AboveByLength
  <1> QED
    BY <1>1, <1>2 DEF UndoChain

LEMMA UndoChainUp ==
    ASSUME NEW b, NEW p \in Path, NEW q \in UndoChain(b, p), q # <<>>,
           Front(q) \in tree, b.winner[Front(q)] # None
    PROVE  Front(q) \in UndoChain(b, p)
  <1>1. q \in Above(p) /\ Front(q) \in Above(p) /\ Len(Front(q)) = Len(q) - 1
    BY FrontAbove, UndoChainIn
  <1>2. ASSUME NEW r \in Above(p), IsPrefix(Front(q), r), r # p
        PROVE  r \in tree /\ b.winner[r] # None
    <2>1. Len(q) \in Nat /\ Len(r) \in Nat /\ Len(q) - 1 <= Len(r)
      BY <1>1, <1>2, AboveType, AboveByLength, PathType
    <2>2. CASE Len(r) = Len(q) - 1
      BY <1>1, <2>2, AboveByLength
    <2>3. CASE Len(q) <= Len(r)
      <3>1. IsPrefix(q, r)
        BY <1>1, <2>3, AboveByLength
      <3> QED
        BY <1>2, <3>1 DEF UndoChain
    <2> QED
      BY <2>1, <2>2, <2>3
  <1> QED
    BY <1>1, <1>2 DEF UndoChain

LEMMA ByeChainSelf ==
    ASSUME NEW b, NEW p \in Path
    PROVE  p \in ByeChain(b, p)
  BY SelfAbove, AboveByLength, AboveType, PathType DEF ByeChain

LEMMA ByeChainIn ==
    ASSUME NEW b, NEW p \in Path, NEW q \in ByeChain(b, p)
    PROVE  /\ q \in Above(p)
           /\ q # p => Bye(b, q, SideToward(q, p))
  <1>1. q \in Above(p) /\ Len(q) \in Nat
    BY AboveType, PathType DEF ByeChain
  <1>2. IsPrefix(q, q)
    BY <1>1, AboveByLength
  <1> QED
    BY <1>1, <1>2 DEF ByeChain

LEMMA ByeChainDown ==
    ASSUME NEW b, NEW p \in Path, NEW q \in ByeChain(b, p), q # p
    PROVE  \E c \in ByeChain(b, p) : c # <<>> /\ Feeds(c) = <<q, SideToward(q, p)>>
  <1>1. q \in Above(p) /\ Len(q) \in Nat
    BY AboveType, PathType DEF ByeChain
  <1>2. PICK c \in Above(p) : /\ c # <<>> /\ Len(c) = Len(q) + 1
                              /\ Feeds(c) = <<q, SideToward(q, p)>>
    BY <1>1, StepDown
  <1>3. ASSUME NEW r \in Above(p), IsPrefix(c, r)
        PROVE  IsPrefix(q, r)
    <2>1. Len(c) <= Len(r) /\ Len(r) \in Nat
      BY <1>2, <1>3, AboveByLength, AboveType, PathType
    <2>2. Len(q) <= Len(r)
      BY <1>1, <1>2, <2>1
    <2> QED
      BY <1>1, <2>2, AboveByLength
  <1>4. c \in ByeChain(b, p)
    BY <1>2, <1>3 DEF ByeChain
  <1> QED
    BY <1>2, <1>4

-----------------------------------------------------------------------------
(* Undoing and propagating, on any board over the present tree.            *)

TreeClosed ==
    /\ tree \subseteq Path
    /\ \A p \in tree : p # <<>> => Front(p) \in tree
    /\ dead \subseteq tree

BoardTyped(b) ==
    /\ b.slot \in [Slot -> InLineup \cup {None}]
    /\ b.winner \in [Path -> InLineup \cup {None}]
    /\ b.sets \in [Path -> (Nat \X Nat) \cup {None}]
    /\ \A q \in Path \ tree :
          /\ b.winner[q] = None /\ b.sets[q] = None
          /\ \A s \in Side : b.slot[<<q, s>>] = None

Advances(b) == \A q \in tree \ {<<>>} : b.slot[Feeds(q)] = b.winner[q]

ScoreStands(b, q) ==
    b.sets[q] # None =>
        /\ \A s \in Side : b.slot[<<q, s>>] # None
        /\ b.winner[q] = b.slot[<<q, WinningSide(b.sets[q][1], b.sets[q][2])>>]

FinalBye(b, q) ==
    b.winner[q] # None /\ b.sets[q] = None =>
        \E s \in Side :
            /\ b.slot[<<q, s>>] = b.winner[q]
            /\ b.slot[<<q, Other(s)>>] = None
            /\ Append(q, Other(s)) \notin tree \ dead

EmptyDead(b, q) ==
    /\ b.winner[q] = None /\ b.sets[q] = None
    /\ \A s \in Side : b.slot[<<q, s>>] = None
                       /\ (Append(q, s) \in tree => Append(q, s) \in dead)

BoardSound(b) ==
    /\ Advances(b)
    /\ \A q \in tree : FinalBye(b, q)
    /\ \A q \in dead : EmptyDead(b, q)

(* A slot of match q, or of none, is the one that c moves up to. *)
LEMMA FeedsFront ==
    ASSUME NEW c, NEW q, NEW s, Feeds(c) = <<q, s>>
    PROVE  Front(c) = q /\ Last(c) = s
  BY DEF Feeds

LEMMA BelowSlot ==
    ASSUME NEW c \in Path, c # <<>>, NEW q, NEW s, Feeds(c) = <<q, s>>
    PROVE  q \in Path /\ s \in Side /\ Append(q, s) = c
  BY FeedsType, FeedsFront

LEMMA OtherSide ==
    ASSUME NEW s \in Side
    PROVE  Other(s) \in Side /\ Other(s) # s /\ \A t \in Side : t = s \/ t = Other(s)
  BY DEF Side, Other

(* Taking back the result of p also takes back whatever followed from it,  *)
(* and nothing else: the teams of p itself stay.                           *)
LEMMA UndoKeeps ==
    ASSUME TreeClosed, NEW b, BoardTyped(b), BoardSound(b),
           \A q \in tree : ScoreStands(b, q),
           NEW p \in tree
    PROVE  LET u == Undo(b, p)
           IN  /\ BoardTyped(u)
               /\ BoardSound(u)
               /\ \A q \in tree : ScoreStands(u, q)
               /\ u.winner[p] = None /\ u.sets[p] = None
               /\ \A s \in Side : u.slot[<<p, s>>] = b.slot[<<p, s>>]
  <1> DEFINE u == Undo(b, p)
             C == UndoChain(b, p)
             Taken(x) == \E c \in C : c # <<>> /\ x = Feeds(c)
  <1>1. /\ p \in Path /\ tree \subseteq Path /\ C \subseteq tree /\ p \in C
        /\ \A c \in C : c \in Above(p)
    BY UndoChainIn, UndoChainSelf DEF TreeClosed
  <1>2. /\ u.slot = [x \in Slot |-> IF Taken(x) THEN None ELSE b.slot[x]]
        /\ u.winner = [q \in Path |-> IF q \in C THEN None ELSE b.winner[q]]
        /\ u.sets = [q \in Path |-> IF q \in C THEN None ELSE b.sets[q]]
    BY DEF Undo
  <1> HIDE DEF u, C
  (* Below a match that keeps its winner nothing is taken. *)
  <1>3. ASSUME NEW q \in tree, q \notin C, b.winner[q] # None, NEW s \in Side
        PROVE  u.slot[<<q, s>>] = b.slot[<<q, s>>]
    <2>1. ASSUME NEW c \in C, c # <<>>, <<q, s>> = Feeds(c)
          PROVE  FALSE
      <3>1. Front(c) = q
        BY <2>1, FeedsFront
      <3>2. q \in C
        BY <1>1, <1>3, <2>1, <3>1, UndoChainUp DEF C
      <3> QED
        BY <1>3, <3>2
    <2> QED
      BY <1>1, <1>2, <2>1 DEF Slot
  <1>4. ASSUME NEW x \in Slot
        PROVE  u.slot[x] = None \/ u.slot[x] = b.slot[x]
    BY <1>2
  <1>5. BoardTyped(u)
    <2>1. /\ u.slot \in [Slot -> InLineup \cup {None}]
          /\ u.winner \in [Path -> InLineup \cup {None}]
          /\ u.sets \in [Path -> (Nat \X Nat) \cup {None}]
      BY <1>2 DEF BoardTyped
    <2>2. ASSUME NEW q \in Path \ tree, NEW s \in Side
          PROVE  u.winner[q] = None /\ u.sets[q] = None /\ u.slot[<<q, s>>] = None
      BY <1>2, <1>4 DEF BoardTyped, Slot
    <2> QED
      BY <2>1, <2>2, OtherSide DEF BoardTyped, Side
  <1>6. Advances(u)
    <2>1. SUFFICES ASSUME NEW q \in tree \ {<<>>}
                   PROVE  u.slot[Feeds(q)] = u.winner[q]
      BY DEF Advances
    <2>2. Feeds(q) \in Slot /\ b.slot[Feeds(q)] = b.winner[q]
      BY <1>1, FeedsType DEF BoardSound, Advances
    <2>3. Taken(Feeds(q)) <=> q \in C
      BY <1>1, FeedsInjective
    <2> QED
      BY <1>1, <1>2, <2>2, <2>3
  <1>7. ASSUME NEW q \in tree
        PROVE  FinalBye(u, q)
    <2>1. SUFFICES ASSUME u.winner[q] # None, u.sets[q] = None
                   PROVE  \E s \in Side :
                             /\ u.slot[<<q, s>>] = u.winner[q]
                             /\ u.slot[<<q, Other(s)>>] = None
                             /\ Append(q, Other(s)) \notin tree \ dead
      BY DEF FinalBye
    <2>2. q \notin C /\ b.winner[q] # None /\ b.sets[q] = None /\ u.winner[q] = b.winner[q]
      BY <1>1, <1>2, <2>1
    <2>3. PICK s \in Side : /\ b.slot[<<q, s>>] = b.winner[q]
                            /\ b.slot[<<q, Other(s)>>] = None
                            /\ Append(q, Other(s)) \notin tree \ dead
      BY <2>2 DEF BoardSound, FinalBye
    <2> QED
      BY <1>3, <2>2, <2>3, OtherSide
  <1>8. ASSUME NEW q \in dead
        PROVE  EmptyDead(u, q)
    <2>1. q \in Path /\ EmptyDead(b, q)
      BY <1>1 DEF TreeClosed, BoardSound
    <2> QED
      BY <1>2, <1>4, <2>1 DEF EmptyDead, Slot
  <1>9. ASSUME NEW q \in tree
        PROVE  ScoreStands(u, q)
    <2>1. SUFFICES ASSUME u.sets[q] # None
                   PROVE  /\ \A s \in Side : u.slot[<<q, s>>] # None
                          /\ u.winner[q] = u.slot[<<q, WinningSide(u.sets[q][1], u.sets[q][2])>>]
      BY DEF ScoreStands
    <2>2. q \notin C /\ u.sets[q] = b.sets[q] /\ u.winner[q] = b.winner[q]
      BY <1>1, <1>2, <2>1
    <2>3. WinningSide(b.sets[q][1], b.sets[q][2]) \in Side
      BY DEF WinningSide, Side
    <2>4. /\ \A s \in Side : b.slot[<<q, s>>] # None
          /\ b.winner[q] = b.slot[<<q, WinningSide(b.sets[q][1], b.sets[q][2])>>]
      BY <2>1, <2>2 DEF ScoreStands
    <2>5. b.winner[q] # None
      BY <2>3, <2>4
    <2> QED
      BY <1>3, <2>2, <2>3, <2>4, <2>5
  <1>10. ASSUME NEW s \in Side
         PROVE  u.slot[<<p, s>>] = b.slot[<<p, s>>]
    <2>1. ASSUME NEW c \in C, c # <<>>, <<p, s>> = Feeds(c)
          PROVE  FALSE
      <3>1. Front(c) = p /\ Len(Front(c)) = Len(c) - 1
        BY <1>1, <2>1, FeedsFront, FrontAbove
      <3>2. Len(c) \in 0..Len(p) /\ Len(p) \in Nat
        BY <1>1, <2>1, AboveType, PathType
      <3> QED
        BY <3>1, <3>2
    <2> QED
      BY <1>1, <1>2, <2>1 DEF Slot
  <1> QED
    BY <1>1, <1>2, <1>5, <1>6, <1>7, <1>8, <1>9, <1>10 DEF BoardSound, u

(* The winner of a match just scored moves up, through byes only.          *)
LEMMA PropagateKeeps ==
    ASSUME TreeClosed, NEW b, BoardTyped(b), BoardSound(b),
           NEW p \in tree \ dead,
           b.winner[p] = None, b.sets[p] # None,
           \A q \in tree \ {p} : ScoreStands(b, q),
           \A s \in Side : b.slot[<<p, s>>] # None
    PROVE  LET r == Propagate(b, p, b.slot[<<p, WinningSide(b.sets[p][1], b.sets[p][2])>>])
           IN  /\ BoardTyped(r)
               /\ BoardSound(r)
               /\ \A q \in tree : ScoreStands(r, q)
  <1> DEFINE side == WinningSide(b.sets[p][1], b.sets[p][2])
             w == b.slot[<<p, side>>]
             r == Propagate(b, p, w)
             C == ByeChain(b, p)
             Reached(x) == \E c \in C : c # <<>> /\ x = Feeds(c)
  <1>0. p \in Path /\ tree \subseteq Path
    BY DEF TreeClosed
  <1>1. /\ p \in C
        /\ \A c \in C : c \in Above(p) /\ c \in tree \ dead /\ b.winner[c] = None
    <2>1. p \in C /\ \A c \in C : c \in Above(p) /\ (c # p => Bye(b, c, SideToward(c, p)))
      BY <1>0, ByeChainIn, ByeChainSelf
    <2> QED
      BY <2>1 DEF Bye
  <1>2. side \in Side /\ w \in InLineup /\ w # None
    BY <1>0 DEF WinningSide, Side, BoardTyped, Slot
  <1>3. /\ r.slot = [x \in Slot |-> IF Reached(x) THEN w ELSE b.slot[x]]
        /\ r.winner = [q \in Path |-> IF q \in C THEN w ELSE b.winner[q]]
        /\ r.sets = b.sets
    BY DEF Propagate
  <1> HIDE DEF r, C, w, side
  (* A filled slot keeps its team: no match that feeds it was undecided. *)
  <1>4. ASSUME NEW x \in Slot, b.slot[x] # None
        PROVE  r.slot[x] = b.slot[x]
    <2>1. ASSUME NEW c \in C, c # <<>>, x = Feeds(c)
          PROVE  FALSE
      <3>1. b.slot[Feeds(c)] = b.winner[c]
        BY <1>1, <2>1 DEF BoardSound, Advances
      <3> QED
        BY <1>1, <1>4, <2>1, <3>1
    <2> QED
      BY <1>3, <2>1
  (* A slot nobody can come up to is not reached. *)
  <1>5. ASSUME NEW q \in tree, NEW s \in Side, b.slot[<<q, s>>] = None,
               Append(q, s) \notin tree \ dead
        PROVE  r.slot[<<q, s>>] = None
    <2>1. ASSUME NEW c \in C, c # <<>>, <<q, s>> = Feeds(c)
          PROVE  FALSE
      <3>1. Append(q, s) = c
        BY <1>0, <1>1, <2>1, BelowSlot
      <3> QED
        BY <1>1, <1>5, <3>1
    <2>2. <<q, s>> \in Slot
      BY <1>0 DEF Slot
    <2> QED
      BY <1>3, <1>5, <2>1, <2>2
  <1>6. BoardTyped(r)
    <2>1. /\ r.slot \in [Slot -> InLineup \cup {None}]
          /\ r.winner \in [Path -> InLineup \cup {None}]
          /\ r.sets \in [Path -> (Nat \X Nat) \cup {None}]
      BY <1>2, <1>3 DEF BoardTyped
    <2>2. ASSUME NEW q \in Path \ tree
          PROVE  r.winner[q] = None /\ r.sets[q] = None
      BY <1>1, <1>3 DEF BoardTyped
    <2>3. ASSUME NEW q \in Path \ tree, NEW s \in Side
          PROVE  r.slot[<<q, s>>] = None
      <3>1. ASSUME NEW c \in C, c # <<>>, <<q, s>> = Feeds(c)
            PROVE  FALSE
        <4>1. Front(c) = q
          BY <3>1, FeedsFront
        <4> QED
          BY <1>1, <2>3, <3>1, <4>1 DEF TreeClosed
      <3> QED
        BY <1>3, <2>3, <3>1 DEF BoardTyped, Slot
    <2> QED
      BY <2>1, <2>2, <2>3 DEF BoardTyped
  <1>7. Advances(r)
    <2>1. SUFFICES ASSUME NEW q \in tree \ {<<>>}
                   PROVE  r.slot[Feeds(q)] = r.winner[q]
      BY DEF Advances
    <2>2. Feeds(q) \in Slot /\ b.slot[Feeds(q)] = b.winner[q]
      BY <1>0, FeedsType DEF BoardSound, Advances
    <2>3. Reached(Feeds(q)) <=> q \in C
      BY <1>0, <1>1, FeedsInjective
    <2> QED
      BY <1>0, <1>3, <2>2, <2>3
  <1>8. ASSUME NEW q \in tree
        PROVE  FinalBye(r, q)
    <2>1. SUFFICES ASSUME r.winner[q] # None, r.sets[q] = None
                   PROVE  \E s \in Side :
                             /\ r.slot[<<q, s>>] = r.winner[q]
                             /\ r.slot[<<q, Other(s)>>] = None
                             /\ Append(q, Other(s)) \notin tree \ dead
      BY DEF FinalBye
    <2>2. q # p /\ q \in Path
      BY <1>0, <1>3, <2>1
    <2>3. CASE q \in C
      <3> DEFINE s == SideToward(q, p)
      <3>1. /\ b.slot[<<q, Other(s)>>] = None
            /\ Append(q, Other(s)) \notin tree \ dead
        BY <1>0, <2>2, <2>3, ByeChainIn DEF Bye, C
      <3>2. PICK c \in C : c # <<>> /\ Feeds(c) = <<q, s>>
        BY <1>0, <2>2, <2>3, ByeChainDown DEF C
      <3>3. s \in Side
        BY <1>0, <1>1, <2>2, <2>3, StepDown
      <3>4. r.slot[<<q, s>>] = w /\ r.winner[q] = w
        BY <1>3, <2>2, <2>3, <3>2, <3>3 DEF Slot
      <3>5. r.slot[<<q, Other(s)>>] = None
        BY <1>5, <3>1, <3>3, OtherSide
      <3> QED
        BY <3>1, <3>3, <3>4, <3>5
    <2>4. CASE q \notin C
      <3>1. r.winner[q] = b.winner[q] /\ b.winner[q] # None /\ b.sets[q] = None
        BY <1>3, <2>1, <2>2, <2>4
      <3>2. PICK s \in Side : /\ b.slot[<<q, s>>] = b.winner[q]
                              /\ b.slot[<<q, Other(s)>>] = None
                              /\ Append(q, Other(s)) \notin tree \ dead
        BY <3>1 DEF BoardSound, FinalBye
      <3>3. r.slot[<<q, s>>] = b.slot[<<q, s>>]
        BY <1>4, <2>2, <3>1, <3>2 DEF Slot
      <3>4. r.slot[<<q, Other(s)>>] = None
        BY <1>5, <3>2, OtherSide
      <3> QED
        BY <3>1, <3>2, <3>3, <3>4
    <2> QED
      BY <2>3, <2>4
  <1>9. ASSUME NEW q \in dead
        PROVE  EmptyDead(r, q)
    <2>1. q \in Path /\ q \in tree /\ q \notin C /\ EmptyDead(b, q)
      BY <1>0, <1>1 DEF TreeClosed, BoardSound
    <2>2. ASSUME NEW s \in Side
          PROVE  r.slot[<<q, s>>] = None
      BY <1>5, <2>1 DEF EmptyDead
    <2> QED
      BY <1>3, <2>1, <2>2 DEF EmptyDead
  <1>10. ASSUME NEW q \in tree
         PROVE  ScoreStands(r, q)
    <2>1. SUFFICES ASSUME b.sets[q] # None
                   PROVE  /\ \A s \in Side : r.slot[<<q, s>>] # None
                          /\ r.winner[q] = r.slot[<<q, WinningSide(b.sets[q][1], b.sets[q][2])>>]
      BY <1>3 DEF ScoreStands
    <2>2. \A s \in Side : b.slot[<<q, s>>] # None
      BY <2>1 DEF ScoreStands
    <2>3. \A s \in Side : r.slot[<<q, s>>] = b.slot[<<q, s>>]
      BY <1>0, <1>4, <2>2 DEF Slot
    <2>4. WinningSide(b.sets[q][1], b.sets[q][2]) \in Side
      BY DEF WinningSide, Side
    <2>5. CASE q = p
      BY <1>0, <1>1, <1>3, <2>2, <2>3, <2>4, <2>5 DEF w, side
    <2>6. CASE q # p
      <3>1. b.winner[q] = b.slot[<<q, WinningSide(b.sets[q][1], b.sets[q][2])>>]
        BY <2>1, <2>6 DEF ScoreStands
      <3>2. q \notin C
        BY <1>1, <2>2, <2>4, <3>1
      <3> QED
        BY <1>0, <1>3, <2>2, <2>3, <2>4, <3>1, <3>2
    <2> QED
      BY <2>5, <2>6
  <1> QED
    BY <1>6, <1>7, <1>8, <1>9, <1>10 DEF BoardSound, r, w, side

-----------------------------------------------------------------------------
(* The inductive invariant, and one lemma for each kind of step.           *)

IInv ==
    /\ TypeOK
    /\ DraftIsClean
    /\ WinnersAdvance
    /\ ScoreNamesWinner
    /\ ByesAreFinal
    /\ DeadStaysEmpty

LEMMA InvInit == Init => IInv
  <1> SUFFICES ASSUME Init PROVE IInv
    OBVIOUS
  <1>1. TypeOK
    <2>1. lineup \in Seq(Team) /\ roster \in [Team -> Seq(Member)]
      BY DEF Init
    <2>2. \A q \in Path, s \in Side : winner[q] = None /\ sets[q] = None /\ slot[<<q, s>>] = None
      BY DEF Init, Slot
    <2>3. /\ slot \in [Slot -> InLineup \cup {None}]
          /\ winner \in [Path -> InLineup \cup {None}]
          /\ sets \in [Path -> (Nat \X Nat) \cup {None}]
      BY DEF Init
    <2> QED
      BY <2>1, <2>2, <2>3 DEF Init, TypeOK
  <1>2. DraftIsClean
    BY DEF Init, DraftIsClean
  <1>3. WinnersAdvance /\ ScoreNamesWinner /\ ByesAreFinal /\ DeadStaysEmpty
    BY DEF Init, WinnersAdvance, ScoreNamesWinner, ByesAreFinal, DeadStaysEmpty
  <1> QED
    BY <1>1, <1>2, <1>3 DEF IInv

LEMMA BoardOfInv ==
    ASSUME IInv
    PROVE  /\ TreeClosed
           /\ BoardTyped(Board)
           /\ BoardSound(Board)
           /\ \A q \in tree : ScoreStands(Board, q)
  BY DEF IInv, TypeOK, WinnersAdvance, ScoreNamesWinner, ByesAreFinal, DeadStaysEmpty,
         TreeClosed, BoardTyped, BoardSound, Advances, FinalBye, EmptyDead, ScoreStands, Board

(* The invariant of a confirmed bracket whose columns are those of b. *)
LEMMA InvOfBoard ==
    ASSUME IInv, NEW b, BoardTyped(b), BoardSound(b), \A q \in tree : ScoreStands(b, q),
           slot' = b.slot, winner' = b.winner, sets' = b.sets, locked,
           UNCHANGED <<mode, lineup, roster, tree, locked, dead, sched>>
    PROVE  IInv'
  <1>1. TypeOK'
    BY DEF IInv, TypeOK, BoardTyped, InLineup, Slot
  <1>2. DraftIsClean'
    BY DEF DraftIsClean
  <1>3. WinnersAdvance' /\ DeadStaysEmpty'
    BY DEF WinnersAdvance, DeadStaysEmpty, BoardSound, Advances, EmptyDead, Feeds
  <1>4. ScoreNamesWinner'
    BY DEF ScoreNamesWinner, ScoreStands, WinningSide
  <1>5. ByesAreFinal'
    BY DEF ByesAreFinal, BoardSound, FinalBye, Other
  <1> QED
    BY <1>1, <1>2, <1>3, <1>4, <1>5 DEF IInv

LEMMA ClearKeeps ==
    ASSUME IInv, NEW p \in Path, ClearMatchResult(p)
    PROVE  IInv'
  <1> DEFINE u == Undo(Board, p)
  <1>1. p \in tree /\ locked
    BY DEF ClearMatchResult, ResultWritable
  <1>2. BoardTyped(u) /\ BoardSound(u) /\ \A q \in tree : ScoreStands(u, q)
    BY <1>1, BoardOfInv, UndoKeeps
  <1>3. /\ slot' = u.slot /\ winner' = u.winner /\ sets' = u.sets
        /\ UNCHANGED <<mode, lineup, roster, tree, locked, dead, sched>>
    BY DEF ClearMatchResult
  <1> HIDE DEF u
  <1> QED
    BY <1>1, <1>2, <1>3, InvOfBoard

LEMMA ResultKeeps ==
    ASSUME IInv, NEW p \in Path, NEW x \in 0..MaxSets, NEW y \in 0..MaxSets,
           SetMatchResult(p, x, y)
    PROVE  IInv'
  <1> DEFINE u == IF sets[p] # None THEN Undo(Board, p) ELSE Board
             t == WithScore(u, p, x, y)
             w == slot[<<p, WinningSide(x, y)>>]
             r == Propagate(t, p, w)
  <1>1. /\ p \in tree \ dead /\ locked
        /\ \A s \in Side : slot[<<p, s>>] # None
    BY DEF SetMatchResult, ResultWritable
  <1>2. x \in Nat /\ y \in Nat
    BY SizeAssumption
  (* A match with both teams and no score has no winner yet. *)
  <1>3. sets[p] = None => winner[p] = None
    BY <1>1, OtherSide DEF IInv, ByesAreFinal
  <1>4. /\ BoardTyped(u) /\ BoardSound(u) /\ \A q \in tree : ScoreStands(u, q)
        /\ u.winner[p] = None
        /\ \A s \in Side : u.slot[<<p, s>>] = slot[<<p, s>>]
    <2>1. CASE sets[p] # None
      BY <1>1, <2>1, BoardOfInv, UndoKeeps DEF Board
    <2>2. CASE sets[p] = None
      BY <1>3, <2>2, BoardOfInv DEF Board
    <2> QED
      BY <2>1, <2>2
  <1>5. /\ slot' = r.slot /\ winner' = r.winner /\ sets' = r.sets
        /\ UNCHANGED <<mode, lineup, roster, tree, locked, dead, sched>>
    BY DEF SetMatchResult
  <1> HIDE DEF u
  <1>6. /\ t.slot = u.slot /\ t.winner = u.winner
        /\ t.sets = [u.sets EXCEPT ![p] = <<x, y>>]
    BY DEF WithScore
  <1> HIDE DEF t
  <1>7. /\ t.sets[p] = <<x, y>> /\ t.sets[p] # None
        /\ \A q \in Path \ {p} : t.sets[q] = u.sets[q]
        /\ t.sets \in [Path -> (Nat \X Nat) \cup {None}]
    BY <1>2, <1>4, <1>6, TeamAssumption DEF BoardTyped
  <1>8. BoardTyped(t)
    BY <1>1, <1>4, <1>6, <1>7 DEF BoardTyped
  <1>9. BoardSound(t)
    <2>1. Advances(t)
      BY <1>4, <1>6 DEF BoardSound, Advances
    <2>2. ASSUME NEW q \in tree
          PROVE  FinalBye(t, q)
      BY <1>4, <1>6, <1>7, BoardOfInv DEF BoardSound, FinalBye, TreeClosed
    <2>3. ASSUME NEW q \in dead
          PROVE  EmptyDead(t, q)
      BY <1>1, <1>4, <1>6, <1>7, BoardOfInv DEF BoardSound, EmptyDead, TreeClosed
    <2> QED
      BY <2>1, <2>2, <2>3 DEF BoardSound
  <1>10. \A q \in tree \ {p} : ScoreStands(t, q)
    BY <1>4, <1>6, <1>7, BoardOfInv DEF ScoreStands, TreeClosed
  <1>11. /\ t.winner[p] = None
         /\ \A s \in Side : t.slot[<<p, s>>] # None
         /\ w = t.slot[<<p, WinningSide(t.sets[p][1], t.sets[p][2])>>]
    BY <1>1, <1>4, <1>6, <1>7 DEF WinningSide, Side
  <1>12. BoardTyped(r) /\ BoardSound(r) /\ \A q \in tree : ScoreStands(r, q)
    BY <1>1, <1>7, <1>8, <1>9, <1>10, <1>11, BoardOfInv, PropagateKeeps
  <1> HIDE DEF r
  <1> QED
    BY <1>1, <1>5, <1>12, InvOfBoard

(* Saving a composition empties the slots of the teams it leaves out; a    *)
(* match with a score keeps both its teams.                                *)
LEMMA CompositionKeeps ==
    ASSUME IInv, NEW c \in Composition, SetTeamComposition(c)
    PROVE  IInv'
  <1>1. /\ DOMAIN c = 1..Len(c) /\ Len(c) \in Nat
        /\ \A i \in 1..Len(c) : c[i].team \in Team /\ c[i].roster \in Seq(Member)
    <2> DEFINE Entry == [team : Team, roster : Seq(Member)]
    <2>1. c \in Seq(Entry)
      BY CompositionAssumption
    <2>2. \A e \in Entry : e.team \in Team /\ e.roster \in Seq(Member)
      OBVIOUS
    <2> HIDE DEF Entry
    <2>3. DOMAIN c = 1..Len(c) /\ Len(c) \in Nat /\ \A i \in 1..Len(c) : c[i] \in Entry
      BY <2>1
    <2> QED
      BY <2>2, <2>3
  <1>2. /\ slot' = [x \in Slot |-> IF slot[x] \in TeamsOf(c) THEN slot[x] ELSE None]
        /\ winner' = [p \in Path |-> IF winner[p] \in TeamsOf(c) THEN winner[p] ELSE None]
        /\ UNCHANGED <<mode, tree, locked, sets, dead, sched>>
    BY DEF SetTeamComposition
  <1>3. lineup' \in Seq(Team) /\ InLineup' = TeamsOf(c)
    <2>1. lineup' = [i \in 1..Len(c) |-> c[i].team]
      BY <1>1 DEF SetTeamComposition
    <2>2. lineup' \in Seq(Team)
      BY <1>1, <2>1
    <2>3. InLineup' = TeamsOf(c)
      BY <1>1, <2>1 DEF InLineup, TeamsOf
    <2> QED
      BY <2>2, <2>3
  <1>4. roster' \in [Team -> Seq(Member)]
    <2>1. roster' = [t \in Team |->
                        IF \E i \in DOMAIN c : c[i].team = t
                        THEN c[CHOOSE i \in DOMAIN c : c[i].team = t].roster
                        ELSE <<>>]
      BY DEF SetTeamComposition
    <2>2. ASSUME NEW t \in Team
          PROVE  roster'[t] \in Seq(Member)
      BY <1>1, <2>1
    <2> QED
      BY <2>1, <2>2
  <1>5. TypeOK'
    <2>1. slot' \in [Slot -> InLineup' \cup {None}] /\ winner' \in [Path -> InLineup' \cup {None}]
      BY <1>2, <1>3
    <2>2. ASSUME NEW p \in Path \ tree, NEW s \in Side
          PROVE  winner'[p] = None /\ sets'[p] = None /\ slot'[<<p, s>>] = None
      BY <1>2, <2>2 DEF IInv, TypeOK, Slot
    <2> QED
      BY <1>2, <1>3, <1>4, <2>1, <2>2 DEF IInv, TypeOK, Side
  (* A team of a match with a score stays. *)
  <1>6. ASSUME NEW p \in tree, sets[p] # None, NEW s \in Side
        PROVE  slot'[<<p, s>>] = slot[<<p, s>>]
    <2>1. p \in Path /\ <<p, s>> \in Slot
      BY DEF IInv, TypeOK, Slot
    <2>2. slot[<<p, s>>] \in InLineup
      BY <1>6, <2>1 DEF IInv, TypeOK, ScoreNamesWinner
    <2>3. slot[<<p, s>>] \in TeamsOf(c)
      BY <1>6, <2>2 DEF SetTeamComposition, KeepsDecidedTeams, HasDecidedMatch, TeamsOf
    <2> QED
      BY <1>2, <2>1, <2>3
  <1>7. DraftIsClean'
    BY <1>2 DEF IInv, DraftIsClean, Seats
  <1>8. WinnersAdvance'
    <2>1. ASSUME NEW p \in tree \ {<<>>}
          PROVE  slot'[Feeds(p)] = winner'[p]
      <3>1. p \in Path /\ Feeds(p) \in Slot /\ slot[Feeds(p)] = winner[p]
        BY FeedsType DEF IInv, TypeOK, WinnersAdvance
      <3> QED
        BY <1>2, <3>1
    <2> QED
      BY <1>2, <2>1 DEF WinnersAdvance, Feeds
  <1>9. ScoreNamesWinner'
    <2>1. ASSUME NEW p \in tree, sets[p] # None
          PROVE  /\ \A s \in Side : slot'[<<p, s>>] # None
                 /\ winner'[p] = slot'[<<p, WinningSide(sets[p][1], sets[p][2])>>]
      <3> DEFINE side == WinningSide(sets[p][1], sets[p][2])
      <3>1. side \in Side
        BY DEF WinningSide, Side
      <3>2. /\ \A s \in Side : slot[<<p, s>>] # None
            /\ winner[p] = slot[<<p, side>>]
        BY <2>1 DEF IInv, ScoreNamesWinner
      <3>3. p \in Path /\ \A s \in Side : <<p, s>> \in Slot
        BY DEF IInv, TypeOK, Slot
      <3>4. slot'[<<p, side>>] = slot[<<p, side>>]
        BY <1>6, <2>1, <3>1
      <3>5. winner'[p] = slot'[<<p, side>>]
        BY <1>2, <3>1, <3>2, <3>3
      <3> QED
        BY <1>6, <2>1, <3>2, <3>5
    <2> QED
      BY <1>2, <2>1 DEF ScoreNamesWinner, WinningSide
  <1>10. ByesAreFinal'
    <2>1. ASSUME NEW p \in tree, winner'[p] # None, sets[p] = None
          PROVE  \E s \in Side :
                    /\ slot'[<<p, s>>] = winner'[p]
                    /\ slot'[<<p, Other(s)>>] = None
                    /\ Append(p, Other(s)) \notin tree \ dead
      <3>1. p \in Path /\ \A s \in Side : <<p, s>> \in Slot
        BY DEF IInv, TypeOK, Slot
      <3>2. winner'[p] = winner[p] /\ winner[p] # None
        BY <1>2, <2>1, <3>1
      <3>3. PICK s \in Side : /\ slot[<<p, s>>] = winner[p]
                              /\ slot[<<p, Other(s)>>] = None
                              /\ Append(p, Other(s)) \notin tree \ dead
        BY <2>1, <3>2 DEF IInv, ByesAreFinal
      <3> QED
        BY <1>2, <2>1, <3>1, <3>2, <3>3, OtherSide
    <2> QED
      BY <1>2, <2>1 DEF ByesAreFinal, Other
  <1>11. DeadStaysEmpty'
    <2>1. ASSUME NEW p \in dead, NEW s \in Side
          PROVE  winner'[p] = None /\ slot'[<<p, s>>] = None
      BY <1>2, <2>1 DEF IInv, TypeOK, DeadStaysEmpty, Slot
    <2> QED
      BY <1>2, <2>1 DEF IInv, DeadStaysEmpty, Side
  <1> QED
    BY <1>5, <1>7, <1>8, <1>9, <1>10, <1>11 DEF IInv

(* Before confirming, nothing stands on the board but the seats. *)
LEMMA DraftKeeps ==
    ASSUME IInv, ~locked', TypeOK', dead' = {},
           \A p \in Path : winner'[p] = None /\ sets'[p] = None,
           \A x \in Slot : slot'[x] # None => x \in Seats(tree)'
    PROVE  IInv'
  <1>1. DraftIsClean'
    BY DEF DraftIsClean
  <1>2. WinnersAdvance'
    <2>1. SUFFICES ASSUME NEW p \in tree', p # <<>>
                   PROVE  slot'[Feeds(p)] = winner'[p]
      BY DEF WinnersAdvance, Feeds
    <2>2. p \in Path /\ Feeds(p) \in Slot /\ Append(Front(p), Last(p)) = p
      BY <2>1, FeedsType DEF TypeOK
    <2>3. Feeds(p) \notin Seats(tree)'
      BY <2>1, <2>2 DEF Seats, Feeds
    <2> QED
      BY <2>2, <2>3
  <1>3. ScoreNamesWinner' /\ ByesAreFinal' /\ DeadStaysEmpty'
    BY DEF ScoreNamesWinner, ByesAreFinal, DeadStaysEmpty, TypeOK
  <1> QED
    BY <1>1, <1>2, <1>3 DEF IInv

LEMMA BracketKeeps ==
    ASSUME IInv, NEW T \in SUBSET Path, NEW g \in Seating, SetBracket(T, g)
    PROVE  IInv'
  <1>1. /\ ~locked /\ dead' = {} /\ tree' = T
        /\ slot' = SeatedBy(g)
        /\ winner' = [p \in Path |-> IF p \in T \cap tree THEN winner[p] ELSE None]
        /\ sched' = sched \cap T
        /\ UNCHANGED <<mode, lineup, roster, locked, sets>>
    BY DEF SetBracket, BracketEditable
  <1>2. \A p \in Path : winner'[p] = None /\ sets'[p] = None
    BY <1>1 DEF IInv, DraftIsClean
  <1>3. \A x \in DOMAIN g : x \in Seats(T) /\ g[x] \in InLineup
    BY DEF SetBracket, ValidSeating
  <1>4. slot' \in [Slot -> InLineup \cup {None}]
    BY <1>1, <1>3 DEF SeatedBy
  <1>5. \A x \in Slot : slot'[x] # None => x \in Seats(T)
    BY <1>1, <1>3 DEF SeatedBy
  <1>6. TypeOK'
    <2>1. \A p \in T : p # <<>> => Front(p) \in T
      BY DEF SetBracket, ValidShape
    <2>2. ASSUME NEW p \in Path \ T, NEW s \in Side
          PROVE  slot'[<<p, s>>] = None
      BY <1>5, <2>2 DEF Slot, Seats
    <2>3. winner' \in [Path -> InLineup \cup {None}]
      BY <1>1 DEF IInv, TypeOK
    <2>4. InLineup' = InLineup
      BY <1>1 DEF InLineup
    <2> QED
      BY <1>1, <1>2, <1>4, <2>1, <2>2, <2>3, <2>4 DEF IInv, TypeOK
  <1> QED
    BY <1>1, <1>2, <1>5, <1>6, DraftKeeps DEF Seats

LEMMA SeedingKeeps ==
    ASSUME IInv, NEW g \in Seating, SetBracketSeeding(g)
    PROVE  IInv'
  <1>1. /\ ~locked
        /\ slot' = [x \in Slot |-> IF x \in DOMAIN g THEN g[x]
                                   ELSE IF x[1] \in Editable THEN None ELSE slot[x]]
        /\ winner' = [p \in Path |-> IF p \in Editable THEN None ELSE winner[p]]
        /\ UNCHANGED <<mode, lineup, roster, tree, locked, sets, dead, sched>>
    BY DEF SetBracketSeeding, BracketEditable
  <1>2. dead = {} /\ \A p \in Path : winner[p] = None /\ sets[p] = None
    BY <1>1 DEF IInv, DraftIsClean
  <1>3. \A x \in DOMAIN g : x \in Seats(tree) /\ g[x] \in InLineup
    BY DEF SetBracketSeeding, ValidSeating
  <1>4. slot' \in [Slot -> InLineup \cup {None}]
    BY <1>1, <1>3 DEF IInv, TypeOK
  <1>5. \A x \in Slot : slot'[x] # None => x \in Seats(tree)
    BY <1>1, <1>3 DEF IInv, DraftIsClean
  <1>6. \A p \in Path : winner'[p] = None
    BY <1>1, <1>2
  <1>7. TypeOK'
    <2>1. ASSUME NEW p \in Path \ tree, NEW s \in Side
          PROVE  slot'[<<p, s>>] = None
      BY <1>5, <2>1 DEF Slot, Seats
    <2>2. winner' \in [Path -> InLineup \cup {None}]
      BY <1>1 DEF IInv, TypeOK
    <2>3. InLineup' = InLineup
      BY <1>1 DEF InLineup
    <2> QED
      BY <1>1, <1>4, <1>6, <2>1, <2>2, <2>3 DEF IInv, TypeOK
  <1> QED
    BY <1>1, <1>2, <1>5, <1>6, <1>7, DraftKeeps DEF Seats

(* What confirming reads off the seats below a match.                      *)
LEMMA LoneValue ==
    ASSUME TypeOK, NEW p
    PROVE  /\ Lone(p) \in InLineup \cup {None}
           /\ SeatedBelow(p) = {} => Lone(p) = None
           /\ \A x \in Slot : SeatedBelow(p) = {x} => Lone(p) = slot[x]
           /\ Lone(p) # None => \E x \in Slot : SeatedBelow(p) = {x}
  <1>1. CASE \E x \in Slot : SeatedBelow(p) = {x}
    <2>1. PICK x \in Slot : SeatedBelow(p) = {x}
      BY <1>1
    <2>2. \A y \in Slot : SeatedBelow(p) = {y} => y = x
      BY <2>1
    <2>3. (CHOOSE y \in Slot : SeatedBelow(p) = {y}) = x
      BY <2>1, <2>2
    <2>4. Lone(p) = slot[x]
      BY <1>1, <2>3 DEF Lone
    <2>5. slot[x] \in InLineup \cup {None}
      BY DEF TypeOK
    <2> QED
      BY <1>1, <2>1, <2>2, <2>4, <2>5
  <1>2. CASE ~ \E x \in Slot : SeatedBelow(p) = {x}
    BY <1>2 DEF Lone
  <1> QED
    BY <1>1, <1>2

LEMMA PrefixAbove ==
    ASSUME NEW p \in Path, NEW q \in Path
    PROVE  IsPrefix(q, p) <=> q \in Above(p)
  <1>1. p \in Seq(Side) /\ q \in Seq(Side) /\ Len(p) \in Nat /\ Len(q) \in Nat
    BY PathType
  <1>2. SubSeq(q, 1, Len(q)) = q
    BY <1>1, SubSeqFull
  <1>3. ASSUME IsPrefix(q, p)
        PROVE  q \in Above(p)
    <2>1. Len(q) \in 0..Len(p) /\ q = SubSeq(p, 1, Len(q))
      BY <1>1, <1>2, <1>3 DEF IsPrefix
    <2> QED
      BY <2>1 DEF Above, Prefixes
  <1>4. ASSUME q \in Above(p)
        PROVE  IsPrefix(q, p)
    <2>1. Len(q) \in 0..Len(p) /\ q = SubSeq(p, 1, Len(q))
      BY <1>4, AboveType
    <2> QED
      BY <1>1, <1>2, <2>1 DEF IsPrefix
  <1> QED
    BY <1>3, <1>4

(* The seats below p are its own and those below the matches that feed it. *)
LEMMA SeatsBelow ==
    ASSUME IInv, NEW p \in tree
    PROVE  /\ \A s \in Side : /\ Append(p, s) \in tree =>
                                     SeatedBelow(Append(p, s)) \subseteq SeatedBelow(p)
                              /\ slot[<<p, s>>] # None => <<p, s>> \in SeatedBelow(p)
           /\ \A x \in SeatedBelow(p) :
                 x[1] # p => \E s \in Side : /\ Append(p, s) \in tree
                                             /\ x \in SeatedBelow(Append(p, s))
           /\ \A x \in Slot : \A s \in Side :
                 ~ (/\ x \in SeatedBelow(Append(p, s)) /\ Append(p, s) \in tree
                    /\ (x[1] = p \/ (/\ x \in SeatedBelow(Append(p, Other(s)))
                                     /\ Append(p, Other(s)) \in tree)))
  <1>1. tree \subseteq Path /\ p \in Path /\ \A q \in tree : q # <<>> => Front(q) \in tree
    BY DEF IInv, TypeOK
  <1>2. ASSUME NEW q \in tree
        PROVE  SeatedBelow(q) = {x \in tree \X Side : q \in Above(x[1]) /\ slot[x] # None}
    BY <1>1, <1>2, PrefixAbove DEF SeatedBelow
  <1>3. ASSUME NEW s \in Side, Append(p, s) \in tree
        PROVE  /\ SeatedBelow(Append(p, s)) \subseteq SeatedBelow(p)
               /\ Append(p, s) # <<>> /\ Front(Append(p, s)) = p /\ Last(Append(p, s)) = s
    <2>1. Append(p, s) # <<>> /\ Front(Append(p, s)) = p /\ Last(Append(p, s)) = s
      BY <1>1, AppendFeeds, FeedsFront
    <2>2. ASSUME NEW x \in tree \X Side, Append(p, s) \in Above(x[1])
          PROVE  p \in Above(x[1])
      BY <1>1, <2>1, <2>2, FrontAbove
    <2> QED
      BY <1>2, <1>3, <2>1, <2>2
  <1>4. ASSUME NEW s \in Side, slot[<<p, s>>] # None
        PROVE  <<p, s>> \in SeatedBelow(p)
    BY <1>1, <1>2, <1>4, SelfAbove
  <1>5. ASSUME NEW x \in SeatedBelow(p), x[1] # p
        PROVE  \E s \in Side : Append(p, s) \in tree /\ x \in SeatedBelow(Append(p, s))
    <2>1. x \in tree \X Side /\ x[1] \in tree /\ p \in Above(x[1]) /\ slot[x] # None
      BY <1>2, <1>5
    <2>2. PICK c \in Above(x[1]) : c # <<>> /\ Feeds(c) = <<p, SideToward(p, x[1])>>
      BY <1>1, <1>5, <2>1, StepDown
    <2>3. c \in tree
      BY <1>1, <2>1, TreeHoldsAbove
    <2>4. SideToward(p, x[1]) \in Side /\ Append(p, SideToward(p, x[1])) = c
      BY <1>1, <2>2, <2>3, BelowSlot
    <2> QED
      BY <1>2, <2>1, <2>2, <2>3, <2>4
  <1>6. ASSUME NEW x \in Slot, NEW s \in Side, Append(p, s) \in tree,
               x \in SeatedBelow(Append(p, s))
        PROVE  /\ x[1] # p
               /\ ~ (Append(p, Other(s)) \in tree /\ x \in SeatedBelow(Append(p, Other(s))))
    <2> DEFINE c == Append(p, s)
               d == Append(p, Other(s))
    <2>1. c \in Above(x[1]) /\ x[1] \in tree
      BY <1>2, <1>6
    <2>2. Front(c) = p /\ Last(c) = s /\ c # <<>>
      BY <1>3, <1>6
    <2>3. Len(p) = Len(c) - 1 /\ Len(c) \in 0..Len(x[1]) /\ Len(x[1]) \in Nat
      BY <1>1, <2>1, <2>2, FrontAbove, AboveType, PathType
    <2>4. x[1] # p
      BY <2>3
    <2>5. ASSUME d \in tree, x \in SeatedBelow(d)
          PROVE  FALSE
      <3>1. d \in Above(x[1]) /\ Other(s) \in Side /\ Other(s) # s
        BY <1>2, <2>5, OtherSide
      <3>2. Front(d) = p /\ Last(d) = Other(s) /\ d # <<>>
        BY <1>3, <2>5, <3>1
      <3>3. Len(p) = Len(d) - 1 /\ Len(d) \in 0..Len(x[1])
        BY <1>1, <2>1, <3>1, <3>2, FrontAbove, AboveType
      <3>4. Len(d) = Len(c)
        BY <2>3, <3>3
      <3>5. d = c
        BY <1>1, <2>1, <3>1, <3>4, AboveByLength
      <3> QED
        BY <2>2, <3>1, <3>2, <3>5
    <2> QED
      BY <2>4, <2>5
  <1> QED
    BY <1>3, <1>4, <1>5, <1>6

(* Confirming: a match is decided when one team alone is seated below it,  *)
(* and dead when none is.                                                  *)
LEMMA ConfirmKeeps ==
    ASSUME IInv, ConfirmBracket
    PROVE  IInv'
  <1>1. /\ ~locked /\ locked' = TRUE /\ dead' = Pruned
        /\ winner' = [p \in Path |-> IF p \in tree THEN Lone(p) ELSE None]
        /\ slot' = [x \in Slot |-> IF x[1] \in tree THEN AdvanceLone(x) ELSE None]
        /\ UNCHANGED <<mode, lineup, roster, tree, sets, sched>>
    BY DEF ConfirmBracket
  <1>2. /\ tree \subseteq Path
        /\ \A p \in Path : sets[p] = None
        /\ \A x \in Slot : slot[x] # None => x \in Seats(tree)
        /\ \A p \in tree, s \in Side : <<p, s>> \in Slot
    BY <1>1 DEF IInv, TypeOK, DraftIsClean, Slot
  <1>3. ASSUME NEW p
        PROVE  /\ Lone(p) \in InLineup \cup {None}
               /\ SeatedBelow(p) = {} => Lone(p) = None
               /\ \A x \in Slot : SeatedBelow(p) = {x} => Lone(p) = slot[x]
               /\ Lone(p) # None => \E x \in Slot : SeatedBelow(p) = {x}
    BY LoneValue DEF IInv
  <1>4. ASSUME NEW p \in tree, NEW s \in Side
        PROVE  /\ Append(p, s) \in tree => slot'[<<p, s>>] = Lone(Append(p, s))
               /\ Append(p, s) \notin tree => slot'[<<p, s>>] = slot[<<p, s>>]
    BY <1>1, <1>2 DEF AdvanceLone
  <1>5. \A p \in tree : winner'[p] = Lone(p)
    BY <1>1, <1>2
  <1>6. \A p \in tree : p \in dead' <=> SeatedBelow(p) = {}
    BY <1>1 DEF Pruned
  <1>7. TypeOK'
    <2>1. slot' \in [Slot -> InLineup \cup {None}]
      <3>1. ASSUME NEW x \in Slot
            PROVE  slot'[x] \in InLineup \cup {None}
        BY <1>1, <1>3 DEF AdvanceLone, IInv, TypeOK
      <3> QED
        BY <1>1, <3>1
    <2>2. winner' \in [Path -> InLineup \cup {None}]
      BY <1>1, <1>3
    <2>3. ASSUME NEW p \in Path \ tree, NEW s \in Side
          PROVE  winner'[p] = None /\ slot'[<<p, s>>] = None
      BY <1>1, <2>3 DEF Slot
    <2>4. InLineup' = InLineup /\ dead' \subseteq tree
      BY <1>1 DEF InLineup, Pruned
    <2> QED
      BY <1>1, <1>2, <2>1, <2>2, <2>3, <2>4, OtherSide DEF IInv, TypeOK, Side
  <1>8. WinnersAdvance'
    <2>1. ASSUME NEW p \in tree \ {<<>>}
          PROVE  slot'[Feeds(p)] = winner'[p]
      <3>1. Front(p) \in tree /\ Last(p) \in Side /\ Append(Front(p), Last(p)) = p
        BY <1>2, FeedsType DEF IInv, TypeOK
      <3> QED
        BY <1>4, <1>5, <3>1 DEF Feeds
    <2> QED
      BY <1>1, <2>1 DEF WinnersAdvance, Feeds
  <1>9. ScoreNamesWinner'
    BY <1>1, <1>2 DEF ScoreNamesWinner
  <1>10. ByesAreFinal'
    <2>1. ASSUME NEW p \in tree, winner'[p] # None
          PROVE  \E s \in Side :
                    /\ slot'[<<p, s>>] = winner'[p]
                    /\ slot'[<<p, Other(s)>>] = None
                    /\ Append(p, Other(s)) \notin tree \ dead'
      <3>1. PICK x \in Slot : SeatedBelow(p) = {x} /\ Lone(p) = slot[x] /\ x \in SeatedBelow(p)
        BY <1>3, <1>5, <2>1
      (* The side of x brings the team up; nobody is seated on the other. *)
      <3>2. ASSUME NEW s \in Side, x = <<p, s>> \/ (Append(p, s) \in tree
                                                    /\ x \in SeatedBelow(Append(p, s)))
            PROVE  /\ slot'[<<p, s>>] = slot[x]
                   /\ slot'[<<p, Other(s)>>] = None
                   /\ Append(p, Other(s)) \notin tree \ dead'
        <4>1. Other(s) \in Side /\ Other(s) # s
          BY OtherSide
        <4>2. slot'[<<p, s>>] = slot[x]
          <5>1. CASE Append(p, s) \in tree /\ x \in SeatedBelow(Append(p, s))
            <6>1. SeatedBelow(Append(p, s)) = {x}
              BY <3>1, <5>1, SeatsBelow
            <6> QED
              BY <1>3, <1>4, <5>1, <6>1
          <5>2. CASE x = <<p, s>>
            <6>1. slot[x] # None
              BY <3>1 DEF SeatedBelow
            <6>2. Append(p, s) \notin tree
              BY <1>2, <5>2, <6>1 DEF Seats
            <6> QED
              BY <1>4, <5>2, <6>2
          <5> QED
            BY <3>2, <5>1, <5>2
        <4>3. CASE Append(p, Other(s)) \in tree
          <5>1. SeatedBelow(Append(p, Other(s))) \subseteq {x}
            BY <3>1, <4>1, <4>3, SeatsBelow
          <5>2. x \notin SeatedBelow(Append(p, Other(s)))
            BY <3>2, <4>1, <4>3, SeatsBelow
          <5>3. SeatedBelow(Append(p, Other(s))) = {}
            BY <5>1, <5>2
          <5> QED
            BY <1>3, <1>4, <1>6, <4>1, <4>2, <4>3, <5>3
        <4>4. CASE Append(p, Other(s)) \notin tree
          <5>1. <<p, Other(s)>> # x
            BY <3>2, <4>1, <4>4, SeatsBelow
          <5>2. slot[<<p, Other(s)>>] = None
            BY <3>1, <4>1, <5>1, SeatsBelow
          <5> QED
            BY <1>4, <4>1, <4>2, <4>4, <5>2
        <4> QED
          BY <4>3, <4>4
      <3>3. \E s \in Side : x = <<p, s>> \/ (Append(p, s) \in tree
                                             /\ x \in SeatedBelow(Append(p, s)))
        <4>1. CASE x[1] = p
          BY <3>1, <4>1 DEF Slot
        <4>2. CASE x[1] # p
          BY <3>1, <4>2, SeatsBelow
        <4> QED
          BY <4>1, <4>2
      <3> QED
        BY <1>5, <3>1, <3>2, <3>3
    <2>2. tree' = tree
      BY <1>1
    <2> QED
      BY <2>1, <2>2 DEF ByesAreFinal, Other
  <1>11. DeadStaysEmpty'
    <2>1. ASSUME NEW p \in tree, SeatedBelow(p) = {}
          PROVE  /\ winner'[p] = None /\ sets[p] = None
                 /\ \A s \in Side : slot'[<<p, s>>] = None
                                    /\ (Append(p, s) \in tree => Append(p, s) \in dead')
      <3>1. winner'[p] = None /\ sets[p] = None
        BY <1>2, <1>3, <1>5, <2>1
      <3>2. ASSUME NEW s \in Side, Append(p, s) \in tree
            PROVE  slot'[<<p, s>>] = None /\ Append(p, s) \in dead'
        <4>1. SeatedBelow(Append(p, s)) = {}
          BY <2>1, <3>2, SeatsBelow
        <4> QED
          BY <1>3, <1>4, <1>6, <3>2, <4>1
      <3>3. ASSUME NEW s \in Side, Append(p, s) \notin tree
            PROVE  slot'[<<p, s>>] = None
        BY <1>4, <2>1, <3>3, SeatsBelow
      <3> QED
        BY <3>1, <3>2, <3>3
    <2>2. dead' \subseteq tree
      BY <1>1 DEF Pruned
    <2> QED
      BY <1>1, <1>6, <2>1, <2>2 DEF DeadStaysEmpty
  <1> QED
    BY <1>1, <1>7, <1>8, <1>9, <1>10, <1>11 DEF IInv, DraftIsClean

-----------------------------------------------------------------------------
(* The theorems.                                                           *)

LEMMA InvNext == IInv /\ [Next]_vars => IInv'
  <1> SUFFICES ASSUME IInv, [Next]_vars PROVE IInv'
    OBVIOUS
  <1>1. ASSUME NEW m \in Mode, CreateLeague(m)
        PROVE  IInv'
    <2>1. /\ mode' \in {"none", "team", "individual"}
          /\ UNCHANGED <<lineup, roster, boardVars>>
      BY <1>1, ModeAssumption DEF CreateLeague
    <2>2. TypeOK' /\ DraftIsClean'
      BY <2>1 DEF boardVars, IInv, TypeOK, DraftIsClean, InLineup, Seats
    <2>3. WinnersAdvance' /\ ScoreNamesWinner' /\ DeadStaysEmpty'
      BY <2>1 DEF boardVars, IInv, WinnersAdvance, ScoreNamesWinner, DeadStaysEmpty
    <2>4. ByesAreFinal'
      BY <2>1 DEF boardVars, IInv, ByesAreFinal
    <2> QED
      BY <2>2, <2>3, <2>4 DEF IInv
  <1>2. CASE DeleteLeague
    <2>1. Init'
      BY <1>2 DEF DeleteLeague, Init
    <2> QED
      BY <2>1, InvInit, PTL
  <1>3. ASSUME NEW c \in Composition, SetTeamComposition(c)
        PROVE  IInv'
    BY <1>3, CompositionKeeps
  <1>4. ASSUME NEW T \in SUBSET Path, NEW g \in Seating, SetBracket(T, g)
        PROVE  IInv'
    BY <1>4, BracketKeeps
  <1>5. ASSUME NEW g \in Seating, SetBracketSeeding(g)
        PROVE  IInv'
    BY <1>5, SeedingKeeps
  <1>6. CASE ConfirmBracket
    BY <1>6, ConfirmKeeps
  <1>7. ASSUME NEW p \in Schedulable, SetMatchSchedule(p) \/ ClearMatchSchedule(p)
        PROVE  IInv'
    <2>1. /\ sched' \subseteq tree
          /\ UNCHANGED <<mode, lineup, roster, tree, locked, slot, winner, sets, dead>>
      BY <1>7 DEF IInv, TypeOK, SetMatchSchedule, ClearMatchSchedule
    <2>2. TypeOK' /\ DraftIsClean'
      BY <2>1 DEF IInv, TypeOK, DraftIsClean, InLineup, Seats
    <2>3. WinnersAdvance' /\ ScoreNamesWinner' /\ DeadStaysEmpty'
      BY <2>1 DEF IInv, WinnersAdvance, ScoreNamesWinner, DeadStaysEmpty
    <2>4. ByesAreFinal'
      BY <2>1 DEF IInv, ByesAreFinal
    <2> QED
      BY <2>2, <2>3, <2>4 DEF IInv
  <1>8. ASSUME NEW p \in Path, ClearMatchResult(p)
        PROVE  IInv'
    BY <1>8, ClearKeeps
  <1>9. ASSUME NEW p \in Path, NEW x \in 0..MaxSets, NEW y \in 0..MaxSets,
               SetMatchResult(p, x, y)
        PROVE  IInv'
    BY <1>9, ResultKeeps
  <1>10. CASE UNCHANGED vars
    <2>1. TypeOK' /\ DraftIsClean'
      BY <1>10 DEF vars, IInv, TypeOK, DraftIsClean, InLineup, Seats
    <2>2. WinnersAdvance' /\ ScoreNamesWinner' /\ DeadStaysEmpty'
      BY <1>10 DEF vars, IInv, WinnersAdvance, ScoreNamesWinner, DeadStaysEmpty
    <2>3. ByesAreFinal'
      BY <1>10 DEF vars, IInv, ByesAreFinal
    <2> QED
      BY <2>1, <2>2, <2>3 DEF IInv
  <1> QED
    BY <1>1, <1>2, <1>3, <1>4, <1>5, <1>6, <1>7, <1>8, <1>9, <1>10 DEF Next

(* In every reachable state the invariant holds. *)
THEOREM Invariance == Spec => []IInv
  <1>1. Init => IInv
    BY InvInit
  <1>2. IInv /\ [Next]_vars => IInv'
    BY InvNext
  <1> QED
    BY <1>1, <1>2, PTL DEF Spec

(* The columns of a league are always well typed, its tree is always closed, *)
(* and every team column names a team of the league.                         *)
THEOREM TypeCorrect == Spec => []TypeOK
  <1>1. IInv => TypeOK
    BY DEF IInv
  <1> QED
    BY <1>1, Invariance, PTL

(* Before confirm_bracket nothing is decided and nobody has advanced. *)
THEOREM DraftsAreClean == Spec => []DraftIsClean
  <1>1. IInv => DraftIsClean
    BY DEF IInv
  <1> QED
    BY <1>1, Invariance, PTL

(* A match's slots hold the winners of the matches that feed it, after     *)
(* every sequence of seedings, results, corrections and team changes.      *)
THEOREM AdvancementCorrect == Spec => []WinnersAdvance
  <1>1. IInv => WinnersAdvance
    BY DEF IInv
  <1> QED
    BY <1>1, Invariance, PTL

(* No stored score is left to a pairing that did not play it. *)
THEOREM ScoresCorrect == Spec => []ScoreNamesWinner
  <1>1. IInv => ScoreNamesWinner
    BY DEF IInv
  <1> QED
    BY <1>1, Invariance, PTL

(* No team advances unopposed where an opponent may still come up. *)
THEOREM ByesCorrect == Spec => []ByesAreFinal
  <1>1. IInv => ByesAreFinal
    BY DEF IInv
  <1> QED
    BY <1>1, Invariance, PTL

(* A branch killed by confirm_bracket never comes to life again. *)
THEOREM DeadBranchesCorrect == Spec => []DeadStaysEmpty
  <1>1. IInv => DeadStaysEmpty
    BY DEF IInv
  <1> QED
    BY <1>1, Invariance, PTL

-----------------------------------------------------------------------------
(* What a step never does.                                                 *)

(* Undoing and propagating leave the seats of the tree alone. *)
LEMMA SeatsUntouched ==
    ASSUME TreeClosed, NEW b, NEW p \in tree, NEW x \in Seats(tree), NEW w
    PROVE  /\ Undo(b, p).slot[x] = b.slot[x]
           /\ Propagate(b, p, w).slot[x] = b.slot[x]
  <1>1. /\ p \in Path /\ tree \subseteq Path
        /\ x \in Slot /\ x = <<x[1], x[2]>> /\ Append(x[1], x[2]) \notin tree
    BY DEF TreeClosed, Seats, Slot
  <1>2. ASSUME NEW c \in tree, c # <<>>
        PROVE  x # Feeds(c)
    <2>1. SUFFICES ASSUME Feeds(c) = <<x[1], x[2]>> PROVE FALSE
      BY <1>1
    <2>2. Append(x[1], x[2]) = c
      BY <1>1, <1>2, <2>1, BelowSlot
    <2> QED
      BY <1>1, <2>2
  <1>3. \A c \in UndoChain(b, p) : c \in tree
    BY <1>1, UndoChainIn
  <1>4. \A c \in ByeChain(b, p) : c \in tree
    <2>1. \A c \in ByeChain(b, p) : c # p => Bye(b, c, SideToward(c, p))
      BY <1>1, ByeChainIn
    <2> QED
      BY <2>1 DEF Bye
  <1>5. Undo(b, p).slot[x] = b.slot[x]
    BY <1>1, <1>2, <1>3 DEF Undo
  <1>6. Propagate(b, p, w).slot[x] = b.slot[x]
    BY <1>1, <1>2, <1>4 DEF Propagate
  <1> QED
    BY <1>5, <1>6

(* After confirming, seats and tree are frozen until the league is deleted. *)
THEOREM SeedsAreFrozen == Spec => SeedsFrozen
  <1> DEFINE Frozen ==
        locked /\ mode' # "none" =>
          /\ locked' /\ tree' = tree
          /\ \A x \in Seats(tree) :
                slot'[x] = slot[x] \/ slot[x] \notin {lineup'[i] : i \in DOMAIN lineup'}
  <1>1. ASSUME IInv, [Next]_vars
        PROVE  Frozen
    <2>1. SUFFICES ASSUME locked, mode' # "none"
                   PROVE  /\ locked' /\ tree' = tree
                          /\ \A x \in Seats(tree) :
                                slot'[x] = slot[x] \/ slot[x] \notin {lineup'[i] : i \in DOMAIN lineup'}
      OBVIOUS
    <2>2. TreeClosed /\ Seats(tree) \subseteq Slot
      BY <1>1, BoardOfInv DEF TreeClosed, Seats, Slot
    <2>3. ASSUME NEW m \in Mode, CreateLeague(m)
          PROVE  locked' /\ tree' = tree /\ slot' = slot
      BY <2>1, <2>3 DEF CreateLeague, boardVars
    <2>4. ~DeleteLeague
      BY <2>1 DEF DeleteLeague
    <2>5. ASSUME NEW c \in Composition, SetTeamComposition(c)
          PROVE  /\ locked' /\ tree' = tree
                 /\ \A x \in Seats(tree) :
                       slot'[x] = slot[x] \/ slot[x] \notin {lineup'[i] : i \in DOMAIN lineup'}
      <3>1. /\ UNCHANGED <<tree, locked>>
            /\ slot' = [x \in Slot |-> IF slot[x] \in TeamsOf(c) THEN slot[x] ELSE None]
            /\ lineup' = [i \in DOMAIN c |-> c[i].team]
        BY <2>5 DEF SetTeamComposition
      <3>2. {lineup'[i] : i \in DOMAIN lineup'} = TeamsOf(c)
        BY <3>1 DEF TeamsOf
      <3> QED
        BY <2>1, <2>2, <3>1, <3>2
    <2>6. ASSUME NEW T \in SUBSET Path, NEW g \in Seating
          PROVE  ~SetBracket(T, g) /\ ~SetBracketSeeding(g)
      BY <2>1 DEF SetBracket, SetBracketSeeding, BracketEditable
    <2>7. ~ConfirmBracket
      BY <2>1 DEF ConfirmBracket
    <2>8. ASSUME NEW p \in Schedulable, SetMatchSchedule(p) \/ ClearMatchSchedule(p)
          PROVE  locked' /\ tree' = tree /\ slot' = slot
      BY <2>1, <2>8 DEF SetMatchSchedule, ClearMatchSchedule
    <2>9. ASSUME NEW p \in Path, ClearMatchResult(p)
          PROVE  locked' /\ tree' = tree /\ \A x \in Seats(tree) : slot'[x] = slot[x]
      <3>1. p \in tree /\ slot' = Undo(Board, p).slot /\ UNCHANGED <<tree, locked>>
        BY <2>9 DEF ClearMatchResult, ResultWritable
      <3> QED
        BY <2>1, <2>2, <3>1, SeatsUntouched DEF Board
    <2>10. ASSUME NEW p \in Path, NEW x \in 0..MaxSets, NEW y \in 0..MaxSets,
                  SetMatchResult(p, x, y)
           PROVE  locked' /\ tree' = tree /\ \A z \in Seats(tree) : slot'[z] = slot[z]
      <3> DEFINE u == IF sets[p] # None THEN Undo(Board, p) ELSE Board
                 t == WithScore(u, p, x, y)
      <3>1. /\ p \in tree /\ UNCHANGED <<tree, locked>>
            /\ slot' = Propagate(t, p, slot[<<p, WinningSide(x, y)>>]).slot
        BY <2>10 DEF SetMatchResult, ResultWritable
      <3>2. t.slot = u.slot
        BY DEF WithScore
      <3>3. \A z \in Seats(tree) : u.slot[z] = slot[z]
        BY <2>2, <3>1, SeatsUntouched DEF Board
      <3> HIDE DEF u, t
      <3>4. \A z \in Seats(tree) : slot'[z] = t.slot[z]
        BY <2>2, <3>1, SeatsUntouched
      <3> QED
        BY <2>1, <3>1, <3>2, <3>3, <3>4
    <2>11. CASE UNCHANGED vars
      BY <2>1, <2>11 DEF vars
    <2> QED
      BY <1>1, <2>3, <2>4, <2>5, <2>6, <2>7, <2>8, <2>9, <2>10, <2>11 DEF Next
  <1> QED
    BY <1>1, Invariance, PTL DEF Spec, SeedsFrozen

(* A team with a result keeps its place and its roster. *)
THEOREM PlayedTeamsAreFrozen == Spec => PlayedTeamsFrozen
  <1> DEFINE Kept ==
        \A t \in Team : HasDecidedMatch(t) /\ mode' # "none" =>
            /\ t \in {lineup'[i] : i \in DOMAIN lineup'}
            /\ roster'[t] = roster[t]
  <1>1. ASSUME IInv, [Next]_vars
        PROVE  Kept
    <2>1. SUFFICES ASSUME NEW t \in Team, HasDecidedMatch(t), mode' # "none"
                   PROVE  /\ t \in {lineup'[i] : i \in DOMAIN lineup'}
                          /\ roster'[t] = roster[t]
      OBVIOUS
    <2>2. t \in InLineup
      <3>1. PICK p \in tree, s \in Side : slot[<<p, s>>] = t
        BY <2>1 DEF HasDecidedMatch
      <3>2. <<p, s>> \in Slot
        BY <1>1 DEF IInv, TypeOK, Slot
      <3> QED
        BY <1>1, <3>1, <3>2, TeamAssumption DEF IInv, TypeOK
    <2>3. CASE UNCHANGED <<lineup, roster>>
      BY <2>2, <2>3 DEF InLineup
    <2>4. ASSUME NEW c \in Composition, SetTeamComposition(c)
          PROVE  /\ t \in {lineup'[i] : i \in DOMAIN lineup'}
                 /\ roster'[t] = roster[t]
      <3>1. /\ lineup' = [i \in DOMAIN c |-> c[i].team]
            /\ roster' = [v \in Team |->
                            IF \E i \in DOMAIN c : c[i].team = v
                            THEN c[CHOOSE i \in DOMAIN c : c[i].team = v].roster
                            ELSE <<>>]
            /\ \A i, j \in DOMAIN c : i # j => c[i].team # c[j].team
        BY <2>4 DEF SetTeamComposition, ValidComposition
      <3>2. PICK i \in DOMAIN c : c[i].team = t /\ c[i].roster = roster[t]
        BY <2>1, <2>2, <2>4 DEF SetTeamComposition, KeepsDecidedTeams
      <3>3. (CHOOSE j \in DOMAIN c : c[j].team = t) = i
        BY <3>1, <3>2
      <3>4. roster'[t] = roster[t]
        BY <2>1, <3>1, <3>2, <3>3
      <3> QED
        BY <3>1, <3>2, <3>4
    <2>5. DeleteLeague => mode' = "none"
      BY DEF DeleteLeague
    <2>6. ASSUME \/ \E m \in Mode : CreateLeague(m)
                 \/ \E T \in SUBSET Path, g \in Seating : SetBracket(T, g)
                 \/ \E g \in Seating : SetBracketSeeding(g)
                 \/ ConfirmBracket
                 \/ \E p \in Schedulable : SetMatchSchedule(p) \/ ClearMatchSchedule(p)
                 \/ \E p \in Path : ClearMatchResult(p)
                 \/ \E p \in Path, x, y \in 0..MaxSets : SetMatchResult(p, x, y)
                 \/ UNCHANGED vars
          PROVE  UNCHANGED <<lineup, roster>>
      BY <2>6 DEF CreateLeague, SetBracket, SetBracketSeeding, ConfirmBracket,
                  SetMatchSchedule, ClearMatchSchedule, ClearMatchResult, SetMatchResult, vars
    <2> QED
      BY <1>1, <2>1, <2>3, <2>4, <2>5, <2>6 DEF Next
  <1> QED
    BY <1>1, Invariance, PTL DEF Spec, PlayedTeamsFrozen

-----------------------------------------------------------------------------
(* More facts about paths.                                                 *)

LEMMA AboveAppend ==
    ASSUME NEW q \in Path, NEW s \in Side, Append(q, s) \in Path
    PROVE  /\ q \in Above(Append(q, s))
           /\ Len(Append(q, s)) = Len(q) + 1
           /\ \A r \in Above(Append(q, s)) : r = Append(q, s) \/ r \in Above(q)
           /\ \A r \in Above(q) : r \in Above(Append(q, s))
  <1> DEFINE c == Append(q, s)
  <1>1. /\ q \in Seq(Side) /\ c \in Seq(Side) /\ c \in Path
        /\ Len(q) \in Nat /\ Len(c) = Len(q) + 1
    BY PathType
  <1>2. c # <<>> /\ Front(c) = q
    BY AppendFeeds, FeedsFront
  <1>3. c \in Above(c)
    BY <1>1, SelfAbove
  <1> HIDE DEF c
  <1>4. q \in Above(c)
    BY <1>1, <1>2, <1>3, FrontAbove
  <1>5. ASSUME NEW r \in Above(c), r # c
        PROVE  r \in Above(q)
    <2>1. Len(r) \in 0..Len(c) /\ r = SubSeq(c, 1, Len(r)) /\ r \in Seq(Side)
      BY <1>1, AboveType
    <2>2. Len(r) # Len(c)
      BY <1>1, <1>5, AboveByLength
    <2>3. Len(r) \in 0..Len(q)
      <3>1. Len(r) \in 0..Len(q) + 1 /\ Len(r) # Len(q) + 1
        BY <1>1, <2>1, <2>2
      <3> QED
        BY <1>1, <3>1
    <2>4. SubSeq(c, 1, Len(r)) = SubSeq(q, 1, Len(r))
      <3>1. IsPrefix(r, q)
        BY <1>1, <1>4, <1>5, <2>3, AboveByLength
      <3>2. SubSeq(r, 1, Len(r)) = r
        BY <2>1, SubSeqFull
      <3> QED
        BY <2>1, <2>3, <3>1, <3>2 DEF IsPrefix
    <2> QED
      BY <2>1, <2>3, <2>4 DEF Above, Prefixes
  <1>6. ASSUME NEW r \in Above(q)
        PROVE  r \in Above(c)
    <2>1. Len(r) \in 0..Len(q) /\ r = SubSeq(q, 1, Len(r)) /\ r \in Seq(Side)
      BY AboveType
    <2>2. q = SubSeq(c, 1, Len(q)) /\ \A i \in 1..Len(q) : q[i] = c[i]
      BY <1>1, <1>4, AboveType
    <2>3. /\ SubSeq(c, 1, Len(r)) \in Seq(Side) /\ Len(SubSeq(c, 1, Len(r))) = Len(r)
          /\ \A i \in 1..Len(r) : SubSeq(c, 1, Len(r))[i] = c[i]
      BY <1>1, <2>1
    <2>4. \A i \in 1..Len(r) : r[i] = q[i]
      BY AboveType
    <2>5. SubSeq(c, 1, Len(r)) = r
      BY <1>1, <2>1, <2>2, <2>3, <2>4, SeqEqual
    <2>6. Len(r) \in 0..Len(c)
      BY <1>1, <2>1
    <2> QED
      BY <2>5, <2>6 DEF Above, Prefixes
  <1> QED
    BY <1>1, <1>4, <1>5, <1>6 DEF c

LEMMA AboveTransitive ==
    ASSUME NEW p \in Path, NEW q \in Above(p), q \in Path, NEW r \in Above(q)
    PROVE  r \in Above(p)
  <1>1. /\ p \in Seq(Side) /\ Len(p) \in Nat
        /\ Len(q) \in 0..Len(p) /\ q \in Seq(Side)
        /\ \A i \in 1..Len(q) : q[i] = p[i]
    BY AboveType, PathType
  <1>2. /\ Len(r) \in 0..Len(q) /\ r \in Seq(Side)
        /\ \A i \in 1..Len(r) : r[i] = q[i]
    BY AboveType
  <1>3. /\ SubSeq(p, 1, Len(r)) \in Seq(Side) /\ Len(SubSeq(p, 1, Len(r))) = Len(r)
        /\ \A i \in 1..Len(r) : SubSeq(p, 1, Len(r))[i] = p[i]
    BY <1>1, <1>2
  <1>4. SubSeq(p, 1, Len(r)) = r
    BY <1>1, <1>2, <1>3, SeqEqual
  <1>5. Len(r) \in 0..Len(p)
    BY <1>1, <1>2
  <1> QED
    BY <1>4, <1>5 DEF Above, Prefixes

(* Between a match and one below it lies the match that feeds it. *)
LEMMA FeederAbove ==
    ASSUME NEW p \in Path, NEW q \in Above(p), q \in Path, q # p
    PROVE  \E s \in Side : Append(q, s) \in Above(p)
  <1>1. /\ p \in Seq(Side) /\ Len(p) \in Nat
        /\ q \in Seq(Side) /\ Len(q) \in 0..Len(p)
        /\ \A i \in 1..Len(q) : q[i] = p[i]
    BY AboveType, PathType
  <1>2. Len(q) < Len(p)
    BY <1>1, AboveByLength
  <1> DEFINE s == p[Len(q) + 1]
             c == SubSeq(p, 1, Len(q) + 1)
  <1>3. s \in Side
    BY <1>1, <1>2
  <1>4. /\ c \in Seq(Side) /\ Len(c) = Len(q) + 1
        /\ \A i \in 1..Len(q) + 1 : c[i] = p[i]
    BY <1>1, <1>2
  <1>5. /\ Append(q, s) \in Seq(Side) /\ Len(Append(q, s)) = Len(q) + 1
        /\ \A i \in 1..Len(q) : Append(q, s)[i] = q[i]
        /\ Append(q, s)[Len(q) + 1] = s
    BY <1>1, <1>3
  <1>6. \A i \in 1..Len(q) + 1 : c[i] = Append(q, s)[i]
    <2>1. ASSUME NEW i \in 1..Len(q) + 1
          PROVE  c[i] = Append(q, s)[i]
      <3>1. CASE i = Len(q) + 1
        BY <1>4, <1>5, <3>1
      <3>2. CASE i # Len(q) + 1
        <4>1. i \in 1..Len(q)
          BY <1>1, <3>2
        <4> QED
          BY <1>1, <1>4, <1>5, <4>1
      <3> QED
        BY <3>1, <3>2
    <2> QED
      BY <2>1
  <1>7. Append(q, s) = c
    BY <1>4, <1>5, <1>6, SeqEqual
  <1>8. Len(q) + 1 \in 0..Len(p)
    BY <1>1, <1>2
  <1>9. c \in Above(p)
    BY <1>8 DEF Above, Prefixes
  <1> QED
    BY <1>3, <1>7, <1>9

-----------------------------------------------------------------------------
(* What OnePlacePerTeam needs beyond the invariant of LeagueProofs: a team *)
(* sits on one seat, and the tree has bounded depth.                       *)

DepthBounded == \A p \in tree : Len(p) + 1 <= MaxDepth

OneSeatPerTeam ==
    \A x, y \in Seats(tree) : slot[x] # None /\ slot[x] = slot[y] => x = y

LockedLeague == locked => mode # "none" /\ tree # {}

PlaceInv ==
    /\ IInv
    /\ DepthBounded
    /\ OneSeatPerTeam
    /\ LockedLeague

(* The slot x is side s of p, or lies below it. *)
ComesUp(x, p, s) == x = <<p, s>> \/ Append(p, s) \in Above(x[1])

LEMMA TreePaths ==
    ASSUME IInv
    PROVE  /\ tree \subseteq Path
           /\ \A p \in tree : /\ p \in Path /\ p \in Seq(Side) /\ Len(p) \in Nat
                              /\ \A q \in Above(p) : q \in tree
           /\ \A p \in tree, s \in Side : <<p, s>> \in Slot
           /\ \A x \in Slot : x \notin tree \X Side => slot[x] = None
           /\ Seats(tree) \subseteq Slot
  <1>1. /\ tree \subseteq Path /\ \A p \in tree : p # <<>> => Front(p) \in tree
        /\ \A p \in Path \ tree : \A s \in Side : slot[<<p, s>>] = None
    BY DEF IInv, TypeOK
  <1>2. ASSUME NEW p \in tree, NEW q \in Above(p)
        PROVE  q \in tree
    BY <1>1, TreeHoldsAbove
  <1>3. \A x \in Slot : x \notin tree \X Side => slot[x] = None
    BY <1>1 DEF Slot
  <1> QED
    BY <1>1, <1>2, <1>3, PathType DEF Slot, Seats

(* A winner stands in one of the slots of its match. *)
LEMMA WinnerStands ==
    ASSUME IInv, NEW p \in tree, winner[p] # None
    PROVE  \E s \in Side : slot[<<p, s>>] = winner[p]
  <1>1. CASE sets[p] # None
    BY <1>1 DEF IInv, ScoreNamesWinner, WinningSide, Side
  <1>2. CASE sets[p] = None
    BY <1>2 DEF IInv, ByesAreFinal
  <1> QED
    BY <1>1, <1>2

(* A team in a slot came up from a seat, and won every match on its way.   *)
LEMMA CameUp ==
    ASSUME IInv, DepthBounded, NEW p \in tree, NEW s \in Side, slot[<<p, s>>] # None
    PROVE  \E x \in Seats(tree) :
              /\ slot[x] = slot[<<p, s>>]
              /\ ComesUp(x, p, s)
              /\ p \in Above(x[1])
              /\ \A r \in Above(x[1]) : Len(r) > Len(p) => winner[r] = slot[<<p, s>>]
  <1> DEFINE t == slot[<<p, s>>]
             WonUp(q, u) == /\ slot[<<q, u>>] = t
                            /\ p \in Above(q)
                            /\ ComesUp(<<q, u>>, p, s)
                            /\ \A r \in Above(q) : Len(r) > Len(p) => winner[r] = t
             S == {n \in Nat : \E q \in tree, u \in Side : n = Len(q) /\ WonUp(q, u)}
  <1>0. \A q \in tree : Len(q) \in Nat /\ Len(q) <= MaxDepth
    <2>1. \A q \in tree : Len(q) \in Nat
      BY TreePaths
    <2> QED
      BY <2>1, SizeAssumption DEF DepthBounded
  <1>1. Len(p) \in S
    <2>1. p \in Above(p) /\ \A r \in Above(p) : ~(Len(r) > Len(p))
      BY TreePaths, SelfAbove, AboveType
    <2>2. WonUp(p, s)
      BY <2>1 DEF ComesUp
    <2> HIDE DEF WonUp
    <2> QED
      BY <1>0, <2>2
  <1>2. \A n \in S : n <= MaxDepth
    BY <1>0
  <1>3. S \in SUBSET Nat /\ S # {}
    BY <1>1
  <1>4. PICK n \in S : \A m \in S : m <= n
    <2> HIDE DEF S
    <2> QED
      BY <1>2, <1>3, GreatestNumber, SizeAssumption
  <1>5. PICK q \in tree, u \in Side : n = Len(q) /\ WonUp(q, u)
    BY <1>4
  <1>6. q \in Path /\ Len(q) \in Nat /\ tree \subseteq Path
    BY TreePaths
  <1>7. CASE Append(q, u) \notin tree
    <2>1. <<q, u>> \in Seats(tree)
      BY <1>7 DEF Seats
    <2> QED
      BY <1>5, <2>1
  <1>8. CASE Append(q, u) \in tree
    <2> DEFINE c == Append(q, u)
    <2>1. c \in Path /\ c # <<>> /\ Feeds(c) = <<q, u>>
      BY <1>6, <1>8, AppendFeeds
    <2>2. /\ q \in Above(c) /\ Len(c) = Len(q) + 1 /\ c \in Above(c)
          /\ \A r \in Above(c) : r = c \/ r \in Above(q)
          /\ \A r \in Above(q) : r \in Above(c)
      BY <1>6, <2>1, AboveAppend, SelfAbove
    <2>3. winner[c] = t
      <3>1. c \in tree \ {<<>>}
        BY <1>8, <2>1
      <3>2. slot[Feeds(c)] = winner[c]
        BY <3>1 DEF IInv, WinnersAdvance
      <3> QED
        BY <1>5, <2>1, <3>2
    <2>4. PICK v \in Side : slot[<<c, v>>] = t
      BY <1>8, <2>3, WinnerStands
    <2>5. ComesUp(<<c, v>>, p, s)
      <3>1. ComesUp(<<q, u>>, p, s)
        BY <1>5
      <3>2. CASE <<q, u>> = <<p, s>>
        BY <2>2, <3>2 DEF ComesUp
      <3>3. CASE Append(p, s) \in Above(q)
        BY <2>2, <3>3 DEF ComesUp
      <3> QED
        BY <3>1, <3>2, <3>3 DEF ComesUp
    <2>6. \A r \in Above(c) : Len(r) > Len(p) => winner[r] = t
      BY <1>5, <2>2, <2>3
    <2>7. p \in Above(c)
      BY <1>5, <2>2
    <2> HIDE DEF c
    <2>8. WonUp(c, v)
      BY <2>4, <2>5, <2>6, <2>7
    <2>9. c \in tree
      BY <1>8 DEF c
    <2> HIDE DEF WonUp
    <2>10. Len(c) \in S
      BY <1>0, <2>8, <2>9
    <2> QED
      BY <1>4, <1>5, <1>6, <2>2, <2>10
  <1> QED
    BY <1>7, <1>8

(* Two slots with one team lie above the same seat. *)
LEMMA OnePlace == PlaceInv => OnePlacePerTeam
  <1> SUFFICES ASSUME PlaceInv,
                      NEW p \in tree, NEW q \in tree, NEW s \in Side, NEW u \in Side,
                      slot[<<p, s>>] # None, slot[<<p, s>>] = slot[<<q, u>>], p # q
               PROVE  \/ IsPrefix(p, q) /\ winner[q] = slot[<<q, u>>]
                      \/ IsPrefix(q, p) /\ winner[p] = slot[<<p, s>>]
    BY DEF OnePlacePerTeam
  <1>1. IInv /\ DepthBounded /\ OneSeatPerTeam
    BY DEF PlaceInv
  <1>2. PICK x \in Seats(tree) :
           /\ slot[x] = slot[<<p, s>>] /\ p \in Above(x[1])
           /\ \A r \in Above(x[1]) : Len(r) > Len(p) => winner[r] = slot[<<p, s>>]
    BY <1>1, CameUp
  <1>3. PICK y \in Seats(tree) :
           /\ slot[y] = slot[<<q, u>>] /\ q \in Above(y[1])
           /\ \A r \in Above(y[1]) : Len(r) > Len(q) => winner[r] = slot[<<q, u>>]
    BY <1>1, CameUp
  <1>4. x = y
    BY <1>1, <1>2, <1>3 DEF OneSeatPerTeam
  <1>5. x[1] \in Path /\ Len(p) \in Nat /\ Len(q) \in Nat
    BY <1>1, TreePaths DEF Seats
  <1>6. /\ IsPrefix(p, q) <=> Len(p) <= Len(q)
        /\ IsPrefix(q, p) <=> Len(q) <= Len(p)
        /\ Len(p) # Len(q)
    BY <1>2, <1>3, <1>4, <1>5, AboveByLength
  <1> QED
    BY <1>2, <1>3, <1>4, <1>5, <1>6

-----------------------------------------------------------------------------
(* PlaceInv is inductive.                                                  *)

LEMMA PlaceInit == Init => PlaceInv
  <1> SUFFICES ASSUME Init PROVE PlaceInv
    OBVIOUS
  <1>1. IInv
    BY InvInit
  <1>2. DepthBounded /\ OneSeatPerTeam /\ LockedLeague
    BY DEF Init, DepthBounded, OneSeatPerTeam, Seats, LockedLeague
  <1> QED
    BY <1>1, <1>2 DEF PlaceInv

(* Seats that keep their teams or lose them hold no team twice. *)
LEMMA SeatsKept ==
    ASSUME PlaceInv, tree' = tree, locked' = locked, mode' = mode, IInv',
           \A x \in Seats(tree) : slot'[x] = slot[x] \/ slot'[x] = None
    PROVE  PlaceInv'
  <1>1. DepthBounded' /\ LockedLeague'
    BY DEF PlaceInv, DepthBounded, LockedLeague
  <1>2. Seats(tree)' = Seats(tree)
    BY DEF Seats
  <1>3. OneSeatPerTeam'
    BY <1>2 DEF PlaceInv, OneSeatPerTeam
  <1> QED
    BY <1>1, <1>3 DEF PlaceInv

LEMMA BracketPlaces ==
    ASSUME PlaceInv, NEW T \in SUBSET Path, NEW g \in Seating, SetBracket(T, g)
    PROVE  PlaceInv'
  <1>1. /\ ~locked' /\ tree' = T /\ slot' = SeatedBy(g)
        /\ ValidShape(T) /\ ValidSeating(T, g)
    BY DEF SetBracket, BracketEditable
  <1>2. IInv'
    BY BracketKeeps DEF PlaceInv
  <1>3. DepthBounded' /\ LockedLeague'
    BY <1>1 DEF ValidShape, DepthBounded, LockedLeague
  <1>4. OneSeatPerTeam'
    <2>1. ASSUME NEW x \in Slot, NEW y \in Slot, slot'[x] # None, slot'[x] = slot'[y]
          PROVE  x = y
      BY <1>1, <2>1 DEF SeatedBy, ValidSeating, OneSeatEach
    <2>2. Seats(tree)' \subseteq Slot
      BY <1>1 DEF Seats, Slot
    <2> QED
      BY <2>1, <2>2 DEF OneSeatPerTeam
  <1> QED
    BY <1>2, <1>3, <1>4 DEF PlaceInv

LEMMA SeedingPlaces ==
    ASSUME PlaceInv, NEW g \in Seating, SetBracketSeeding(g)
    PROVE  PlaceInv'
  <1>1. /\ ~locked /\ UNCHANGED <<tree, locked, mode>>
        /\ slot' = [x \in Slot |-> IF x \in DOMAIN g THEN g[x]
                                   ELSE IF x[1] \in Editable THEN None ELSE slot[x]]
        /\ OneSeatEach(g)
    BY DEF SetBracketSeeding, BracketEditable, ValidSeating
  <1>2. IInv' /\ IInv
    BY SeedingKeeps DEF PlaceInv
  <1>3. DepthBounded' /\ LockedLeague'
    BY <1>1 DEF PlaceInv, DepthBounded, LockedLeague
  (* In a draft every match is editable. *)
  <1>4. \A x \in Seats(tree) : x \in Slot /\ x[1] \in Editable
    BY <1>1, <1>2, TreePaths DEF IInv, DraftIsClean, Editable, Seats
  <1>5. OneSeatPerTeam'
    <2>1. Seats(tree)' = Seats(tree)
      BY <1>1 DEF Seats
    <2> QED
      BY <1>1, <1>4, <2>1 DEF OneSeatPerTeam, OneSeatEach
  <1> QED
    BY <1>2, <1>3, <1>5 DEF PlaceInv

LEMMA ConfirmPlaces ==
    ASSUME PlaceInv, ConfirmBracket
    PROVE  /\ PlaceInv'
           /\ \A x \in Seats(tree) : slot'[x] = slot[x]
  <1>1. /\ tree' = tree /\ tree # {} /\ mode' = mode /\ mode # "none"
        /\ slot' = [x \in Slot |-> IF x[1] \in tree THEN AdvanceLone(x) ELSE None]
    BY DEF ConfirmBracket
  <1>2. IInv' /\ IInv
    BY ConfirmKeeps DEF PlaceInv
  <1>3. \A x \in Seats(tree) : slot'[x] = slot[x]
    BY <1>1, <1>2, TreePaths DEF AdvanceLone, Seats
  <1>4. Seats(tree)' = Seats(tree)
    BY <1>1 DEF Seats
  <1>5. OneSeatPerTeam'
    BY <1>3, <1>4 DEF PlaceInv, OneSeatPerTeam
  <1>6. DepthBounded' /\ LockedLeague'
    BY <1>1 DEF PlaceInv, DepthBounded, LockedLeague
  <1> QED
    BY <1>2, <1>3, <1>5, <1>6 DEF PlaceInv

(* What results do to the seats: nothing. *)
LEMMA ResultSeats ==
    ASSUME IInv, NEW p \in Path,
           \/ ClearMatchResult(p)
           \/ \E x, y \in 0..MaxSets : SetMatchResult(p, x, y)
    PROVE  /\ UNCHANGED <<mode, lineup, roster, tree, locked, dead>>
           /\ locked /\ p \in tree \ dead
           /\ \A x \in Seats(tree) : slot'[x] = slot[x]
  <1>1. TreeClosed
    BY BoardOfInv
  <1>2. CASE ClearMatchResult(p)
    <2>1. /\ UNCHANGED <<mode, lineup, roster, tree, locked, dead>>
          /\ locked /\ p \in tree \ dead
          /\ slot' = Undo(Board, p).slot
      BY <1>2 DEF ClearMatchResult, ResultWritable
    <2>2. \A x \in Seats(tree) : Undo(Board, p).slot[x] = slot[x]
      BY <1>1, <2>1, SeatsUntouched DEF Board
    <2> QED
      BY <2>1, <2>2
  <1>3. ASSUME NEW x \in 0..MaxSets, NEW y \in 0..MaxSets, SetMatchResult(p, x, y)
        PROVE  /\ UNCHANGED <<mode, lineup, roster, tree, locked, dead>>
               /\ locked /\ p \in tree \ dead
               /\ \A z \in Seats(tree) : slot'[z] = slot[z]
    <2> DEFINE u == IF sets[p] # None THEN Undo(Board, p) ELSE Board
               t == WithScore(u, p, x, y)
               w == slot[<<p, WinningSide(x, y)>>]
    <2>1. /\ UNCHANGED <<mode, lineup, roster, tree, locked, dead>>
          /\ locked /\ p \in tree \ dead
          /\ slot' = Propagate(t, p, w).slot
      BY <1>3 DEF SetMatchResult, ResultWritable
    <2>2. \A z \in Seats(tree) : Undo(Board, p).slot[z] = slot[z]
      BY <1>1, <2>1, SeatsUntouched DEF Board
    <2>3. \A z \in Seats(tree) : t.slot[z] = slot[z]
      BY <2>2 DEF WithScore, Board
    <2> HIDE DEF t, w
    <2>4. \A z \in Seats(tree) : Propagate(t, p, w).slot[z] = t.slot[z]
      BY <1>1, <2>1, SeatsUntouched
    <2> QED
      BY <2>1, <2>3, <2>4
  <1> QED
    BY <1>2, <1>3

LEMMA PlaceNext == PlaceInv /\ [Next]_vars => PlaceInv'
  <1> SUFFICES ASSUME PlaceInv, [Next]_vars PROVE PlaceInv'
    OBVIOUS
  <1>0. IInv /\ IInv'
    BY InvNext DEF PlaceInv
  <1>1. ASSUME NEW m \in Mode, CreateLeague(m)
        PROVE  PlaceInv'
    <2>1. mode' # "none" /\ tree' = tree /\ locked' = locked /\ slot' = slot
      BY <1>1, ModeAssumption DEF CreateLeague, boardVars
    <2>2. DepthBounded' /\ LockedLeague'
      BY <2>1 DEF PlaceInv, DepthBounded, LockedLeague
    <2>3. OneSeatPerTeam'
      BY <2>1 DEF PlaceInv, OneSeatPerTeam, Seats
    <2> QED
      BY <1>0, <2>2, <2>3 DEF PlaceInv
  <1>2. CASE DeleteLeague
    <2>1. tree' = {} /\ ~locked'
      BY <1>2 DEF DeleteLeague
    <2>2. DepthBounded' /\ OneSeatPerTeam' /\ LockedLeague'
      BY <2>1 DEF DepthBounded, OneSeatPerTeam, Seats, LockedLeague
    <2> QED
      BY <1>0, <2>2 DEF PlaceInv
  <1>3. ASSUME NEW c \in Composition, SetTeamComposition(c)
        PROVE  PlaceInv'
    <2>1. /\ slot' = [x \in Slot |-> IF slot[x] \in TeamsOf(c) THEN slot[x] ELSE None]
          /\ UNCHANGED <<mode, tree, locked>>
      BY <1>3 DEF SetTeamComposition
    <2>2. \A x \in Seats(tree) : slot'[x] = slot[x] \/ slot'[x] = None
      BY <1>0, <2>1, TreePaths
    <2> QED
      BY <1>0, <2>1, <2>2, SeatsKept
  <1>4. ASSUME NEW T \in SUBSET Path, NEW g \in Seating, SetBracket(T, g)
        PROVE  PlaceInv'
    BY <1>4, BracketPlaces
  <1>5. ASSUME NEW g \in Seating, SetBracketSeeding(g)
        PROVE  PlaceInv'
    BY <1>5, SeedingPlaces
  <1>6. CASE ConfirmBracket
    BY <1>6, ConfirmPlaces
  <1>7. CASE UNCHANGED <<mode, tree, locked, slot>>
    BY <1>0, <1>7, SeatsKept
  <1>8. ASSUME NEW p \in Path,
               \/ ClearMatchResult(p)
               \/ \E x, y \in 0..MaxSets : SetMatchResult(p, x, y)
        PROVE  PlaceInv'
    BY <1>0, <1>8, ResultSeats, SeatsKept
  <1>9. \/ \E p \in Schedulable : SetMatchSchedule(p) \/ ClearMatchSchedule(p)
        \/ UNCHANGED vars
        => UNCHANGED <<mode, tree, locked, slot>>
    BY DEF SetMatchSchedule, ClearMatchSchedule, vars
  <1> QED
    BY <1>1, <1>2, <1>3, <1>4, <1>5, <1>6, <1>7, <1>8, <1>9 DEF Next

(* No team stands in two branches of the bracket, whatever was seeded,     *)
(* confirmed, scored, corrected, cleared or deleted before.                *)
THEOREM PlacesCorrect == Spec => []OnePlacePerTeam
  <1> QED
    BY PlaceInit, PlaceNext, OnePlace, PTL DEF Spec

-----------------------------------------------------------------------------
(* What SomeMatchPlayable needs as long as no seated team is deleted after *)
(* confirming: every bye is taken, and dead are the matches below which    *)
(* nobody is seated.                                                       *)

ByesTakenOn(b) ==
    \A q \in tree \ dead, s \in Side : b.slot[<<q, s>>] # None => ~Bye(b, q, s)

ByesTaken == locked => ByesTakenOn(Board)

Entered(p) == \E x \in Seats(tree) : slot[x] # None /\ p \in Above(x[1])

DeadUnentered == locked => dead = {p \in tree : ~Entered(p)}

PlayInv ==
    /\ PlaceInv
    /\ ByesTaken
    /\ DeadUnentered

LEMMA UndoChainDown ==
    ASSUME NEW b, NEW p \in Path, NEW q \in UndoChain(b, p), q # p
    PROVE  \E c \in UndoChain(b, p) : c # <<>> /\ Feeds(c) = <<q, SideToward(q, p)>>
  <1>1. q \in Above(p) /\ Len(q) \in Nat
    BY AboveType, PathType DEF UndoChain
  <1>2. PICK c \in Above(p) : /\ c # <<>> /\ Len(c) = Len(q) + 1
                              /\ Feeds(c) = <<q, SideToward(q, p)>>
    BY <1>1, StepDown
  <1>3. ASSUME NEW r \in Above(p), IsPrefix(c, r)
        PROVE  IsPrefix(q, r)
    <2>1. Len(c) <= Len(r) /\ Len(r) \in Nat
      BY <1>2, <1>3, AboveByLength, AboveType, PathType
    <2>2. Len(q) <= Len(r)
      BY <1>1, <1>2, <2>1
    <2> QED
      BY <1>1, <2>2, AboveByLength
  <1>4. c \in UndoChain(b, p)
    BY <1>2, <1>3 DEF UndoChain
  <1> QED
    BY <1>2, <1>4

LEMMA ByeChainUp ==
    ASSUME NEW b, NEW p \in Path, NEW c \in ByeChain(b, p), c # <<>>,
           Bye(b, Front(c), Last(c))
    PROVE  Front(c) \in ByeChain(b, p)
  <1>1. c \in Above(p) /\ Front(c) \in Above(p) /\ Len(Front(c)) = Len(c) - 1
    BY FrontAbove, ByeChainIn
  <1>2. /\ Len(c) \in Nat \ {0} /\ Len(c) \in 0..Len(p)
        /\ c[Len(c)] = p[Len(c)]
    <2>1. c \in Seq(Side) /\ Len(c) \in 0..Len(p) /\ \A i \in 1..Len(c) : c[i] = p[i]
      BY <1>1, AboveType
    <2>2. Len(c) # 0 /\ Len(c) \in Nat
      BY <2>1
    <2> QED
      BY <2>1, <2>2
  <1>3. SideToward(Front(c), p) = Last(c)
    BY <1>1, <1>2 DEF SideToward, Last
  <1>4. ASSUME NEW r \in Above(p), IsPrefix(Front(c), r), r # p
        PROVE  Bye(b, r, SideToward(r, p))
    <2>1. Len(r) \in Nat /\ Len(c) - 1 <= Len(r)
      BY <1>1, <1>4, AboveType, AboveByLength, PathType
    <2>2. CASE Len(r) = Len(c) - 1
      <3>1. r = Front(c)
        BY <1>1, <2>2, AboveByLength
      <3> QED
        BY <1>3, <3>1
    <2>3. CASE Len(c) <= Len(r)
      <3>1. IsPrefix(c, r)
        BY <1>1, <2>3, AboveByLength
      <3> QED
        BY <1>4, <3>1 DEF ByeChain
    <2> QED
      BY <1>2, <2>1, <2>2, <2>3
  <1> QED
    BY <1>1, <1>4 DEF ByeChain

(* Undoing opens no bye: where it empties a slot a live match feeds it.    *)
LEMMA UndoByes ==
    ASSUME TreeClosed, NEW b, BoardSound(b), ByesTakenOn(b),
           NEW p \in tree \ dead, \A s \in Side : b.slot[<<p, s>>] # None
    PROVE  ByesTakenOn(Undo(b, p))
  <1> DEFINE u == Undo(b, p)
             C == UndoChain(b, p)
  <1>1. /\ p \in Path /\ tree \subseteq Path /\ p \in C
        /\ \A c \in C : c \in Above(p) /\ c \in tree /\ (c # p => b.winner[c] # None)
    BY UndoChainIn, UndoChainSelf DEF TreeClosed
  <1>2. /\ u.slot = [x \in Slot |-> IF \E c \in C : c # <<>> /\ x = Feeds(c)
                                     THEN None ELSE b.slot[x]]
        /\ u.winner = [q \in Path |-> IF q \in C THEN None ELSE b.winner[q]]
    BY DEF Undo
  <1>3. \A c \in C : c \notin dead
    BY <1>1 DEF BoardSound, EmptyDead
  <1> SUFFICES ASSUME NEW q \in tree \ dead, NEW s \in Side,
                      u.slot[<<q, s>>] # None, Bye(u, q, s)
               PROVE  FALSE
    BY DEF ByesTakenOn
  <1> DEFINE o == Other(s)
  <1>4. /\ u.winner[q] = None /\ u.slot[<<q, o>>] = None
        /\ Append(q, o) \notin tree \ dead
    BY DEF Bye
  <1>5. q \in Path /\ o \in Side /\ <<q, s>> \in Slot /\ <<q, o>> \in Slot
    BY <1>1, OtherSide DEF Slot
  <1>6. \A c \in C : c # <<>> => Feeds(c) # <<q, o>>
    <2>1. ASSUME NEW c \in C, c # <<>>, Feeds(c) = <<q, o>>
          PROVE  FALSE
      <3>1. Append(q, o) = c
        BY <1>1, <2>1, BelowSlot
      <3> QED
        BY <1>1, <1>3, <1>4, <3>1
    <2> QED
      BY <2>1
  <1> HIDE DEF C, u, o
  <1>7. b.slot[<<q, o>>] = None
    BY <1>2, <1>4, <1>5, <1>6
  <1>8. b.slot[<<q, s>>] # None /\ \A c \in C : c # <<>> => Feeds(c) # <<q, s>>
    BY <1>2, <1>5
  <1>9. q \in C
    <2>1. SUFFICES ASSUME q \notin C PROVE FALSE
      OBVIOUS
    <2>2. b.winner[q] = None
      BY <1>2, <1>4, <1>5, <2>1
    <2>3. Bye(b, q, s)
      BY <1>4, <1>7, <2>2 DEF Bye, o
    <2> QED
      BY <1>8, <2>3 DEF ByesTakenOn
  <1>10. CASE q = p
    BY <1>5, <1>7, <1>10
  <1>11. CASE q # p
    <2>1. PICK c \in C : c # <<>> /\ Feeds(c) = <<q, SideToward(q, p)>>
      BY <1>1, <1>9, <1>11, UndoChainDown DEF C
    <2>2. SideToward(q, p) \in Side
      BY <1>1, <1>9, <1>11, StepDown
    <2> QED
      BY <1>6, <1>8, <2>1, <2>2, OtherSide DEF o
  <1> QED
    BY <1>10, <1>11

(* Advancing takes every bye it comes to. *)
LEMMA PropagateByes ==
    ASSUME TreeClosed, NEW b, ByesTakenOn(b),
           NEW p \in tree \ dead, NEW w, w # None
    PROVE  ByesTakenOn(Propagate(b, p, w))
  <1> DEFINE r == Propagate(b, p, w)
             C == ByeChain(b, p)
  <1>1. p \in Path /\ tree \subseteq Path /\ \A c \in C : c \in Path
    BY ByeChainIn DEF TreeClosed, Bye
  <1>2. /\ r.slot = [x \in Slot |-> IF \E c \in C : c # <<>> /\ x = Feeds(c)
                                     THEN w ELSE b.slot[x]]
        /\ r.winner = [q \in Path |-> IF q \in C THEN w ELSE b.winner[q]]
    BY DEF Propagate
  <1> SUFFICES ASSUME NEW q \in tree \ dead, NEW s \in Side,
                      r.slot[<<q, s>>] # None, Bye(r, q, s)
               PROVE  FALSE
    BY DEF ByesTakenOn
  <1> DEFINE o == Other(s)
  <1>3. /\ r.winner[q] = None /\ r.slot[<<q, o>>] = None
        /\ Append(q, o) \notin tree \ dead
    BY DEF Bye
  <1>4. q \in Path /\ o \in Side /\ <<q, s>> \in Slot /\ <<q, o>> \in Slot
    BY <1>1, OtherSide DEF Slot
  <1> HIDE DEF C, r, o
  <1>5. q \notin C /\ b.winner[q] = None /\ b.slot[<<q, o>>] = None
    BY <1>2, <1>3, <1>4
  <1>6. Bye(b, q, s)
    BY <1>3, <1>5 DEF Bye, o
  <1>7. b.slot[<<q, s>>] = None
    BY <1>6 DEF ByesTakenOn
  <1>8. PICK c \in C : c # <<>> /\ <<q, s>> = Feeds(c)
    BY <1>2, <1>4, <1>7
  <1>9. Front(c) = q /\ Last(c) = s
    BY <1>8, FeedsFront
  <1>10. q \in C
    BY <1>1, <1>6, <1>8, <1>9, ByeChainUp DEF C
  <1> QED
    BY <1>5, <1>10

LEMMA EnteredKept ==
    ASSUME tree' = tree, \A x \in Seats(tree) : slot'[x] = slot[x]
    PROVE  \A p \in tree : Entered(p)' <=> Entered(p)
  <1>1. Seats(tree)' = Seats(tree)
    BY DEF Seats
  <1> QED
    BY <1>1 DEF Entered

LEMMA DeadKept ==
    ASSUME DeadUnentered, UNCHANGED <<tree, locked, dead>>,
           \A x \in Seats(tree) : slot'[x] = slot[x]
    PROVE  DeadUnentered'
  <1>1. \A p \in tree : Entered(p)' <=> Entered(p)
    BY EnteredKept
  <1>2. {p \in tree : ~Entered(p)}' = {p \in tree : ~Entered(p)}
    BY <1>1
  <1> QED
    BY <1>2 DEF DeadUnentered

LEMMA ByesKept ==
    ASSUME ByesTaken, UNCHANGED <<tree, locked, slot, winner, dead>>
    PROVE  ByesTaken'
  BY DEF ByesTaken, ByesTakenOn, Bye, Board, Other

(* Confirming takes every bye, and kills what nobody is seated below. *)
LEMMA ConfirmPlays ==
    ASSUME PlayInv, ConfirmBracket
    PROVE  PlayInv'
  <1>0. IInv /\ PlaceInv
    BY DEF PlayInv, PlaceInv
  <1>1. /\ ~locked /\ locked' = TRUE /\ dead' = Pruned
        /\ winner' = [p \in Path |-> IF p \in tree THEN Lone(p) ELSE None]
        /\ slot' = [x \in Slot |-> IF x[1] \in tree THEN AdvanceLone(x) ELSE None]
        /\ tree' = tree
    BY DEF ConfirmBracket
  <1>2. /\ tree \subseteq Path
        /\ \A x \in Slot : slot[x] # None => x \in Seats(tree)
        /\ \A p \in tree, s \in Side : <<p, s>> \in Slot
    BY <1>0, <1>1, TreePaths DEF IInv, DraftIsClean
  <1>3. ASSUME NEW p \in tree, NEW s \in Side
        PROVE  /\ Append(p, s) \in tree => slot'[<<p, s>>] = Lone(Append(p, s))
               /\ Append(p, s) \notin tree => slot'[<<p, s>>] = slot[<<p, s>>]
               /\ Append(p, s) \in tree => slot[<<p, s>>] = None
    <2>1. <<p, s>> \in Slot /\ (Append(p, s) \in tree => <<p, s>> \notin Seats(tree))
      BY <1>2 DEF Seats
    <2> QED
      BY <1>1, <1>2, <2>1 DEF AdvanceLone
  <1>4. \A p \in tree : winner'[p] = Lone(p) /\ (p \in dead' <=> SeatedBelow(p) = {})
    BY <1>1, <1>2 DEF Pruned
  <1>5. PlaceInv' /\ \A x \in Seats(tree) : slot'[x] = slot[x]
    BY <1>0, ConfirmPlaces
  <1>6. DeadUnentered'
    <2>1. ASSUME NEW p \in tree
          PROVE  SeatedBelow(p) = {} <=> ~Entered(p)
      <3>1. \A x \in tree \X Side : IsPrefix(p, x[1]) <=> p \in Above(x[1])
        BY <1>2, PrefixAbove
      <3>2. \A x \in tree \X Side : slot[x] # None => x \in Seats(tree)
        BY <1>2 DEF Slot
      <3>3. Seats(tree) \subseteq tree \X Side
        BY DEF Seats
      <3> QED
        BY <3>1, <3>2, <3>3 DEF SeatedBelow, Entered
    <2>2. \A p \in tree : Entered(p)' <=> Entered(p)
      BY <1>1, <1>5, EnteredKept
    <2>3. dead' = {p \in tree : ~Entered(p)}
      BY <1>1, <2>1 DEF Pruned
    <2>4. {p \in tree : ~Entered(p)}' = {p \in tree : ~Entered(p)}
      BY <1>1, <2>2
    <2> QED
      BY <2>3, <2>4 DEF DeadUnentered
  <1>7. ASSUME NEW p \in tree, NEW s \in Side, NEW o \in Side, o = Other(s),
               slot'[<<p, s>>] # None, winner'[p] = None, slot'[<<p, o>>] = None,
               Append(p, o) \notin tree \ dead'
        PROVE  FALSE
    <2>1. /\ slot[<<p, o>>] = None
          /\ Append(p, o) \in tree => SeatedBelow(Append(p, o)) = {}
      BY <1>3, <1>4, <1>7
    <2>2. ASSUME NEW x \in SeatedBelow(p)
          PROVE  x = <<p, s>> \/ (Append(p, s) \in tree /\ x \in SeatedBelow(Append(p, s)))
      <3>1. x \in tree \X Side /\ slot[x] # None
        BY DEF SeatedBelow
      <3>2. CASE x[1] = p
        <4>1. x = <<p, s>> \/ x = <<p, o>>
          BY <1>7, <3>1, <3>2, OtherSide
        <4> QED
          BY <2>1, <3>1, <4>1
      <3>3. CASE x[1] # p
        <4>1. PICK v \in Side : Append(p, v) \in tree /\ x \in SeatedBelow(Append(p, v))
          BY <1>0, <3>3, SeatsBelow
        <4>2. v = s \/ v = o
          BY <1>7, OtherSide
        <4> QED
          BY <2>1, <4>1, <4>2
      <3> QED
        BY <3>2, <3>3
    <2>3. \E z \in Slot : SeatedBelow(p) = {z}
      <3>1. CASE Append(p, s) \in tree
        <4>1. Lone(Append(p, s)) # None
          BY <1>3, <1>7, <3>1
        <4>2. PICK z \in Slot : SeatedBelow(Append(p, s)) = {z}
          BY <1>0, <4>1, LoneValue DEF IInv
        <4>3. z \in SeatedBelow(p)
          BY <1>0, <3>1, <4>2, SeatsBelow
        <4>4. <<p, s>> \notin SeatedBelow(p)
          BY <1>3, <3>1 DEF SeatedBelow
        <4> QED
          BY <2>2, <4>2, <4>3, <4>4
      <3>2. CASE Append(p, s) \notin tree
        <4>1. <<p, s>> \in SeatedBelow(p)
          BY <1>0, <1>3, <1>7, <3>2, SeatsBelow
        <4> QED
          BY <1>2, <2>2, <3>2, <4>1
      <3> QED
        BY <3>1, <3>2
    <2>4. PICK z \in Slot : SeatedBelow(p) = {z}
      BY <2>3
    <2>5. Lone(p) = slot[z] /\ slot[z] # None
      <3>1. Lone(p) = slot[z]
        BY <1>0, <2>4, LoneValue DEF IInv
      <3>2. z \in SeatedBelow(p)
        BY <2>4
      <3> QED
        BY <3>1, <3>2 DEF SeatedBelow
    <2> QED
      BY <1>4, <1>7, <2>5
  <1>8. ByesTaken'
    BY <1>1, <1>7, OtherSide DEF ByesTaken, ByesTakenOn, Bye, Board, Other
  <1> QED
    BY <1>5, <1>6, <1>8 DEF PlayInv

LEMMA ClearPlays ==
    ASSUME PlayInv, NEW p \in Path, ClearMatchResult(p), PlaceInv'
    PROVE  PlayInv'
  <1>1. /\ UNCHANGED <<tree, locked, dead>> /\ locked /\ p \in tree \ dead
        /\ \A x \in Seats(tree) : slot'[x] = slot[x]
    BY ResultSeats DEF PlayInv, PlaceInv
  <1>2. DeadUnentered'
    BY <1>1, DeadKept DEF PlayInv
  <1>3. /\ slot' = Undo(Board, p).slot /\ winner' = Undo(Board, p).winner
        /\ sets[p] # None
    BY DEF ClearMatchResult
  <1>4. /\ TreeClosed /\ BoardSound(Board)
        /\ \A s \in Side : Board.slot[<<p, s>>] # None
    BY <1>1, <1>3, BoardOfInv DEF PlayInv, PlaceInv, ScoreStands, Board
  <1>5. ByesTakenOn(Board)
    BY <1>1 DEF PlayInv, ByesTaken
  <1>6. ByesTakenOn(Undo(Board, p))
    BY <1>1, <1>4, <1>5, UndoByes
  <1> DEFINE u == Undo(Board, p)
  <1> HIDE DEF u
  <1>7. ByesTaken'
    BY <1>1, <1>3, <1>6 DEF ByesTaken, ByesTakenOn, Bye, Board, Other, u
  <1> QED
    BY <1>2, <1>7 DEF PlayInv

LEMMA ResultPlays ==
    ASSUME PlayInv, NEW p \in Path, NEW x \in 0..MaxSets, NEW y \in 0..MaxSets,
           SetMatchResult(p, x, y), PlaceInv'
    PROVE  PlayInv'
  <1>0. IInv
    BY DEF PlayInv, PlaceInv
  <1>1. /\ UNCHANGED <<tree, locked, dead>> /\ locked /\ p \in tree \ dead
        /\ \A z \in Seats(tree) : slot'[z] = slot[z]
    BY <1>0, ResultSeats
  <1>2. DeadUnentered'
    BY <1>1, DeadKept DEF PlayInv
  <1> DEFINE u == IF sets[p] # None THEN Undo(Board, p) ELSE Board
             t == WithScore(u, p, x, y)
             w == slot[<<p, WinningSide(x, y)>>]
             r == Propagate(t, p, w)
  <1>3. /\ slot' = r.slot /\ winner' = r.winner
        /\ \A s \in Side : slot[<<p, s>>] # None
    BY DEF SetMatchResult
  <1>4. w # None
    BY <1>3 DEF WinningSide, Side
  <1>5. /\ TreeClosed /\ BoardSound(Board)
        /\ \A s \in Side : Board.slot[<<p, s>>] # None
        /\ ByesTakenOn(Board)
    BY <1>0, <1>1, <1>3, BoardOfInv DEF PlayInv, ByesTaken, Board
  <1>6. ByesTakenOn(u)
    BY <1>1, <1>5, UndoByes
  <1> HIDE DEF u
  <1>7. t.slot = u.slot /\ t.winner = u.winner
    BY DEF WithScore
  <1> HIDE DEF t, w
  <1>8. ByesTakenOn(t)
    BY <1>6, <1>7 DEF ByesTakenOn, Bye
  <1>9. ByesTakenOn(r)
    BY <1>1, <1>4, <1>5, <1>8, PropagateByes
  <1> HIDE DEF r
  <1>10. ByesTaken'
    BY <1>1, <1>3, <1>9 DEF ByesTaken, ByesTakenOn, Bye, Board, Other
  <1> QED
    BY <1>2, <1>10 DEF PlayInv

LEMMA PlayInit == Init => PlayInv
  BY PlaceInit DEF PlayInv, ByesTaken, DeadUnentered, Init

LEMMA PlayNext == ASSUME ~LateDeletes PROVE PlayInv /\ [Next]_vars => PlayInv'
  <1> SUFFICES ASSUME PlayInv, [Next]_vars PROVE PlayInv'
    OBVIOUS
  <1>0. IInv /\ PlaceInv /\ PlaceInv'
    BY PlaceNext DEF PlayInv, PlaceInv
  <1>1. CASE ~locked'
    BY <1>0, <1>1 DEF PlayInv, ByesTaken, DeadUnentered
  <1>2. CASE UNCHANGED <<tree, locked, slot, winner, dead>>
    BY <1>0, <1>2, ByesKept, DeadKept DEF PlayInv
  <1>3. ASSUME NEW c \in Composition, SetTeamComposition(c), locked
        PROVE  UNCHANGED <<tree, locked, slot, winner, dead>>
    <2>1. /\ UNCHANGED <<tree, locked, dead>>
          /\ slot' = [x \in Slot |-> IF slot[x] \in TeamsOf(c) THEN slot[x] ELSE None]
          /\ winner' = [p \in Path |-> IF winner[p] \in TeamsOf(c) THEN winner[p] ELSE None]
          /\ \A x \in Slot : slot[x] # None => slot[x] \in TeamsOf(c)
      BY <1>3 DEF SetTeamComposition
    <2>2. /\ slot = [x \in Slot |-> slot[x]]
          /\ winner = [p \in Path |-> winner[p]]
      BY <1>0 DEF IInv, TypeOK
    <2>3. \A p \in Path : winner[p] # None => winner[p] \in TeamsOf(c)
      <3>1. ASSUME NEW p \in Path, winner[p] # None
            PROVE  winner[p] \in TeamsOf(c)
        <4>1. p \in tree
          BY <1>0, <3>1 DEF IInv, TypeOK
        <4>2. PICK s \in Side : slot[<<p, s>>] = winner[p]
          BY <1>0, <3>1, <4>1, WinnerStands
        <4> QED
          BY <2>1, <3>1, <4>2 DEF Slot
      <3> QED
        BY <3>1
    <2>4. \A x \in Slot : slot'[x] = slot[x]
      BY <2>1
    <2>5. \A p \in Path : winner'[p] = winner[p]
      BY <2>1, <2>3
    <2>6. slot' = slot
      BY <2>1, <2>2, <2>4
    <2>7. winner' = winner
      BY <2>1, <2>2, <2>5
    <2> QED
      BY <2>1, <2>6, <2>7
  <1>4. CASE ConfirmBracket
    BY <1>4, ConfirmPlays
  <1>5. ASSUME NEW p \in Path, ClearMatchResult(p)
        PROVE  PlayInv'
    BY <1>0, <1>5, ClearPlays
  <1>6. ASSUME NEW p \in Path, NEW x \in 0..MaxSets, NEW y \in 0..MaxSets,
               SetMatchResult(p, x, y)
        PROVE  PlayInv'
    BY <1>0, <1>6, ResultPlays
  <1>7. ASSUME NEW c \in Composition, SetTeamComposition(c), ~locked
        PROVE  ~locked'
    BY <1>7 DEF SetTeamComposition
  <1>8. ASSUME \/ DeleteLeague
               \/ \E T \in SUBSET Path, g \in Seating : SetBracket(T, g)
               \/ \E g \in Seating : SetBracketSeeding(g)
        PROVE  ~locked'
    BY <1>8 DEF DeleteLeague, SetBracket, SetBracketSeeding, BracketEditable
  <1>9. ASSUME \/ \E m \in Mode : CreateLeague(m)
               \/ \E p \in Schedulable : SetMatchSchedule(p) \/ ClearMatchSchedule(p)
               \/ UNCHANGED vars
        PROVE  UNCHANGED <<tree, locked, slot, winner, dead>>
    BY <1>9 DEF CreateLeague, boardVars, SetMatchSchedule, ClearMatchSchedule, vars
  <1> QED
    BY <1>1, <1>2, <1>3, <1>4, <1>5, <1>6, <1>7, <1>8, <1>9 DEF Next

(* The deepest live match without a winner can be played.                  *)
LEMMA DeepestPlayable == PlayInv => SomeMatchPlayable
  <1> SUFFICES ASSUME PlayInv, locked, winner[<<>>] = None, NEW x \in Slot, slot[x] # None
               PROVE  \E p \in tree \ dead :
                         /\ ResultWritable(p)
                         /\ sets[p] = None
                         /\ \A s \in Side : slot[<<p, s>>] # None
    BY DEF SomeMatchPlayable
  <1>0. /\ IInv /\ DepthBounded /\ mode # "none" /\ ByesTakenOn(Board)
        /\ dead = {p \in tree : ~Entered(p)}
    BY DEF PlayInv, PlaceInv, LockedLeague, ByesTaken, DeadUnentered
  <1>1. /\ tree \subseteq Path
        /\ \A p \in tree : Len(p) \in Nat /\ Len(p) <= MaxDepth /\ MaxDepth \in Nat
        /\ \A p \in tree : \A q \in Above(p) : q \in tree
    <2>1. /\ tree \subseteq Path
          /\ \A p \in tree : Len(p) \in Nat
          /\ \A p \in tree : \A q \in Above(p) : q \in tree
      BY <1>0, TreePaths
    <2> QED
      BY <1>0, <2>1, SizeAssumption DEF DepthBounded
  (* Whoever is seated somewhere may come up to the final. *)
  <1>2. <<>> \in tree \ dead
    <2>1. x \in tree \X Side
      BY <1>0, TreePaths
    <2>2. PICK z \in Seats(tree) : slot[z] = slot[x] /\ x[1] \in Above(z[1])
      <3>1. x[1] \in tree /\ x[2] \in Side /\ x = <<x[1], x[2]>>
        BY <2>1
      <3> QED
        BY <1>0, <3>1, CameUp
    <2>3. z[1] \in tree /\ z[1] \in Path
      BY <1>1 DEF Seats
    <2>4. <<>> \in Above(z[1])
      <3>1. 0 \in 0..Len(z[1]) /\ SubSeq(z[1], 1, 0) = <<>>
        BY <2>3, PathType
      <3> QED
        BY <3>1 DEF Above, Prefixes
    <2> QED
      BY <1>0, <1>1, <2>2, <2>3, <2>4 DEF Entered
  <1> DEFINE S == {n \in Nat : \E p \in tree \ dead : winner[p] = None /\ n = Len(p)}
  <1>3. PICK n \in S : \A m \in S : m <= n
    <2>1. S \in SUBSET Nat /\ S # {} /\ MaxDepth \in Nat /\ \A m \in S : m <= MaxDepth
      BY <1>1, <1>2
    <2> HIDE DEF S
    <2> QED
      BY <2>1, GreatestNumber
  <1>4. PICK p \in tree \ dead : winner[p] = None /\ n = Len(p)
    BY <1>3
  <1>5. p \in Path /\ p \in tree
    BY <1>1, <1>4
  (* Live matches below it have winners, which stand in its slots. *)
  <1>6. ASSUME NEW s \in Side, Append(p, s) \in tree \ dead
        PROVE  slot[<<p, s>>] # None
    <2> DEFINE c == Append(p, s)
    <2>1. c # <<>> /\ Feeds(c) = <<p, s>> /\ Len(c) = n + 1 /\ c \in tree
      BY <1>1, <1>4, <1>5, <1>6, AppendFeeds, AboveAppend
    <2>2. winner[c] # None
      <3>1. SUFFICES ASSUME winner[c] = None PROVE FALSE
        OBVIOUS
      <3>2. Len(c) \in S
        BY <1>1, <1>6, <2>1, <3>1
      <3> QED
        BY <1>1, <1>3, <1>4, <2>1, <3>2
    <2>3. slot[Feeds(c)] = winner[c]
      BY <1>0, <2>1 DEF IInv, WinnersAdvance
    <2> QED
      BY <2>1, <2>2, <2>3
  <1>7. ASSUME NEW s \in Side, slot[<<p, s>>] = None
        PROVE  slot[<<p, Other(s)>>] = None
    <2>1. Other(s) \in Side /\ Other(Other(s)) = s
      BY DEF Side, Other
    <2>2. SUFFICES ASSUME slot[<<p, Other(s)>>] # None PROVE FALSE
      OBVIOUS
    <2>3. ~Bye(Board, p, Other(s))
      BY <1>0, <1>4, <2>1, <2>2 DEF ByesTakenOn, Board
    <2> QED
      BY <1>4, <1>6, <1>7, <2>1, <2>3 DEF Bye, Board
  <1>8. ASSUME \A s \in Side : slot[<<p, s>>] = None
        PROVE  FALSE
    <2>1. PICK z \in Seats(tree) : slot[z] # None /\ p \in Above(z[1])
      BY <1>0, <1>4 DEF Entered
    <2>2. z[1] \in tree /\ z[1] \in Path /\ z[2] \in Side /\ z = <<z[1], z[2]>>
      BY <1>1 DEF Seats
    <2>3. z[1] # p
      BY <1>8, <2>1, <2>2
    <2>4. PICK s \in Side : Append(p, s) \in Above(z[1])
      BY <1>5, <2>1, <2>2, <2>3, FeederAbove
    <2>5. Append(p, s) \in tree \ dead
      BY <1>0, <1>1, <2>1, <2>2, <2>4 DEF Entered
    <2> QED
      BY <1>6, <1>8, <2>5
  <1>9. \A s \in Side : slot[<<p, s>>] # None
    BY <1>7, <1>8, OtherSide
  <1>10. sets[p] = None
    BY <1>0, <1>4, <1>9 DEF IInv, ScoreNamesWinner, WinningSide, Side
  <1>11. ASSUME p # <<>>
         PROVE  sets[Front(p)] = None
    <2>1. Front(p) \in tree /\ Last(p) \in Side /\ slot[<<Front(p), Last(p)>>] = None
      BY <1>0, <1>4, <1>5, <1>11, FeedsType DEF IInv, TypeOK, WinnersAdvance, Feeds
    <2> QED
      BY <1>0, <2>1 DEF IInv, ScoreNamesWinner
  <1>12. ResultWritable(p)
    BY <1>0, <1>4, <1>11 DEF ResultWritable
  <1> QED
    BY <1>4, <1>9, <1>10, <1>12

(* As long as no seated team is deleted after confirming, a league with    *)
(* teams and no champion always has a match whose result can be entered,   *)
(* for every tree, seeding and order of results and corrections.           *)
THEOREM NeverStuck == ASSUME ~LateDeletes PROVE Spec => []SomeMatchPlayable
  <1>1. Init => PlayInv
    BY PlayInit
  <1>2. PlayInv /\ [Next]_vars => PlayInv'
    BY PlayNext
  <1>3. PlayInv => SomeMatchPlayable
    BY DeepestPlayable
  <1> QED
    BY <1>1, <1>2, <1>3, PTL DEF Spec

-----------------------------------------------------------------------------
(* The places of Tournament.  Its rules look one match deep; in a tree of  *)
(* bounded depth they leave no choice.                                     *)

LEMMA OneWinner ==
    ASSUME NEW T, NEW g, NEW r, NEW p
    PROVE  ~(Abstract!Wins(T, g, r, p, "a") /\ Abstract!Wins(T, g, r, p, "b"))
  BY DEF Abstract!Wins, Abstract!Unopposed, Abstract!Other

LEMMA PlacesAreDetermined ==
    ASSUME NEW T \in SUBSET Path, \A p \in T : Len(p) <= MaxDepth,
           NEW g, NEW on, NEW r, NEW f, NEW h,
           Abstract!Placed(T, g, on, r, f), Abstract!Placed(T, g, on, r, h)
    PROVE  f = h
  <1> DEFINE Differ(p) == \E s \in Side : f[<<p, s>>] # h[<<p, s>>]
             S == {n \in Nat : \E p \in T : Differ(p) /\ n = Len(p)}
             Rules(at) ==
               \A p \in Path, s \in Side :
                  /\ p \notin T => at[<<p, s>>] = None
                  /\ p \in T /\ (on => Append(p, s) \notin T) => at[<<p, s>>] = g[<<p, s>>]
                  /\ p \in T /\ on /\ Append(p, s) \in T =>
                        \/ \E u \in Side : /\ Abstract!Wins(T, g, r, Append(p, s), u)
                                           /\ at[<<p, s>>] = at[<<Append(p, s), u>>]
                        \/ /\ \A u \in Side : ~Abstract!Wins(T, g, r, Append(p, s), u)
                           /\ at[<<p, s>>] = None
  <1>1. /\ f = [x \in Slot |-> f[x]] /\ h = [x \in Slot |-> h[x]]
        /\ Rules(f) /\ Rules(h)
    BY DEF Abstract!Placed, Abstract!Slot, Slot, Abstract!Side, Side
  <1> HIDE DEF Rules
  <1>2. ASSUME NEW p \in Path, NEW s \in Side, f[<<p, s>>] # h[<<p, s>>]
        PROVE  p \in T /\ Append(p, s) \in T /\ Differ(Append(p, s))
    <2>1. p \in T /\ on /\ Append(p, s) \in T
      BY <1>1, <1>2 DEF Rules
    <2> DEFINE c == Append(p, s)
    <2>2. CASE \E u \in Side : Abstract!Wins(T, g, r, c, u)
      <3>1. /\ \E u \in Side : Abstract!Wins(T, g, r, c, u) /\ f[<<p, s>>] = f[<<c, u>>]
            /\ \E u \in Side : Abstract!Wins(T, g, r, c, u) /\ h[<<p, s>>] = h[<<c, u>>]
        BY <1>1, <2>1, <2>2 DEF Rules
      <3>2. \A u, v \in Side : Abstract!Wins(T, g, r, c, u) /\ Abstract!Wins(T, g, r, c, v) => u = v
        BY OneWinner DEF Side
      <3>3. PICK u \in Side : f[<<p, s>>] = f[<<c, u>>] /\ h[<<p, s>>] = h[<<c, u>>]
        BY <3>1, <3>2
      <3> QED
        BY <1>2, <2>1, <3>3
    <2>3. CASE ~ \E u \in Side : Abstract!Wins(T, g, r, c, u)
      <3>1. ASSUME NEW at, Rules(at)
            PROVE  at[<<p, s>>] = None
        BY <2>1, <2>3, <3>1 DEF Rules
      <3> QED
        BY <1>1, <1>2, <3>1
    <2> QED
      BY <2>2, <2>3
  <1>3. \A p \in T : ~Differ(p)
    <2>1. SUFFICES ASSUME NEW p \in T, Differ(p) PROVE FALSE
      OBVIOUS
    <2>2. \A q \in T : Len(q) \in Nat /\ MaxDepth \in Nat
      BY PathType, SizeAssumption
    <2>3. PICK n \in S : \A m \in S : m <= n
      <3> HIDE DEF Differ
      <3>1. S \in SUBSET Nat /\ S # {} /\ MaxDepth \in Nat /\ \A m \in S : m <= MaxDepth
        BY <2>1, <2>2
      <3> HIDE DEF S
      <3> QED
        BY <3>1, GreatestNumber
    <2>4. PICK q \in T : Differ(q) /\ n = Len(q)
      BY <2>3
    <2>5. PICK s \in Side : f[<<q, s>>] # h[<<q, s>>]
      BY <2>4
    <2>6. Append(q, s) \in T /\ Differ(Append(q, s)) /\ Len(Append(q, s)) = Len(q) + 1
      BY <1>2, <2>5, AboveAppend
    <2> HIDE DEF Differ
    <2>7. Len(Append(q, s)) \in S
      BY <2>2, <2>6
    <2> QED
      BY <2>2, <2>3, <2>4, <2>6, <2>7
  <1>4. \A x \in Slot : f[x] = h[x]
    <2>1. ASSUME NEW p \in Path, NEW s \in Side
          PROVE  f[<<p, s>>] = h[<<p, s>>]
      BY <1>2, <1>3, <2>1
    <2> QED
      BY <2>1 DEF Slot
  <1> QED
    BY <1>1, <1>4

-----------------------------------------------------------------------------
(* In LeagueBracket the slots obey those rules.                            *)

LEMMA PrefixOfPath ==
    ASSUME NEW p \in Path, NEW q \in Seq(Side)
    PROVE  IsPrefix(q, p) <=> q \in Above(p)
  <1>1. p \in Seq(Side) /\ Len(p) \in Nat /\ Len(q) \in Nat
    BY PathType
  <1>2. SubSeq(q, 1, Len(q)) = q
    BY <1>1, SubSeqFull
  <1>3. ASSUME IsPrefix(q, p)
        PROVE  q \in Above(p)
    <2>1. Len(q) \in 0..Len(p) /\ q = SubSeq(p, 1, Len(q))
      BY <1>1, <1>2, <1>3 DEF IsPrefix
    <2> QED
      BY <2>1 DEF Above, Prefixes
  <1>4. ASSUME q \in Above(p)
        PROVE  IsPrefix(q, p)
    <2>1. Len(q) \in 0..Len(p) /\ q = SubSeq(p, 1, Len(q))
      BY <1>4, AboveType
    <2> QED
      BY <1>1, <1>2, <2>1 DEF IsPrefix
  <1> QED
    BY <1>3, <1>4

(* The seeds that may come up to a side are the occupied seats below it.   *)
LEMMA SideEntered ==
    ASSUME IInv, NEW p \in tree, NEW s \in Side
    PROVE  /\ Abstract!SideEntrants(tree, Seed, p, s) # {} <=>
                 \E x \in Seats(tree) : slot[x] # None /\ ComesUp(x, p, s)
           /\ \A x \in Seats(tree) : ComesUp(x, p, s) => p \in Above(x[1])
  <1>1. /\ tree \subseteq Path /\ Seats(tree) \subseteq Slot
        /\ p \in Path /\ Append(p, s) \in Seq(Side)
        /\ \A q \in tree : \A r \in Above(q) : r \in tree
    BY TreePaths
  <1>2. ASSUME NEW x \in tree \X Side
        PROVE  Seed[x] # None <=> x \in Seats(tree) /\ slot[x] # None
    BY <1>1 DEF Seed, Slot
  <1>3. ASSUME NEW x \in tree \X Side
        PROVE  /\ IsPrefix(Append(p, s), x[1]) <=> Append(p, s) \in Above(x[1])
               /\ IsPrefix(p, x[1]) <=> p \in Above(x[1])
    BY <1>1, PrefixOfPath, PrefixAbove
  <1>4. ASSUME NEW x \in tree \X Side, ComesUp(x, p, s)
        PROVE  p \in Above(x[1])
    <2>1. CASE x = <<p, s>>
      BY <1>1, <2>1, SelfAbove
    <2>2. CASE Append(p, s) \in Above(x[1])
      <3>1. Append(p, s) \in Path /\ x[1] \in Path
        BY <1>1, <2>2
      <3>2. p \in Above(Append(p, s))
        BY <1>1, <3>1, AboveAppend
      <3> QED
        BY <2>2, <3>1, <3>2, AboveTransitive
    <2> QED
      BY <1>4, <2>1, <2>2 DEF ComesUp
  <1>5. Seats(tree) \subseteq tree \X Side
    BY DEF Seats
  <1>6. Abstract!SideEntrants(tree, Seed, p, s)
           = {x \in tree \X Side : /\ x \in Seats(tree) /\ slot[x] # None
                                   /\ ComesUp(x, p, s)}
    <2>1. Abstract!SideEntrants(tree, Seed, p, s)
             = {x \in {z \in tree \X Side : IsPrefix(p, z[1]) /\ Seed[z] # None} :
                  x = <<p, s>> \/ IsPrefix(Append(p, s), x[1])}
      BY DEF Abstract!SideEntrants, Abstract!Entrants, Abstract!Side, Side,
             Abstract!IsPrefix, IsPrefix
    <2>2. ASSUME NEW x \in tree \X Side
          PROVE  /\ IsPrefix(p, x[1]) /\ Seed[x] # None /\ (x = <<p, s>> \/ IsPrefix(Append(p, s), x[1]))
                    <=> x \in Seats(tree) /\ slot[x] # None /\ ComesUp(x, p, s)
      <3>1. ComesUp(x, p, s) <=> x = <<p, s>> \/ IsPrefix(Append(p, s), x[1])
        BY <1>3 DEF ComesUp
      <3> QED
        BY <1>2, <1>3, <1>4, <3>1
    <2> QED
      BY <2>1, <2>2
  <1> QED
    BY <1>4, <1>5, <1>6

(* The stored winner of a match is the occupant of the side that wins.     *)
LEMMA WinnerFollows ==
    ASSUME PlayInv, locked, NEW c \in tree
    PROVE  /\ \A u \in Side :
                 Abstract!Wins(tree, Seed, Score, c, u) => winner[c] = slot[<<c, u>>]
           /\ (\A u \in Side : ~Abstract!Wins(tree, Seed, Score, c, u)) => winner[c] = None
  <1> DEFINE E(u) == \E x \in Seats(tree) : slot[x] # None /\ ComesUp(x, c, u)
  <1>0. /\ IInv /\ DepthBounded /\ ByesTakenOn(Board)
        /\ dead = {p \in tree : ~Entered(p)}
    BY DEF PlayInv, PlaceInv, ByesTaken, DeadUnentered
  <1>1. /\ tree \subseteq Path /\ c \in Path
        /\ \A p \in tree : \A q \in Above(p) : q \in tree
        /\ \A x \in Seats(tree) : x[1] \in tree
    BY <1>0, TreePaths DEF Seats
  <1>2. ASSUME NEW u \in Side, slot[<<c, u>>] # None
        PROVE  E(u)
    BY <1>0, <1>2, CameUp
  <1>3. ASSUME NEW u \in Side, Append(c, u) \in tree \ dead
        PROVE  E(u)
    BY <1>0, <1>3 DEF Entered, ComesUp
  <1>4. ASSUME NEW u \in Side, E(u)
        PROVE  c \notin dead /\ (slot[<<c, u>>] # None \/ Append(c, u) \in tree \ dead)
    <2>1. PICK x \in Seats(tree) : slot[x] # None /\ ComesUp(x, c, u)
      BY <1>4
    <2>2. c \in Above(x[1])
      BY <1>0, <2>1, SideEntered
    <2>3. c \notin dead
      BY <1>0, <2>1, <2>2 DEF Entered
    <2>4. Append(c, u) \in Above(x[1]) => Append(c, u) \in tree \ dead
      BY <1>0, <1>1, <2>1 DEF Entered
    <2> QED
      BY <2>1, <2>3, <2>4 DEF ComesUp
  <1>5. \A u \in Side : Abstract!SideEntrants(tree, Seed, c, u) # {} <=> E(u)
    BY <1>0, SideEntered
  <1> HIDE DEF E
  <1>6. CASE sets[c] # None
    <2> DEFINE side == WinningSide(sets[c][1], sets[c][2])
    <2>1. Score[c] = side /\ side \in Side
      BY <1>1, <1>6 DEF Score, WinningSide, Side
    <2>2. winner[c] = slot[<<c, side>>]
      BY <1>0, <1>6 DEF IInv, ScoreNamesWinner
    <2> HIDE DEF side
    <2>3. side # None
      BY <2>1, ScoreAssumption
    <2>4. \A u \in Side : Abstract!Wins(tree, Seed, Score, c, u) <=> u = side
      BY <2>1, <2>3 DEF Abstract!Wins
    <2> QED
      BY <2>1, <2>2, <2>4
  <1>7. CASE sets[c] = None
    <2>1. Score[c] = None
      BY <1>1, <1>7 DEF Score
    <2>2. \A u \in Side : Abstract!Wins(tree, Seed, Score, c, u) <=> E(u) /\ ~E(Other(u))
      BY <1>5, <2>1, OtherSide
         DEF Abstract!Wins, Abstract!Unopposed, Abstract!Other, Other
    <2>3. ASSUME NEW u \in Side, E(u), ~E(Other(u))
          PROVE  winner[c] = slot[<<c, u>>]
      <3>1. Other(u) \in Side /\ \A v \in Side : v = u \/ v = Other(u)
        BY OtherSide
      <3>2. slot[<<c, Other(u)>>] = None /\ Append(c, Other(u)) \notin tree \ dead
        BY <1>2, <1>3, <2>3, <3>1
      <3>3. c \notin dead
        BY <1>4, <2>3
      <3>4. winner[c] = None => slot[<<c, u>>] = None
        <4>1. slot[<<c, u>>] # None => ~Bye(Board, c, u)
          BY <1>0, <3>3 DEF ByesTakenOn, Board
        <4> QED
          BY <3>2, <3>3, <4>1 DEF Bye, Board
      <3>5. ASSUME winner[c] # None
            PROVE  winner[c] = slot[<<c, u>>]
        <4>1. PICK v \in Side : slot[<<c, v>>] = winner[c]
          BY <1>0, <3>5, WinnerStands
        <4>2. v # Other(u)
          BY <3>2, <3>5, <4>1
        <4> QED
          BY <3>1, <4>1, <4>2
      <3> QED
        BY <3>4, <3>5
    <2>4. ASSUME winner[c] # None
          PROVE  \E u \in Side : E(u) /\ ~E(Other(u))
      <3>1. PICK s \in Side : /\ slot[<<c, s>>] = winner[c]
                              /\ slot[<<c, Other(s)>>] = None
                              /\ Append(c, Other(s)) \notin tree \ dead
        BY <1>0, <1>7, <2>4 DEF IInv, ByesAreFinal
      <3> QED
        BY <1>2, <1>4, <2>4, <3>1, OtherSide
    <2> QED
      BY <2>2, <2>3, <2>4
  <1> QED
    BY <1>6, <1>7

LEMMA PlacesFollow ==
    ASSUME PlayInv
    PROVE  Abstract!Placed(tree, Seed, locked, Score, slot)
  <1>0. IInv
    BY DEF PlayInv, PlaceInv
  <1>1. /\ slot \in [Slot -> Team \cup {None}]
        /\ tree \subseteq Path
    <2>1. InLineup \subseteq Team
      BY <1>0 DEF IInv, TypeOK, InLineup
    <2> QED
      BY <1>0, <2>1 DEF IInv, TypeOK
  <1>2. ASSUME NEW p \in Path, NEW s \in Side
        PROVE  /\ p \notin tree => slot[<<p, s>>] = None
               /\ p \in tree /\ (locked => Append(p, s) \notin tree)
                     => slot[<<p, s>>] = Seed[<<p, s>>]
               /\ p \in tree /\ locked /\ Append(p, s) \in tree
                     => slot[<<p, s>>] = winner[Append(p, s)]
    <2>1. <<p, s>> \in Slot
      BY DEF Slot
    <2>2. p \in tree => (<<p, s>> \in Seats(tree) <=> Append(p, s) \notin tree)
      BY DEF Seats
    <2>3. p \notin tree => slot[<<p, s>>] = None
      BY <1>0 DEF IInv, TypeOK
    <2>4. Append(p, s) \in tree => slot[<<p, s>>] = winner[Append(p, s)]
      <3>1. Append(p, s) # <<>> /\ Feeds(Append(p, s)) = <<p, s>>
        BY AppendFeeds
      <3> QED
        BY <1>0, <3>1 DEF IInv, WinnersAdvance
    <2>5. ~locked => (slot[<<p, s>>] # None => <<p, s>> \in Seats(tree))
      BY <1>0, <2>1 DEF IInv, DraftIsClean
    <2> QED
      BY <2>1, <2>2, <2>3, <2>4, <2>5 DEF Seed
  <1>3. ASSUME NEW p \in Path, NEW s \in Side, p \in tree, locked, Append(p, s) \in tree
        PROVE  \/ \E u \in Side : /\ Abstract!Wins(tree, Seed, Score, Append(p, s), u)
                                  /\ slot[<<p, s>>] = slot[<<Append(p, s), u>>]
               \/ /\ \A u \in Side : ~Abstract!Wins(tree, Seed, Score, Append(p, s), u)
                  /\ slot[<<p, s>>] = None
    BY <1>2, <1>3, WinnerFollows
  <1> QED
    BY <1>1, <1>2, <1>3 DEF Abstract!Placed, Abstract!Slot, Slot, Abstract!Side, Side

-----------------------------------------------------------------------------
(* What results do to the matches that keep a score: nothing.              *)

LEMMA UndoScored ==
    ASSUME TreeClosed, NEW b, \A q \in tree : ScoreStands(b, q), NEW p \in tree
    PROVE  /\ \A q \in Path : \/ Undo(b, p).sets[q] = b.sets[q]
                              \/ q \in Above(p) /\ Undo(b, p).sets[q] = None
           /\ \A q \in tree : Undo(b, p).sets[q] # None =>
                 \A s \in Side : Undo(b, p).slot[<<q, s>>] = b.slot[<<q, s>>]
  <1> DEFINE u == Undo(b, p)
             C == UndoChain(b, p)
  <1>1. /\ p \in Path /\ tree \subseteq Path
        /\ \A c \in C : c \in Above(p)
    BY UndoChainIn DEF TreeClosed
  <1>2. /\ u.slot = [x \in Slot |-> IF \E c \in C : c # <<>> /\ x = Feeds(c)
                                     THEN None ELSE b.slot[x]]
        /\ u.sets = [q \in Path |-> IF q \in C THEN None ELSE b.sets[q]]
    BY DEF Undo
  <1> HIDE DEF u, C
  <1>3. \A q \in Path : u.sets[q] = b.sets[q] \/ (q \in Above(p) /\ u.sets[q] = None)
    BY <1>1, <1>2
  <1>4. ASSUME NEW q \in tree, u.sets[q] # None, NEW s \in Side
        PROVE  u.slot[<<q, s>>] = b.slot[<<q, s>>]
    <2>1. q \in Path /\ q \notin C /\ b.sets[q] # None /\ <<q, s>> \in Slot
      BY <1>1, <1>2, <1>4 DEF Slot
    <2>2. b.winner[q] # None
      BY <2>1 DEF ScoreStands, WinningSide, Side
    <2>3. ASSUME NEW c \in C, c # <<>>, <<q, s>> = Feeds(c)
          PROVE  FALSE
      <3>1. Front(c) = q
        BY <2>3, FeedsFront
      <3> QED
        BY <1>1, <2>1, <2>2, <2>3, <3>1, UndoChainUp DEF C
    <2> QED
      BY <1>2, <2>1, <2>3
  <1>5. \A q \in tree : u.sets[q] # None => \A s \in Side : u.slot[<<q, s>>] = b.slot[<<q, s>>]
    BY <1>4
  <1> QED
    BY <1>3, <1>5, Zenon DEF u

LEMMA PropagateFills ==
    ASSUME TreeClosed, NEW b, Advances(b), NEW p \in tree, b.winner[p] = None, NEW w
    PROVE  /\ Propagate(b, p, w).sets = b.sets
           /\ \A x \in Slot : b.slot[x] # None => Propagate(b, p, w).slot[x] = b.slot[x]
  <1> DEFINE r == Propagate(b, p, w)
             C == ByeChain(b, p)
  <1>1. p \in Path /\ \A c \in C : c \in tree /\ b.winner[c] = None
    <2>1. p \in Path
      BY DEF TreeClosed
    <2>2. \A c \in C : c # p => Bye(b, c, SideToward(c, p))
      BY <2>1, ByeChainIn
    <2> QED
      BY <2>1, <2>2 DEF Bye
  <1>2. /\ r.slot = [x \in Slot |-> IF \E c \in C : c # <<>> /\ x = Feeds(c)
                                     THEN w ELSE b.slot[x]]
        /\ r.sets = b.sets
    BY DEF Propagate
  <1> HIDE DEF C, r
  <1>3. ASSUME NEW x \in Slot, b.slot[x] # None
        PROVE  r.slot[x] = b.slot[x]
    <2>1. ASSUME NEW c \in C, c # <<>>, x = Feeds(c)
          PROVE  FALSE
      BY <1>1, <1>3, <2>1 DEF Advances
    <2> QED
      BY <1>2, <1>3, <2>1
  <1> QED
    BY <1>2, <1>3 DEF r

-----------------------------------------------------------------------------
(* The refinement.  A request on a result is a Result, confirming is       *)
(* Start, deleting is Abandon; the drafts are arranged.                    *)

LEMMA SeedKept ==
    ASSUME IInv, tree' = tree, \A x \in Seats(tree) : slot'[x] = slot[x]
    PROVE  Seed' = Seed
  <1>1. Seats(tree)' = Seats(tree)
    BY DEF Seats
  <1> QED
    BY <1>1 DEF Seed

LEMMA ScoreOfSets ==
    /\ \A p \in Path : /\ Score[p] = IF sets[p] = None THEN None
                                     ELSE WinningSide(sets[p][1], sets[p][2])
                       /\ Score[p] = None <=> sets[p] = None
    /\ Score \in [Path -> Side \cup {None}]
  <1>1. \A a, b : WinningSide(a, b) \in Side /\ WinningSide(a, b) # None
    BY ScoreAssumption DEF WinningSide, Side
  <1> QED
    BY <1>1 DEF Score

LEMMA DraftArranged ==
    ASSUME PlayInv, PlayInv', ~locked, ~locked'
    PROVE  Abstract!Arrange
  <1>1. Score' = Abstract!Blank
    <2>1. IInv'
      BY DEF PlayInv, PlaceInv
    <2>2. \A p \in Path : sets'[p] = None
      BY <2>1 DEF IInv, DraftIsClean
    <2> QED
      BY <2>2 DEF Score, Abstract!Blank
  <1>2. Abstract!OneSeatEach'
    <2>1. OneSeatPerTeam'
      BY DEF PlayInv, PlaceInv
    <2>2. \A x \in Slot : Seed'[x] # None => x \in Seats(tree)' /\ Seed'[x] = slot'[x]
      BY DEF Seed
    <2>3. ASSUME NEW x \in Slot, NEW y \in Slot, Seed'[x] # None, Seed'[x] = Seed'[y]
          PROVE  x = y
      BY <2>1, <2>2, <2>3 DEF OneSeatPerTeam
    <2> QED
      BY <2>3 DEF Abstract!OneSeatEach, Abstract!Slot, Slot, Abstract!Side, Side
  <1> QED
    BY <1>1, <1>2 DEF Abstract!Arrange

LEMMA ResultRefines ==
    ASSUME PlayInv, PlayInv', NEW p \in Path,
           ResultWritable(p), \A s \in Side : slot[<<p, s>>] # None,
           UNCHANGED <<tree, locked>>, \A x \in Seats(tree) : slot'[x] = slot[x],
           \A q \in Path \ {p} : \/ sets'[q] = sets[q]
                                 \/ q \in Above(p) /\ sets'[q] = None,
           \A q \in tree \ {p} : sets'[q] # None =>
                \A s \in Side : slot'[<<q, s>>] = slot[<<q, s>>]
    PROVE  Abstract!Result(p)
  <1>0. IInv /\ IInv'
    BY DEF PlayInv, PlaceInv
  <1>1. locked /\ p \in tree /\ (p # <<>> => sets[Front(p)] = None)
    BY DEF ResultWritable
  <1>2. p # <<>> => Score[Front(p)] = None
    BY <1>1, ScoreOfSets, PathAssumption
  <1>3. /\ Score' \in [Path -> Side \cup {None}]
        /\ \A q \in Path : Score'[q] = IF sets'[q] = None THEN None
                                     ELSE WinningSide(sets'[q][1], sets'[q][2])
        /\ \A q \in Path : Score'[q] = None <=> sets'[q] = None
    <2>1. \A a, b : WinningSide(a, b) \in Side /\ WinningSide(a, b) # None
      BY ScoreAssumption DEF WinningSide, Side
    <2> QED
      BY <2>1 DEF Score, WinningSide
  <1>4. ASSUME NEW q \in Path \ {p}
        PROVE  Score'[q] = Score[q] \/ (IsStrictPrefix(q, p) /\ Score'[q] = None)
    <2>1. CASE sets'[q] = sets[q]
      BY <1>3, <2>1, ScoreOfSets
    <2>2. CASE q \in Above(p) /\ sets'[q] = None
      BY <1>3, <2>2, PrefixAbove DEF IsStrictPrefix
    <2> QED
      BY <2>1, <2>2
  <1>5. ASSUME NEW q \in Path, Score'[q] # None, NEW s \in Side
        PROVE  slot'[<<q, s>>] # None /\ (q # p => slot'[<<q, s>>] = slot[<<q, s>>])
    <2>1. sets'[q] # None
      BY <1>3, <1>5
    <2>2. q \in tree
      <3>1. \A r \in Path \ tree : sets'[r] = None
        BY <1>0 DEF IInv, TypeOK
      <3> QED
        BY <2>1, <3>1
    <2>3. slot'[<<q, s>>] # None
      BY <1>0, <2>1, <2>2 DEF IInv, ScoreNamesWinner
    <2> QED
      BY <2>1, <2>2, <2>3
  <1>6. Seed' = Seed
    BY <1>0, SeedKept
  <1>7. Abstract!Side = Side
    BY DEF Abstract!Side, Side
  <1>8. \A q \in Path \ {p} : \/ Score'[q] = Score[q]
                              \/ Abstract!IsStrictPrefix(q, p) /\ Score'[q] = None
    BY <1>4 DEF Abstract!IsStrictPrefix, Abstract!IsPrefix, IsStrictPrefix, IsPrefix
  <1>9. \A q \in Path : Score'[q] # None =>
           \A s \in Abstract!Side :
              slot'[<<q, s>>] # None /\ (q # p => slot'[<<q, s>>] = slot[<<q, s>>])
    BY <1>5, <1>7
  <1>10. /\ Score' \in [Path -> Abstract!Side \cup {None}]
         /\ \A s \in Abstract!Side : slot[<<p, s>>] # None
    BY <1>3, <1>7
  <1> QED
    BY <1>1, <1>2, <1>6, <1>8, <1>9, <1>10 DEF Abstract!Result, Abstract!Front, Front

LEMMA ClearRefines ==
    ASSUME PlayInv, PlayInv', NEW p \in Path, ClearMatchResult(p)
    PROVE  Abstract!Result(p)
  <1>0. IInv
    BY DEF PlayInv, PlaceInv
  <1>1. /\ UNCHANGED <<tree, locked>> /\ p \in tree
        /\ \A x \in Seats(tree) : slot'[x] = slot[x]
    BY <1>0, ResultSeats
  <1>2. /\ ResultWritable(p) /\ sets[p] # None
        /\ slot' = Undo(Board, p).slot /\ sets' = Undo(Board, p).sets
    BY DEF ClearMatchResult
  <1>3. TreeClosed /\ \A q \in tree : ScoreStands(Board, q)
    BY <1>0, BoardOfInv
  <1>4. \A s \in Side : slot[<<p, s>>] # None
    BY <1>1, <1>2, <1>3 DEF ScoreStands, Board
  <1>5. /\ \A q \in Path : \/ sets'[q] = sets[q]
                           \/ q \in Above(p) /\ sets'[q] = None
        /\ \A q \in tree : sets'[q] # None =>
              \A s \in Side : slot'[<<q, s>>] = slot[<<q, s>>]
    BY <1>1, <1>2, <1>3, UndoScored DEF Board
  <1> QED
    BY <1>1, <1>2, <1>4, <1>5, ResultRefines

LEMMA EntryRefines ==
    ASSUME PlayInv, PlayInv', NEW p \in Path, NEW x \in 0..MaxSets, NEW y \in 0..MaxSets,
           SetMatchResult(p, x, y)
    PROVE  Abstract!Result(p)
  <1> DEFINE u == IF sets[p] # None THEN Undo(Board, p) ELSE Board
             t == WithScore(u, p, x, y)
             w == slot[<<p, WinningSide(x, y)>>]
             r == Propagate(t, p, w)
  <1>0. IInv
    BY DEF PlayInv, PlaceInv
  <1>1. /\ UNCHANGED <<tree, locked>> /\ p \in tree \ dead
        /\ \A z \in Seats(tree) : slot'[z] = slot[z]
    BY <1>0, ResultSeats
  <1>2. /\ ResultWritable(p) /\ \A s \in Side : slot[<<p, s>>] # None
        /\ slot' = r.slot /\ sets' = r.sets
    BY DEF SetMatchResult
  <1>3. /\ TreeClosed /\ BoardTyped(Board) /\ BoardSound(Board)
        /\ \A q \in tree : ScoreStands(Board, q)
        /\ tree \subseteq Path
    BY <1>0, BoardOfInv DEF TreeClosed
  <1>4. /\ BoardTyped(u) /\ Advances(u) /\ u.winner[p] = None
        /\ \A q \in tree : ScoreStands(u, q)
    <2>1. CASE sets[p] # None
      BY <1>1, <1>3, <2>1, UndoKeeps DEF BoardSound
    <2>2. CASE sets[p] = None
      <3>1. winner[p] = None
        BY <1>0, <1>1, <1>2, <2>2, OtherSide DEF IInv, ByesAreFinal
      <3> QED
        BY <1>3, <2>2, <3>1 DEF Board, BoardSound
    <2> QED
      BY <2>1, <2>2
  <1>5. /\ \A q \in Path : \/ u.sets[q] = sets[q]
                           \/ q \in Above(p) /\ u.sets[q] = None
        /\ \A q \in tree : u.sets[q] # None =>
              \A s \in Side : u.slot[<<q, s>>] = slot[<<q, s>>]
    <2>1. CASE sets[p] # None
      BY <1>1, <1>3, <2>1, UndoScored DEF Board
    <2>2. CASE sets[p] = None
      BY <2>2 DEF Board
    <2> QED
      BY <2>1, <2>2
  <1> HIDE DEF u
  <1>6. /\ t.slot = u.slot /\ t.winner = u.winner
        /\ t.sets = [u.sets EXCEPT ![p] = <<x, y>>]
    BY DEF WithScore
  <1>7. \A q \in Path \ {p} : t.sets[q] = u.sets[q]
    BY <1>4, <1>6 DEF BoardTyped
  <1> HIDE DEF t, w
  <1>8. Advances(t) /\ t.winner[p] = None
    BY <1>4, <1>6 DEF Advances
  <1>9. r.sets = t.sets /\ \A z \in Slot : t.slot[z] # None => r.slot[z] = t.slot[z]
    BY <1>1, <1>3, <1>8, PropagateFills
  <1> HIDE DEF r
  <1>10. \A q \in Path \ {p} : \/ sets'[q] = sets[q]
                               \/ q \in Above(p) /\ sets'[q] = None
    BY <1>2, <1>5, <1>7, <1>9
  <1>11. ASSUME NEW q \in tree \ {p}, sets'[q] # None, NEW s \in Side
         PROVE  slot'[<<q, s>>] = slot[<<q, s>>]
    <2>1. q \in Path /\ <<q, s>> \in Slot /\ u.sets[q] # None
      BY <1>2, <1>3, <1>7, <1>9, <1>11 DEF Slot
    <2>2. u.slot[<<q, s>>] # None
      BY <1>4, <2>1 DEF ScoreStands
    <2>3. u.slot[<<q, s>>] = slot[<<q, s>>]
      BY <1>5, <2>1
    <2> QED
      BY <1>2, <1>6, <1>9, <2>1, <2>2, <2>3
  <1> QED
    BY <1>1, <1>2, <1>10, <1>11, ResultRefines

LEMMA ConfirmRefines ==
    ASSUME PlayInv, ConfirmBracket
    PROVE  Abstract!Start
  <1>0. IInv /\ PlaceInv
    BY DEF PlayInv, PlaceInv
  <1>1. ~locked /\ locked' /\ UNCHANGED <<tree, sets>> /\ \E x \in Slot : slot[x] # None
    BY DEF ConfirmBracket
  <1>2. Seed' = Seed
    BY <1>0, <1>1, ConfirmPlaces, SeedKept
  <1>3. Score' = Score
    BY <1>1 DEF Score, WinningSide
  <1>4. \E x \in Abstract!Slot : Seed[x] # None
    <2>1. PICK x \in Slot : slot[x] # None
      BY <1>1
    <2>2. Seed[x] # None
      BY <1>0, <1>1, <2>1 DEF IInv, DraftIsClean, Seed
    <2> QED
      BY <2>1, <2>2 DEF Abstract!Slot, Slot, Abstract!Side, Side
  <1> QED
    BY <1>1, <1>2, <1>3, <1>4 DEF Abstract!Start

LEMMA InitRefines == Init => Abstract!Init
  <1> SUFFICES ASSUME Init PROVE Abstract!Init
    OBVIOUS
  <1>1. Seed = [x \in Slot |-> None] /\ Score = [p \in Path |-> None]
    BY DEF Init, Seed, Score
  <1> QED
    BY <1>1 DEF Init, Abstract!Init, Abstract!Blank, Abstract!Slot, Slot, Abstract!Side, Side

LEMMA PlacesFollowOn == PlayInv' => Abstract!Placed(tree', Seed', locked', Score', slot')
  <1>1. PlayInv => Abstract!Placed(tree, Seed, locked, Score, slot)
    BY PlacesFollow
  <1>2. PlayInv' => Abstract!Placed(tree, Seed, locked, Score, slot)'
    BY <1>1, PTL
  <1> QED
    BY <1>2

LEMMA NextRefines ==
    ASSUME ~LateDeletes
    PROVE  PlayInv /\ PlayInv' /\ [Next]_vars => [Abstract!Next]_(Abstract!vars)
  <1> SUFFICES ASSUME PlayInv, PlayInv', [Next]_vars
               PROVE  Abstract!Next \/ UNCHANGED Abstract!vars
    OBVIOUS
  <1>0. IInv
    BY DEF PlayInv, PlaceInv
  <1>1. Abstract!Placed(tree', Seed', locked', Score', slot')
    BY PlacesFollowOn
  <1>2. ASSUME \/ Abstract!Arrange
               \/ Abstract!Start
               \/ Abstract!Abandon
               \/ \E p \in Path : Abstract!Result(p)
        PROVE  Abstract!Next
    BY <1>1, <1>2 DEF Abstract!Next
  <1>3. ASSUME UNCHANGED <<tree, locked, slot, sets>>
        PROVE  UNCHANGED Abstract!vars
    <2>1. Seed' = Seed /\ Score' = Score
      BY <1>3 DEF Seed, Seats, Score, WinningSide
    <2> QED
      BY <1>3, <2>1 DEF Abstract!vars
  <1>4. CASE DeleteLeague
    <2>1. tree' = {} /\ locked' = FALSE /\ sets' = [p \in Path |-> None]
      BY <1>4 DEF DeleteLeague
    <2>2. Seed' = [x \in Slot |-> None]
      BY <2>1 DEF Seed, Seats
    <2>3. Score' = [p \in Path |-> None]
      BY <2>1 DEF Score
    <2>4. Abstract!Abandon
      BY <2>1, <2>2, <2>3
         DEF Abstract!Abandon, Abstract!Blank, Abstract!Slot, Slot, Abstract!Side, Side
    <2> QED
      BY <1>2, <2>4
  <1>5. ASSUME NEW c \in Composition, SetTeamComposition(c), locked
        PROVE  UNCHANGED <<tree, locked, slot, sets>>
    <2>1. /\ UNCHANGED <<tree, locked, sets>>
          /\ slot' = [x \in Slot |-> IF slot[x] \in TeamsOf(c) THEN slot[x] ELSE None]
          /\ \A x \in Slot : slot[x] # None => slot[x] \in TeamsOf(c)
      BY <1>5 DEF SetTeamComposition
    <2>2. slot = [x \in Slot |-> slot[x]]
      BY <1>0 DEF IInv, TypeOK
    <2>3. \A x \in Slot : slot'[x] = slot[x]
      BY <2>1
    <2> QED
      BY <2>1, <2>2, <2>3
  <1>6. ASSUME \/ \E T \in SUBSET Path, g \in Seating : SetBracket(T, g)
               \/ \E g \in Seating : SetBracketSeeding(g)
               \/ ~locked /\ \E c \in Composition : SetTeamComposition(c)
        PROVE  Abstract!Next
    <2>1. ~locked /\ ~locked'
      BY <1>6 DEF SetBracket, SetBracketSeeding, SetTeamComposition, BracketEditable
    <2> QED
      BY <1>2, <2>1, DraftArranged
  <1>7. CASE ConfirmBracket
    BY <1>2, <1>7, ConfirmRefines
  <1>8. ASSUME NEW p \in Path, ClearMatchResult(p)
        PROVE  Abstract!Next
    BY <1>2, <1>8, ClearRefines
  <1>9. ASSUME NEW p \in Path, NEW x \in 0..MaxSets, NEW y \in 0..MaxSets,
               SetMatchResult(p, x, y)
        PROVE  Abstract!Next
    BY <1>2, <1>9, EntryRefines
  <1>10. ASSUME \/ \E m \in Mode : CreateLeague(m)
                \/ \E p \in Schedulable : SetMatchSchedule(p) \/ ClearMatchSchedule(p)
                \/ UNCHANGED vars
         PROVE  UNCHANGED <<tree, locked, slot, sets>>
    BY <1>10 DEF CreateLeague, boardVars, SetMatchSchedule, ClearMatchSchedule, vars
  <1> QED
    BY <1>3, <1>4, <1>5, <1>6, <1>7, <1>8, <1>9, <1>10 DEF Next

(* As long as no seated team is deleted after confirming, the handlers     *)
(* keep the promise of Tournament: who stands in which slot is at every    *)
(* moment what the seeds and the scores say, and a score is never left to  *)
(* a pairing that did not play it.                                         *)
THEOREM ImplementsTournament == ASSUME ~LateDeletes PROVE Spec => IsTournament
  <1>1. Init => PlayInv /\ Abstract!Init
    BY PlayInit, InitRefines
  <1>2. PlayInv /\ [Next]_vars => PlayInv'
    BY PlayNext
  <1>3. PlayInv /\ PlayInv' /\ [Next]_vars => [Abstract!Next]_(Abstract!vars)
    BY NextRefines
  <1> QED
    BY <1>1, <1>2, <1>3, PTL DEF Spec, IsTournament, Abstract!Spec

=============================================================================
