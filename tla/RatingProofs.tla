----------------------------- MODULE RatingProofs ----------------------------
(* Theorems about RatingCache, for every set of matches and names and any  *)
(* size of the memory.                                                     *)
EXTENDS RatingCache, RegistryProofs

(* What is rated, and the matches of a list. *)
RatedPlayer == (Member \X (Race \cup {None})) \cup {None}

GameType ==
    [no : Number, result : Outcome, team1 : Seq(RatedPlayer), team2 : Seq(RatedPlayer), day : Day]

(* Lists whose matches have the dates their numbers tell. *)
DatedLists == {games \in Seq(GameType) : \A k \in DOMAIN games : games[k].day = games[k].no.day}

(* Entries that hold what playing their list from the first gives. *)
TrueEntries ==
    {Entry(byRace, games, Fresh(games)) : byRace \in BOOLEAN, games \in DatedLists}

CacheInv ==
    /\ RegistryInv
    /\ writes \in 0..MaxWrites
    /\ kept \in Seq(TrueEntries)
    /\ Len(kept) <= MaxKept
    /\ OneEntryPerList

-----------------------------------------------------------------------------
(* The list of a reader.                                                   *)

LEMMA GamesAreDated ==
    ASSUME RegistryInv, NEW byRace \in BOOLEAN, NEW to \in Day, NEW games \in Games(byRace, to)
    PROVE  games \in DatedLists
  <1>1. PICK order \in Orders(Played(to)) :
           games = [k \in DOMAIN order |-> Game(order[k], byRace)]
    BY DEF Games
  <1>2. Cardinality(Played(to)) \in Nat
    BY MatchAssumption, FS_Subset, FS_CardinalityType DEF Played, Registered
  <1>3. DOMAIN order = 1..Cardinality(Played(to)) /\ \A k \in DOMAIN order : order[k] \in Registered
    BY <1>1 DEF Orders, Played
  <1>4. ASSUME NEW i \in Registered
        PROVE  /\ Game(i, byRace) \in GameType
               /\ Game(i, byRace).day = Game(i, byRace).no.day
    <2>1. match[i] \in RowType
      BY RegisteredRow DEF RegistryInv
    <2>2. ASSUME NEW team \in Team PROVE Idents(team, byRace) \in Seq(RatedPlayer)
      <3>1. /\ Len(team) \in Nat /\ DOMAIN team = 1..Len(team)
            /\ \A k \in DOMAIN team : team[k] \in [name : Name, race : Race]
        BY ElementOfSeq, LenProperties DEF Team
      <3>2. \A k \in DOMAIN team : Ident(team[k], byRace) \in RatedPlayer
        BY <3>1 DEF Ident, RatedPlayer
      <3>3. Idents(team, byRace) \in [1..Len(team) -> RatedPlayer]
        BY <3>1, <3>2 DEF Idents
      <3> QED
        BY <3>1, <3>3, SeqDef
    <2>3. Game(i, byRace) \in GameType
      BY <2>1, <2>2 DEF Game, GameType, RowType
    <2>4. match[i].no.day = match[i].day
      BY DEF RegistryInv, NumberTellsTheDate
    <2> QED
      BY <2>3, <2>4 DEF Game
  <1>5. games \in [1..Cardinality(Played(to)) -> GameType]
    BY <1>1, <1>3, <1>4
  <1>6. games \in Seq(GameType)
    BY <1>2, <1>5, SeqDef
  <1>7. \A k \in DOMAIN games : games[k].day = games[k].no.day
    BY <1>1, <1>3, <1>4
  <1> QED
    BY <1>6, <1>7 DEF DatedLists

-----------------------------------------------------------------------------
(* Playing a list in two parts.                                            *)

LEMMA PartOf ==
    ASSUME NEW S, NEW s \in Seq(S), NEW a \in Nat \ {0}, NEW b \in Nat, b <= Len(s), a <= b + 1
    PROVE  /\ SubSeq(s, a, b) \in Seq(S)
           /\ Len(SubSeq(s, a, b)) = b + 1 - a
           /\ DOMAIN SubSeq(s, a, b) = 1..(b + 1 - a)
           /\ \A k \in 1..(b + 1 - a) : SubSeq(s, a, b)[k] = s[a + k - 1]
  <1>1. Len(s) \in Nat /\ \A k \in a..b : s[k] \in S
    <2>1. \A k \in a..b : k \in 1..Len(s)
      BY LenProperties
    <2> QED
      BY <2>1, LenProperties, ElementOfSeq
  <1>2. SubSeq(s, a, b) \in Seq(S)
    BY <1>1, SubSeqProperties
  <1>3. Len(SubSeq(s, a, b)) = IF a <= b THEN b - a + 1 ELSE 0
    BY <1>1, SubSeqProperties
  <1>4. \A k \in 1..(b - a + 1) : SubSeq(s, a, b)[k] = s[a + k - 1]
    BY <1>1, SubSeqProperties
  <1> QED
    BY <1>2, <1>3, <1>4, LenProperties

LEMMA TwoParts ==
    ASSUME NEW S, NEW s \in Seq(S), NEW n \in 0..Len(s)
    PROVE  SubSeq(s, 1, n) \o SubSeq(s, n + 1, Len(s)) = s
  <1> DEFINE head  == SubSeq(s, 1, n)
             tail  == SubSeq(s, n + 1, Len(s))
             whole == head \o tail
  <1>1. Len(s) \in Nat /\ n \in Nat /\ n <= Len(s) /\ s \in [1..Len(s) -> S]
    BY LenProperties
  <1>2. head \in Seq(S) /\ Len(head) = n /\ \A k \in 1..n : head[k] = s[k]
    BY <1>1, PartOf
  <1>3. /\ tail \in Seq(S) /\ Len(tail) = Len(s) - n
        /\ \A k \in 1..(Len(s) - n) : tail[k] = s[n + k]
    <2>1. n + 1 \in Nat \ {0} /\ n + 1 <= Len(s) + 1
      BY <1>1
    <2>2. /\ tail \in Seq(S) /\ Len(tail) = Len(s) + 1 - (n + 1)
          /\ \A k \in 1..(Len(s) + 1 - (n + 1)) : tail[k] = s[(n + 1) + k - 1]
      BY <1>1, <2>1, PartOf
    <2> HIDE DEF tail
    <2>3. Len(s) + 1 - (n + 1) = Len(s) - n
      <3>1. \A m \in Nat : m + 1 - (n + 1) = m - n
        BY <1>1
      <3> QED
        BY <1>1, <3>1
    <2>4. \A k \in Nat : (n + 1) + k - 1 = n + k
      BY <1>1
    <2>5. \A k \in 1..(Len(s) - n) : k \in Nat
      BY <1>1
    <2> QED
      BY <2>2, <2>3, <2>4, <2>5
  <1> HIDE DEF head, tail
  <1>4. /\ whole \in Seq(S) /\ Len(whole) = Len(s)
        /\ \A k \in 1..Len(s) : whole[k] = IF k <= n THEN head[k] ELSE tail[k - n]
    <2>1. Len(head) + Len(tail) = Len(s)
      BY <1>1, <1>2, <1>3
    <2>2. /\ whole \in Seq(S) /\ Len(whole) = Len(head) + Len(tail)
          /\ \A k \in 1..Len(head) + Len(tail) :
                whole[k] = IF k <= Len(head) THEN head[k] ELSE tail[k - Len(head)]
      BY <1>2, <1>3, ConcatProperties
    <2> HIDE DEF whole
    <2> QED
      BY <1>2, <2>1, <2>2
  <1>5. \A k \in 1..Len(s) : whole[k] = s[k]
    BY <1>1, <1>2, <1>3, <1>4
  <1>6. whole = s
    <2> HIDE DEF whole
    <2> QED
      BY <1>4, <1>5, SeqEqual
  <1> QED
    BY <1>6 DEF head, tail

LEMMA UpdatesOf ==
    ASSUME NEW games \in Seq(GameType)
    PROVE  /\ Updates(games) \in Seq({Update(g) : g \in GameType})
           /\ Len(Updates(games)) = Len(games)
           /\ DOMAIN Updates(games) = 1..Len(games)
  <1>1. Len(games) \in Nat /\ DOMAIN games = 1..Len(games) /\ games \in [1..Len(games) -> GameType]
    BY LenProperties
  <1>2. Updates(games) \in [1..Len(games) -> {Update(g) : g \in GameType}]
    BY <1>1 DEF Updates
  <1>3. Updates(games) \in Seq({Update(g) : g \in GameType})
    BY <1>1, <1>2, SeqDef
  <1> QED
    BY <1>1, <1>2, <1>3

LEMMA MovesOf ==
    ASSUME NEW games \in Seq(GameType)
    PROVE  /\ Moves(games) \in Seq({Move(g) : g \in GameType})
           /\ Len(Moves(games)) = Len(games)
           /\ DOMAIN Moves(games) = 1..Len(games)
  <1>1. Len(games) \in Nat /\ DOMAIN games = 1..Len(games) /\ games \in [1..Len(games) -> GameType]
    BY LenProperties
  <1>2. Moves(games) \in [1..Len(games) -> {Move(g) : g \in GameType}]
    BY <1>1 DEF Moves
  <1>3. Moves(games) \in Seq({Move(g) : g \in GameType})
    BY <1>1, <1>2, SeqDef
  <1> QED
    BY <1>1, <1>2, <1>3

LEMMA MarksOf ==
    ASSUME NEW games \in Seq(GameType)
    PROVE  /\ Marks(games) \in Seq({Mark(g) : g \in GameType})
           /\ Len(Marks(games)) = Len(games)
           /\ DOMAIN Marks(games) = 1..Len(games)
  <1>1. Len(games) \in Nat /\ DOMAIN games = 1..Len(games) /\ games \in [1..Len(games) -> GameType]
    BY LenProperties
  <1>2. Marks(games) \in [1..Len(games) -> {Mark(g) : g \in GameType}]
    BY <1>1 DEF Marks
  <1>3. Marks(games) \in Seq({Mark(g) : g \in GameType})
    BY <1>1, <1>2, SeqDef
  <1> QED
    BY <1>1, <1>2, <1>3

LEMMA UpdatesOfPart ==
    ASSUME NEW games \in Seq(GameType),
           NEW a \in Nat \ {0}, NEW b \in Nat, b <= Len(games), a <= b + 1
    PROVE  Updates(SubSeq(games, a, b)) = SubSeq(Updates(games), a, b)
  <1> DEFINE S == {Update(games[k]) : k \in DOMAIN games}
  <1>1. Len(games) \in Nat /\ DOMAIN games = 1..Len(games)
    BY LenProperties
  <1>2. Updates(games) \in [1..Len(games) -> S]
    BY <1>1 DEF Updates
  <1>3. Updates(games) \in Seq(S) /\ Len(Updates(games)) = Len(games)
    BY <1>1, <1>2, SeqDef
  <1>4. /\ DOMAIN SubSeq(games, a, b) = 1..(b + 1 - a)
        /\ \A k \in 1..(b + 1 - a) : SubSeq(games, a, b)[k] = games[a + k - 1]
    BY PartOf
  <1> HIDE DEF S
  <1>5. /\ SubSeq(Updates(games), a, b) \in Seq(S)
        /\ DOMAIN SubSeq(Updates(games), a, b) = 1..(b + 1 - a)
        /\ \A k \in 1..(b + 1 - a) : SubSeq(Updates(games), a, b)[k] = Updates(games)[a + k - 1]
    BY <1>3, PartOf
  <1>6. \A k \in 1..(b + 1 - a) :
           Updates(SubSeq(games, a, b))[k] = SubSeq(Updates(games), a, b)[k]
    BY <1>1, <1>4, <1>5 DEF Updates
  <1>7. Updates(SubSeq(games, a, b)) = [k \in 1..(b + 1 - a) |-> Updates(SubSeq(games, a, b))[k]]
    BY <1>4 DEF Updates
  <1>8. SubSeq(Updates(games), a, b)
          = [k \in 1..(b + 1 - a) |-> SubSeq(Updates(games), a, b)[k]]
    BY <1>5, LenProperties
  <1> QED
    BY <1>6, <1>7, <1>8

LEMMA MovesOfPart ==
    ASSUME NEW games \in Seq(GameType),
           NEW a \in Nat \ {0}, NEW b \in Nat, b <= Len(games), a <= b + 1
    PROVE  Moves(SubSeq(games, a, b)) = SubSeq(Moves(games), a, b)
  <1> DEFINE S == {Move(games[k]) : k \in DOMAIN games}
  <1>1. Len(games) \in Nat /\ DOMAIN games = 1..Len(games)
    BY LenProperties
  <1>2. Moves(games) \in [1..Len(games) -> S]
    BY <1>1 DEF Moves
  <1>3. Moves(games) \in Seq(S) /\ Len(Moves(games)) = Len(games)
    BY <1>1, <1>2, SeqDef
  <1>4. /\ DOMAIN SubSeq(games, a, b) = 1..(b + 1 - a)
        /\ \A k \in 1..(b + 1 - a) : SubSeq(games, a, b)[k] = games[a + k - 1]
    BY PartOf
  <1> HIDE DEF S
  <1>5. /\ SubSeq(Moves(games), a, b) \in Seq(S)
        /\ DOMAIN SubSeq(Moves(games), a, b) = 1..(b + 1 - a)
        /\ \A k \in 1..(b + 1 - a) : SubSeq(Moves(games), a, b)[k] = Moves(games)[a + k - 1]
    BY <1>3, PartOf
  <1>6. \A k \in 1..(b + 1 - a) :
           Moves(SubSeq(games, a, b))[k] = SubSeq(Moves(games), a, b)[k]
    BY <1>1, <1>4, <1>5 DEF Moves
  <1>7. Moves(SubSeq(games, a, b)) = [k \in 1..(b + 1 - a) |-> Moves(SubSeq(games, a, b))[k]]
    BY <1>4 DEF Moves
  <1>8. SubSeq(Moves(games), a, b)
          = [k \in 1..(b + 1 - a) |-> SubSeq(Moves(games), a, b)[k]]
    BY <1>5, LenProperties
  <1> QED
    BY <1>6, <1>7, <1>8

(* Playing from the first plays every match. *)
LEMMA FreshPlaysAll ==
    ASSUME NEW games \in Seq(GameType)
    PROVE  Fresh(games) = [engine |-> Updates(games), log |-> Moves(games)]
  <1>1. Len(games) \in Nat
    BY LenProperties
  <1>4. SubSeq(games, 0 + 1, Len(games)) = games
    <2>1. /\ SubSeq(games, 1, Len(games)) \in Seq(GameType)
          /\ Len(SubSeq(games, 1, Len(games))) = Len(games) + 1 - 1
          /\ \A k \in 1..(Len(games) + 1 - 1) : SubSeq(games, 1, Len(games))[k] = games[1 + k - 1]
      BY <1>1, PartOf
    <2>2. Len(games) + 1 - 1 = Len(games) /\ \A k \in Nat : 1 + k - 1 = k
      BY <1>1
    <2>3. SubSeq(games, 1, Len(games)) = games
      BY <1>1, <2>1, <2>2, SeqEqual
    <2> QED
      BY <2>3
  <1>5. <<>> \o Updates(games) = Updates(games) /\ <<>> \o Moves(games) = Moves(games)
    BY UpdatesOf, MovesOf, ConcatEmptySeq
  <1> QED
    BY <1>4, <1>5 DEF Fresh, RunReplay

(* Playing on after the first n matches plays every match. *)
LEMMA PlayingOn ==
    ASSUME NEW games \in Seq(GameType), NEW n \in 0..Len(games)
    PROVE  RunReplay(games, Updates(SubSeq(games, 1, n)), Moves(SubSeq(games, 1, n)), n)
             = Fresh(games)
  <1>1. Len(games) \in Nat /\ n \in Nat /\ n <= Len(games)
    BY LenProperties
  <1>2. n + 1 \in Nat \ {0} /\ n + 1 <= Len(games) + 1 /\ 1 \in Nat \ {0} /\ 1 <= n + 1
    BY <1>1
  <1>3. Len(games) <= Len(games)
    BY <1>1
  <1>4. /\ Updates(SubSeq(games, 1, n)) = SubSeq(Updates(games), 1, n)
        /\ Updates(SubSeq(games, n + 1, Len(games))) = SubSeq(Updates(games), n + 1, Len(games))
    BY <1>1, <1>2, <1>3, UpdatesOfPart
  <1>5. /\ Moves(SubSeq(games, 1, n)) = SubSeq(Moves(games), 1, n)
        /\ Moves(SubSeq(games, n + 1, Len(games))) = SubSeq(Moves(games), n + 1, Len(games))
    BY <1>1, <1>2, <1>3, MovesOfPart
  <1>6. SubSeq(Updates(games), 1, n) \o SubSeq(Updates(games), n + 1, Len(games))
          = Updates(games)
    BY UpdatesOf, TwoParts
  <1>7. SubSeq(Moves(games), 1, n) \o SubSeq(Moves(games), n + 1, Len(games)) = Moves(games)
    BY MovesOf, TwoParts
  <1> QED
    BY <1>4, <1>5, <1>6, <1>7, FreshPlaysAll DEF RunReplay

-----------------------------------------------------------------------------
(* Going on from an entry.                                                 *)

(* A kept list that fits is the beginning of the list, dates included: the  *)
(* mark has the number, and the number tells the date.                     *)
LEMMA FittingListIsPart ==
    ASSUME NEW games \in DatedLists, NEW old \in DatedLists, IsPrefix(Marks(old), Marks(games))
    PROVE  Len(old) <= Len(games) /\ old = SubSeq(games, 1, Len(old))
  <1>1. /\ games \in Seq(GameType) /\ old \in Seq(GameType)
        /\ Len(games) \in Nat /\ DOMAIN games = 1..Len(games)
        /\ Len(old) \in Nat /\ DOMAIN old = 1..Len(old)
    BY LenProperties DEF DatedLists
  <1>2. /\ Len(old) <= Len(games)
        /\ SubSeq(Marks(old), 1, Len(old)) = SubSeq(Marks(games), 1, Len(old))
    BY <1>1, MarksOf DEF IsPrefix
  <1>3. ASSUME NEW k \in 1..Len(old) PROVE old[k] = games[k]
    <2>1. 1 + k - 1 = k /\ k \in 1..(Len(old) + 1 - 1) /\ k \in 1..Len(games)
      BY <1>1, <1>2
    <2>2. SubSeq(Marks(old), 1, Len(old))[k] = Marks(old)[k]
      BY <1>1, <2>1, MarksOf, PartOf
    <2>3. SubSeq(Marks(games), 1, Len(old))[k] = Marks(games)[k]
      BY <1>1, <1>2, <2>1, MarksOf, PartOf
    <2>4. Mark(old[k]) = Mark(games[k])
      BY <1>1, <1>2, <2>1, <2>2, <2>3 DEF Marks
    <2>5. old[k] \in GameType /\ games[k] \in GameType
      BY <1>1, <2>1, ElementOfSeq
    <2>6. old[k].day = old[k].no.day /\ games[k].day = games[k].no.day
      BY <1>1, <2>1 DEF DatedLists
    <2> QED
      BY <2>4, <2>5, <2>6 DEF Mark, GameType
  <1>4. /\ SubSeq(games, 1, Len(old)) \in Seq(GameType)
        /\ Len(SubSeq(games, 1, Len(old))) = Len(old)
        /\ \A k \in 1..Len(old) : SubSeq(games, 1, Len(old))[k] = games[k]
    <2>1. Len(old) + 1 - 1 = Len(old) /\ \A k \in 1..Len(old) : 1 + k - 1 = k
      BY <1>1
    <2> QED
      BY <1>1, <1>2, <2>1, PartOf
  <1> QED
    BY <1>1, <1>2, <1>3, <1>4, SeqEqual

(* An entry is its list and what playing it gives. *)
LEMMA EntryKept ==
    ASSUME NEW e \in TrueEntries
    PROVE  \E byRace \in BOOLEAN, old \in DatedLists :
              /\ e.byRace = byRace
              /\ e.marks = Marks(old)
              /\ e.engine = Updates(old)
              /\ e.log = Moves(old)
  <1>1. PICK byRace \in BOOLEAN, old \in DatedLists : e = Entry(byRace, old, Fresh(old))
    BY DEF TrueEntries
  <1>2. Fresh(old) = [engine |-> Updates(old), log |-> Moves(old)]
    BY FreshPlaysAll DEF DatedLists
  <1> QED
    BY <1>1, <1>2 DEF Entry

LEMMA KeptEntries ==
    ASSUME kept \in Seq(TrueEntries)
    PROVE  /\ Len(kept) \in Nat
           /\ DOMAIN kept = 1..Len(kept)
           /\ \A k \in DOMAIN kept : kept[k] \in TrueEntries
           /\ \A k \in DOMAIN kept : Len(kept[k].marks) \in Nat
  <1>1. /\ Len(kept) \in Nat
        /\ DOMAIN kept = 1..Len(kept)
        /\ \A k \in DOMAIN kept : kept[k] \in TrueEntries
    BY LenProperties, ElementOfSeq
  <1>2. ASSUME NEW k \in DOMAIN kept PROVE Len(kept[k].marks) \in Nat
    <2>1. PICK old \in DatedLists : kept[k].marks = Marks(old)
      BY <1>1, EntryKept
    <2> QED
      BY <2>1, MarksOf, LenProperties DEF DatedLists
  <1> QED
    BY <1>1, <1>2

(* The entry a reader goes on from fits, and none that fits is longer. *)
LEMMA BestFits ==
    ASSUME kept \in Seq(TrueEntries), NEW byRace \in BOOLEAN, NEW marks, Len(marks) \in Nat
    PROVE  \/ Best(byRace, marks) = 0 /\ Fitting(byRace, marks) = {}
           \/ /\ Best(byRace, marks) \in Fitting(byRace, marks)
              /\ Best(byRace, marks) # 0
              /\ \A l \in Fitting(byRace, marks) :
                    Len(kept[l].marks) <= Len(kept[Best(byRace, marks)].marks)
  <1> DEFINE fitting == Fitting(byRace, marks)
             lengths == {Len(kept[k].marks) : k \in fitting}
             longest == {k \in fitting : \A l \in fitting :
                            Len(kept[l].marks) <= Len(kept[k].marks)}
  <1>1. fitting \in SUBSET (Nat \ {0})
    BY KeptEntries DEF Fitting
  <1>2. lengths \in SUBSET Nat
    BY KeptEntries DEF Fitting
  <1>3. \A n \in lengths : n <= Len(marks)
    BY DEF Fitting, IsPrefix
  <1>4. CASE fitting = {}
    BY <1>4 DEF Best
  <1>5. CASE fitting # {}
    <2>1. PICK top \in lengths : \A n \in lengths : n <= top
      <3>1. lengths # {}
        BY <1>5
      <3> HIDE DEF lengths
      <3> QED
        BY <1>2, <1>3, <3>1, GreatestNumber
    <2>2. longest # {} /\ longest \in SUBSET Nat
      BY <1>1, <2>1
    <2>3. PICK first \in longest : \A k \in longest : first <= k
      <3> HIDE DEF longest
      <3> QED
        BY <2>2, LeastNumber
    <2>4. Min(longest) \in longest
      <3> HIDE DEF longest
      <3> QED
        BY <2>3 DEF Min
    <2>5. Best(byRace, marks) = Min(longest)
      BY <1>5 DEF Best
    <2> QED
      BY <1>1, <2>4, <2>5
  <1> QED
    BY <1>4, <1>5

(* A reader gets what playing every match gives. *)
LEMMA ReplayedIsFresh ==
    ASSUME kept \in Seq(TrueEntries), NEW byRace \in BOOLEAN, NEW games \in DatedLists
    PROVE  Replayed(byRace, games) = Fresh(games)
  <1> DEFINE best == Best(byRace, Marks(games))
  <1>1. games \in Seq(GameType) /\ Len(games) \in Nat /\ Len(Marks(games)) = Len(games)
    BY MarksOf, LenProperties DEF DatedLists
  <1>2. CASE best = 0
    BY <1>2 DEF Replayed, Fresh
  <1>3. CASE best # 0
    <2>1. best \in Fitting(byRace, Marks(games))
      BY <1>1, <1>3, BestFits
    <2>2. PICK old \in DatedLists :
             /\ kept[best].marks = Marks(old)
             /\ kept[best].engine = Updates(old)
             /\ kept[best].log = Moves(old)
      BY <2>1, KeptEntries, EntryKept DEF Fitting
    <2>3. IsPrefix(Marks(old), Marks(games))
      BY <2>1, <2>2 DEF Fitting
    <2>4. Len(old) <= Len(games) /\ old = SubSeq(games, 1, Len(old))
      BY <2>3, FittingListIsPart
    <2>5. Len(old) \in 0..Len(games) /\ Len(Marks(old)) = Len(old)
      <3>1. old \in Seq(GameType)
        BY DEF DatedLists
      <3>2. Len(old) \in Nat /\ Len(Marks(old)) = Len(old)
        BY <3>1, MarksOf, LenProperties
      <3> QED
        BY <1>1, <2>4, <3>2
    <2>6. Replayed(byRace, games) = RunReplay(games, Updates(old), Moves(old), Len(old))
      BY <1>3, <2>2, <2>5 DEF Replayed
    <2> HIDE DEF best
    <2>7. RunReplay(games, Updates(SubSeq(games, 1, Len(old))),
                    Moves(SubSeq(games, 1, Len(old))), Len(old)) = Fresh(games)
      BY <1>1, <2>5, PlayingOn
    <2> QED
      BY <2>4, <2>6, <2>7
  <1> QED
    BY <1>2, <1>3

-----------------------------------------------------------------------------
(* The memory after a reading.                                             *)

LEMMA Removed ==
    ASSUME NEW S, NEW s \in Seq(S), NEW i \in 1..Len(s)
    PROVE  /\ RemoveAt(s, i) \in Seq(S)
           /\ Len(RemoveAt(s, i)) = Len(s) - 1
           /\ \A k \in 1..(Len(s) - 1) : RemoveAt(s, i)[k] = s[IF k < i THEN k ELSE k + 1]
  <1> DEFINE head == SubSeq(s, 1, i - 1)
             tail == SubSeq(s, i + 1, Len(s))
  <1>1. /\ Len(s) \in Nat /\ i \in Nat /\ 1 <= i /\ i <= Len(s)
        /\ i - 1 \in Nat /\ i - 1 <= Len(s) /\ 1 <= (i - 1) + 1
        /\ i + 1 \in Nat \ {0} /\ i + 1 <= Len(s) + 1
    BY LenProperties
  <1>2. /\ head \in Seq(S) /\ Len(head) = (i - 1) + 1 - 1
        /\ \A k \in 1..((i - 1) + 1 - 1) : head[k] = s[1 + k - 1]
    BY <1>1, PartOf
  <1>3. /\ tail \in Seq(S) /\ Len(tail) = Len(s) + 1 - (i + 1)
        /\ \A k \in 1..(Len(s) + 1 - (i + 1)) : tail[k] = s[(i + 1) + k - 1]
    <2>1. Len(s) <= Len(s)
      BY <1>1
    <2> QED
      BY <1>1, <2>1, PartOf
  <1> HIDE DEF head, tail
  <1>4. \A m \in Nat : m + 1 - (i + 1) = m - i
    BY <1>1
  <1>5. /\ (i - 1) + 1 - 1 = i - 1
        /\ \A k \in Nat : 1 + k - 1 = k /\ (i + 1) + k - 1 = i + k
    BY <1>1
  <1>6. /\ Len(head) = i - 1 /\ Len(tail) = Len(s) - i
        /\ \A k \in 1..(i - 1) : head[k] = s[k]
        /\ \A k \in 1..(Len(s) - i) : tail[k] = s[i + k]
    <2>1. Len(s) + 1 - (i + 1) = Len(s) - i
      BY <1>1, <1>4
    <2>2. Len(head) = i - 1 /\ \A k \in 1..(i - 1) : k \in Nat /\ head[k] = s[1 + k - 1]
      BY <1>1, <1>2, <1>5
    <2>3. Len(tail) = Len(s) - i /\ \A k \in 1..(Len(s) - i) : k \in Nat /\ tail[k] = s[(i + 1) + k - 1]
      BY <1>1, <1>3, <2>1
    <2> QED
      BY <1>5, <2>2, <2>3
  <1>7. /\ head \o tail \in Seq(S)
        /\ Len(head \o tail) = Len(s) - 1
        /\ \A k \in 1..(Len(s) - 1) :
              (head \o tail)[k] = IF k <= i - 1 THEN head[k] ELSE tail[k - (i - 1)]
    <2>1. Len(head) + Len(tail) = Len(s) - 1
      BY <1>1, <1>6
    <2>2. /\ head \o tail \in Seq(S)
          /\ Len(head \o tail) = Len(head) + Len(tail)
          /\ \A k \in 1..(Len(head) + Len(tail)) :
                (head \o tail)[k] = IF k <= Len(head) THEN head[k] ELSE tail[k - Len(head)]
      BY <1>2, <1>3, ConcatProperties
    <2> QED
      BY <1>6, <2>1, <2>2
  <1>8. ASSUME NEW k \in 1..(Len(s) - 1)
        PROVE  (head \o tail)[k] = s[IF k < i THEN k ELSE k + 1]
    <2>1. CASE k < i
      BY <1>1, <1>6, <1>7, <2>1
    <2>2. CASE ~ (k < i)
      <3>1. k - (i - 1) \in 1..(Len(s) - i) /\ i + (k - (i - 1)) = k + 1 /\ ~ (k <= i - 1)
        BY <1>1, <2>2
      <3> QED
        BY <1>6, <1>7, <2>2, <3>1
    <2> QED
      BY <2>1, <2>2
  <1> QED
    BY <1>7, <1>8 DEF RemoveAt, head, tail

(* The entries that are left are of other lists, and of one list each. *)
Left(byRace, games) ==
    LET best == Best(byRace, Marks(games))
    IN  IF best = 0 THEN kept ELSE RemoveAt(kept, best)

LEMMA LeftEntries ==
    ASSUME kept \in Seq(TrueEntries), OneEntryPerList,
           NEW byRace \in BOOLEAN, NEW games \in DatedLists
    PROVE  /\ Left(byRace, games) \in Seq(TrueEntries)
           /\ \A k, l \in DOMAIN Left(byRace, games) :
                 /\ Left(byRace, games)[k].byRace = Left(byRace, games)[l].byRace
                 /\ Left(byRace, games)[k].marks = Left(byRace, games)[l].marks
                 => k = l
           /\ \A k \in DOMAIN Left(byRace, games) :
                 ~ (/\ Left(byRace, games)[k].byRace = byRace
                    /\ Left(byRace, games)[k].marks = Marks(games))
  <1> DEFINE marks == Marks(games)
             best  == Best(byRace, marks)
             left  == Left(byRace, games)
  <1>1. /\ games \in Seq(GameType) /\ marks \in Seq({Mark(g) : g \in GameType})
        /\ Len(marks) \in Nat
    BY MarksOf, LenProperties DEF DatedLists
  <1>2. /\ Len(kept) \in Nat /\ DOMAIN kept = 1..Len(kept)
        /\ \A k \in DOMAIN kept : Len(kept[k].marks) \in Nat
    BY KeptEntries
  <1>3. ASSUME NEW k \in DOMAIN kept, kept[k].byRace = byRace, kept[k].marks = marks
        PROVE  k = best
    <2>1. k \in Fitting(byRace, marks)
      <3>1. IsPrefix(marks, marks)
        BY <1>1 DEF IsPrefix
      <3> QED
        BY <1>3, <3>1 DEF Fitting
    <2>2. best \in Fitting(byRace, marks) /\ Len(kept[k].marks) <= Len(kept[best].marks)
      BY <1>1, <2>1, BestFits
    <2> HIDE DEF best
    <2>3. PICK old \in DatedLists : kept[best].marks = Marks(old)
      BY <2>2, KeptEntries, EntryKept DEF Fitting
    <2>4. best \in DOMAIN kept /\ kept[best].byRace = byRace /\ IsPrefix(Marks(old), marks)
      BY <2>2, <2>3 DEF Fitting
    <2>5. Len(Marks(old)) <= Len(marks)
      BY <2>4 DEF IsPrefix
    <2>6. Len(Marks(old)) = Len(marks)
      BY <1>1, <1>2, <1>3, <2>2, <2>3, <2>4, <2>5
    <2>7. old \in Seq(GameType) /\ Len(old) = Len(games)
      BY <1>1, <2>6, MarksOf DEF DatedLists
    <2>8. old = SubSeq(games, 1, Len(games))
      BY <2>4, <2>7, FittingListIsPart
    <2>9. old = games
      <3>1. games = SubSeq(games, 1, Len(games))
        <4>1. IsPrefix(Marks(games), Marks(games))
          BY <1>1 DEF IsPrefix
        <4> QED
          BY <4>1, FittingListIsPart
      <3> QED
        BY <2>8, <3>1
    <2> QED
      BY <1>3, <2>3, <2>4, <2>9 DEF OneEntryPerList
  <1>4. CASE best = 0
    <2>1. left = kept
      BY <1>4 DEF Left
    <2>2. \A k \in DOMAIN kept : k # 0
      BY <1>2
    <2> QED
      BY <1>3, <1>4, <2>1, <2>2 DEF OneEntryPerList
  <1>5. CASE best # 0
    <2>1. best \in 1..Len(kept)
      BY <1>1, <1>2, <1>5, BestFits DEF Fitting
    <2>2. left = RemoveAt(kept, best)
      BY <1>5 DEF Left
    <2> DEFINE from(k) == IF k < best THEN k ELSE k + 1
    <2> HIDE DEF best, left
    <2>3. /\ left \in Seq(TrueEntries)
          /\ Len(left) = Len(kept) - 1
          /\ \A k \in 1..(Len(kept) - 1) : left[k] = kept[from(k)]
      BY <2>1, <2>2, Removed
    <2>4. DOMAIN left = 1..(Len(kept) - 1)
      BY <2>3, LenProperties
    <2>5. \A k \in DOMAIN left : from(k) \in DOMAIN kept /\ from(k) # best
      BY <1>2, <2>1, <2>4
    <2>6. \A k, l \in DOMAIN left : from(k) = from(l) => k = l
      BY <2>1, <2>4
    <2> HIDE DEF from
    <2>7. \A k, l \in DOMAIN left :
             left[k].byRace = left[l].byRace /\ left[k].marks = left[l].marks => k = l
      BY <2>3, <2>4, <2>5, <2>6 DEF OneEntryPerList
    <2>8. \A k \in DOMAIN left : ~ (left[k].byRace = byRace /\ left[k].marks = marks)
      BY <1>3, <2>3, <2>4, <2>5
    <2> QED
      BY <2>3, <2>7, <2>8 DEF left
  <1> QED
    BY <1>4, <1>5

(* After a reading the memory holds true entries, one of a list, and not    *)
(* too many.                                                               *)
LEMMA ReadingKeeps ==
    ASSUME CacheInv, NEW byRace \in BOOLEAN, NEW games \in DatedLists,
           kept' = KeptAfter(byRace, games)
    PROVE  kept' \in Seq(TrueEntries) /\ Len(kept') <= MaxKept /\ OneEntryPerList'
  <1> DEFINE left  == Left(byRace, games)
             entry == Entry(byRace, games, Replayed(byRace, games))
             added == Append(left, entry)
             first == Max({1, Len(added) - MaxKept + 1})
  <1>1. /\ left \in Seq(TrueEntries)
        /\ \A k, l \in DOMAIN left :
              left[k].byRace = left[l].byRace /\ left[k].marks = left[l].marks => k = l
        /\ \A k \in DOMAIN left : ~ (left[k].byRace = byRace /\ left[k].marks = Marks(games))
    BY LeftEntries DEF CacheInv
  <1>2. /\ entry \in TrueEntries
        /\ entry.byRace = byRace /\ entry.marks = Marks(games)
    BY ReplayedIsFresh DEF CacheInv, TrueEntries, Entry
  <1>3. kept' = SubSeq(added, first, Len(added))
    BY DEF KeptAfter, Left
  <1> HIDE DEF left, entry
  <1>4. Len(left) \in Nat /\ DOMAIN left = 1..Len(left)
    BY <1>1, LenProperties
  <1>5. /\ added \in Seq(TrueEntries) /\ Len(added) = Len(left) + 1
        /\ \A k \in 1..Len(left) : added[k] = left[k]
        /\ added[Len(left) + 1] = entry
    BY <1>1, <1>2, AppendProperties
  <1> HIDE DEF added
  <1>6. \A k, l \in 1..Len(added) :
           added[k].byRace = added[l].byRace /\ added[k].marks = added[l].marks => k = l
    <2>1. \A k \in 1..Len(added) : k \in DOMAIN left \/ k = Len(left) + 1
      BY <1>4, <1>5
    <2> QED
      BY <1>1, <1>2, <1>4, <1>5, <2>1
  <1>7. first \in Nat \ {0} /\ Len(added) - MaxKept + 1 <= first /\ first <= Len(added)
    <2> DEFINE excess == Len(added) - MaxKept + 1
    <2>1. excess \in Int /\ Len(added) \in Nat \ {0} /\ excess <= Len(added)
      BY <1>4, <1>5, BoundAssumption
    <2> HIDE DEF excess
    <2>2. Max({1, excess}) = IF excess >= 1 THEN excess ELSE 1
      BY <2>1 DEF Max
    <2>3. first = Max({1, excess})
      BY DEF excess
    <2>4. first \in Nat \ {0} /\ excess <= first /\ first <= Len(added)
      BY <2>1, <2>2, <2>3
    <2> QED
      BY <2>4 DEF excess
  <1> HIDE DEF first
  <1> DEFINE n == Len(added) + 1 - first
  <1>8. /\ kept' \in Seq(TrueEntries) /\ Len(kept') = n
        /\ DOMAIN kept' = 1..n
        /\ \A k \in 1..n : kept'[k] = added[first + k - 1]
    <2>1. Len(added) \in Nat /\ Len(added) <= Len(added) /\ first <= Len(added) + 1
      BY <1>4, <1>5, <1>7
    <2> QED
      BY <1>3, <1>5, <1>7, <2>1, PartOf
  <1>9. n <= MaxKept
    BY <1>4, <1>5, <1>7, BoundAssumption
  <1>10. /\ \A k \in 1..n : first + k - 1 \in 1..Len(added)
         /\ \A k, l \in 1..n : first + k - 1 = first + l - 1 => k = l
    BY <1>4, <1>5, <1>7
  <1> HIDE DEF n
  <1>11. OneEntryPerList'
    <2>1. SUFFICES ASSUME NEW k \in 1..n, NEW l \in 1..n,
                          kept'[k].byRace = kept'[l].byRace, kept'[k].marks = kept'[l].marks
                   PROVE  k = l
      BY <1>8 DEF OneEntryPerList
    <2>2. first + k - 1 = first + l - 1
      BY <1>6, <1>8, <1>10, <2>1
    <2> QED
      BY <1>10, <2>2
  <1> QED
    BY <1>8, <1>9, <1>11

-----------------------------------------------------------------------------
(* The theorems.                                                           *)

LEMMA InitCacheInv == InitCache => CacheInv
  <1> SUFFICES ASSUME InitCache PROVE CacheInv
    OBVIOUS
  <1>1. RegistryInv
    BY InitRegistry DEF InitCache
  <1>2. kept \in Seq(TrueEntries) /\ Len(kept) = 0 /\ DOMAIN kept = {}
    BY EmptySeq DEF InitCache
  <1> QED
    BY <1>1, <1>2, BoundAssumption DEF InitCache, CacheInv, OneEntryPerList

LEMMA NextCacheInv == CacheInv /\ [NextCache]_allVars => CacheInv'
  <1> SUFFICES ASSUME CacheInv, [NextCache]_allVars PROVE CacheInv'
    OBVIOUS
  <1>1. CASE Write
    <2>1. RegistryInv'
      BY <1>1, NextRegistry DEF CacheInv, Write
    <2>2. writes' \in 0..MaxWrites /\ kept' = kept
      BY <1>1, BoundAssumption DEF CacheInv, Write
    <2> QED
      BY <2>1, <2>2 DEF CacheInv, OneEntryPerList
  <1>2. ASSUME UNCHANGED <<alias, match, writes>>
        PROVE  RegistryInv' /\ writes' \in 0..MaxWrites
    <2>1. UNCHANGED vars
      BY <1>2 DEF vars
    <2> QED
      BY <1>2, <2>1, NextRegistry DEF CacheInv
  <1>3. ASSUME NEW byRace \in BOOLEAN, NEW to \in Day, ReadRatings(byRace, to)
        PROVE  CacheInv'
    <2>1. PICK games \in Games(byRace, to) : kept' = KeptAfter(byRace, games)
      BY <1>3 DEF ReadRatings
    <2>2. games \in DatedLists
      BY <2>1, GamesAreDated DEF CacheInv
    <2>3. kept' \in Seq(TrueEntries) /\ Len(kept') <= MaxKept /\ OneEntryPerList'
      BY <2>1, <2>2, ReadingKeeps
    <2> QED
      BY <1>2, <1>3, <2>3 DEF ReadRatings, CacheInv
  <1>4. CASE Restart
    <2>1. kept' \in Seq(TrueEntries) /\ Len(kept') = 0 /\ DOMAIN kept' = {}
      BY <1>4, EmptySeq DEF Restart
    <2> QED
      BY <1>2, <1>4, <2>1, BoundAssumption DEF Restart, CacheInv, OneEntryPerList
  <1>5. CASE UNCHANGED allVars
    BY <1>2, <1>5 DEF allVars, CacheInv, OneEntryPerList
  <1> QED
    BY <1>1, <1>3, <1>4, <1>5 DEF NextCache

(* Every entry holds what playing its list from the first gives, and there  *)
(* is one entry of a list (_replay_from_cache).                            *)
THEOREM CacheInvariance == SpecCache => []CacheInv
  <1>1. InitCache => CacheInv
    BY InitCacheInv
  <1>2. CacheInv /\ [NextCache]_allVars => CacheInv'
    BY NextCacheInv
  <1> QED
    BY <1>1, <1>2, PTL DEF SpecCache

(* The memory is as long as it may be (_REPLAY_CACHE_MAX).                  *)
THEOREM CacheTypeCorrect == SpecCache => []CacheTypeOK
  <1>1. CacheInv => CacheTypeOK
    BY DEF CacheInv, CacheTypeOK, RegistryInv
  <1> QED
    BY <1>1, CacheInvariance, PTL

(* Nobody is shown ratings of matches or names that have changed since      *)
(* (_replay_from_cache): whatever was written, kept, thrown away or lost by *)
(* a restart.                                                              *)
THEOREM RatingsAreFresh == SpecCache => []AnswersAreFresh
  <1>1. CacheInv => AnswersAreFresh
    BY GamesAreDated, ReplayedIsFresh DEF CacheInv, AnswersAreFresh
  <1> QED
    BY <1>1, CacheInvariance, PTL

(* Reading a list again takes no second place in the memory.               *)
THEOREM ListsAreKeptOnce == SpecCache => []OneEntryPerList
  <1>1. CacheInv => OneEntryPerList
    BY DEF CacheInv
  <1> QED
    BY <1>1, CacheInvariance, PTL

=============================================================================
