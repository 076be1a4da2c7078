---------------------------- MODULE RankingProofs ---------------------------
(* Theorems about RankingShift, for every set of standings and of          *)
(* operators, and any number of slots and rows.  The first part needs no   *)
(* assumption on how sessions overlap.                                     *)
EXTENDS RankingShift, NumberLemmas

(* The numbers in use have a greatest one. *)
Bounded == \E n \in Nat : \A k \in Taken : k <= n

(* Two writers share a number only when they rewrite the same baseline.    *)
Apart ==
    /\ \A s \in Open, r \in rows :
          txn[s].born = r.born => txn[s].reason = "seed" /\ r.reason = "seed"
    /\ \A s, u \in Open :
          s # u /\ txn[s].born = txn[u].born => txn[s].reason = "seed" /\ txn[u].reason = "seed"

RowsInv == TypeOK /\ Bounded /\ Apart

LEMMA TakenType ==
    ASSUME TypeOK
    PROVE  Taken \in SUBSET Nat
  BY DEF TypeOK, Taken, Open, RowType

(* A new number is greater than every number in use. *)
LEMMA NextIsNew ==
    ASSUME TypeOK, Bounded
    PROVE  NextBorn \in Nat /\ \A k \in Taken : k < NextBorn
  <1>1. CASE Taken = {}
    BY <1>1 DEF NextBorn
  <1>2. CASE Taken # {}
    <2>1. PICK m \in Taken : \A k \in Taken : k <= m
      BY <1>2, TakenType, GreatestNumber DEF Bounded
    <2>2. /\ Max(Taken) \in Taken
          /\ \A k \in Taken : Max(Taken) >= k
      <3>1. \A k \in Taken : m >= k
        BY <2>1, TakenType
      <3> QED
        BY <2>1, <3>1 DEF Max
    <2>3. NextBorn = Max(Taken) + 1
      BY <1>2 DEF NextBorn
    <2> QED
      BY <2>2, <2>3, TakenType
  <1> QED
    BY <1>1, <1>2

LEMMA LatestIsLast ==
    ASSUME TypeOK, Bounded, rows # {}
    PROVE  Latest \in rows /\ \A r \in rows : r.born <= Latest.born
  <1> DEFINE B == {r.born : r \in rows}
  <1>1. B \in SUBSET Nat /\ B # {}
    BY DEF TypeOK, RowType
  <1>2. PICK n \in Nat : \A k \in B : k <= n
    BY DEF Bounded, Taken
  <1>3. PICK m \in B : \A k \in B : k <= m
    BY <1>1, <1>2, GreatestNumber
  <1>4. \E r \in rows : \A q \in rows : q.born <= r.born
    BY <1>3
  <1> QED
    BY <1>4 DEF Latest

(* What recompute_daily is going to write. *)
LEMMA DailyRowType ==
    ASSUME RowsInv
    PROVE  /\ DailyRow \in RowType
           /\ DailyRow.born = NextBorn
           /\ DailyRow.at = now
           /\ DailyRow.table = table
           /\ DailyRow.reason = "daily" => /\ rows # {}
                                           /\ Month(Latest.at) = Month(now)
                                           /\ DailyRow.from = Latest.table
           /\ DailyRow.reason = "seed" /\ rows # {} => Month(Latest.at) # Month(now)
  <1>1. NextBorn \in Nat
    BY NextIsNew DEF RowsInv
  <1>2. ~ Baseline => Latest \in rows /\ Latest.table \in Table
    BY LatestIsLast DEF RowsInv, TypeOK, RowType, Baseline
  <1>3. CASE Baseline
    BY <1>1, <1>3 DEF RowsInv, TypeOK, RowType, DailyRow, Row, Baseline
  <1>4. CASE ~ Baseline
    BY <1>1, <1>2, <1>4 DEF RowsInv, TypeOK, RowType, DailyRow, Row, Base, Baseline
  <1> QED
    BY <1>3, <1>4

(* What reseed_now is going to write. *)
Reseeded ==
    IF rows # {} /\ Reusable(Latest) THEN [Latest EXCEPT !.table = table] ELSE Row("seed", None)

LEMMA ReseededType ==
    ASSUME RowsInv
    PROVE  /\ Reseeded \in RowType
           /\ Reseeded.reason = "seed"
           /\ \/ /\ Reseeded.born = NextBorn
                 /\ Reseeded.at = now
                 /\ rows # {} => ~ Reusable(Latest)
              \/ /\ rows # {} /\ Latest \in rows /\ Latest.reason = "seed"
                 /\ Reseeded.born = Latest.born
                 /\ Reseeded.at = Latest.at
  <1>1. NextBorn \in Nat
    BY NextIsNew DEF RowsInv
  <1>2. rows # {} => Latest \in rows /\ Latest \in RowType
    BY LatestIsLast DEF RowsInv, TypeOK
  <1>3. CASE rows # {} /\ Reusable(Latest)
    BY <1>2, <1>3 DEF RowsInv, TypeOK, RowType, Reseeded, Reusable
  <1>4. CASE ~ (rows # {} /\ Reusable(Latest))
    BY <1>1, <1>4 DEF RowsInv, TypeOK, RowType, Reseeded, Row
  <1> QED
    BY <1>3, <1>4

-----------------------------------------------------------------------------
(* RowsInv is inductive.                                                   *)

LEMMA TakenBelow ==
    ASSUME RowsInv, NEW n \in Nat, \A k \in Taken' : k <= n
    PROVE  Bounded'
  BY DEF Bounded

(* A session sets out to write x: a row with a number of its own, or the   *)
(* new form of a baseline.                                                 *)
LEMMA BeginKeeps ==
    ASSUME RowsInv, NEW s \in Session, NEW x \in RowType, up,
           txn' = [txn EXCEPT ![s] = x],
           UNCHANGED <<now, table, rows, up>>,
           lastSlot' \in Slot \cup {None},
           \/ x.born = NextBorn
           \/ \E r \in rows : r.reason = "seed" /\ x.reason = "seed" /\ x.born = r.born
    PROVE  RowsInv'
  <1>1. /\ txn'[s] = x
        /\ \A u \in Session : u # s => txn'[u] = txn[u]
        /\ Open' \subseteq Open \cup {s}
    BY DEF RowsInv, TypeOK, Open
  <1>2. TypeOK'
    BY DEF RowsInv, TypeOK
  <1>3. Bounded'
    <2>1. Taken' \subseteq Taken \cup {NextBorn}
      BY <1>1 DEF Taken, Open
    <2>2. NextBorn \in Nat /\ \A k \in Taken : k <= NextBorn
      BY NextIsNew, TakenType DEF RowsInv
    <2> QED
      BY <2>1, <2>2, TakenBelow
  <1>4. Apart'
    <2>1. CASE x.born = NextBorn
      <3>1. \A k \in Taken : k # x.born
        BY <2>1, NextIsNew, TakenType DEF RowsInv
      <3>2. /\ \A r \in rows : r.born # x.born
            /\ \A u \in Open : txn[u].born # x.born
        BY <3>1 DEF Taken
      <3> QED
        BY <1>1, <3>2 DEF RowsInv, Apart, Open
    <2>2. CASE \E r \in rows : r.reason = "seed" /\ x.reason = "seed" /\ x.born = r.born
      <3>1. PICK r \in rows : r.reason = "seed" /\ x.reason = "seed" /\ x.born = r.born
        BY <2>2
      <3>2. \A q \in rows : q.born = x.born => q.reason = "seed"
        BY <3>1 DEF RowsInv, TypeOK
      <3>3. \A u \in Open : txn[u].born = x.born => txn[u].reason = "seed"
        BY <3>1 DEF RowsInv, Apart
      <3> QED
        BY <1>1, <3>1, <3>2, <3>3 DEF RowsInv, Apart, Open
    <2> QED
      BY <2>1, <2>2
  <1> QED
    BY <1>2, <1>3, <1>4 DEF RowsInv

(* What a session writes keeps its number, and no number is lost. *)
LEMMA CommitKeeps ==
    ASSUME RowsInv, NEW s \in Session, Commit(s)
    PROVE  RowsInv'
  <1>1. /\ txn[s] \in RowType /\ s \in Open
        /\ txn' = [txn EXCEPT ![s] = None]
        /\ rows' = {r \in rows : r.born # txn[s].born} \cup {txn[s]}
        /\ UNCHANGED <<now, table, up>>
    BY DEF RowsInv, TypeOK, Commit, Open
  <1>2. /\ \A u \in Session : u # s => txn'[u] = txn[u]
        /\ Open' = Open \ {s}
    BY <1>1 DEF RowsInv, TypeOK, Open
  <1>3. TypeOK'
    <2>1. lastSlot' \in Slot \cup {None}
      BY <1>1 DEF RowsInv, TypeOK, Commit, RowType
    <2>2. rows' \subseteq RowType /\ \A r, q \in rows' : r.born = q.born => r = q
      BY <1>1 DEF RowsInv, TypeOK
    <2>3. up' /\ txn' \in [Session -> RowType \cup {None}]
      BY <1>1 DEF RowsInv, TypeOK
    <2> QED
      BY <1>1, <2>1, <2>2, <2>3 DEF RowsInv, TypeOK
  <1>4. Bounded'
    <2>1. Taken' \subseteq Taken
      BY <1>1, <1>2 DEF Taken, Open
    <2> QED
      BY <2>1 DEF RowsInv, Bounded
  <1>5. Apart'
    BY <1>1, <1>2 DEF RowsInv, Apart, Open
  <1> QED
    BY <1>3, <1>4, <1>5 DEF RowsInv

LEMMA StepKeepsRows ==
    ASSUME RowsInv, [Next]_vars
    PROVE  RowsInv'
  <1>1. ASSUME NEW s \in Session, up, txn' = [txn EXCEPT ![s] = DailyRow],
               UNCHANGED <<now, table, rows, up, lastSlot>>
        PROVE  RowsInv'
    <2>1. PICK x \in RowType : x = DailyRow
      BY DailyRowType
    <2>2. x.born = NextBorn
      BY <2>1, DailyRowType
    <2>3. lastSlot' \in Slot \cup {None}
      BY <1>1 DEF RowsInv, TypeOK
    <2> QED
      BY <1>1, <2>1, <2>2, <2>3, BeginKeeps
  <1>2. ASSUME NEW s \in Session, up, txn' = [txn EXCEPT ![s] = Reseeded],
               UNCHANGED <<now, table, rows, up, lastSlot>>
        PROVE  RowsInv'
    <2>1. PICK x \in RowType : x = Reseeded
      BY ReseededType
    <2>2. \/ x.born = NextBorn
          \/ \E r \in rows : r.reason = "seed" /\ x.reason = "seed" /\ x.born = r.born
      BY <2>1, ReseededType
    <2>3. lastSlot' \in Slot \cup {None}
      BY <1>2 DEF RowsInv, TypeOK
    <2> QED
      BY <1>2, <2>1, <2>2, <2>3, BeginKeeps
  <1>3. CASE CheckMoved
    BY <1>1, <1>3 DEF CheckMoved, Ready, Session
  <1>4. CASE CheckIdle
    <2>1. /\ UNCHANGED <<now, table, rows, up, txn>>
          /\ lastSlot' = now /\ up
      BY <1>4 DEF CheckIdle, Ready
    <2> QED
      BY <2>1 DEF RowsInv, TypeOK, Bounded, Apart, Taken, Open
  <1>5. CASE \E s \in Clerk : Recompute(s)
    BY <1>1, <1>5 DEF Recompute, Ready, Session
  <1>6. CASE \E s \in Clerk : ReseedNow(s)
    BY <1>2, <1>6 DEF ReseedNow, Reseeded, Ready, Session
  <1>7. CASE \E s \in Session : Commit(s)
    BY <1>7, CommitKeeps
  <1>8. ASSUME Open' \subseteq Open, txn' \in [Session -> RowType \cup {None}],
               \A u \in Open' : txn'[u] = txn[u],
               rows' = rows, TypeOK'
        PROVE  RowsInv'
    <2>1. Taken' \subseteq Taken
      BY <1>8 DEF Taken
    <2>2. Bounded'
      BY <2>1 DEF RowsInv, Bounded
    <2>3. Apart'
      BY <1>8 DEF RowsInv, Apart
    <2> QED
      BY <1>8, <2>2, <2>3 DEF RowsInv
  <1>9. CASE \E s \in Session : Fail(s)
    <2>1. PICK s \in Session : Fail(s)
      BY <1>9
    <2>2. TypeOK'
      BY <2>1 DEF Fail, RowsInv, TypeOK, Open
    <2> QED
      BY <1>8, <2>1, <2>2 DEF Fail, RowsInv, TypeOK, Open
  <1>10. CASE Crash
    <2>1. TypeOK'
      BY <1>10 DEF Crash, RowsInv, TypeOK, Open
    <2> QED
      BY <1>8, <1>10, <2>1 DEF Crash, TypeOK, Open
  <1>11. CASE Boot
    <2>1. UNCHANGED <<now, table, lastSlot, txn>> /\ up' = TRUE /\ Open = {}
      BY <1>11 DEF Boot, RowsInv, TypeOK
    <2>2. Open' = {}
      BY <2>1 DEF Open
    <2>3. CASE rows' = rows
      BY <1>8, <2>1, <2>2, <2>3 DEF RowsInv, TypeOK
    <2>4. CASE rows = {} /\ rows' = {Row("seed", None)}
      <3>1. NextBorn \in Nat
        BY NextIsNew DEF RowsInv
      <3>2. Row("seed", None) \in RowType /\ Row("seed", None).born = NextBorn
        BY <3>1 DEF RowsInv, TypeOK, Row, RowType
      <3>3. TypeOK'
        BY <2>1, <2>2, <2>4, <3>2 DEF RowsInv, TypeOK
      <3>4. Taken' = {NextBorn}
        BY <2>2, <2>4, <3>2 DEF Taken
      <3>5. Bounded'
        BY <3>1, <3>4, TakenBelow
      <3> QED
        BY <2>2, <3>3, <3>5 DEF RowsInv, Apart
    <2> QED
      BY <1>11, <2>3, <2>4 DEF Boot
  <1>12. CASE Tick
    <2>1. now' \in Slot
      BY <1>12, SlotAssumption DEF Tick, RowsInv, TypeOK, Slot
    <2>2. table' \in Table /\ UNCHANGED <<rows, up, lastSlot, txn>>
      BY <1>12 DEF Tick, RowsInv, TypeOK
    <2> QED
      BY <2>1, <2>2 DEF RowsInv, TypeOK, Bounded, Apart, Taken, Open
  <1>13. CASE \E t \in Table : Play(t)
    BY <1>13 DEF Play, RowsInv, TypeOK, Bounded, Apart, Taken, Open
  <1>14. CASE UNCHANGED vars
    BY <1>14 DEF vars, RowsInv, TypeOK, Bounded, Apart, Taken, Open
  <1> QED
    BY <1>3, <1>4, <1>5, <1>6, <1>7, <1>9, <1>10, <1>11, <1>12, <1>13, <1>14 DEF Next

LEMMA InitRows == Init => RowsInv
  <1>1. SUFFICES ASSUME Init PROVE RowsInv
    OBVIOUS
  <1>2. Open = {} /\ Taken = {}
    BY <1>1 DEF Init, Open, Taken
  <1>3. TypeOK
    <2>1. now \in Slot
      BY <1>1, SlotAssumption DEF Init, Slot
    <2>2. txn \in [Session -> RowType \cup {None}]
      BY <1>1 DEF Init
    <2> QED
      BY <1>1, <1>2, <2>1, <2>2 DEF Init, TypeOK
  <1> QED
    BY <1>1, <1>2, <1>3 DEF Init, RowsInv, Bounded, Apart

(* Rows keep their numbers and sessions their rows, however many sessions  *)
(* overlap.                                                                *)
THEOREM RankingTypeCorrect == Spec => []TypeOK
  <1>1. RowsInv => TypeOK
    BY DEF RowsInv
  <1> QED
    BY <1>1, InitRows, StepKeepsRows, PTL DEF Spec

(* A card that has been shown is neither changed nor removed, however many *)
(* sessions overlap: only baselines are rewritten (reseed_now).            *)
THEOREM CardsAreKept == Spec => CardsStay
  <1> DEFINE Kept == \A r \in rows : r.reason = "daily" => r \in rows'
  <1>1. ASSUME RowsInv, [Next]_vars
        PROVE  Kept
    <2>1. ASSUME NEW s \in Session, Commit(s)
          PROVE  Kept
      BY <1>1, <2>1 DEF RowsInv, Apart, Commit, Open
    <2>2. Boot => Kept
      BY DEF Boot
    <2>3. ASSUME \/ CheckMoved \/ CheckIdle
                 \/ \E s \in Clerk : Recompute(s) \/ ReseedNow(s)
                 \/ \E s \in Session : Fail(s)
                 \/ Crash \/ Tick
                 \/ \E t \in Table : Play(t)
                 \/ UNCHANGED vars
          PROVE  rows' = rows
      BY <2>3 DEF CheckMoved, CheckIdle, Recompute, ReseedNow, Fail, Crash, Tick, Play, vars
    <2> QED
      BY <1>1, <2>1, <2>2, <2>3 DEF Next
  <1> QED
    BY <1>1, InitRows, StepKeepsRows, PTL DEF Spec, CardsStay

-----------------------------------------------------------------------------
(* The chain of rows, when sessions do not overlap.                        *)

Solo == \A s, u \in Open : s = u

(* x is a new row behind the last one. *)
Extends(x) ==
    /\ \A r \in rows : r.born < x.born
    /\ x.reason = "daily" => /\ rows # {}
                             /\ Month(Latest.at) = Month(x.at)
                             /\ x.from = Latest.table
                             /\ x.table # Latest.table
    /\ x.reason = "seed" /\ rows # {} =>
          Latest.reason = "daily" \/ Month(Latest.at) # Month(x.at)

(* x is a new form of the last row, a baseline. *)
Rewrites(x) ==
    /\ rows # {} /\ Latest.reason = "seed"
    /\ x.reason = "seed" /\ x.born = Latest.born /\ x.at = Latest.at

(* The scheduler writes into a slot without rows. *)
SlotIsFree == Scheduler \in Open => \A r \in rows : r.at < txn[Scheduler].at

Chain == CardsConnect /\ NoRepeatedCard /\ SeedsDoNotPile

ChainInv ==
    /\ RowsInv
    /\ Solo
    /\ \A s \in Open : Extends(txn[s]) \/ Rewrites(txn[s])
    /\ SlotIsFree
    /\ Chain

LEMMA LatestStays ==
    ASSUME rows' = rows
    PROVE  Latest' = Latest
  BY DEF Latest

LEMMA ExtendKeepsChain ==
    ASSUME TypeOK, Bounded, Chain, NEW x \in RowType, Extends(x), rows' = rows \cup {x}
    PROVE  Chain'
  <1>1. /\ \A r \in rows : r \in RowType /\ r.born \in Nat /\ r.born < x.born
        /\ x.born \in Nat
        /\ \A r, q \in rows : r.born = q.born => r = q
    BY DEF TypeOK, RowType, Extends
  <1>2. rows # {} => Latest \in rows /\ \A r \in rows : r.born <= Latest.born
    BY LatestIsLast
  <1>3. \A q, r \in rows : Precedes(q, r)' <=> Precedes(q, r)
    BY <1>1 DEF Precedes
  <1>4. \A q \in rows' : Precedes(q, x)' => q = Latest
    <2>1. SUFFICES ASSUME NEW q \in rows', Precedes(q, x)'
                   PROVE  q = Latest
      OBVIOUS
    <2>2. q.born < x.born
      BY <2>1 DEF Precedes
    <2>3. q \in rows
      BY <1>1, <2>2
    <2>4. Latest \in rows /\ Latest.born <= q.born
      BY <1>1, <1>2, <2>1, <2>3 DEF Precedes
    <2> QED
      BY <1>1, <1>2, <2>3, <2>4
  <1>5. \A r \in rows' : ~ Precedes(x, r)'
    BY <1>1 DEF Precedes
  <1>6. CardsConnect'
    <2>1. SUFFICES ASSUME NEW r \in rows', r.reason = "daily"
                   PROVE  \E q \in rows' : /\ Precedes(q, r)'
                                           /\ Month(q.at) = Month(r.at)
                                           /\ r.from = q.table
      BY DEF CardsConnect, Month
    <2>2. CASE r \in rows
      BY <1>3, <2>1, <2>2 DEF Chain, CardsConnect
    <2>3. CASE r = x
      <3>1. PICK q \in rows : q = Latest
        BY <1>2, <2>1, <2>3 DEF Extends
      <3>2. Precedes(q, x)'
        BY <1>1, <1>2, <3>1 DEF Precedes
      <3>3. Month(q.at) = Month(x.at) /\ x.from = q.table
        BY <2>1, <2>3, <3>1 DEF Extends
      <3> QED
        BY <2>3, <3>2, <3>3
    <2> QED
      BY <2>2, <2>3
  <1>7. NoRepeatedCard'
    BY <1>3, <1>4, <1>5 DEF Chain, NoRepeatedCard, Extends
  <1>8. SeedsDoNotPile'
    BY <1>3, <1>4, <1>5 DEF Chain, SeedsDoNotPile, Extends
  <1> QED
    BY <1>6, <1>7, <1>8 DEF Chain

LEMMA RewriteKeepsChain ==
    ASSUME TypeOK, Bounded, Chain, NEW x \in RowType, Rewrites(x),
           rows' = (rows \ {Latest}) \cup {x}
    PROVE  Chain'
  <1>1. PICK l \in rows : l = Latest
    BY LatestIsLast DEF Rewrites
  <1>2. /\ \A r \in rows : r \in RowType /\ r.born \in Nat /\ r.born <= l.born
        /\ \A r, q \in rows : r.born = q.born => r = q
        /\ l.reason = "seed" /\ x.reason = "seed" /\ x.born = l.born /\ x.at = l.at
        /\ rows' = (rows \ {l}) \cup {x}
    BY <1>1, LatestIsLast DEF TypeOK, RowType, Rewrites
  <1>3. ASSUME NEW q \in rows', NEW r \in rows', Precedes(q, r)'
        PROVE  \E k, m \in rows :
                  /\ Precedes(k, m)
                  /\ k.reason = q.reason /\ k.at = q.at /\ (q.reason = "daily" => k = q)
                  /\ m.reason = r.reason /\ m.at = r.at /\ (r.reason = "daily" => m = r)
    <2>1. \A y \in rows' : \E k \in rows :
             k.born = y.born /\ k.reason = y.reason /\ k.at = y.at /\ (y.reason = "daily" => k = y)
      BY <1>2
    <2>2. PICK k \in rows : k.born = q.born /\ k.reason = q.reason /\ k.at = q.at
                            /\ (q.reason = "daily" => k = q)
      BY <2>1
    <2>3. PICK m \in rows : m.born = r.born /\ m.reason = r.reason /\ m.at = r.at
                            /\ (r.reason = "daily" => m = r)
      BY <2>1
    <2>4. \A p \in rows : \E y \in rows' : y.born = p.born
      BY <1>2
    <2>5. Precedes(k, m)
      BY <1>2, <1>3, <2>2, <2>3, <2>4 DEF Precedes
    <2> QED
      BY <2>2, <2>3, <2>5
  <1>4. CardsConnect'
    <2>1. SUFFICES ASSUME NEW r \in rows', r.reason = "daily"
                   PROVE  \E q \in rows' : /\ Precedes(q, r)'
                                           /\ Month(q.at) = Month(r.at)
                                           /\ r.from = q.table
      BY DEF CardsConnect, Month
    <2>2. r \in rows
      BY <1>2, <2>1
    <2>3. PICK q \in rows : /\ Precedes(q, r)
                            /\ Month(q.at) = Month(r.at)
                            /\ r.from = q.table
      BY <2>1, <2>2 DEF Chain, CardsConnect
    <2>4. q \in rows'
      <3>1. q.born < r.born /\ r.born <= l.born
        BY <1>2, <2>2, <2>3 DEF Precedes
      <3> QED
        BY <1>2, <3>1
    <2>5. Precedes(q, r)'
      <3>1. \A y \in rows' : \E p \in rows : y.born = p.born
        BY <1>2
      <3> QED
        BY <2>3, <3>1 DEF Precedes
    <2> QED
      BY <2>3, <2>4, <2>5
  <1>5. NoRepeatedCard'
    BY <1>3 DEF Chain, NoRepeatedCard
  <1>6. SeedsDoNotPile'
    <2>1. SUFFICES ASSUME NEW q \in rows', NEW r \in rows',
                          q.reason = "seed", r.reason = "seed", Precedes(q, r)'
                   PROVE  Month(q.at) # Month(r.at)
      BY DEF SeedsDoNotPile, Month
    <2>2. PICK k, m \in rows : /\ Precedes(k, m)
                               /\ k.reason = "seed" /\ k.at = q.at
                               /\ m.reason = "seed" /\ m.at = r.at
      BY <1>3, <2>1
    <2> QED
      BY <2>2 DEF Chain, SeedsDoNotPile
  <1> QED
    BY <1>4, <1>5, <1>6 DEF Chain

LEMMA SameRowsSameChain ==
    ASSUME rows' = rows
    PROVE  /\ Chain' <=> Chain
           /\ \A x : Extends(x)' <=> Extends(x)
           /\ \A x : Rewrites(x)' <=> Rewrites(x)
  <1>1. Latest' = Latest
    BY LatestStays
  <1>2. \A x : (Extends(x)' <=> Extends(x)) /\ (Rewrites(x)' <=> Rewrites(x))
    BY <1>1 DEF Extends, Rewrites, Month
  <1>3. \A q, r : Precedes(q, r)' <=> Precedes(q, r)
    BY DEF Precedes
  <1>4. Chain' <=> Chain
    BY <1>3 DEF Chain, CardsConnect, NoRepeatedCard, SeedsDoNotPile, Month
  <1> QED
    BY <1>2, <1>4

LEMMA BeginKeepsChain ==
    ASSUME ChainInv, RowsInv', Open = {}, NEW s \in Session, NEW x \in RowType,
           txn' = [txn EXCEPT ![s] = x], rows' = rows,
           Extends(x) \/ Rewrites(x),
           s = Scheduler => \A r \in rows : r.at < x.at
    PROVE  ChainInv'
  <1>1. /\ txn'[s] = x
        /\ Open' \subseteq {s}
    BY DEF ChainInv, RowsInv, TypeOK, Open
  <1>2. Solo' /\ SlotIsFree'
    BY <1>1 DEF Solo, SlotIsFree
  <1>3. \A u \in Open' : (Extends(txn[u]) \/ Rewrites(txn[u]))'
    <2>1. SUFFICES ASSUME NEW u \in Open'
                   PROVE  (Extends(txn[u]) \/ Rewrites(txn[u]))'
      OBVIOUS
    <2>2. txn'[u] = x
      BY <1>1
    <2>3. Extends(x)' \/ Rewrites(x)'
      BY SameRowsSameChain
    <2> QED
      BY <2>2, <2>3 DEF Extends, Rewrites
  <1>4. Chain'
    BY SameRowsSameChain DEF ChainInv
  <1> QED
    BY <1>2, <1>3, <1>4 DEF ChainInv

LEMMA CommitKeepsChain ==
    ASSUME ChainInv, NEW s \in Session, Commit(s)
    PROVE  ChainInv'
  <1>1. PICK x \in RowType : x = txn[s]
    BY DEF ChainInv, RowsInv, TypeOK, Commit
  <1>2. /\ s \in Open
        /\ rows' = {r \in rows : r.born # x.born} \cup {x}
        /\ Extends(x) \/ Rewrites(x)
    BY <1>1 DEF Commit, Open, ChainInv
  <1>3. TypeOK /\ Bounded /\ Chain
    BY DEF ChainInv, RowsInv
  <1>4. Chain'
    <2>1. CASE Extends(x)
      <3>1. \A r \in rows : r.born # x.born
        BY <1>3, <2>1 DEF TypeOK, RowType, Extends
      <3>2. rows' = rows \cup {x}
        BY <1>2, <3>1
      <3> QED
        BY <1>3, <2>1, <3>2, ExtendKeepsChain
    <2>2. CASE Rewrites(x)
      <3>1. {r \in rows : r.born # x.born} = rows \ {Latest}
        BY <1>3, <2>2, LatestIsLast DEF Rewrites, TypeOK
      <3>2. rows' = (rows \ {Latest}) \cup {x}
        BY <1>2, <3>1
      <3> QED
        BY <1>3, <2>2, <3>2, RewriteKeepsChain
    <2> QED
      BY <1>2, <2>1, <2>2
  <1>5. Open' = {}
    BY <1>2 DEF ChainInv, RowsInv, TypeOK, Solo, Open, Commit
  <1>6. RowsInv'
    BY CommitKeeps DEF ChainInv
  <1> QED
    BY <1>4, <1>5, <1>6 DEF ChainInv, Solo, SlotIsFree

LEMMA StepKeepsChain ==
    ASSUME ~ Overlap, ChainInv, [Next]_vars
    PROVE  ChainInv'
  <1>1. RowsInv /\ RowsInv'
    BY StepKeepsRows DEF ChainInv
  <1>2. \A r \in rows : r.born < NextBorn
    BY <1>1, NextIsNew DEF RowsInv, Taken
  <1>3. ASSUME NEW s \in Session, Open = {}, Moved, txn' = [txn EXCEPT ![s] = DailyRow],
               rows' = rows, s = Scheduler => Due
        PROVE  ChainInv'
    <2>1. PICK x \in RowType : x = DailyRow
      BY <1>1, DailyRowType
    <2>2. x.reason = "daily" => x.table # Latest.table
      <3>1. x.reason = "daily" => ~ Baseline
        BY <2>1 DEF DailyRow, Row
      <3> QED
        BY <1>1, <1>3, <2>1, <3>1, DailyRowType DEF Moved, Base, Baseline
    <2>3. Extends(x)
      BY <1>1, <1>2, <2>1, <2>2, DailyRowType DEF Extends
    <2>4. s = Scheduler => \A r \in rows : r.at < x.at
      BY <1>1, <1>3, <2>1, DailyRowType DEF Due
    <2> QED
      BY <1>1, <1>3, <2>1, <2>3, <2>4, BeginKeepsChain
  <1>4. ASSUME NEW s \in Clerk, Open = {}, txn' = [txn EXCEPT ![s] = Reseeded], rows' = rows
        PROVE  ChainInv'
    <2>1. PICK x \in RowType : x = Reseeded
      BY <1>1, ReseededType
    <2>2. ASSUME x.born = NextBorn, x.at = now, rows # {} => ~ Reusable(Latest)
          PROVE  Extends(x)
      <3>1. rows # {} => Latest.reason \in {"daily", "seed"}
        BY <1>1, LatestIsLast DEF RowsInv, TypeOK, RowType
      <3> QED
        BY <1>1, <1>2, <2>1, <2>2, <3>1, ReseededType DEF Extends, Reusable
    <2>3. Extends(x) \/ Rewrites(x)
      BY <1>1, <2>1, <2>2, ReseededType DEF Rewrites
    <2> QED
      BY <1>1, <1>4, <2>1, <2>3, BeginKeepsChain, SessionAssumption DEF Session
  <1>5. CASE CheckMoved
    BY <1>3, <1>5 DEF CheckMoved, Ready, Session
  <1>6. CASE \E s \in Clerk : Recompute(s)
    BY <1>3, <1>6, SessionAssumption DEF Recompute, Ready, Session
  <1>7. CASE \E s \in Clerk : ReseedNow(s)
    BY <1>4, <1>7 DEF ReseedNow, Reseeded, Ready
  <1>8. CASE \E s \in Session : Commit(s)
    BY <1>8, CommitKeepsChain
  <1>9. ASSUME rows' = rows, Open' \subseteq Open, \A u \in Open' : txn'[u] = txn[u]
        PROVE  ChainInv'
    <2>1. Chain'
      BY <1>9, SameRowsSameChain DEF ChainInv
    <2>2. ASSUME NEW u \in Open'
          PROVE  (Extends(txn[u]) \/ Rewrites(txn[u]))'
      <3>1. PICK x \in RowType : x = txn[u]
        BY <1>1, <1>9, <2>2 DEF RowsInv, TypeOK, Open
      <3>2. Extends(x)' \/ Rewrites(x)'
        BY <1>9, <2>2, <3>1, SameRowsSameChain DEF ChainInv
      <3> QED
        BY <1>9, <2>2, <3>1, <3>2 DEF Extends, Rewrites
    <2>3. Solo' /\ SlotIsFree'
      BY <1>9 DEF ChainInv, Solo, SlotIsFree
    <2> QED
      BY <1>1, <2>1, <2>2, <2>3 DEF ChainInv
  <1>10. CASE CheckIdle \/ Tick \/ (\E t \in Table : Play(t)) \/ UNCHANGED vars
    <2>1. rows' = rows /\ txn' = txn
      BY <1>10 DEF CheckIdle, Tick, Play, vars
    <2> QED
      BY <1>9, <2>1 DEF Open
  <1>11. CASE \E s \in Session : Fail(s)
    BY <1>1, <1>9, <1>11 DEF Fail, RowsInv, TypeOK, Open
  <1>12. CASE Crash
    BY <1>9, <1>12 DEF Crash, Open
  <1>13. CASE Boot
    <2>1. Open = {} /\ Open' = {}
      BY <1>1, <1>13 DEF Boot, RowsInv, TypeOK, Open
    <2>2. CASE rows' = rows
      BY <1>9, <2>1, <2>2
    <2>3. CASE rows = {} /\ rows' = {Row("seed", None)}
      <3>1. PICK x \in RowType : x = Row("seed", None)
        BY <1>1, <2>3 DEF RowsInv, TypeOK
      <3>2. Extends(x)
        BY <2>3, <3>1 DEF Extends, Row
      <3>3. Chain'
        BY <1>1, <2>3, <3>1, <3>2, ExtendKeepsChain DEF ChainInv, RowsInv
      <3> QED
        BY <1>1, <2>1, <3>3 DEF ChainInv, Solo, SlotIsFree
    <2> QED
      BY <1>13, <2>2, <2>3 DEF Boot
  <1> QED
    BY <1>5, <1>6, <1>7, <1>8, <1>10, <1>11, <1>12, <1>13 DEF Next

LEMMA InitChain == Init => ChainInv
  <1>1. SUFFICES ASSUME Init PROVE ChainInv
    OBVIOUS
  <1>2. RowsInv /\ rows = {} /\ Open = {}
    BY <1>1, InitRows DEF Init, Open
  <1>3. Chain
    BY <1>2 DEF Chain, CardsConnect, NoRepeatedCard, SeedsDoNotPile
  <1> QED
    BY <1>2, <1>3 DEF ChainInv, Solo, SlotIsFree

LEMMA ChainInvariance ==
    ASSUME ~ Overlap
    PROVE  Spec => []ChainInv
  BY InitChain, StepKeepsChain, PTL DEF Spec

(* A card tells what changed since the row before it, in the same month,   *)
(* as long as sessions do not overlap.                                     *)
THEOREM CardsAlwaysConnect ==
    ASSUME ~ Overlap
    PROVE  Spec => []CardsConnect
  <1>1. ChainInv => CardsConnect
    BY DEF ChainInv, Chain
  <1> QED
    BY <1>1, ChainInvariance, PTL

(* Without overlapping sessions no card repeats the standings of the card  *)
(* before it, however often somebody recomputes.                           *)
THEOREM CardsNeverRepeat ==
    ASSUME ~ Overlap
    PROVE  Spec => []NoRepeatedCard
  <1>1. ChainInv => NoRepeatedCard
    BY DEF ChainInv, Chain
  <1> QED
    BY <1>1, ChainInvariance, PTL

(* Without overlapping sessions a month never has two baselines in a row.  *)
THEOREM SeedsNeverPile ==
    ASSUME ~ Overlap
    PROVE  Spec => []SeedsDoNotPile
  <1>1. ChainInv => SeedsDoNotPile
    BY DEF ChainInv, Chain
  <1> QED
    BY <1>1, ChainInvariance, PTL

(* Without overlapping sessions the scheduler writes at most one row in a  *)
(* slot: restarts and failures make it try again, never write again.       *)
THEOREM SchedulerWritesOnce ==
    ASSUME ~ Overlap
    PROVE  Spec => OncePerSlot
  <1> DEFINE Once ==
        txn[Scheduler] # None /\ rows' # rows /\ txn'[Scheduler] = None =>
            \A r \in rows : r.at # txn[Scheduler].at
  <1>1. ASSUME ChainInv, [Next]_vars
        PROVE  Once
    <2>1. SUFFICES ASSUME txn[Scheduler] # None
                   PROVE  \A r \in rows : r.at # txn[Scheduler].at
      OBVIOUS
    <2>2. Scheduler \in Open
      BY <2>1 DEF Open, Session
    <2>3. \A r \in rows : r.at < txn[Scheduler].at
      BY <1>1, <2>2 DEF ChainInv, SlotIsFree
    <2>4. \A r \in rows : r.at \in Nat
      BY <1>1 DEF ChainInv, RowsInv, TypeOK, RowType, Slot
    <2> QED
      BY <2>3, <2>4
  <1> QED
    BY <1>1, ChainInvariance, PTL DEF Spec, OncePerSlot

=============================================================================
