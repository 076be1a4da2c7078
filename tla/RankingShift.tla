---------------------------- MODULE RankingShift ----------------------------
(***************************************************************************)
(* The snapshots of the ranking (RankingShiftService in                    *)
(* src/app/domain/activity) and the scheduler that takes them (main.py).   *)
(*                                                                         *)
(* A day is cut into slots at the hours of RANK_RECOMPUTE_HOURS.  The      *)
(* scheduler wakes every ten minutes and takes a snapshot when its slot    *)
(* has none yet; an operator may take one, or reset the baseline, at any   *)
(* time.  A snapshot that continues one of the same month ("daily") tells  *)
(* what changed since it, and is shown as a card; the others ("seed") only *)
(* give the next one something to be compared with.                        *)
(*                                                                         *)
(* The standings of both match types are one value: they are computed,     *)
(* compared and stored together.  A session reads rows and standings, and  *)
(* writes one row when it commits.                                         *)
(***************************************************************************)
EXTENDS Naturals, FiniteSets, FiniteSetsExt

CONSTANTS
    Table,          \* the standings there may be
    Nobody,         \* the standings without any player
    SlotsPerMonth,  \* slots of a month
    MaxSlot,        \* bound: the last slot
    MaxRows,        \* bound: no play and no operator beyond this many rows
    Scheduler,      \* the session of the scheduler
    Clerk,          \* the sessions of operators
    Overlap,        \* may sessions overlap?
    None            \* NULL

Session == {Scheduler} \cup Clerk

Slot == 0..MaxSlot

ASSUME TableAssumption == Nobody \in Table /\ None \notin Table \cup Nat

ASSUME SlotAssumption == SlotsPerMonth \in Nat \ {0} /\ MaxSlot \in Nat /\ MaxRows \in Nat

ASSUME SessionAssumption == Scheduler \notin Clerk /\ Overlap \in BOOLEAN

VARIABLES
    now,       \* the current slot
    table,     \* the standings of this month
    rows,      \* the rows of ranking_shifts
    up,        \* the process runs
    lastSlot,  \* last_slot: the slot the scheduler has finished, in memory
    txn        \* the row each open session is going to write, or None

vars == <<now, table, rows, up, lastSlot, txn>>

-----------------------------------------------------------------------------
(* Rows.  born orders them by created_at, which is the start of the        *)
(* transaction that wrote them, at the slot it falls into; shifts are      *)
(* counted from the standings in the field from, or there are none.        *)

Month(slot) == slot \div SlotsPerMonth

Latest == CHOOSE r \in rows : \A q \in rows : q.born <= r.born

Open == {s \in Session : txn[s] # None}

Taken == {r.born : r \in rows} \cup {txn[s].born : s \in Open}

(* A number for a session that starts after all those rows and sessions.   *)
NextBorn == IF Taken = {} THEN 0 ELSE Max(Taken) + 1

Row(reason, base) ==
    [born |-> NextBorn, at |-> now, reason |-> reason, table |-> table, from |-> base]

(* Mutant of Baseline: standings of last month are compared with as well.  *)
BaselineAtFirst == rows = {}

(* There is no row of this month to be compared with. *)
Baseline == rows # {} => Month(Latest.at) # Month(now)

Base == IF Baseline THEN Nobody ELSE Latest.table

(* Mutant of Moved: a row is left each time. *)
MovedAlways == TRUE

(* recompute_daily leaves a row only when the standings have moved, or     *)
(* when there is no row at all.                                            *)
Moved == rows # {} => table # Base

DailyRow == IF Baseline THEN Row("seed", None) ELSE Row("daily", Base)

(* Mutants of Reusable: every row, or no row, is reused. *)
ReusableAlways(r) == Month(r.at) = Month(now)
ReusableNever(r) == FALSE

(* reseed_now rewrites the standings of a baseline of this month. *)
Reusable(r) == r.reason = "seed" /\ Month(r.at) = Month(now)

-----------------------------------------------------------------------------
(* The scheduler and the operators.                                        *)

Ready(s) ==
    /\ up
    /\ txn[s] = None
    /\ Overlap \/ Open = {}

(* Mutant of Due: the scheduler trusts its memory. *)
DueAlways == TRUE

(* _rank_recompute_due: no row since the slot began. *)
Due == \A r \in rows : r.at < now

(* Mutant of CheckMoved: the slot is marked before it is done. *)
CheckMarksFirst ==
    /\ Ready(Scheduler)
    /\ lastSlot # now
    /\ Due /\ Moved
    /\ txn' = [txn EXCEPT ![Scheduler] = DailyRow]
    /\ lastSlot' = now
    /\ UNCHANGED <<now, table, rows, up>>

CheckMoved ==
    /\ Ready(Scheduler)
    /\ lastSlot # now
    /\ Due /\ Moved
    /\ txn' = [txn EXCEPT ![Scheduler] = DailyRow]
    /\ UNCHANGED <<now, table, rows, up, lastSlot>>

CheckIdle ==
    /\ Ready(Scheduler)
    /\ lastSlot # now
    /\ ~(Due /\ Moved)
    /\ lastSlot' = now
    /\ UNCHANGED <<now, table, rows, up, txn>>

Recompute(s) ==
    /\ Ready(s)
    /\ Cardinality(rows) < MaxRows
    /\ Moved
    /\ txn' = [txn EXCEPT ![s] = DailyRow]
    /\ UNCHANGED <<now, table, rows, up, lastSlot>>

ReseedNow(s) ==
    /\ Ready(s)
    /\ Cardinality(rows) < MaxRows
    /\ txn' = [txn EXCEPT ![s] =
                    IF rows # {} /\ Reusable(Latest)
                    THEN [Latest EXCEPT !.table = table] ELSE Row("seed", None)]
    /\ UNCHANGED <<now, table, rows, up, lastSlot>>

(* The row is inserted, or takes the place of the row it rewrites; then    *)
(* the scheduler notes the slot it began in.                               *)
Commit(s) ==
    /\ txn[s] # None
    /\ rows' = {r \in rows : r.born # txn[s].born} \cup {txn[s]}
    /\ txn' = [txn EXCEPT ![s] = None]
    /\ lastSlot' = IF s = Scheduler THEN txn[s].at ELSE lastSlot
    /\ UNCHANGED <<now, table, up>>

(* Any exception rolls back; the scheduler logs it and goes on. *)
Fail(s) ==
    /\ txn[s] # None
    /\ txn' = [txn EXCEPT ![s] = None]
    /\ UNCHANGED <<now, table, rows, up, lastSlot>>

-----------------------------------------------------------------------------
(* The process and its world.                                              *)

(* Mutant of Crash: memory outlives the process. *)
CrashKeepsMemory ==
    /\ up
    /\ up' = FALSE
    /\ txn' = [s \in Session |-> None]
    /\ UNCHANGED <<now, table, rows, lastSlot>>

Crash ==
    /\ up
    /\ up' = FALSE
    /\ txn' = [s \in Session |-> None]
    /\ lastSlot' = None
    /\ UNCHANGED <<now, table, rows>>

(* A starting process seeds an empty table; it also starts when that fails. *)
Boot ==
    /\ ~up
    /\ up' = TRUE
    /\ \/ rows' = IF rows = {} THEN {Row("seed", None)} ELSE rows
       \/ rows' = rows
    /\ UNCHANGED <<now, table, lastSlot, txn>>

(* A match is entered or deleted, or a member becomes active or inactive. *)
Play(t) ==
    /\ up
    /\ Cardinality(rows) < MaxRows
    /\ t # table
    /\ table' = t
    /\ UNCHANGED <<now, rows, up, lastSlot, txn>>

(* A new month starts with standings of its own. *)
Tick ==
    /\ now < MaxSlot
    /\ now' = now + 1
    /\ table' \in IF Month(now + 1) = Month(now) THEN {table} ELSE Table
    /\ UNCHANGED <<rows, up, lastSlot, txn>>

Init ==
    /\ now = 0
    /\ table \in Table
    /\ rows = {}
    /\ up = FALSE
    /\ lastSlot = None
    /\ txn = [s \in Session |-> None]

Check == CheckMoved \/ CheckIdle

Next ==
    \/ CheckMoved \/ CheckIdle
    \/ \E s \in Clerk : Recompute(s) \/ ReseedNow(s)
    \/ \E s \in Session : Commit(s) \/ Fail(s)
    \/ Crash \/ Boot \/ Tick
    \/ \E t \in Table : Play(t)

(* The host restarts a process that has ended, and sessions end.  Crashes  *)
(* and failures may recur, but not at every check and every commit of the  *)
(* scheduler.                                                              *)
Fairness ==
    /\ WF_vars(Boot)
    /\ \A s \in Clerk : WF_vars(Commit(s) \/ Fail(s))
    /\ SF_vars(Check)
    /\ SF_vars(Commit(Scheduler))

Spec == Init /\ [][Next]_vars /\ Fairness

-----------------------------------------------------------------------------
(* Properties.  CardsConnect, NoRepeatedCard and SeedsDoNotPile hold when  *)
(* sessions do not overlap.                                                *)

RowType ==
    [born : Nat, at : Slot, reason : {"daily", "seed"}, table : Table,
     from : Table \cup {None}]

(* Rows have numbers of their own; a process that does not run remembers   *)
(* nothing and has no open session.                                        *)
TypeOK ==
    /\ now \in Slot /\ table \in Table /\ up \in BOOLEAN
    /\ rows \subseteq RowType
    /\ \A r, q \in rows : r.born = q.born => r = q
    /\ lastSlot \in Slot \cup {None}
    /\ txn \in [Session -> RowType \cup {None}]
    /\ ~up => lastSlot = None /\ Open = {}

(* q is the row before r. *)
Precedes(q, r) ==
    /\ q.born < r.born
    /\ \A p \in rows : p.born <= q.born \/ r.born <= p.born

(* A card tells the changes since the row before it, and that row is of    *)
(* the same month: no change is told twice or left out, and nobody moves   *)
(* because a month ended (recompute_daily).                                *)
CardsConnect ==
    \A r \in rows : r.reason = "daily" =>
        \E q \in rows : /\ Precedes(q, r)
                        /\ Month(q.at) = Month(r.at)
                        /\ r.from = q.table

(* Recomputing again and again does not pile up cards: each has other      *)
(* standings than the row before it (the comment above                     *)
(* recompute_ranking_shifts).                                              *)
NoRepeatedCard ==
    \A q, r \in rows :
        q.reason = "daily" /\ r.reason = "daily" /\ Precedes(q, r) => r.table # q.table

(* Nor do baselines: one of a month is rewritten (reseed_now).             *)
SeedsDoNotPile ==
    \A q, r \in rows :
        q.reason = "seed" /\ r.reason = "seed" /\ Precedes(q, r) => Month(q.at) # Month(r.at)

(* A card, once shown, stays and stays as it is.                           *)
CardsStay == [][\A r \in rows : r.reason = "daily" => r \in rows']_vars

(* The scheduler leaves at most one row in a slot, whatever restarts and   *)
(* failures there are (_rank_recompute_due).                               *)
OncePerSlot ==
    [][txn[Scheduler] # None /\ rows' # rows /\ txn'[Scheduler] = None =>
          \A r \in rows : r.at # txn[Scheduler].at]_vars

(* A slot that has begun with changes nobody has been told of is caught up *)
(* with: they go into a row, or are taken back, or the slot is over; a     *)
(* crash or a failure does not skip it (_ranking_shift_scheduler).         *)
CaughtUp ==
    \A k \in Slot :
        (now = k /\ lastSlot # k /\ Due /\ Moved) ~> (now # k \/ ~Due \/ ~Moved)

=============================================================================
