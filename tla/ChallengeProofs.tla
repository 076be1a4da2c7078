--------------------------- MODULE ChallengeProofs --------------------------
(* Theorems about Challenge, for every set of people, of dates and times:  *)
(* first for requests that do not overlap, then for any number at once.    *)
EXTENDS MCChallenge, TLAPS

(* No two requests are open at once. *)
OneByOne == \A s, u \in Session : s = u

RowsType ==
    [challenge : Row, response : [Target -> Answer \cup {"pending"}],
     notified : [Target -> BOOLEAN], reminded : [Participant -> BOOLEAN]]

(* OneFace, of the rows b. *)
Consistent(b) ==
    /\ Status(b) = "done" <=> b.challenge.result \in Real
    /\ Status(b) = "done" => \A t \in Target : b.response[t] = "accepted"
    /\ (\E t \in Target : b.response[t] \in {"rejected", "discarded"})
          => Status(b) = "discarded"
    /\ \A p \in Participant :
          b.reminded[p] => \A t \in Target : b.response[t] = "accepted"

Winner(b) == IF b.challenge.result \in Real THEN b.challenge.result ELSE None

(* The trash may be emptied into b now, and at any time from now on. *)
TrashKept(b) ==
    db.challenge.discarded # None =>
        /\ b.challenge.discarded \in {db.challenge.discarded, None}
        /\ b.challenge.deleted /\ ~db.challenge.deleted =>
              age > db.challenge.discarded + Retention

(* The step from the committed rows to b is one of the life cycle. *)
FollowsLife(b) ==
    \/ Status(b) = Status(db) /\ Winner(b) = Winner(db)
    \/ Status(db) = "pending" /\ Status(b) = "confirmed" /\ Winner(b) = Winner(db)
    \/ /\ Status(db) \in {"pending", "confirmed"} /\ Status(b) = "discarded"
       /\ Winner(b) = Winner(db)
    \/ /\ Status(db) \in {"confirmed", "discarded"} /\ Status(b) = "done"
       /\ Winner(b) \in Real

(* What an open request may be about to make of the committed rows. *)
Legal(b) ==
    /\ b \in RowsType
    /\ Consistent(b)
    /\ TrashKept(b)
    /\ Status(db) = "confirmed" /\ Status(b) = "discarded" =>
          b.challenge.canceledBy # None \/ b.challenge.result = "not_held"
    /\ FollowsLife(b)

PendingLegal ==
    \A s \in Session : txn[s] # None => \E b \in RowsType : Legal(b) /\ txn[s] = Dirty(b)

NothingBefore == ~called => db = NewRows(None)

ChallengeInv == TypeOK /\ OneFace /\ PendingLegal /\ NothingBefore

LEMMA DbType ==
    ASSUME TypeOK
    PROVE  db \in RowsType
  BY DEF TypeOK, RowsType

LEMMA OneFaceIsConsistent == OneFace <=> Consistent(db)
  BY DEF OneFace, Consistent

LEMMA StatusCases ==
    ASSUME NEW b
    PROVE  Status(b) \in {"discarded", "done", "confirmed", "pending"}
  BY DEF Status

(* New rows are a pending call. *)
LEMMA NewRowsSound ==
    ASSUME NEW d \in Date \cup {None}
    PROVE  /\ NewRows(d) \in RowsType /\ Consistent(NewRows(d))
           /\ Status(NewRows(d)) = "pending" /\ NewRows(d).challenge.result = None
           /\ NewRows(d).challenge.discarded = None
  <1>1. NewRows(d) \in RowsType
    BY DEF NewRows, RowsType, Row
  <1>2. \A t \in Target : NewRows(d).response[t] = "pending"
    BY DEF NewRows
  <1>3. /\ NewRows(d).challenge.result = None
        /\ NewRows(d).challenge.discarded = None
        /\ \A p \in Participant : ~NewRows(d).reminded[p]
    BY DEF NewRows
  <1>4. Status(NewRows(d)) = "pending"
    BY <1>2, <1>3, PeopleAssumption DEF Status
  <1>5. Consistent(NewRows(d))
    BY <1>2, <1>3, <1>4, NoneAssumption DEF Consistent
  <1> QED
    BY <1>1, <1>3, <1>4, <1>5

(* What was read with what was changed over it are the rows of the request. *)
LEMMA CommitWritesRows ==
    ASSUME NEW s \in Session, NEW b \in RowsType, db \in RowsType,
           txn[s] = Dirty(b), Commit(s)
    PROVE  db' = b
  <1> DEFINE R == {"challenge", "response", "notified", "reminded"}
  <1>1. /\ DOMAIN db = R /\ DOMAIN b = R
        /\ b = [r \in R |-> b[r]]
    BY DEF RowsType
  <1>2. db' = [r \in R |-> [c \in DOMAIN db[r] |->
            IF c \in DOMAIN txn[s][r] THEN txn[s][r][c] ELSE db[r][c]]]
    BY <1>1 DEF Commit
  <1>3. ASSUME NEW r \in R
        PROVE  /\ DOMAIN b[r] = DOMAIN db[r]
               /\ b[r] = [c \in DOMAIN b[r] |-> b[r][c]]
    BY DEF RowsType, Row
  <1>4. ASSUME NEW r \in R
        PROVE  [c \in DOMAIN db[r] |->
                   IF c \in DOMAIN txn[s][r] THEN txn[s][r][c] ELSE db[r][c]] = b[r]
    <2> DEFINE K == {k \in DOMAIN db[r] : b[r][k] # db[r][k]}
    <2>1. txn[s][r] = [c \in K |-> b[r][c]]
      BY <1>1 DEF Dirty
    <2>2. \A c \in DOMAIN db[r] :
             (IF c \in DOMAIN txn[s][r] THEN txn[s][r][c] ELSE db[r][c]) = b[r][c]
      BY <2>1
    <2> QED
      BY <2>2, <1>3
  <1> QED
    BY <1>1, <1>2, <1>4

(* A discard sets discarded_at unless it is set. *)
LEMMA DiscardSets ==
    ASSUME TypeOK, NEW b \in RowsType
    PROVE  /\ Discard(b) \in RowsType
           /\ Discard(b).response = b.response /\ Discard(b).reminded = b.reminded
           /\ Discard(b).challenge.discarded # None
           /\ b.challenge.discarded # None =>
                 Discard(b).challenge.discarded = b.challenge.discarded
           /\ Discard(b).challenge.deleted = b.challenge.deleted
           /\ Discard(b).challenge.result = b.challenge.result
           /\ Discard(b).challenge.canceledBy = b.challenge.canceledBy
           /\ Status(Discard(b)) = "discarded"
  <1>1. age \in 0..MaxAge /\ age # None
    BY TimeAssumption, NoneAssumption DEF TypeOK
  <1>2. CASE b.challenge.discarded = None
    <2>1. [b EXCEPT !.challenge.discarded = age] \in RowsType
      BY <1>1 DEF RowsType, Row
    <2> QED
      BY <1>1, <1>2, <2>1 DEF Discard, RowsType, Row, Status
  <1>3. CASE b.challenge.discarded # None
    BY <1>3 DEF Discard, Status
  <1> QED
    BY <1>2, <1>3

(* The request s has been opened with legal rows. *)
Opens(s) ==
    /\ called
    /\ UNCHANGED <<called, age, db>>
    /\ \E b \in RowsType : Legal(b) /\ txn' = [txn EXCEPT ![s] = Dirty(b)]

LEMMA BeginOpens ==
    ASSUME NEW s \in Session, NEW b, Begin(s, b), Legal(b)
    PROVE  Opens(s)
  BY DEF Begin, Legal, Opens

(* The trash is emptied after its time, and only what nobody agreed to     *)
(* runs out.                                                               *)
LEMMA BatchesOpen ==
    ASSUME ChallengeInv, NEW s \in Session, RunBatches(s)
    PROVE  Opens(s)
  <1> DEFINE b == IF Expired(db) THEN Discard(db) ELSE db
             c == IF TrashFull(b) THEN [b EXCEPT !.challenge.deleted = TRUE] ELSE b
  <1>1. TypeOK /\ db \in RowsType /\ Consistent(db)
    BY DbType, OneFaceIsConsistent DEF ChallengeInv
  <1>2. /\ b \in RowsType /\ b.response = db.response /\ b.reminded = db.reminded
        /\ b.challenge.result = db.challenge.result
        /\ b.challenge.canceledBy = db.challenge.canceledBy
        /\ b.challenge.deleted = db.challenge.deleted
        /\ db.challenge.discarded # None =>
              b.challenge.discarded = db.challenge.discarded
        /\ Status(b) = Status(db) \/ (Status(db) = "pending" /\ Status(b) = "discarded")
    BY <1>1, DiscardSets DEF Expired
  <1>3. /\ c \in RowsType /\ c.response = b.response /\ c.reminded = b.reminded
        /\ c.challenge.result = b.challenge.result
        /\ c.challenge.canceledBy = b.challenge.canceledBy
        /\ c.challenge.discarded = b.challenge.discarded
        /\ c.challenge.deleted = (TrashFull(b) \/ b.challenge.deleted)
    BY <1>2 DEF RowsType, Row
  <1>4. Status(c) = Status(b) /\ Winner(c) = Winner(db)
    BY <1>2, <1>3 DEF Status, Winner
  <1>5. Consistent(c)
    BY <1>1, <1>2, <1>3, <1>4 DEF Consistent
  <1>6. TrashKept(c)
    BY <1>2, <1>3 DEF TrashKept, TrashFull
  <1>7. FollowsLife(c)
    BY <1>2, <1>4 DEF FollowsLife
  <1>8. Legal(c)
    BY <1>2, <1>3, <1>4, <1>5, <1>6, <1>7 DEF Legal
  <1> HIDE DEF c
  <1>9. Begin(s, c)
    BY DEF RunBatches, c
  <1> QED
    BY <1>8, <1>9, BeginOpens

(* Reading a popup changes no column a status is computed from; a reminder *)
(* is of an agreed match.                                                  *)
LEMMA PopupsOpen ==
    ASSUME ChallengeInv, NEW s \in Session,
           \/ \E t \in Target : GetPendingForMe(s, t)
           \/ \E p \in Participant : GetResultPendingForMe(s, p)
    PROVE  Opens(s)
  <1>1. TypeOK /\ db \in RowsType /\ Consistent(db)
    BY DbType, OneFaceIsConsistent DEF ChallengeInv
  <1>2. ASSUME NEW b \in RowsType, b.challenge = db.challenge, b.response = db.response,
               \A p \in Participant : b.reminded[p] =>
                   db.reminded[p] \/ \A t \in Target : db.response[t] = "accepted"
        PROVE  Legal(b)
    <2>1. Status(b) = Status(db) /\ Winner(b) = Winner(db)
      BY <1>2 DEF Status, Winner
    <2>2. Consistent(b)
      BY <1>1, <1>2, <2>1 DEF Consistent
    <2> QED
      BY <1>2, <2>1, <2>2 DEF Legal, TrashKept, FollowsLife
  <1>3. ASSUME NEW t \in Target, GetPendingForMe(s, t)
        PROVE  Opens(s)
    <2> DEFINE b == [db EXCEPT !.notified[t] = TRUE]
    <2>1. /\ b \in RowsType /\ b.challenge = db.challenge
          /\ b.response = db.response /\ b.reminded = db.reminded
      BY <1>1 DEF RowsType
    <2>2. Begin(s, b)
      BY <1>3 DEF GetPendingForMe
    <2> HIDE DEF b
    <2> QED
      BY <2>1, <2>2, <1>2, BeginOpens
  <1>4. ASSUME NEW p \in Participant, GetResultPendingForMe(s, p)
        PROVE  Opens(s)
    <2> DEFINE b == [db EXCEPT !.reminded[p] = TRUE]
    <2>1. /\ b \in RowsType /\ b.challenge = db.challenge /\ b.response = db.response
      BY <1>1 DEF RowsType
    <2>2. Begin(s, b) /\ \A t \in Target : db.response[t] = "accepted"
      BY <1>4 DEF GetResultPendingForMe, Status
    <2> HIDE DEF b
    <2> QED
      BY <2>1, <2>2, <1>2, BeginOpens
  <1> QED
    BY <1>3, <1>4

(* An answer is taken of a pending member only, so that nobody was         *)
(* reminded yet; a refusal discards.                                       *)
LEMMA RespondOpens ==
    ASSUME ChallengeInv, NEW s \in Session, NEW t \in Target, NEW answer \in Answer,
           NEW d \in Date \cup {None}, Respond(s, t, answer, d)
    PROVE  Opens(s)
  <1> DEFINE a == IF answer = "accepted" /\ db.challenge.date = None
                  THEN [db EXCEPT !.challenge.date = d] ELSE db
             b == [a EXCEPT !.response[t] = answer]
             c == IF ClosedBy(answer) THEN Discard(b) ELSE b
  <1>1. TypeOK /\ db \in RowsType /\ Consistent(db)
    BY DbType, OneFaceIsConsistent DEF ChallengeInv
  <1>2. db.challenge.discarded = None /\ db.response[t] = "pending"
    BY DEF Respond
  <1>3. /\ a \in RowsType /\ a.response = db.response /\ a.reminded = db.reminded
        /\ a.challenge.result = db.challenge.result
        /\ a.challenge.discarded = db.challenge.discarded
        /\ a.challenge.canceledBy = db.challenge.canceledBy
        /\ a.challenge.deleted = db.challenge.deleted
    BY <1>1 DEF RowsType, Row
  <1>4. /\ b \in RowsType /\ b.challenge = a.challenge /\ b.reminded = a.reminded
        /\ b.response[t] = answer
        /\ \A u \in Target \ {t} : b.response[u] = db.response[u]
    BY <1>3 DEF RowsType
  <1>11. Begin(s, c)
    BY DEF Respond
  <1> HIDE DEF a, b
  <1>5. Status(db) = "pending" /\ db.challenge.result = None
    <2>1. db.challenge.result # None => Status(db) = "done"
      BY <1>2 DEF Status
    <2>2. Status(db) # "done"
      BY <1>1, <1>2 DEF Consistent
    <2> QED
      BY <1>2, <2>1, <2>2 DEF Status
  <1>6. \A p \in Participant : ~db.reminded[p]
    BY <1>1, <1>2 DEF Consistent
  <1>7. \A u \in Target : db.response[u] \in {"accepted", "pending"}
    BY <1>1, <1>5 DEF Consistent, RowsType, Answer
  <1>8. ASSUME ClosedBy(answer), NEW q, q = c
        PROVE  Legal(q)
    <2>1. /\ q = Discard(b) /\ q \in RowsType /\ q.reminded = b.reminded
          /\ q.challenge.result = None /\ Status(q) = "discarded"
      BY <1>1, <1>3, <1>4, <1>5, <1>8, DiscardSets
    <2>2. Consistent(q)
      BY <2>1, <1>3, <1>4, <1>6, NoneAssumption DEF Consistent
    <2>3. Winner(q) = Winner(db)
      BY <2>1, <1>5 DEF Winner
    <2> QED
      BY <2>1, <2>2, <2>3, <1>2, <1>5 DEF Legal, TrashKept, FollowsLife
  <1>9. ASSUME ~ClosedBy(answer), NEW q, q = c
        PROVE  Legal(q)
    <2>1. q = b /\ answer = "accepted" /\ q.challenge.result = None
               /\ q.challenge.discarded = None
      BY <1>2, <1>3, <1>4, <1>5, <1>9 DEF ClosedBy, Answer
    <2>2. Status(q) \in {"pending", "confirmed"} /\ Winner(q) = Winner(db)
      BY <2>1, <1>5 DEF Status, Winner
    <2>3. Consistent(q)
      <3>1. \A u \in Target : q.response[u] \in {"accepted", "pending"}
        BY <2>1, <1>4, <1>7
      <3>2. \A p \in Participant : ~q.reminded[p]
        BY <2>1, <1>3, <1>4, <1>6
      <3> QED
        BY <2>1, <2>2, <3>1, <3>2, NoneAssumption DEF Consistent
    <2> QED
      BY <2>1, <2>2, <2>3, <1>2, <1>4, <1>5 DEF Legal, TrashKept, FollowsLife
  <1>10. Legal(c)
    BY <1>8, <1>9
  <1> HIDE DEF c
  <1> QED
    BY <1>10, <1>11, BeginOpens

(* What is cancelled has no result and keeps none. *)
LEMMA CancelOpens ==
    ASSUME ChallengeInv, NEW s \in Session, NEW a, Cancel(s, a)
    PROVE  Opens(s)
  <1> DEFINE c == [Discard(db) EXCEPT !.challenge.canceledBy = a]
  <1>1. TypeOK /\ db \in RowsType /\ Consistent(db)
    BY DbType, OneFaceIsConsistent DEF ChallengeInv
  <1>2. a \in {Creator, Admin} /\ Status(db) \in {"pending", "confirmed"} /\ Begin(s, c)
    BY DEF Cancel
  <1>3. db.challenge.discarded = None /\ db.challenge.result = None
    BY <1>2 DEF Status
  <1>4. /\ Discard(db) \in RowsType
        /\ Discard(db).response = db.response /\ Discard(db).reminded = db.reminded
        /\ Discard(db).challenge.discarded # None
        /\ Discard(db).challenge.result = None
    BY <1>1, <1>3, DiscardSets
  <1>5. /\ c \in RowsType /\ c.response = db.response /\ c.reminded = db.reminded
        /\ c.challenge.discarded # None /\ c.challenge.result = None
        /\ c.challenge.canceledBy = a
    BY <1>2, <1>4 DEF RowsType, Row
  <1>6. Status(c) = "discarded" /\ Winner(c) = Winner(db)
    BY <1>3, <1>5 DEF Status, Winner
  <1>7. Consistent(c)
    BY <1>1, <1>5, <1>6, NoneAssumption DEF Consistent
  <1>8. Legal(c)
    BY <1>2, <1>3, <1>5, <1>6, <1>7, NoneAssumption, PeopleAssumption
       DEF Legal, TrashKept, FollowsLife, Participant
  <1> HIDE DEF c
  <1> QED
    BY <1>2, <1>8, BeginOpens

LEMMA RescheduleOpens ==
    ASSUME ChallengeInv, NEW s \in Session, NEW d \in Date \cup {None}, Reschedule(s, d)
    PROVE  Opens(s)
  <1> DEFINE c == [db EXCEPT !.challenge.date = d]
  <1>1. TypeOK /\ db \in RowsType /\ Consistent(db)
    BY DbType, OneFaceIsConsistent DEF ChallengeInv
  <1>2. /\ c \in RowsType /\ c.response = db.response /\ c.reminded = db.reminded
        /\ c.challenge.discarded = db.challenge.discarded
        /\ c.challenge.deleted = db.challenge.deleted
        /\ c.challenge.result = db.challenge.result
    BY <1>1 DEF RowsType, Row
  <1>3. Status(c) = Status(db) /\ Winner(c) = Winner(db)
    BY <1>2 DEF Status, Winner
  <1>4. Consistent(c)
    BY <1>1, <1>2, <1>3 DEF Consistent
  <1>5. Legal(c)
    BY <1>2, <1>3, <1>4 DEF Legal, TrashKept, FollowsLife
  <1>6. Begin(s, c)
    BY DEF Reschedule
  <1> HIDE DEF c
  <1> QED
    BY <1>5, <1>6, BeginOpens

(* A result is entered where none stands: a real one agrees for everybody  *)
(* and takes the challenge out of the trash, "not held" discards it.       *)
LEMMA EnterResultOpens ==
    ASSUME ChallengeInv, NEW s \in Session, NEW r \in Real \cup {"not_held"},
           NEW d \in Date, EnterResult(s, r, d)
    PROVE  Opens(s)
  <1> DEFINE b == [db EXCEPT !.challenge.date = d, !.challenge.result = r]
             c == IF r = "not_held" THEN Discard(b) ELSE Forced(b)
  <1>1. TypeOK /\ db \in RowsType /\ Consistent(db)
    BY DbType, OneFaceIsConsistent DEF ChallengeInv
  <1>2. /\ Status(db) \in {"confirmed", "discarded"}
        /\ db.challenge.result \in {None, "not_held"}
        /\ Begin(s, c)
    BY DEF EnterResult
  <1>3. /\ b \in RowsType /\ b.response = db.response /\ b.reminded = db.reminded
        /\ b.challenge.discarded = db.challenge.discarded
        /\ b.challenge.deleted = db.challenge.deleted
        /\ b.challenge.result = r
    BY <1>1 DEF RowsType, Row
  <1> HIDE DEF b
  <1>4. "not_held" \notin Real /\ None \notin Real
    BY NoneAssumption DEF Real
  <1>5. ASSUME r = "not_held", NEW q, q = c
        PROVE  Legal(q)
    <2>1. /\ q = Discard(b) /\ q \in RowsType
          /\ q.response = db.response /\ q.reminded = db.reminded
          /\ q.challenge.deleted = db.challenge.deleted
          /\ db.challenge.discarded # None =>
                q.challenge.discarded = db.challenge.discarded
          /\ q.challenge.result = "not_held" /\ Status(q) = "discarded"
      BY <1>1, <1>3, <1>5, DiscardSets
    <2>2. Winner(q) = Winner(db)
      BY <2>1, <1>2, <1>4 DEF Winner
    <2>3. Consistent(q)
      BY <2>1, <1>1, <1>4 DEF Consistent
    <2> QED
      BY <2>1, <2>2, <2>3, <1>2 DEF Legal, TrashKept, FollowsLife
  <1>6. ASSUME r # "not_held", NEW q, q = c
        PROVE  Legal(q)
    <2>1. r \in Real /\ r # None /\ q = Forced(b)
      BY <1>4, <1>6
    <2>2. /\ q \in RowsType
          /\ \A t \in Target : q.response[t] = "accepted"
          /\ q.challenge.deleted = db.challenge.deleted
          /\ q.challenge.discarded = None /\ q.challenge.result = r
      <3>1. [b.challenge EXCEPT !.discarded = None] \in Row
        BY <1>3 DEF RowsType, Row
      <3> QED
        BY <2>1, <3>1, <1>3 DEF Forced, RowsType, Row, Answer
    <2>3. Status(q) = "done" /\ Winner(q) \in Real
      BY <2>1, <2>2 DEF Status, Winner
    <2>4. Consistent(q)
      BY <2>1, <2>2, <2>3 DEF Consistent
    <2> QED
      BY <2>2, <2>3, <2>4, <1>2 DEF Legal, TrashKept, FollowsLife
  <1>7. Legal(c)
    BY <1>5, <1>6
  <1> HIDE DEF c
  <1> QED
    BY <1>2, <1>7, BeginOpens

LEMMA HandleOpens ==
    ASSUME ChallengeInv, NEW s \in Session, Handle(s)
    PROVE  Opens(s)
  BY BatchesOpen, PopupsOpen, RespondOpens, CancelOpens, RescheduleOpens,
     EnterResultOpens DEF Handle

(* What a step does to the row: nothing, a legal change, a new call, or    *)
(* its end.                                                                *)
Stepwise ==
    \/ UNCHANGED <<called, db>>
    \/ called /\ called' /\ \E b \in RowsType : Legal(b) /\ db' = b
    \/ ~called /\ called' /\ \E d \in Date \cup {None} : db' = NewRows(d)
    \/ ~called' /\ db' = NewRows(None)

LEMMA OpensSound ==
    ASSUME OneByOne, ChallengeInv, NEW s \in Session, Opens(s)
    PROVE  ChallengeInv'
  <1>1. PICK b \in RowsType : Legal(b) /\ txn' = [txn EXCEPT ![s] = Dirty(b)]
    BY DEF Opens
  <1>2. called /\ UNCHANGED <<called, age, db>>
    BY DEF Opens
  <1>3. DOMAIN Dirty(b) = DOMAIN db
        /\ \A r \in DOMAIN db : DOMAIN Dirty(b)[r] \subseteq DOMAIN db[r]
    BY DEF Dirty
  <1>4. DOMAIN txn' = Session /\ txn'[s] = Dirty(b) /\ \A u \in Session : u = s
    BY <1>1 DEF ChallengeInv, TypeOK, OneByOne
  <1>5. TypeOK'
    <2>1. \A u \in Session :
             /\ DOMAIN txn'[u] = DOMAIN db
             /\ \A r \in DOMAIN db : DOMAIN txn'[u][r] \subseteq DOMAIN db[r]
      BY <1>3, <1>4
    <2> QED
      BY <1>2, <1>4, <2>1 DEF ChallengeInv, TypeOK
  <1>6. Legal(b)' /\ Dirty(b)' = Dirty(b)
    BY <1>1, <1>2 DEF Legal, TrashKept, FollowsLife, Dirty
  <1>7. PendingLegal'
    BY <1>1, <1>4, <1>6 DEF PendingLegal
  <1> QED
    BY <1>2, <1>5, <1>7 DEF ChallengeInv, OneFace, NothingBefore

LEMMA CommitSound ==
    ASSUME OneByOne, ChallengeInv, NEW s \in Session, Commit(s)
    PROVE  ChallengeInv' /\ Stepwise
  <1>1. txn[s] # None /\ called /\ UNCHANGED <<called, age>> /\ DOMAIN txn = Session
    BY DEF Commit, ChallengeInv, TypeOK
  <1>2. PICK b \in RowsType : Legal(b) /\ txn[s] = Dirty(b)
    BY <1>1 DEF ChallengeInv, PendingLegal
  <1>3. db' = b
    BY <1>2, DbType, CommitWritesRows DEF ChallengeInv
  <1>4. DOMAIN txn' = Session /\ \A u \in Session : txn'[u] = None
    BY <1>1 DEF Commit, OneByOne
  <1>5. TypeOK'
    BY <1>1, <1>2, <1>3, <1>4 DEF ChallengeInv, TypeOK, RowsType
  <1>6. OneFace'
    BY <1>2, <1>3 DEF Legal, Consistent, OneFace
  <1>7. PendingLegal' /\ NothingBefore'
    BY <1>1, <1>4 DEF PendingLegal, NothingBefore
  <1>8. Stepwise
    BY <1>1, <1>2, <1>3 DEF Stepwise
  <1> QED
    BY <1>5, <1>6, <1>7, <1>8 DEF ChallengeInv

(* No request is open, and the rows are new.                               *)
LEMMA FreshSound ==
    ASSUME NEW d \in Date \cup {None}, db' = NewRows(d), called' \in BOOLEAN,
           age' = 0, DOMAIN txn' = Session, \A s \in Session : txn'[s] = None,
           ~called' => d = None
    PROVE  ChallengeInv'
  <1>1. NewRows(d) \in RowsType /\ Consistent(NewRows(d))
    BY NewRowsSound
  <1>2. TypeOK'
    BY <1>1, TimeAssumption DEF TypeOK, RowsType
  <1>3. OneFace'
    BY <1>1 DEF OneFace, Consistent
  <1> QED
    BY <1>2, <1>3 DEF ChallengeInv, PendingLegal, NothingBefore

LEMMA TickSound ==
    ASSUME ChallengeInv, Tick
    PROVE  ChallengeInv'
  <1>1. age' = age + 1 /\ age \in Nat /\ age' \in 0..MaxAge /\ UNCHANGED <<called, db, txn>>
    BY TimeAssumption DEF Tick, ChallengeInv, TypeOK
  <1>2. TypeOK'
    BY <1>1 DEF ChallengeInv, TypeOK
  <1>3. ASSUME NEW b \in RowsType, Legal(b)
        PROVE  Legal(b)'
    <2>1. db.challenge.discarded \in Nat \cup {None} /\ Retention \in Nat
      BY TimeAssumption DEF ChallengeInv, TypeOK, Row
    <2>2. TrashKept(b)'
      BY <1>1, <1>3, <2>1 DEF Legal, TrashKept
    <2> QED
      BY <1>1, <1>3, <2>2 DEF Legal, FollowsLife
  <1>4. PendingLegal'
    <2>1. ASSUME NEW s \in Session, txn'[s] # None
          PROVE  \E b \in RowsType : Legal(b)' /\ txn'[s] = Dirty(b)'
      <3>1. PICK b \in RowsType : Legal(b) /\ txn[s] = Dirty(b)
        BY <1>1, <2>1 DEF ChallengeInv, PendingLegal
      <3>2. Dirty(b)' = Dirty(b)
        BY <1>1 DEF Dirty
      <3> QED
        BY <1>1, <1>3, <3>1, <3>2
    <2> QED
      BY <2>1 DEF PendingLegal
  <1> QED
    BY <1>1, <1>2, <1>4 DEF ChallengeInv, OneFace, NothingBefore

LEMMA StepSound ==
    ASSUME OneByOne, ChallengeInv, [Next]_vars
    PROVE  ChallengeInv' /\ Stepwise
  <1>1. ASSUME NEW d \in Date \cup {None}, CreateChallenge(d)
        PROVE  ChallengeInv' /\ Stepwise
    <2>1. DOMAIN txn' = Session /\ \A s \in Session : txn'[s] = None
      BY <1>1 DEF CreateChallenge, ChallengeInv, TypeOK
    <2>2. ChallengeInv'
      BY <1>1, <2>1, FreshSound DEF CreateChallenge
    <2> QED
      BY <1>1, <2>2 DEF CreateChallenge, Stepwise
  <1>2. ASSUME Delete
        PROVE  ChallengeInv' /\ Stepwise
    <2>1. ChallengeInv'
      BY <1>2, FreshSound DEF Delete
    <2> QED
      BY <1>2, <2>1 DEF Delete, Stepwise
  <1>3. ASSUME Tick
        PROVE  ChallengeInv' /\ Stepwise
    BY <1>3, TickSound DEF Tick, Stepwise
  <1>4. ASSUME NEW s \in Session, Handle(s)
        PROVE  ChallengeInv' /\ Stepwise
    BY <1>4, HandleOpens, OpensSound DEF Opens, Stepwise
  <1>5. ASSUME NEW s \in Session, Commit(s)
        PROVE  ChallengeInv' /\ Stepwise
    BY <1>5, CommitSound
  <1>6. CASE UNCHANGED vars
    <2>1. TypeOK'
      BY <1>6 DEF vars, ChallengeInv, TypeOK
    <2>2. PendingLegal'
      <3>1. \A b \in RowsType : Legal(b) => Legal(b)'
        BY <1>6 DEF vars, Legal, TrashKept, FollowsLife
      <3>2. \A b \in RowsType : Dirty(b)' = Dirty(b)
        BY <1>6 DEF vars, Dirty
      <3> QED
        BY <1>6, <3>1, <3>2 DEF vars, ChallengeInv, PendingLegal
    <2> QED
      BY <1>6, <2>1, <2>2 DEF vars, ChallengeInv, OneFace, NothingBefore, Stepwise
  <1> QED
    BY <1>1, <1>2, <1>3, <1>4, <1>5, <1>6 DEF Next

LEMMA InitSound == Init => ChallengeInv
  <1> SUFFICES ASSUME Init
               PROVE  ChallengeInv
    OBVIOUS
  <1>1. NewRows(None) \in RowsType /\ Consistent(NewRows(None))
    BY NewRowsSound
  <1>2. TypeOK
    <2>1. db \in RowsType /\ age \in 0..MaxAge
      BY <1>1, TimeAssumption DEF Init
    <2>2. DOMAIN txn = Session /\ \A s \in Session : txn[s] = None
      BY DEF Init
    <2> QED
      BY <2>1, <2>2 DEF Init, TypeOK, RowsType
  <1>3. OneFace
    BY <1>1 DEF Init, OneFace, Consistent
  <1> QED
    BY <1>2, <1>3 DEF Init, ChallengeInv, PendingLegal, NothingBefore

-----------------------------------------------------------------------------

(* When requests do not overlap, the invariant with what an open request   *)
(* is about to write is inductive.                                         *)
THEOREM ChallengeInvariance == ASSUME OneByOne PROVE Spec => []ChallengeInv
  <1>1. ChallengeInv /\ [Next]_vars => ChallengeInv'
    BY StepSound
  <1> QED
    BY <1>1, InitSound, PTL DEF Spec

(* Whoever asks, a challenge has one status: done with a real result and   *)
(* everybody's consent, over with one refusal, reminded of when agreed.    *)
THEOREM StatusHasOneFace == ASSUME OneByOne PROVE Spec => []OneFace
  BY ChallengeInvariance, PTL DEF ChallengeInv

(* Nothing leaves the trash before its time, counted from the first        *)
(* discard.                                                                *)
THEOREM TrashIsPatient == ASSUME OneByOne PROVE Spec => TrashKeepsTime
  <1>1. ChallengeInv /\ [Next]_vars =>
            [called' /\ db.challenge.discarded # None =>
                /\ db'.challenge.discarded \in {db.challenge.discarded, None}
                /\ db'.challenge.deleted /\ ~db.challenge.deleted =>
                      age > db.challenge.discarded + Retention]_vars
    <2> SUFFICES ASSUME ChallengeInv, [Next]_vars, called',
                        db.challenge.discarded # None
                 PROVE  /\ db'.challenge.discarded \in {db.challenge.discarded, None}
                        /\ db'.challenge.deleted /\ ~db.challenge.deleted =>
                              age > db.challenge.discarded + Retention
      OBVIOUS
    <2>1. ~called => db.challenge.discarded = None
      BY NewRowsSound DEF ChallengeInv, NothingBefore
    <2> QED
      BY StepSound, <2>1 DEF Stepwise, Legal, TrashKept
  <1> QED
    BY <1>1, ChallengeInvariance, PTL DEF Spec, TrashKeepsTime

(* A match all have agreed to is never taken for an unanswered call.       *)
THEOREM AgreedIsKept == ASSUME OneByOne PROVE Spec => AgreedNeverExpires
  <1>1. ChallengeInv /\ [Next]_vars =>
            [called' /\ Status(db) = "confirmed" /\ Status(db') = "discarded" =>
                db'.challenge.canceledBy # None \/ db'.challenge.result = "not_held"]_vars
    <2> SUFFICES ASSUME ChallengeInv, [Next]_vars, called',
                        Status(db) = "confirmed", Status(db') = "discarded"
                 PROVE  db'.challenge.canceledBy # None \/ db'.challenge.result = "not_held"
      OBVIOUS
    <2>1. \A d \in Date \cup {None} : Status(NewRows(d)) = "pending"
      BY NewRowsSound
    <2> QED
      BY StepSound, <2>1 DEF Stepwise, Legal
  <1> QED
    BY <1>1, ChallengeInvariance, PTL DEF Spec, AgreedNeverExpires

(* The computed status goes through the life cycle of a challenge.         *)
THEOREM ChallengeImplementsLifecycle == ASSUME OneByOne PROVE Spec => IsLifecycle
  <1>1. Init => Life!Init
    <2>1. NewRows(None).challenge.result = None /\ None \notin Real
      BY NewRowsSound, NoneAssumption
    <2> QED
      BY <2>1 DEF Init, Life!Init
  <1>2. ChallengeInv /\ [Next]_vars => [Life!Next]_(Life!vars)
    <2> SUFFICES ASSUME ChallengeInv, [Next]_vars
                 PROVE  [Life!Next]_(Life!vars)
      OBVIOUS
    <2>1. None \notin Real
      BY NoneAssumption
    <2>2. CASE UNCHANGED <<called, db>>
      BY <2>2 DEF Life!vars
    <2>3. ASSUME called, called', NEW b \in RowsType, Legal(b), db' = b
          PROVE  [Life!Next]_(Life!vars)
      BY <2>3 DEF Legal, FollowsLife, Winner, Life!Next, Life!vars, Life!Agree,
                  Life!Close, Life!Play
    <2>4. ASSUME ~called, called', NEW d \in Date \cup {None}, db' = NewRows(d)
          PROVE  Life!Call
      <3>1. /\ db.challenge.result = None
            /\ Status(NewRows(d)) = "pending" /\ NewRows(d).challenge.result = None
        BY <2>4, NewRowsSound DEF ChallengeInv, NothingBefore
      <3> QED
        BY <2>1, <2>4, <3>1 DEF Life!Call
    <2>5. ASSUME ~called', db' = NewRows(None)
          PROVE  Life!Erase
      <3>1. NewRows(None).challenge.result = None
        BY NewRowsSound
      <3> QED
        BY <2>1, <2>5, <3>1 DEF Life!Erase
    <2> QED
      BY <2>2, <2>3, <2>4, <2>5, StepSound DEF Stepwise, Life!Next
  <1> QED
    BY <1>1, <1>2, ChallengeInvariance, PTL DEF Spec, IsLifecycle, Life!Spec


-----------------------------------------------------------------------------
(* Any number of open requests.  What can still be said then rests on what *)
(* each of them writes: values of their types, and never a value that      *)
(* stands for "not yet".                                                   *)

(* If w writes the column c of r, then one of S. *)
ValueIn(w, r, c, S) == c \in DOMAIN w[r] => w[r][c] \in S

Writes(w) ==
    /\ DOMAIN w = {"challenge", "response", "notified", "reminded"}
    /\ DOMAIN w["challenge"] \subseteq
           {"date", "discarded", "canceledBy", "deleted", "result"}
    /\ DOMAIN w["response"] \subseteq Target /\ DOMAIN w["notified"] \subseteq Target
    /\ DOMAIN w["reminded"] \subseteq Participant
    /\ ValueIn(w, "challenge", "date", Date \cup {None})
    /\ ValueIn(w, "challenge", "discarded", (0..MaxAge) \cup {None})
    /\ ValueIn(w, "challenge", "canceledBy", {Creator, Admin})
    /\ ValueIn(w, "challenge", "deleted", {TRUE})
    /\ ValueIn(w, "challenge", "result", Real \cup {"not_held"})
    /\ \A t \in Target : ValueIn(w, "response", t, Answer)
    /\ \A t \in Target : ValueIn(w, "notified", t, {TRUE})
    /\ \A p \in Participant : ValueIn(w, "reminded", p, {TRUE})

OverlapInv == TypeOK /\ \A s \in Session : txn[s] # None => Writes(txn[s])

LEMMA DirtyIsWritten ==
    ASSUME db \in RowsType, NEW b \in RowsType, Onward(db, b)
    PROVE  Writes(Dirty(b))
  <1> DEFINE R == {"challenge", "response", "notified", "reminded"}
             w == Dirty(b)
             K(r) == {k \in DOMAIN db[r] : b[r][k] # db[r][k]}
  <1>1. DOMAIN db = R /\ DOMAIN b = R
    BY DEF RowsType
  <1>2. w = [r \in R |-> [c \in K(r) |-> b[r][c]]]
    BY <1>1 DEF Dirty
  <1>3. DOMAIN w = R
    BY <1>2
  <1>4. \A r \in R : DOMAIN w[r] = K(r) /\ \A c \in K(r) : w[r][c] = b[r][c]
    BY <1>2
  <1>5. /\ DOMAIN w["challenge"] \subseteq
              {"date", "discarded", "canceledBy", "deleted", "result"}
        /\ DOMAIN w["response"] \subseteq Target /\ DOMAIN w["notified"] \subseteq Target
        /\ DOMAIN w["reminded"] \subseteq Participant
    <2>1. \A r \in R : DOMAIN w[r] \subseteq DOMAIN db[r]
      BY <1>4
    <2>2. /\ DOMAIN db["challenge"] = {"date", "discarded", "canceledBy", "deleted", "result"}
          /\ DOMAIN db["response"] = Target /\ DOMAIN db["notified"] = Target
          /\ DOMAIN db["reminded"] = Participant
      BY DEF RowsType, Row
    <2> HIDE DEF w
    <2> QED
      BY <2>1, <2>2
  <1> HIDE DEF w
  <1>6. ASSUME NEW r \in R, NEW c, NEW S,
               c \in DOMAIN db[r] /\ b[r][c] # db[r][c] => b[r][c] \in S
        PROVE  ValueIn(w, r, c, S)
    BY <1>4, <1>6 DEF ValueIn
  <1>7. db.challenge \in Row /\ b.challenge \in Row
    BY DEF RowsType
  <1>8. /\ ValueIn(w, "challenge", "date", Date \cup {None})
        /\ ValueIn(w, "challenge", "discarded", (0..MaxAge) \cup {None})
    BY <1>6, <1>7 DEF Row
  <1>9. ValueIn(w, "challenge", "canceledBy", {Creator, Admin})
    <2>1. b.challenge.canceledBy # db.challenge.canceledBy
              => b.challenge.canceledBy \in {Creator, Admin}
      BY <1>7 DEF Onward, Row
    <2> QED
      BY <2>1, <1>6
  <1>10. ValueIn(w, "challenge", "deleted", {TRUE})
    <2>1. b.challenge.deleted # db.challenge.deleted => b.challenge.deleted \in {TRUE}
      BY <1>7 DEF Onward, Row
    <2> QED
      BY <2>1, <1>6
  <1>11. ValueIn(w, "challenge", "result", Real \cup {"not_held"})
    <2>1. b.challenge.result # db.challenge.result
              => b.challenge.result \in Real \cup {"not_held"}
      BY <1>7 DEF Onward, Row
    <2> QED
      BY <2>1, <1>6
  <1>12. ASSUME NEW t \in Target
         PROVE  ValueIn(w, "response", t, Answer) /\ ValueIn(w, "notified", t, {TRUE})
    <2>1. b.response[t] # db.response[t] => b.response[t] \in Answer
      BY DEF Onward, RowsType
    <2>2. b.notified[t] # db.notified[t] => b.notified[t] \in {TRUE}
      BY DEF Onward, RowsType
    <2> QED
      BY <2>1, <2>2, <1>6
  <1>13. ASSUME NEW p \in Participant
         PROVE  ValueIn(w, "reminded", p, {TRUE})
    <2>1. b.reminded[p] # db.reminded[p] => b.reminded[p] \in {TRUE}
      BY DEF Onward, RowsType
    <2> QED
      BY <2>1, <1>6
  <1> QED
    BY <1>3, <1>5, <1>8, <1>9, <1>10, <1>11, <1>12, <1>13 DEF Writes, w

(* A handler decides on rows it has read, and says nothing back.           *)
LEMMA HandleIsOnward ==
    ASSUME TypeOK, NEW s \in Session, Handle(s)
    PROVE  \E b \in RowsType : Onward(db, b) /\ Begin(s, b)
  <1>1. db \in RowsType
    BY DbType
  <1>2. ASSUME NEW b \in RowsType
        PROVE  /\ Discard(b) \in RowsType
               /\ Onward(db, b) => Onward(db, Discard(b))
               /\ Discard(b).challenge.canceledBy = b.challenge.canceledBy
    <2>1. \/ Discard(b) = b
          \/ Discard(b) = [b EXCEPT !.challenge.discarded = age]
      BY DEF Discard
    <2>2. /\ [b EXCEPT !.challenge.discarded = age].notified = b.notified
      BY DEF RowsType
    <2>3. /\ Discard(b) \in RowsType /\ Discard(b).response = b.response
          /\ Discard(b).reminded = b.reminded /\ Discard(b).notified = b.notified
          /\ Discard(b).challenge.deleted = b.challenge.deleted
          /\ Discard(b).challenge.result = b.challenge.result
          /\ Discard(b).challenge.canceledBy = b.challenge.canceledBy
      BY <2>1, <2>2, DiscardSets
    <2> QED
      BY <2>3 DEF Onward
  <1>3. Onward(db, db)
    BY DEF Onward
  <1>4. CASE RunBatches(s)
    <2> DEFINE b == IF Expired(db) THEN Discard(db) ELSE db
               c == IF TrashFull(b) THEN [b EXCEPT !.challenge.deleted = TRUE] ELSE b
    <2>1. b \in RowsType /\ Onward(db, b)
      BY <1>1, <1>2, <1>3
    <2>4. Begin(s, c)
      BY <1>4 DEF RunBatches
    <2> HIDE DEF b
    <2>2. c \in RowsType
      BY <2>1 DEF RowsType, Row
    <2>3. Onward(db, c)
      BY <2>1 DEF Onward, RowsType, Row
    <2> HIDE DEF c
    <2> QED
      BY <2>2, <2>3, <2>4
  <1>5. ASSUME NEW t \in Target, GetPendingForMe(s, t)
        PROVE  \E b \in RowsType : Onward(db, b) /\ Begin(s, b)
    <2> DEFINE b == [db EXCEPT !.notified[t] = TRUE]
    <2>1. b \in RowsType /\ Onward(db, b)
      BY <1>1 DEF RowsType, Onward
    <2>2. Begin(s, b)
      BY <1>5 DEF GetPendingForMe
    <2> HIDE DEF b
    <2> QED
      BY <2>1, <2>2
  <1>6. ASSUME NEW p \in Participant, GetResultPendingForMe(s, p)
        PROVE  \E b \in RowsType : Onward(db, b) /\ Begin(s, b)
    <2> DEFINE b == [db EXCEPT !.reminded[p] = TRUE]
    <2>1. b \in RowsType /\ Onward(db, b)
      BY <1>1 DEF RowsType, Onward
    <2>2. Begin(s, b)
      BY <1>6 DEF GetResultPendingForMe
    <2> HIDE DEF b
    <2> QED
      BY <2>1, <2>2
  <1>7. ASSUME NEW t \in Target, NEW answer \in Answer, NEW d \in Date \cup {None},
               Respond(s, t, answer, d)
        PROVE  \E b \in RowsType : Onward(db, b) /\ Begin(s, b)
    <2> DEFINE a == IF answer = "accepted" /\ db.challenge.date = None
                    THEN [db EXCEPT !.challenge.date = d] ELSE db
               b == [a EXCEPT !.response[t] = answer]
               c == IF ClosedBy(answer) THEN Discard(b) ELSE b
    <2>1. Begin(s, c)
      BY <1>7 DEF Respond
    <2>2. a \in RowsType /\ Onward(db, a)
      BY <1>1, <1>3 DEF RowsType, Row, Onward
    <2> HIDE DEF a
    <2>3. b \in RowsType
      BY <2>2 DEF RowsType
    <2>4. Onward(db, b)
      <3>1. /\ b.challenge = a.challenge /\ b.notified = a.notified
            /\ b.reminded = a.reminded
            /\ b.response = [a.response EXCEPT ![t] = answer]
        BY <2>2 DEF RowsType
      <3>2. answer # "pending" /\ DOMAIN a.response = Target
        BY <2>2 DEF Answer, RowsType
      <3> HIDE DEF b
      <3> QED
        BY <3>1, <3>2, <2>2 DEF Onward
    <2> HIDE DEF b
    <2>5. c \in RowsType /\ Onward(db, c)
      BY <2>3, <2>4, <1>2
    <2> HIDE DEF c
    <2> QED
      BY <2>1, <2>5
  <1>8. ASSUME NEW a, Cancel(s, a)
        PROVE  \E b \in RowsType : Onward(db, b) /\ Begin(s, b)
    <2> DEFINE b == Discard(db)
               c == [b EXCEPT !.challenge.canceledBy = a]
    <2>1. Begin(s, c) /\ a \in {Creator, Admin}
      BY <1>8 DEF Cancel
    <2>2. a # None
      BY <2>1, NoneAssumption DEF Participant
    <2>3. b \in RowsType /\ Onward(db, b)
      BY <1>1, <1>2, <1>3
    <2> HIDE DEF b
    <2>4. /\ c \in RowsType /\ c.response = b.response /\ c.notified = b.notified
          /\ c.reminded = b.reminded /\ c.challenge.canceledBy = a
          /\ c.challenge.result = b.challenge.result
          /\ c.challenge.deleted = b.challenge.deleted
      BY <2>1, <2>3 DEF RowsType, Row
    <2> HIDE DEF c
    <2>5. Onward(db, c)
      BY <2>2, <2>3, <2>4 DEF Onward
    <2> QED
      BY <2>1, <2>4, <2>5
  <1>9. ASSUME NEW d \in Date \cup {None}, Reschedule(s, d)
        PROVE  \E b \in RowsType : Onward(db, b) /\ Begin(s, b)
    <2> DEFINE c == [db EXCEPT !.challenge.date = d]
    <2>1. c \in RowsType /\ Onward(db, c)
      BY <1>1 DEF RowsType, Row, Onward
    <2>2. Begin(s, c)
      BY <1>9 DEF Reschedule
    <2> HIDE DEF c
    <2> QED
      BY <2>1, <2>2
  <1>10. ASSUME NEW r \in Real \cup {"not_held"}, NEW d \in Date, EnterResult(s, r, d)
         PROVE  \E b \in RowsType : Onward(db, b) /\ Begin(s, b)
    <2> DEFINE b == [db EXCEPT !.challenge.date = d, !.challenge.result = r]
               c == IF r = "not_held" THEN Discard(b) ELSE Forced(b)
    <2>1. Begin(s, c)
      BY <1>10 DEF EnterResult
    <2>2. r # None
      BY NoneAssumption
    <2>3. /\ b \in RowsType /\ b.response = db.response /\ b.notified = db.notified
          /\ b.reminded = db.reminded /\ b.challenge.result = r
          /\ b.challenge.canceledBy = db.challenge.canceledBy
          /\ b.challenge.deleted = db.challenge.deleted
      BY <1>1 DEF RowsType, Row
    <2> HIDE DEF b
    <2>4. Onward(db, b)
      BY <2>2, <2>3 DEF Onward
    <2>5. Forced(b) \in RowsType /\ Onward(db, Forced(b))
      <3>1. /\ [b.challenge EXCEPT !.discarded = None] \in Row
            /\ [b.challenge EXCEPT !.discarded = None].result = b.challenge.result
            /\ [b.challenge EXCEPT !.discarded = None].canceledBy = b.challenge.canceledBy
            /\ [b.challenge EXCEPT !.discarded = None].deleted = b.challenge.deleted
        BY <2>3 DEF RowsType, Row
      <3>2. /\ Forced(b).challenge = [b.challenge EXCEPT !.discarded = None]
            /\ Forced(b).response = [t \in Target |-> "accepted"]
            /\ Forced(b).notified = b.notified /\ Forced(b).reminded = b.reminded
        BY <2>3 DEF Forced, RowsType
      <3>3. Forced(b) \in RowsType
        BY <3>1, <2>3 DEF Forced, RowsType, Answer
      <3> QED
        BY <2>4, <3>1, <3>2, <3>3 DEF Onward
    <2>6. c \in RowsType /\ Onward(db, c)
      BY <2>3, <2>4, <2>5, <1>2
    <2> HIDE DEF c
    <2> QED
      BY <2>1, <2>6
  <1> QED
    BY <1>4, <1>5, <1>6, <1>7, <1>8, <1>9, <1>10 DEF Handle

(* Each column of the rows is either as it was, or as the request wrote    *)
(* it.                                                                     *)
LEMMA CommitIsOnward ==
    ASSUME db \in RowsType, NEW s \in Session, Writes(txn[s]), Commit(s)
    PROVE  db' \in RowsType /\ Onward(db, db')
  <1> DEFINE R == {"challenge", "response", "notified", "reminded"}
             w == txn[s]
             New(r, c) == IF c \in DOMAIN w[r] THEN w[r][c] ELSE db[r][c]
  <1>1. DOMAIN db = R
    BY DEF RowsType
  <1>2. db' = [r \in R |-> [c \in DOMAIN db[r] |-> New(r, c)]]
    BY <1>1 DEF Commit
  <1>3. ASSUME NEW r \in R, NEW c, NEW S, ValueIn(w, r, c, S)
        PROVE  New(r, c) \in S \/ New(r, c) = db[r][c]
    BY <1>3 DEF ValueIn
  <1>4. Writes(w)
    OBVIOUS
  <1> HIDE DEF New, w
  <1>5. db.challenge \in Row /\ DOMAIN db.challenge = {"date", "discarded", "canceledBy", "deleted", "result"}
    BY DEF RowsType, Row
  <1>6. db'.challenge = [date |-> New("challenge", "date"),
                         discarded |-> New("challenge", "discarded"),
                         canceledBy |-> New("challenge", "canceledBy"),
                         deleted |-> New("challenge", "deleted"),
                         result |-> New("challenge", "result")]
    BY <1>2, <1>5
  <1>7. /\ db'.response = [t \in Target |-> New("response", t)]
        /\ db'.notified = [t \in Target |-> New("notified", t)]
        /\ db'.reminded = [p \in Participant |-> New("reminded", p)]
    BY <1>2 DEF RowsType
  <1>8. db' = [challenge |-> db'.challenge, response |-> db'.response,
               notified |-> db'.notified, reminded |-> db'.reminded]
    BY <1>2
  <1>9. New("challenge", "date") \in Date \cup {None}
    <2>1. ValueIn(w, "challenge", "date", Date \cup {None})
      BY <1>4 DEF Writes
    <2>2. \/ New("challenge", "date") \in Date \cup {None}
          \/ New("challenge", "date") = db["challenge"]["date"]
      BY <2>1, <1>3
    <2> QED
      BY <2>2, <1>5 DEF Row
  <1>10. New("challenge", "discarded") \in (0..MaxAge) \cup {None}
    <2>1. ValueIn(w, "challenge", "discarded", (0..MaxAge) \cup {None})
      BY <1>4 DEF Writes
    <2>2. \/ New("challenge", "discarded") \in (0..MaxAge) \cup {None}
          \/ New("challenge", "discarded") = db["challenge"]["discarded"]
      BY <2>1, <1>3
    <2> QED
      BY <2>2, <1>5 DEF Row
  <1>11. \/ New("challenge", "canceledBy") \in {Creator, Admin}
         \/ New("challenge", "canceledBy") = db.challenge.canceledBy
    <2>1. ValueIn(w, "challenge", "canceledBy", {Creator, Admin})
      BY <1>4 DEF Writes
    <2>2. \/ New("challenge", "canceledBy") \in {Creator, Admin}
          \/ New("challenge", "canceledBy") = db["challenge"]["canceledBy"]
      BY <2>1, <1>3
    <2> QED
      BY <2>2, <1>5 DEF Row
  <1>12. \/ New("challenge", "deleted") = TRUE
         \/ New("challenge", "deleted") = db.challenge.deleted
    <2>1. ValueIn(w, "challenge", "deleted", {TRUE})
      BY <1>4 DEF Writes
    <2>2. \/ New("challenge", "deleted") \in {TRUE}
          \/ New("challenge", "deleted") = db["challenge"]["deleted"]
      BY <2>1, <1>3
    <2> QED
      BY <2>2, <1>5 DEF Row
  <1>13. \/ New("challenge", "result") \in Real \cup {"not_held"}
         \/ New("challenge", "result") = db.challenge.result
    <2>1. ValueIn(w, "challenge", "result", Real \cup {"not_held"})
      BY <1>4 DEF Writes
    <2>2. \/ New("challenge", "result") \in Real \cup {"not_held"}
          \/ New("challenge", "result") = db["challenge"]["result"]
      BY <2>1, <1>3
    <2> QED
      BY <2>2, <1>5 DEF Row
  <1>14. ASSUME NEW t \in Target
         PROVE  /\ New("response", t) \in Answer \/ New("response", t) = db.response[t]
                /\ New("notified", t) = TRUE \/ New("notified", t) = db.notified[t]
    <2>1. ValueIn(w, "response", t, Answer) /\ ValueIn(w, "notified", t, {TRUE})
      BY <1>4 DEF Writes
    <2>2. New("response", t) \in Answer \/ New("response", t) = db["response"][t]
      BY <2>1, <1>3
    <2>3. New("notified", t) \in {TRUE} \/ New("notified", t) = db["notified"][t]
      BY <2>1, <1>3
    <2> QED
      BY <2>2, <2>3
  <1>15. ASSUME NEW p \in Participant
         PROVE  New("reminded", p) = TRUE \/ New("reminded", p) = db.reminded[p]
    <2>1. ValueIn(w, "reminded", p, {TRUE})
      BY <1>4 DEF Writes
    <2>2. New("reminded", p) \in {TRUE} \/ New("reminded", p) = db["reminded"][p]
      BY <2>1, <1>3
    <2> QED
      BY <2>2
  <1>16. db'.challenge \in Row
    <2>1. New("challenge", "canceledBy") \in {Creator, Admin, None}
      BY <1>5, <1>11 DEF Row
    <2>2. New("challenge", "deleted") \in BOOLEAN
      BY <1>5, <1>12 DEF Row
    <2>3. New("challenge", "result") \in Real \cup {"not_held", None}
      BY <1>5, <1>13 DEF Row
    <2> QED
      BY <1>6, <1>9, <1>10, <2>1, <2>2, <2>3 DEF Row
  <1>17. /\ db'.response \in [Target -> Answer \cup {"pending"}]
         /\ db'.notified \in [Target -> BOOLEAN]
         /\ db'.reminded \in [Participant -> BOOLEAN]
    <2>1. \A t \in Target : /\ db.response[t] \in Answer \cup {"pending"}
                            /\ db.notified[t] \in BOOLEAN
      BY DEF RowsType
    <2>2. \A p \in Participant : db.reminded[p] \in BOOLEAN
      BY DEF RowsType
    <2> QED
      BY <2>1, <2>2, <1>7, <1>14, <1>15
  <1>18. db' \in RowsType
    BY <1>8, <1>16, <1>17 DEF RowsType
  <1>19. Onward(db, db')
    <2>1. db.challenge.result # None => db'.challenge.result # None
      BY <1>6, <1>13, NoneAssumption
    <2>2. db.challenge.canceledBy # None => db'.challenge.canceledBy # None
      BY <1>6, <1>11, NoneAssumption DEF Participant
    <2>3. db.challenge.deleted => db'.challenge.deleted
      <3>1. db'.challenge.deleted = New("challenge", "deleted")
        BY <1>6
      <3> QED
        BY <3>1, <1>12, Zenon
    <2>4. \A t \in Target : db.response[t] # "pending" => db'.response[t] # "pending"
      BY <1>7, <1>14 DEF Answer
    <2>5. \A t \in Target : db.notified[t] => db'.notified[t]
      BY <1>7, <1>14
    <2>6. \A p \in Participant : db.reminded[p] => db'.reminded[p]
      BY <1>7, <1>15
    <2> QED
      BY <2>1, <2>2, <2>3, <2>4, <2>5, <2>6 DEF Onward
  <1> QED
    BY <1>18, <1>19

LEMMA OverlapStep ==
    ASSUME OverlapInv, [Next]_vars
    PROVE  OverlapInv' /\ (called /\ called' => Onward(db, db'))
  <1>1. /\ db \in RowsType /\ DOMAIN txn = Session /\ Onward(db, db)
        /\ called \in BOOLEAN /\ age \in 0..MaxAge
    BY DbType DEF OverlapInv, TypeOK, Onward
  <1>2. ASSUME db' \in RowsType, called' \in BOOLEAN, age' \in 0..MaxAge,
               DOMAIN txn' = Session,
               \A s \in Session : txn'[s] # None => called' /\ Writes(txn'[s])
        PROVE  OverlapInv'
    <2>1. /\ DOMAIN db' = {"challenge", "response", "notified", "reminded"}
          /\ DOMAIN db'["challenge"] =
                 {"date", "discarded", "canceledBy", "deleted", "result"}
          /\ DOMAIN db'["response"] = Target /\ DOMAIN db'["notified"] = Target
          /\ DOMAIN db'["reminded"] = Participant
      BY <1>2 DEF RowsType, Row
    <2>2. ASSUME NEW s \in Session, txn'[s] # None
          PROVE  /\ called' /\ DOMAIN txn'[s] = DOMAIN db'
                 /\ \A r \in DOMAIN db' : DOMAIN txn'[s][r] \subseteq DOMAIN db'[r]
      BY <1>2, <2>1, <2>2 DEF Writes
    <2>3. db' \in [challenge : Row, response : [Target -> Answer \cup {"pending"}],
                   notified : [Target -> BOOLEAN], reminded : [Participant -> BOOLEAN]]
      BY <1>2 DEF RowsType
    <2>4. TypeOK'
      BY <1>2, <2>2, <2>3 DEF TypeOK
    <2> QED
      BY <1>2, <2>4 DEF OverlapInv
  <1>3. ASSUME NEW d \in Date \cup {None}, db' = NewRows(d), called' \in BOOLEAN, age' = 0,
               DOMAIN txn' = Session, \A s \in Session : txn'[s] = None
        PROVE  OverlapInv'
    BY <1>2, <1>3, NewRowsSound, TimeAssumption
  <1>4. ASSUME NEW d \in Date \cup {None}, CreateChallenge(d)
        PROVE  OverlapInv' /\ (called /\ called' => Onward(db, db'))
    <2>1. \A s \in Session : txn'[s] = None
      BY <1>4 DEF CreateChallenge, OverlapInv, TypeOK
    <2> QED
      BY <1>1, <1>3, <1>4, <2>1 DEF CreateChallenge
  <1>5. CASE Delete
    <2>1. DOMAIN txn' = Session /\ \A s \in Session : txn'[s] = None
      BY <1>5 DEF Delete
    <2> QED
      BY <1>3, <1>5, <2>1 DEF Delete
  <1>7. CASE Tick
    <2>1. age' \in 0..MaxAge /\ UNCHANGED <<called, db, txn>>
      BY <1>1, <1>7, TimeAssumption DEF Tick
    <2>2. \A s \in Session : txn'[s] # None => called' /\ Writes(txn'[s])
      BY <2>1 DEF OverlapInv, TypeOK
    <2> QED
      BY <1>1, <1>2, <2>1, <2>2
  <1>8. ASSUME NEW s \in Session, Handle(s)
        PROVE  OverlapInv' /\ (called /\ called' => Onward(db, db'))
    <2>1. PICK b \in RowsType : Onward(db, b) /\ Begin(s, b)
      BY <1>8, HandleIsOnward DEF OverlapInv
    <2>2. /\ called /\ UNCHANGED <<called, age, db>>
          /\ txn' = [txn EXCEPT ![s] = Dirty(b)]
      BY <2>1 DEF Begin
    <2>3. Writes(Dirty(b))
      BY <1>1, <2>1, DirtyIsWritten
    <2>4. \A u \in Session : txn'[u] = IF u = s THEN Dirty(b) ELSE txn[u]
      BY <1>1, <2>2
    <2>5. \A u \in Session : txn'[u] # None => Writes(txn'[u])
      BY <2>3, <2>4 DEF OverlapInv
    <2> QED
      BY <1>1, <1>2, <2>2, <2>5
  <1>9. ASSUME NEW s \in Session, Commit(s)
        PROVE  OverlapInv' /\ (called /\ called' => Onward(db, db'))
    <2>1. /\ txn[s] # None /\ called /\ UNCHANGED <<called, age>>
          /\ txn' = [txn EXCEPT ![s] = None]
      BY <1>9 DEF Commit, OverlapInv, TypeOK
    <2>2. db' \in RowsType /\ Onward(db, db')
      BY <1>1, <1>9, <2>1, CommitIsOnward DEF OverlapInv
    <2>3. \A u \in Session : txn'[u] # None => Writes(txn'[u])
      BY <1>1, <2>1 DEF OverlapInv
    <2> QED
      BY <1>1, <1>2, <2>1, <2>2, <2>3
  <1>10. CASE UNCHANGED vars
    <2>1. UNCHANGED <<called, age, db, txn>>
      BY <1>10 DEF vars
    <2>2. \A s \in Session : txn'[s] # None => called' /\ Writes(txn'[s])
      BY <2>1 DEF OverlapInv, TypeOK
    <2> QED
      BY <1>1, <1>2, <2>1, <2>2
  <1> QED
    BY <1>4, <1>5, <1>7, <1>8, <1>9, <1>10 DEF Next

LEMMA OverlapInit == Init => OverlapInv
  <1> SUFFICES ASSUME Init
               PROVE  OverlapInv
    OBVIOUS
  <1>1. NewRows(None) \in RowsType
    BY NewRowsSound
  <1>2. DOMAIN txn = Session /\ \A s \in Session : txn[s] = None
    BY DEF Init
  <1> QED
    <2>1. db \in RowsType /\ age \in 0..MaxAge
      BY <1>1, TimeAssumption DEF Init
    <2>2. TypeOK
      BY <1>2, <2>1 DEF Init, TypeOK, RowsType
    <2> QED
      BY <1>2, <2>2 DEF OverlapInv

(* Any number of requests may overlap: the rows keep their types, and an   *)
(* open request is about to write decisions only.                          *)
THEOREM OverlapInvariance == Spec => []OverlapInv
  BY OverlapInit, OverlapStep, PTL DEF Spec

(* The columns hold values of their types whatever overlaps.               *)
THEOREM RowsKeepTypes == Spec => []TypeOK
  BY OverlapInvariance, PTL DEF OverlapInv

(* No lost update: no request, however late it commits, takes back an      *)
(* answer, a cancellation, a result, a popup seen or the end in the trash. *)
THEOREM NothingLost == Spec => NothingIsUndone
  <1>1. OverlapInv /\ [Next]_vars => [called /\ called' => Onward(db, db')]_vars
    BY OverlapStep
  <1> QED
    BY <1>1, OverlapInvariance, PTL DEF Spec, NothingIsUndone

=============================================================================
