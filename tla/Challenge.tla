----------------------------- MODULE Challenge -----------------------------
(***************************************************************************)
(* One challenge ("come out!") of src/app/domain/challenges, and the       *)
(* requests that work on it.  The row stores no status; it is computed     *)
(* from the other columns each time (_status_of).                          *)
(*                                                                         *)
(* A request has a database session of its own: it reads the rows once,    *)
(* decides on what it read, and at its commit writes the columns it has    *)
(* changed, and no others (the unit of work of the ORM; no row is locked   *)
(* and no version is checked).  A handler is therefore two steps here: an  *)
(* action named after it, which reads and decides, and Commit.             *)
(*                                                                         *)
(* Times count from created_at.  Free text (messages, the time note) and   *)
(* the backdrop image are left out: no decision looks at them.             *)
(***************************************************************************)
EXTENDS Naturals

CONSTANTS
    Creator,    \* the member who calls
    Ally,       \* the other members of the creator's side
    Target,     \* the members called
    Admin,      \* an operator who takes no part
    Date,       \* ends of the days a payload may name
    Expire,     \* RESPONSE_EXPIRE
    Retention,  \* TRASH_RETENTION
    MaxAge,     \* bound: the age up to which a challenge is followed
    Session,    \* the requests that may be open at once
    None        \* NULL

Participant == {Creator} \cup Ally \cup Target

Answer == {"accepted", "rejected", "discarded"}

(* The results of a match that took place. *)
Real == {"creator", "target", "draw"}

ASSUME TimeAssumption ==
    /\ Date \subseteq Nat
    /\ Expire \in Nat /\ Retention \in Nat /\ MaxAge \in Nat

ASSUME PeopleAssumption ==
    /\ Target # {}
    /\ Creator \notin Ally \cup Target
    /\ Ally \cap Target = {}
    /\ Admin \notin Participant

ASSUME NoneAssumption ==
    None \notin Nat \cup Participant \cup {Admin} \cup Real \cup {"not_held"}

VARIABLES
    called,  \* the row exists
    age,     \* the time now, from created_at
    db,      \* the committed columns of the challenge and its participants
    txn      \* what each open request is going to write, or None

vars == <<called, age, db, txn>>

-----------------------------------------------------------------------------
(* The rows.                                                               *)

NewRows(d) ==
    [challenge |-> [date |-> d, discarded |-> None, canceledBy |-> None,
                    deleted |-> FALSE, result |-> None],
     response  |-> [t \in Target |-> "pending"],
     notified  |-> [t \in Target |-> FALSE],
     reminded  |-> [p \in Participant |-> FALSE]]   \* result_notified

Status(b) ==
    IF b.challenge.discarded # None THEN "discarded"
    ELSE IF b.challenge.result # None THEN "done"
    ELSE IF \A t \in Target : b.response[t] = "accepted" THEN "confirmed"
    ELSE "pending"

(* The response deadline: a day after the call, or the end of the date set. *)
Deadline(b) ==
    IF b.challenge.date = None \/ b.challenge.date > Expire
    THEN Expire ELSE b.challenge.date

(* Mutant of Discard: the time is stamped anew. *)
DiscardAgain(b) == [b EXCEPT !.challenge.discarded = age]

(* The time of the first discard is kept. *)
Discard(b) ==
    IF b.challenge.discarded = None
    THEN [b EXCEPT !.challenge.discarded = age] ELSE b

-----------------------------------------------------------------------------
(* Requests.                                                               *)

(* Mutant of Dirty: the request writes back whole rows, as read. *)
DirtyAll(b) == b

(* The columns in which the rows b differ from those read. *)
Dirty(b) ==
    [r \in DOMAIN db |->
        [c \in {k \in DOMAIN db[r] : b[r][k] # db[r][k]} |-> b[r][c]]]

(* Request s has read db and leaves the rows b in its session. *)
Begin(s, b) ==
    /\ called
    /\ txn[s] = None
    /\ txn' = [txn EXCEPT ![s] = Dirty(b)]
    /\ UNCHANGED <<called, age, db>>

Commit(s) ==
    /\ txn[s] # None
    /\ db' = [r \in DOMAIN db |-> [c \in DOMAIN db[r] |->
          IF c \in DOMAIN txn[s][r] THEN txn[s][r][c] ELSE db[r][c]]]
    /\ txn' = [txn EXCEPT ![s] = None]
    /\ UNCHANGED <<called, age>>

CreateChallenge(d) ==
    /\ ~called
    /\ called' = TRUE
    /\ age' = 0
    /\ db' = NewRows(d)
    /\ UNCHANGED txn

(* An operator deletes the row.  A request still open finds no row to      *)
(* update, and its commit fails (StaleDataError); it ends here.            *)
Delete ==
    /\ called
    /\ called' = FALSE
    /\ age' = 0
    /\ db' = NewRows(None)
    /\ txn' = [s \in Session |-> None]

Tick ==
    /\ called /\ age < MaxAge
    /\ age' = age + 1
    /\ UNCHANGED <<called, db, txn>>

(* Mutant of Expired: an agreed match expires like an unanswered one. *)
ExpiredAnyway(b) == Status(b) # "done" /\ age > Deadline(b)

Expired(b) == Status(b) = "pending" /\ age > Deadline(b)

TrashFull(b) ==
    /\ b.challenge.discarded # None
    /\ age > b.challenge.discarded + Retention

(* list_challenges expires and cleans up before it answers. *)
RunBatches(s) ==
    LET b == IF Expired(db) THEN Discard(db) ELSE db
        c == IF TrashFull(b) THEN [b EXCEPT !.challenge.deleted = TRUE] ELSE b
    IN  /\ ~db.challenge.deleted
        /\ c # db
        /\ Begin(s, c)

(* The invitation is marked as seen even when it is not shown any more. *)
GetPendingForMe(s, t) ==
    /\ db.response[t] = "pending"
    /\ ~db.notified[t]
    /\ Begin(s, [db EXCEPT !.notified[t] = TRUE])

GetResultPendingForMe(s, p) ==
    /\ ~db.reminded[p]
    /\ Status(db) = "confirmed"
    /\ db.challenge.date # None /\ db.challenge.date < age
    /\ Begin(s, [db EXCEPT !.reminded[p] = TRUE])

ClosedBy(answer) == answer \in {"rejected", "discarded"}

(* Who accepts a call without a date may set one. *)
Respond(s, t, answer, d) ==
    LET a == IF answer = "accepted" /\ db.challenge.date = None
             THEN [db EXCEPT !.challenge.date = d] ELSE db
        b == [a EXCEPT !.response[t] = answer]
    IN  /\ db.challenge.discarded = None
        /\ db.response[t] = "pending"
        /\ Begin(s, IF ClosedBy(answer) THEN Discard(b) ELSE b)

(* Mutants of Cancel: what is over can be cancelled too; anyone may cancel. *)
CancelAnything(s, a) ==
    /\ a \in {Creator, Admin}
    /\ Begin(s, [Discard(db) EXCEPT !.challenge.canceledBy = a])

CancelByAnyone(s, a) ==
    /\ Status(db) \in {"pending", "confirmed"}
    /\ Begin(s, [Discard(db) EXCEPT !.challenge.canceledBy = a])

Cancel(s, a) ==
    /\ a \in {Creator, Admin}
    /\ Status(db) \in {"pending", "confirmed"}
    /\ Begin(s, [Discard(db) EXCEPT !.challenge.canceledBy = a])

Reschedule(s, d) ==
    /\ Status(db) = "confirmed"
    /\ Begin(s, [db EXCEPT !.challenge.date = d])

(* Mutant of Forced: the answers stay as they are. *)
ForcedKeepsAnswers(b) == [b EXCEPT !.challenge.discarded = None]

(* A match that took place is taken out of the trash, and all have agreed. *)
Forced(b) ==
    [b EXCEPT !.challenge.discarded = None,
              !.response = [t \in Target |-> "accepted"]]

(* Any participant or operator may enter a result. *)
EnterResult(s, r, d) ==
    LET b == [db EXCEPT !.challenge.date = d, !.challenge.result = r]
    IN  /\ Status(db) \in {"confirmed", "discarded"}
        /\ db.challenge.result \in {None, "not_held"}
        /\ Begin(s, IF r = "not_held" THEN Discard(b) ELSE Forced(b))

-----------------------------------------------------------------------------

Init ==
    /\ called = FALSE
    /\ age = 0
    /\ db = NewRows(None)
    /\ txn = [s \in Session |-> None]

Handle(s) ==
    \/ RunBatches(s)
    \/ \E t \in Target : GetPendingForMe(s, t)
    \/ \E p \in Participant : GetResultPendingForMe(s, p)
    \/ \E t \in Target, a \in Answer, d \in Date \cup {None} : Respond(s, t, a, d)
    \/ \E a \in Participant \cup {Admin} : Cancel(s, a)
    \/ \E d \in Date \cup {None} : Reschedule(s, d)
    \/ \E r \in Real \cup {"not_held"}, d \in Date : EnterResult(s, r, d)

Next ==
    \/ \E d \in Date \cup {None} : CreateChallenge(d)
    \/ Delete
    \/ Tick
    \/ \E s \in Session : Handle(s) \/ Commit(s)

Spec == Init /\ [][Next]_vars

-----------------------------------------------------------------------------
(* Properties.  OneFace, TrashKeepsTime, AgreedNeverExpires and the         *)
(* refinement of ChallengeLifecycle hold when requests do not overlap (one *)
(* Session); TypeOK and NothingIsUndone hold for any number of them.       *)

Row == [date : Date \cup {None}, discarded : (0..MaxAge) \cup {None},
        canceledBy : {Creator, Admin, None}, deleted : BOOLEAN,
        result : Real \cup {"not_held", None}]

(* The columns hold values of their types, and an open request writes      *)
(* some of the columns with values of their types.                         *)
TypeOK ==
    /\ called \in BOOLEAN
    /\ age \in 0..MaxAge
    /\ db \in [challenge : Row, response : [Target -> Answer \cup {"pending"}],
               notified : [Target -> BOOLEAN], reminded : [Participant -> BOOLEAN]]
    /\ DOMAIN txn = Session
    /\ \A s \in Session : txn[s] # None =>
          /\ called
          /\ DOMAIN txn[s] = DOMAIN db
          /\ \A r \in DOMAIN db : DOMAIN txn[s][r] \subseteq DOMAIN db[r]

(* A challenge does not have two faces: it is done exactly when a real     *)
(* result is entered, and then everybody called has accepted, whatever     *)
(* they had answered before (enter_result); one refusal ends it for all    *)
(* (respond); and a member is reminded to enter a result only of a match   *)
(* all had agreed to, so that the reminder is not used up before its time  *)
(* (result_notified).                                                      *)
OneFace ==
    /\ Status(db) = "done" <=> db.challenge.result \in Real
    /\ Status(db) = "done" => \A t \in Target : db.response[t] = "accepted"
    /\ (\E t \in Target : db.response[t] \in {"rejected", "discarded"})
          => Status(db) = "discarded"
    /\ \A p \in Participant :
          db.reminded[p] => \A t \in Target : db.response[t] = "accepted"

(* The trash counts from the moment a challenge was first discarded        *)
(* (_discard), and takes it away only after Retention (_run_batches).      *)
TrashKeepsTime ==
    [][called' /\ db.challenge.discarded # None =>
          /\ db'.challenge.discarded \in {db.challenge.discarded, None}
          /\ db'.challenge.deleted /\ ~db.challenge.deleted =>
                age > db.challenge.discarded + Retention]_vars

(* An agreed match never runs out of time: only its caller, an operator or *)
(* the result "not held" ends it (_run_batches expires pending ones).      *)
AgreedNeverExpires ==
    [][called' /\ Status(db) = "confirmed" /\ Status(db') = "discarded" =>
          db'.challenge.canceledBy # None \/ db'.challenge.result = "not_held"]_vars

(* Between the rows b and later rows c nothing that was said is unsaid.    *)
Onward(b, c) ==
    /\ b.challenge.result # None => c.challenge.result # None
    /\ b.challenge.canceledBy # None => c.challenge.canceledBy # None
    /\ b.challenge.deleted => c.challenge.deleted
    /\ \A t \in Target : b.response[t] # "pending" => c.response[t] # "pending"
    /\ \A t \in Target : b.notified[t] => c.notified[t]
    /\ \A p \in Participant : b.reminded[p] => c.reminded[p]

(* However many requests overlap, none wipes out what another one has      *)
(* written meanwhile: with a result entered some result stands, an answer  *)
(* stays an answer, a cancellation names its member, and a popup seen is   *)
(* not shown again.  No row is locked (respond, cancel, enter_result), so  *)
(* this rests on what each of them leaves unwritten.                       *)
NothingIsUndone == [][called /\ called' => Onward(db, db')]_vars

(* The result entered first stands; nobody changes it (enter_result).      *)
FirstResultStands ==
    [][called /\ called' /\ db.challenge.result \in Real =>
          db'.challenge.result = db.challenge.result]_vars

(* After the deadline a call counts as refused: no answer is taken         *)
(* (the comment above _response_deadline).                                 *)
NoLateAnswer ==
    [][\A s \in Session :
          txn[s] = None /\ txn'[s] # None /\ Status(db) = "pending"
              /\ (\E t \in DOMAIN txn'[s].response : txn'[s].response[t] = "accepted")
                  => age <= Deadline(db)]_vars

=============================================================================
