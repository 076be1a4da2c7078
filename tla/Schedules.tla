----------------------------- MODULE Schedules -----------------------------
(***************************************************************************)
(* One schedule of src/app/domain/schedules with its attached files, the   *)
(* members who answered it and the comments on it (activity/service.py).   *)
(* Files are saved and deleted while the request runs, before its commit.  *)
(* Texts, dates, which answer a member gave and whom a comment mentions    *)
(* are left out: no decision looks at them.                                *)
(***************************************************************************)
EXTENDS Requests

CONSTANTS
    Guest,     \* the members
    Operator,  \* members with the role of an administrator
    Doc,       \* names of files, never given twice; bounds how many are saved
    Comment    \* bounds how many comments are made

ASSUME SchedulesAssumption ==
    Operator \subseteq Guest /\ Null \notin Doc \cup {"in time", "late"}

VARIABLES
    schedule,  \* the row: who made it, its files, who answered; or Null
    made,      \* the row has been there; its id is not given again
    comments,  \* each comment: made in time to go with the row, or late
    docs,      \* the files on disk
    stored,    \* the files ever saved
    task,      \* what each open request is about to commit
    adrift,    \* files of a request that then failed, or lost to a picture
    spoiled    \* a request was committed on files others had changed

scheduleVars == <<schedule, made, comments, docs, stored, task, adrift, spoiled>>

(* _require_owner: the author or an operator. *)
MayEdit(p, author) == p = author \/ p \in Operator

Files(row) == IF row = Null THEN {} ELSE row.files

(* A request saves the files new and deletes the files old as it runs. *)
BeginTask(w, do, p, files, new, old) ==
    /\ task[w] = Null
    /\ new \cap stored = {}
    /\ docs' = (docs \cup new) \ old
    /\ stored' = stored \cup new
    /\ task' = [task EXCEPT ![w] =
          [do |-> do, by |-> p, files |-> files, touched |-> new \cup old,
           read |-> Files(schedule)]]
    /\ UNCHANGED <<schedule, made, comments, adrift, spoiled>>

CreateSchedule(w, p, new) ==
    /\ ~made
    /\ \A v \in Worker : task[v] = Null
    /\ BeginTask(w, "create", p, new, new, {})

(* Of the files the form still has, those of the row (_store_files). *)
Kept(row, asked) == asked \cap row.files

UpdateSchedule(w, p, asked, new) ==
    LET kept == Kept(schedule, asked)
    IN  /\ schedule # Null
        /\ MayEdit(p, schedule.author)
        /\ BeginTask(w, "update", Null, kept \cup new, new, schedule.files \ kept)

DeleteSchedule(w, p) ==
    /\ schedule # Null
    /\ MayEdit(p, schedule.author)
    /\ BeginTask(w, "delete", Null, {}, {}, schedule.files)

(* Everybody marks or unmarks their own attendance. *)
Attend(w, p) ==
    /\ schedule # Null
    /\ BeginTask(w, IF p \in schedule.attendees THEN "unmark" ELSE "mark", p,
                 schedule.files, {}, {})

-----------------------------------------------------------------------------

(* A row that is gone, or a mark made twice, makes the commit fail; what is *)
(* gone can be deleted again.                                              *)
CanCommit(r) ==
    \/ r.do = "create"
    \/ r.do = "delete"
    \/ /\ schedule # Null
       /\ r.do = "mark" => r.by \notin schedule.attendees

(* Comments made after the statement that deletes them stay. *)
CommentsAfter(r) ==
    IF r.do # "delete" THEN comments
    ELSE [c \in Comment |-> IF comments[c] = "late" THEN "late" ELSE Null]

(* A list of files that is the one read is not written. *)
Changes(r) == r.do = "delete" \/ r.files # r.read

RowAfter(r) ==
    CASE r.do = "create" -> [author |-> r.by, files |-> r.files, attendees |-> {}]
      [] r.do = "update" -> [schedule EXCEPT !.files = IF Changes(r) THEN r.files ELSE @]
      [] r.do = "delete" -> Null
      [] r.do = "mark"   -> [schedule EXCEPT !.attendees = @ \cup {r.by}]
      [] r.do = "unmark" -> [schedule EXCEPT !.attendees = @ \ {r.by}]

CommitTask(w) ==
    LET r == task[w]
    IN  /\ r # Null
        /\ CanCommit(r)
        /\ schedule' = RowAfter(r)
        /\ made' = TRUE
        /\ comments' = CommentsAfter(r)
        /\ spoiled' = (spoiled \/ (Changes(r) /\ Files(schedule) # r.read))
        /\ task' = [task EXCEPT ![w] = Null]
        /\ UNCHANGED <<docs, stored, adrift>>

DropTask(w) ==
    /\ task[w] # Null
    /\ adrift' = adrift \cup task[w].touched
    /\ task' = [task EXCEPT ![w] = Null]
    /\ UNCHANGED <<schedule, made, comments, docs, stored, spoiled>>

(* A member's picture may have been set to the URL of any file shown so    *)
(* far, and replacing the picture deletes the file (members/service.py).   *)
LoseDoc(d) ==
    /\ d \in docs \ adrift
    /\ \A w \in Worker : task[w] # Null => d \notin task[w].touched
    /\ docs' = docs \ {d}
    /\ adrift' = adrift \cup {d}
    /\ UNCHANGED <<schedule, made, comments, stored, task, spoiled>>

(* Nothing checks that the schedule is there. *)
CreateComment(c) ==
    /\ made
    /\ comments[c] = Null
    /\ comments' = [comments EXCEPT ![c] =
          IF schedule = Null \/ \E w \in Worker : task[w] # Null /\ task[w].do = "delete"
          THEN "late" ELSE "in time"]
    /\ UNCHANGED <<schedule, made, docs, stored, task, adrift, spoiled>>

(* By its author or an operator, of whom one is always found. *)
DeleteComment(c) ==
    /\ comments[c] # Null
    /\ comments' = [comments EXCEPT ![c] = Null]
    /\ UNCHANGED <<schedule, made, docs, stored, task, adrift, spoiled>>

SchedulesInit ==
    /\ schedule = Null
    /\ made = FALSE
    /\ comments = [c \in Comment |-> Null]
    /\ docs = {}
    /\ stored = {}
    /\ task = Idle
    /\ adrift = {}
    /\ spoiled = FALSE

SchedulesNext ==
    \/ \E w \in Worker :
          \/ \E p \in Guest : Attend(w, p) \/ DeleteSchedule(w, p)
          \/ \E p \in Guest, new \in SUBSET Doc :
                \/ CreateSchedule(w, p, new)
                \/ \E asked \in SUBSET Doc : UpdateSchedule(w, p, asked, new)
          \/ CommitTask(w)
          \/ DropTask(w)
    \/ \E d \in Doc : LoseDoc(d)
    \/ \E c \in Comment : CreateComment(c) \/ DeleteComment(c)

SchedulesSpec == SchedulesInit /\ [][SchedulesNext]_scheduleVars

-----------------------------------------------------------------------------

ScheduleRow == [author : Guest, files : SUBSET Doc, attendees : SUBSET Guest]

TaskRow == [do : {"create", "update", "delete", "mark", "unmark"}, by : Guest \cup {Null},
            files : SUBSET Doc, touched : SUBSET Doc, read : SUBSET Doc]

\* NULL is not one of the rows.
ASSUME ScheduleRowsAssumption == Null \notin ScheduleRow \cup TaskRow

(* The rows have their types, and their files have once been saved. *)
SchedulesTypeOK ==
    /\ schedule \in ScheduleRow \cup {Null}
    /\ task \in [Worker -> TaskRow \cup {Null}]
    /\ made \in BOOLEAN /\ spoiled \in BOOLEAN
    /\ comments \in [Comment -> {"in time", "late", Null}]
    /\ docs \subseteq stored /\ Files(schedule) \subseteq stored
    /\ adrift \subseteq stored /\ stored \subseteq Doc
    /\ schedule # Null => made

(* The files on disk are exactly those the row names, through overlapping  *)
(* edits, forms sent late and deletion: no attachment is missing and none  *)
(* is left without an owner.  Excepted are the files that an open request  *)
(* has saved or deleted, or one that then failed; a file a member's        *)
(* picture was set to, when that is replaced; and overlapping edits of the *)
(* files themselves (_store_files, delete).  With the schedule go all      *)
(* comments made before its deletion.                                      *)
AttachmentsExist ==
    LET touched == UNION {task[w].touched : w \in {v \in Worker : task[v] # Null}}
    IN  /\ \/ spoiled
           \/ \A d \in Doc \ (adrift \cup touched) : d \in docs <=> d \in Files(schedule)
        /\ made /\ schedule = Null =>
              \A c \in Comment : comments[c] # "in time"

=============================================================================
