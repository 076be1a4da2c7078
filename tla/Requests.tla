------------------------------ MODULE Requests ------------------------------
(***************************************************************************)
(* What the modules of overlapping requests share (db/session.py).         *)
(*                                                                         *)
(* A request reads the rows it needs, decides on what it read, and at its  *)
(* commit writes the columns it has changed; no row is locked and no       *)
(* version is checked.  A handler is two steps: the action named after it, *)
(* which reads, checks and keeps the request open, and a commit, at which  *)
(* the rows may be others than those read.  What a handler does to files   *)
(* on disk is done in the first step.  An open request may also die: its   *)
(* process or its commit fails, and the rows stay as they were.            *)
(*                                                                         *)
(* A module notes in a variable of its own whether a request was committed *)
(* whose check would by then have failed.  Nothing in the code prevents    *)
(* that; the properties say what holds as long as it has not happened, so  *)
(* that the checks themselves are shown to be enough.                      *)
(***************************************************************************)
CONSTANTS
    Worker,   \* the requests that may be open at once
    Person,   \* members and those who may sign up
    Null      \* NULL, and the absence of a row or of a request

ASSUME NullAssumption == Null \notin Person

Idle == [w \in Worker |-> Null]

=============================================================================
