---------------------------- MODULE MCChallenge ----------------------------
(* Challenge implements ChallengeLifecycle; instances for TLC.             *)
EXTENDS Challenge

Life ==
    INSTANCE ChallengeLifecycle WITH
        Result <- Real,
        state  <- IF called THEN Status(db) ELSE "none",
        winner <- IF db.challenge.result \in Real THEN db.challenge.result ELSE None

(* The computed status moves from pending over confirmed to done, discarded *)
(* on the way or not, and a winner is entered once.                        *)
IsLifecycle == Life!Spec

=============================================================================
