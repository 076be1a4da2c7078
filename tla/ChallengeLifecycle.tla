------------------------- MODULE ChallengeLifecycle -------------------------
(***************************************************************************)
(* What a challenge promises its participants: four states, and a winner   *)
(* that stays once it is known.  Challenge implements this as long as      *)
(* requests do not overlap, although it stores no status.                  *)
(***************************************************************************)
CONSTANTS Result, None

VARIABLES state, winner

vars == <<state, winner>>

Init == state = "none" /\ winner = None

Call == state = "none" /\ state' = "pending" /\ UNCHANGED winner

Agree == state = "pending" /\ state' = "confirmed" /\ UNCHANGED winner

Close == state \in {"pending", "confirmed"} /\ state' = "discarded" /\ UNCHANGED winner

(* A match may turn out to have been played after all. *)
Play ==
    /\ state \in {"confirmed", "discarded"}
    /\ state' = "done"
    /\ winner' \in Result

Erase == state' = "none" /\ winner' = None

Next == Call \/ Agree \/ Close \/ Play \/ Erase

Spec == Init /\ [][Next]_vars

=============================================================================
