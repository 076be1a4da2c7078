----------------------------- MODULE MCRequests -----------------------------
(***************************************************************************)
(* The parts of the service in which overlapping requests meet, side by    *)
(* side, and the statistics over the registered matches.  They share no    *)
(* rows, only requests that read, decide and commit; what pictures and     *)
(* attachments do to each other on the disk is a step of each (LetGo,      *)
(* LoseDoc).  A behaviour exercises one of them while the others rest.     *)
(***************************************************************************)
EXTENDS MCChallenge, Members, Profiles, Avatars, Tokens, AppVersions,
        Schedules, ActivityFeed, TLC

CONSTANTS kim, KIM, lee  \* two spellings of one name, and another name

VARIABLES
    part,         \* which of them is exercised
    row, clock, rows, open,  \* the challenge on which requests overlap
    alias, match  \* those of the registry, which the statistics read

crowdVars == <<row, clock, rows, open>>

recordVars == <<alias, match>>

requestsVars ==
    <<part, vars, memberVars, profileVars, avatarVars, tokenVars, versionVars,
      scheduleVars, feedVars, recordVars, crowdVars>>

MCFold == (kim :> kim) @@ (KIM :> kim) @@ (lee :> lee)
MCBeforeTag == (kim :> kim) @@ (KIM :> KIM) @@ (lee :> Null)

MCSymmetry ==
    Permutations(Worker) \cup Permutations(Account)
        \cup Permutations(File \ Attached)

\* One more challenge, with as many requests at once as there are workers, and
\* as little time as it takes to expire, fill the trash and be reminded of.
Crowd ==
    INSTANCE Challenge WITH
        Target    <- {CHOOSE t \in Target : TRUE},
        Date      <- {0},
        Expire    <- 0,
        Retention <- 0,
        MaxAge    <- 1,
        Session   <- Worker,
        called    <- row,
        age       <- clock,
        db        <- rows,
        txn       <- open

RecordSlot(who, name) == [who |-> who, race |-> "zerg", name |-> name]

\* One against one, and two, one of them no member, against one.
RecordLineup ==
    {<<<<RecordSlot("m", None)>>, <<RecordSlot("n", "b")>>>>,
     <<<<RecordSlot("m", None), RecordSlot("computer", "b")>>, <<RecordSlot("n", None)>>>>}

\* The registry of two matches of two days, a name for either member.
Records ==
    INSTANCE Statistics WITH
        Member     <- {"m", "n"},
        Kind       <- {"computer"},
        Name       <- {"a", "b"},
        Tag        <- [who \in {"m", "n"} |-> IF who = "m" THEN "a" ELSE "b"],
        Race       <- {"zerg"},
        Outcome    <- {"team1", "draw", "not_held"},
        Lineup     <- RecordLineup,
        Day        <- {0, 1},
        Moment     <- {},
        Match      <- {1, 2},
        LastTwin   <- 2,
        LastManual <- 0,
        Type       <- [i \in {1, 2} |-> IF i = 1 THEN "0101" ELSE "0102"]

\* NULL is not one of the values of the registry.
ASSUME RecordsAssumption ==
    /\ None \notin {"m", "n", "computer", "a", "b", "zerg", "team1", "draw", "not_held"}
    /\ None \notin Records!RowType
    /\ None \notin Records!Number

Part ==
    {"challenge", "members", "profiles", "avatars", "tokens", "versions",
     "schedules", "feed", "records", "crowd"}

RequestsInit ==
    /\ part \in Part
    /\ Init /\ MembersInit /\ ProfilesInit /\ AvatarsInit
    /\ TokensInit /\ VersionsInit /\ SchedulesInit /\ FeedInit
    /\ Records!Init /\ Crowd!Init

ChallengeStep ==
    /\ part = "challenge" /\ Next
    /\ UNCHANGED <<part, memberVars, profileVars, avatarVars, tokenVars,
                   versionVars, scheduleVars, feedVars, recordVars, crowdVars>>

MembersStep ==
    /\ part = "members" /\ MembersNext
    /\ UNCHANGED <<part, vars, profileVars, avatarVars, tokenVars,
                   versionVars, scheduleVars, feedVars, recordVars, crowdVars>>

ProfilesStep ==
    /\ part = "profiles" /\ ProfilesNext
    /\ UNCHANGED <<part, vars, memberVars, avatarVars, tokenVars,
                   versionVars, scheduleVars, feedVars, recordVars, crowdVars>>

AvatarsStep ==
    /\ part = "avatars" /\ AvatarsNext
    /\ UNCHANGED <<part, vars, memberVars, profileVars, tokenVars,
                   versionVars, scheduleVars, feedVars, recordVars, crowdVars>>

TokensStep ==
    /\ part = "tokens" /\ TokensNext
    /\ UNCHANGED <<part, vars, memberVars, profileVars, avatarVars,
                   versionVars, scheduleVars, feedVars, recordVars, crowdVars>>

VersionsStep ==
    /\ part = "versions" /\ VersionsNext
    /\ UNCHANGED <<part, vars, memberVars, profileVars, avatarVars,
                   tokenVars, scheduleVars, feedVars, recordVars, crowdVars>>

SchedulesStep ==
    /\ part = "schedules" /\ SchedulesNext
    /\ UNCHANGED <<part, vars, memberVars, profileVars, avatarVars,
                   tokenVars, versionVars, feedVars, recordVars, crowdVars>>

FeedStep ==
    /\ part = "feed" /\ FeedNext
    /\ UNCHANGED <<part, vars, memberVars, profileVars, avatarVars,
                   tokenVars, versionVars, scheduleVars, recordVars, crowdVars>>

RecordsStep ==
    /\ part = "records" /\ Records!Next
    /\ UNCHANGED <<part, vars, memberVars, profileVars, avatarVars,
                   tokenVars, versionVars, scheduleVars, feedVars, crowdVars>>

CrowdStep ==
    /\ part = "crowd" /\ Crowd!Next
    /\ UNCHANGED <<part, vars, memberVars, profileVars, avatarVars,
                   tokenVars, versionVars, scheduleVars, feedVars, recordVars>>

RequestsNext ==
    \/ ChallengeStep
    \/ MembersStep
    \/ ProfilesStep
    \/ AvatarsStep
    \/ TokensStep
    \/ VersionsStep
    \/ SchedulesStep
    \/ FeedStep
    \/ RecordsStep
    \/ CrowdStep

RequestsSpec == RequestsInit /\ [][RequestsNext]_requestsVars

-----------------------------------------------------------------------------

(* Every part keeps its types, those at rest as they were. *)
RequestsTypeOK ==
    CASE part = "challenge" -> TypeOK
      [] part = "members"   -> MembersTypeOK
      [] part = "profiles"  -> ProfilesTypeOK
      [] part = "avatars"   -> AvatarsTypeOK
      [] part = "tokens"    -> TokensTypeOK
      [] part = "versions"  -> VersionsTypeOK
      [] part = "schedules" -> SchedulesTypeOK
      [] part = "feed"      -> FeedTypeOK
      [] part = "records"   -> Records!TypeOK
      [] part = "crowd"     -> Crowd!TypeOK

(* What a row names on disk is there: pictures of members and attachments  *)
(* of schedules.                                                           *)
FilesExist == PicturesExist /\ AttachmentsExist

(* However many requests on one challenge overlap, none wipes out what     *)
(* another has written meanwhile: neither an answer, a cancellation, a     *)
(* result nor a popup seen (respond, cancel, enter_result).                *)
NothingIsLost == Crowd!NothingIsUndone

(* The queries of the statistics tell one story; at rest there is none.    *)
StatsAgree == part = "records" => Records!StatsAgree

=============================================================================
