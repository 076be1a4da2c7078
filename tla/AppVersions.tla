---------------------------- MODULE AppVersions ----------------------------
(***************************************************************************)
(* The registered versions of the application, the one that is active, and *)
(* whether its notice is shown (src/app/domain/app_version, env_vars).     *)
(* Rows that are missing are put in by whoever looks first: the versions   *)
(* of Seed when none is registered, and the single row of the active       *)
(* version, with First.  A reader does not commit, so that only a handler  *)
(* that commits makes them last.                                           *)
(***************************************************************************)
EXTENDS Requests, Naturals, FiniteSets

CONSTANTS
    Version,
    Seed,   \* SEED_VERSIONS
    First   \* the version that is active while no row says otherwise

ASSUME VersionsAssumption ==
    /\ Seed \subseteq Version
    /\ First \in Seed
    /\ Null \notin Version

VARIABLES
    registered,  \* rows of app_versions
    active,      \* the row of app_version_state, or Null
    notice,      \* the row version_notice_enabled, or Null: shown
    change,      \* what each open request is about to write
    outrun       \* a request was committed whose check had failed by then

versionVars == <<registered, active, notice, change, outrun>>

(* What a look-up finds once it has seeded. *)
Listed(reg) == IF reg = {} THEN Seed ELSE reg

ActiveOf(row) == IF row = Null THEN First ELSE row

(* Mutant of Deletable: only the last version is kept. *)
DeletableActive(reg, act, v) ==
    v \in Listed(reg) /\ Cardinality(Listed(reg)) > 1

(* Neither the active version nor the last one. *)
Deletable(reg, act, v) ==
    v \in Listed(reg) /\ v # ActiveOf(act) /\ Cardinality(Listed(reg)) > 1

(* The checks of request r. *)
Passes(reg, act, r) ==
    \/ r.do = "activate" /\ r.version \in Listed(reg)
    \/ r.do = "add" /\ r.version \notin Listed(reg)
    \/ r.do = "delete" /\ Deletable(reg, act, r.version)
    \/ r.do = "write notes" /\ r.version \in Listed(reg)

(* A request that finds a table empty inserts rows itself. *)
BeginChange(w, do, v) ==
    LET r == [do |-> do, version |-> v, seeds |-> registered = {},
              insert |-> do \in {"activate", "delete"} /\ active = Null]
    IN  /\ change[w] = Null
        /\ Passes(registered, active, r)
        /\ change' = [change EXCEPT ![w] = r]
        /\ UNCHANGED <<registered, active, notice, outrun>>

SetVersion(w, v) == BeginChange(w, "activate", v)

AddVersion(w, v) == BeginChange(w, "add", v)

DeleteVersion(w, v) == BeginChange(w, "delete", v)

SetNotes(w, v) == BeginChange(w, "write notes", v)

SetNoticeEnabled(w, b) ==
    /\ change[w] = Null
    /\ change' = [change EXCEPT ![w] = [do |-> IF b THEN "show" ELSE "hide", version |-> Null,
                                        seeds |-> FALSE, insert |-> notice = Null]]
    /\ UNCHANGED <<registered, active, notice, outrun>>

-----------------------------------------------------------------------------

(* A row that somebody else has inserted meanwhile (its key is taken), or  *)
(* a version to annotate that is gone, makes the commit fail.              *)
RowsAsRead(r) ==
    /\ r.seeds => registered = {}
    /\ r.insert => (IF r.do \in {"show", "hide"} THEN notice ELSE active) = Null
    /\ r.do = "add" => r.version \notin registered
    /\ r.do = "write notes" => r.version \in Listed(registered)

CommitChange(w) ==
    LET r   == change[w]
        reg == IF r.seeds THEN Seed ELSE registered
    IN  /\ r # Null
        /\ RowsAsRead(r)
        /\ registered' =
              IF r.do = "add" THEN reg \cup {r.version}
              ELSE IF r.do = "delete" THEN reg \ {r.version} ELSE reg
        /\ active' =
              IF r.do = "activate" THEN r.version
              ELSE IF r.do = "delete" /\ r.insert THEN First ELSE active
        /\ notice' = IF r.do \in {"show", "hide"} THEN r.do = "show" ELSE notice
        /\ outrun' = (outrun \/ ~(r.version = Null \/ Passes(registered, active, r)))
        /\ change' = [change EXCEPT ![w] = Null]

DropChange(w) ==
    /\ change[w] # Null
    /\ change' = [change EXCEPT ![w] = Null]
    /\ UNCHANGED <<registered, active, notice, outrun>>

VersionsInit ==
    /\ registered = {}
    /\ active = Null
    /\ notice = Null
    /\ change = Idle
    /\ outrun = FALSE

VersionsNext ==
    \E w \in Worker :
        \/ \E v \in Version :
              SetVersion(w, v) \/ AddVersion(w, v) \/ DeleteVersion(w, v) \/ SetNotes(w, v)
        \/ \E b \in BOOLEAN : SetNoticeEnabled(w, b)
        \/ CommitChange(w)
        \/ DropChange(w)

VersionsSpec == VersionsInit /\ [][VersionsNext]_versionVars

-----------------------------------------------------------------------------

VersionJob ==
    [do : {"activate", "add", "delete", "write notes"}, version : Version,
     seeds : BOOLEAN, insert : BOOLEAN]
    \cup [do : {"show", "hide"}, version : {Null}, seeds : {FALSE}, insert : BOOLEAN]

(* Rows and requests have their types. *)
VersionsTypeOK ==
    /\ registered \subseteq Version
    /\ active \in Version \cup {Null}
    /\ notice \in BOOLEAN \cup {Null}
    /\ change \in [Worker -> VersionJob \cup {Null}]
    /\ outrun \in BOOLEAN

(* The version the whole service shows is one of those registered, however *)
(* versions are added, activated and deleted and whichever request comes   *)
(* first to the empty tables, as long as no check was overtaken            *)
(* (delete_version; the comment of AppVersionState).                       *)
ActiveRegistered == outrun \/ ActiveOf(active) \in Listed(registered)

=============================================================================
