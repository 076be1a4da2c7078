------------------------------ MODULE Profiles ------------------------------
(***************************************************************************)
(* The names a member goes by: login id, battletag and nickname.  Each is  *)
(* to be one member's only, in whatever case it is typed, for login,       *)
(* duplicate checks and readers look members up by them                    *)
(* (members/service.py and members/repository.py).  The data base itself   *)
(* only keeps exact spellings of id and battletag apart, so everything     *)
(* rests on the look-ups before a write.                                   *)
(***************************************************************************)
EXTENDS Requests

CONSTANTS
    Account,   \* rows of the member table
    Name,      \* spellings; ids, battletags and nicknames share the set
    Fold,      \* the lower case of each spelling
    BeforeTag  \* the part of a battletag before "#", or Null if it is empty

ASSUME NamesAssumption ==
    /\ Fold \in [Name -> Name]
    /\ BeforeTag \in [Name -> Name \cup {Null}]
    /\ Null \notin Name \cup Account

VARIABLES
    profile,   \* the names of every member, or Null
    edit,      \* what each open request is about to write
    overtaken  \* a name was committed that somebody had taken meanwhile

profileVars == <<profile, edit, overtaken>>

Field == {"id", "battletag", "nickname"}

(* The columns the data base keeps apart (models.py). *)
Unique == {"id", "battletag"}

(* Mutant of Found: the spelling has to match. *)
FoundExactly(ps, f, n) == {p \in Account : ps[p] # Null /\ ps[p][f] = n}

(* get_by_login_id, get_by_battletag, get_by_nickname: case does not count. *)
Found(ps, f, n) == {p \in Account : ps[p] # Null /\ Fold[ps[p][f]] = Fold[n]}

(* Nobody else has one of the names.  A look-up that finds several rows    *)
(* fails, and the request with it.                                         *)
NamesFree(ps, r) ==
    \A f \in DOMAIN r.names : Found(ps, f, r.names[f]) \subseteq {r.of}

BeginEdit(w, r) ==
    /\ NamesFree(profile, r)
    /\ edit' = [edit EXCEPT ![w] = r]
    /\ UNCHANGED <<profile, overtaken>>

(* Signup, or creation by an administrator: the nickname is the battletag  *)
(* up to "#", or the login id if nothing is left.                          *)
CreateProfile(w, p, i, b) ==
    LET nick == IF BeforeTag[b] = Null THEN i ELSE BeforeTag[b]
    IN  /\ profile[p] = Null
        /\ \A v \in Worker : edit[v] # Null => edit[v].of # p
        /\ BeginEdit(w, [of |-> p, names |-> [id |-> i, battletag |-> b, nickname |-> nick]])

(* The names member p may get in place of others, one or several at once.  *)
Renamings(p) ==
    IF profile[p] = Null THEN {}
    ELSE UNION {{names \in [fs -> Name] : \A f \in fs : names[f] # profile[p][f]} :
                   fs \in SUBSET Field \ {{}}}

(* Only the names that change are looked up and written. *)
UpdateProfile(w, p, names) == BeginEdit(w, [of |-> p, names |-> names])

-----------------------------------------------------------------------------

(* A duplicate the data base refuses makes the request fail. *)
KeptApart(ps, r) ==
    \A f \in Unique \cap DOMAIN r.names, o \in Account \ {r.of} :
        ps[o] # Null => ps[o][f] # r.names[f]

CommitEdit(w) ==
    /\ edit[w] # Null
    /\ KeptApart(profile, edit[w])
    /\ LET r == edit[w]
       IN  /\ profile' = [profile EXCEPT ![r.of] =
                 [f \in Field |-> IF f \in DOMAIN r.names THEN r.names[f] ELSE @[f]]]
           /\ overtaken' = (overtaken \/ ~NamesFree(profile, r))
    /\ edit' = [edit EXCEPT ![w] = Null]

DropEdit(w) ==
    /\ edit[w] # Null
    /\ edit' = [edit EXCEPT ![w] = Null]
    /\ UNCHANGED <<profile, overtaken>>

ProfilesInit ==
    /\ profile = [p \in Account |-> Null]
    /\ edit = Idle
    /\ overtaken = FALSE

ProfilesNext ==
    \E w \in Worker :
        \/ /\ edit[w] = Null
           /\ \E p \in Account :
                 \/ \E i, b \in Name : CreateProfile(w, p, i, b)
                 \/ \E names \in Renamings(p) : UpdateProfile(w, p, names)
        \/ CommitEdit(w)
        \/ DropEdit(w)

ProfilesSpec == ProfilesInit /\ [][ProfilesNext]_profileVars

-----------------------------------------------------------------------------

\* NULL is not one of the rows.
ASSUME ProfilesAssumption == Null \notin [Field -> Name]

(* A member has the three names; an open request writes some of them.      *)
ProfilesTypeOK ==
    /\ profile \in [Account -> [Field -> Name] \cup {Null}]
    /\ DOMAIN edit = Worker
    /\ \A w \in Worker : edit[w] # Null =>
          /\ edit[w].of \in Account
          /\ DOMAIN edit[w].names \subseteq Field
          /\ profile[edit[w].of] = Null => DOMAIN edit[w].names = Field
    /\ overtaken \in BOOLEAN

(* Every look-up by id, battletag or nickname finds one member at most,    *)
(* whatever is signed up, created and renamed in whatever order, as long   *)
(* as no check was overtaken.  Found twice, a name can neither log in nor  *)
(* be looked up any more (scalar_one_or_none of the repository).           *)
NamesUnambiguous ==
    overtaken \/ \A f \in Field, p, o \in {a \in Account : profile[a] # Null} :
        Fold[profile[p][f]] = Fold[profile[o][f]] => p = o

=============================================================================
