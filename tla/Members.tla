------------------------------ MODULE Members ------------------------------
(***************************************************************************)
(* Who may use the service and who administers it: the status and the role *)
(* of every member (src/app/domain/members/service.py, the dependencies    *)
(* get_current_member and get_current_admin of api/deps.py, and the        *)
(* account part of a signup).  Of the roles only 0202, the administrator,  *)
(* decides anything.  Names are the matter of Profiles, pictures of        *)
(* Avatars, replay aliases of MatchRegistry.  A request that would write   *)
(* what the row already holds writes nothing, and is left out.             *)
(***************************************************************************)
EXTENDS Requests

VARIABLES
    member,  \* the rows: status and role, or Null
    job,     \* what each open request is about to commit
    raced    \* a request was committed whose check had failed by then

memberVars == <<member, job, raced>>

MemberStatus == {"pending", "active", "suspended", "withdrawn"}

Usable(ms, p) == ms[p] # Null /\ ms[p].status = "active"

CurrentAdmin(ms, p) == Usable(ms, p) /\ ms[p].admin

FirstMember(ms) == \A p \in Person : ms[p] = Null

(* Mutant of AdminRemainsWithout: a suspended administrator counts too. *)
AnyAdminRemainsWithout(ms, p) ==
    ms[p].admin => \E o \in Person \ {p} : ms[o] # Null /\ ms[o].admin

(* _ensure_not_last_active_admin *)
AdminRemainsWithout(ms, p) ==
    ms[p].admin => \E o \in Person \ {p} : CurrentAdmin(ms, o)

(* The checks of a request r by the member r.by about the member r.of. *)
Allowed(ms, r) ==
    \/ r.do = "found" /\ FirstMember(ms)
    \/ r.do = "sign up" /\ ms[r.of] = Null
    \/ r.do = "create" /\ CurrentAdmin(ms, r.by) /\ ms[r.of] = Null
    \/ r.do = "activate" /\ CurrentAdmin(ms, r.by) /\ ms[r.of] # Null
    \/ /\ r.do = "suspend"
       /\ CurrentAdmin(ms, r.by) /\ ms[r.of] # Null /\ r.of # r.by
       /\ AdminRemainsWithout(ms, r.of)
    \/ r.do = "withdraw" /\ Usable(ms, r.of) /\ AdminRemainsWithout(ms, r.of)
    \/ r.do = "promote" /\ CurrentAdmin(ms, r.by) /\ ms[r.of] # Null
    \/ /\ r.do = "demote"
       /\ CurrentAdmin(ms, r.by) /\ ms[r.of] # Null
       /\ AdminRemainsWithout(ms, r.of)

Begins(w, r) ==
    /\ job[w] = Null
    /\ Allowed(member, r)
    /\ job' = [job EXCEPT ![w] = r]
    /\ UNCHANGED <<member, raced>>

(* The first to sign up becomes an active administrator, others wait for   *)
(* approval.                                                               *)
CreateMember(w, p) ==
    Begins(w, [do |-> IF FirstMember(member) THEN "found" ELSE "sign up",
               by |-> p, of |-> p])

CreateMemberByAdmin(w, a, p) == Begins(w, [do |-> "create", by |-> a, of |-> p])

UpdateStatus(w, a, p) ==
    /\ member[p] # Null
    /\ \/ /\ member[p].status # "active"
          /\ Begins(w, [do |-> "activate", by |-> a, of |-> p])
       \/ /\ member[p].status # "suspended"
          /\ Begins(w, [do |-> "suspend", by |-> a, of |-> p])

Withdraw(w, p) == Begins(w, [do |-> "withdraw", by |-> p, of |-> p])

UpdateRoles(w, a, p) ==
    /\ member[p] # Null
    /\ Begins(w, [do |-> IF member[p].admin THEN "demote" ELSE "promote",
                  by |-> a, of |-> p])

-----------------------------------------------------------------------------

Creates(r) == r.do \in {"found", "sign up", "create"}

StatusAfter(r) ==
    CASE r.do = "sign up" -> "pending"
      [] r.do = "suspend" -> "suspended"
      [] r.do = "withdraw" -> "withdrawn"
      [] OTHER -> "active"

(* The row after the commit of r: a new one, or the one column changed. *)
Written(ms, r) ==
    IF Creates(r)
    THEN [status |-> StatusAfter(r), admin |-> r.do = "found"]
    ELSE IF r.do \in {"promote", "demote"}
    THEN [ms[r.of] EXCEPT !.admin = r.do = "promote"]
    ELSE [ms[r.of] EXCEPT !.status = StatusAfter(r)]

(* A login id is unique: of two requests that create one member the later  *)
(* fails.                                                                  *)
CommitMember(w) ==
    /\ job[w] # Null
    /\ Creates(job[w]) => member[job[w].of] = Null
    /\ member' = [member EXCEPT ![job[w].of] = Written(member, job[w])]
    /\ raced' = (raced \/ ~Allowed(member, job[w]))
    /\ job' = [job EXCEPT ![w] = Null]

DropMemberJob(w) ==
    /\ job[w] # Null
    /\ job' = [job EXCEPT ![w] = Null]
    /\ UNCHANGED <<member, raced>>

MembersInit ==
    /\ member = [p \in Person |-> Null]
    /\ job = Idle
    /\ raced = FALSE

MembersNext ==
    \E w \in Worker :
        \/ \E p \in Person : CreateMember(w, p) \/ Withdraw(w, p)
        \/ \E a, p \in Person :
              \/ CreateMemberByAdmin(w, a, p)
              \/ UpdateStatus(w, a, p)
              \/ UpdateRoles(w, a, p)
        \/ CommitMember(w)
        \/ DropMemberJob(w)

MembersSpec == MembersInit /\ [][MembersNext]_memberVars

-----------------------------------------------------------------------------

MemberRow == [status : MemberStatus, admin : BOOLEAN]

MemberJob ==
    [do : {"found", "sign up", "create", "activate", "suspend", "withdraw",
           "promote", "demote"},
     by : Person, of : Person]

\* NULL is not one of the rows.
ASSUME MembersAssumption == Null \notin MemberRow

(* Every row has a status and a role; what an open request changes exists. *)
MembersTypeOK ==
    /\ member \in [Person -> MemberRow \cup {Null}]
    /\ job \in [Worker -> MemberJob \cup {Null}]
    /\ raced \in BOOLEAN
    /\ \A w \in Worker :
          job[w] # Null /\ ~Creates(job[w]) => member[job[w].of] # Null

(* From the first signup on there is an administrator who can log in, in   *)
(* whatever order members are approved, suspended, promoted, demoted and   *)
(* withdraw, as long as no check was overtaken                             *)
(* (_ensure_not_last_active_admin).                                        *)
AdminRemains ==
    raced \/ FirstMember(member) \/ \E p \in Person : CurrentAdmin(member, p)

=============================================================================
