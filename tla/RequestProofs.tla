--------------------------- MODULE RequestProofs ---------------------------
(* Theorems about the parts of the service in which overlapping requests   *)
(* meet, for every set of members, tokens, versions, names and files and   *)
(* of requests that are open at once.                                      *)
EXTENDS MCRequests, ChallengeProofs, NumberLemmas, FiniteSetTheorems

(***************************************************************************)
(* Members.                                                                *)
(***************************************************************************)

(* Whoever waits to be created after the first member finds a member.      *)
NotFirst ==
    \A w \in Worker : job[w] # Null /\ job[w].do = "sign up" => ~FirstMember(member)

MembersInv == MembersTypeOK /\ NotFirst /\ AdminRemains

LEMMA MembersInitially ==
    ASSUME MembersInit
    PROVE  MembersInv
  BY DEF MembersInit, Idle, MembersInv, MembersTypeOK, NotFirst, AdminRemains, FirstMember

(* A request that begins changes no row. *)
LEMMA BeginsKeeps ==
    ASSUME MembersInv, NEW w \in Worker, NEW r \in MemberJob, Begins(w, r),
           r.do = "sign up" => ~FirstMember(member),
           ~Creates(r) => member[r.of] # Null
    PROVE  MembersInv'
  <1>1. MembersTypeOK'
    BY DEF Begins, MembersInv, MembersTypeOK
  <1>2. NotFirst'
    BY DEF Begins, MembersInv, MembersTypeOK, NotFirst, FirstMember
  <1>3. AdminRemains'
    BY DEF Begins, MembersInv, AdminRemains, FirstMember, CurrentAdmin, Usable
  <1> QED
    BY <1>1, <1>2, <1>3 DEF MembersInv

(* What a commit writes is a row. *)
LEMMA WrittenType ==
    ASSUME MembersTypeOK, NEW r \in MemberJob, ~Creates(r) => member[r.of] # Null
    PROVE  Written(member, r) \in MemberRow
  <1>1. StatusAfter(r) \in MemberStatus
    BY DEF StatusAfter, MemberStatus, MemberJob
  <1>2. CASE Creates(r)
    BY <1>1, <1>2 DEF Written, MemberRow
  <1>3. CASE ~Creates(r)
    <2>1. member[r.of] \in MemberRow
      BY <1>3 DEF MembersTypeOK, MemberJob
    <2> QED
      BY <1>1, <1>3, <2>1 DEF Written, MemberRow
  <1> QED
    BY <1>2, <1>3

LEMMA CommitKeepsTypes ==
    ASSUME MembersInv, NEW w \in Worker, CommitMember(w)
    PROVE  /\ MembersTypeOK' /\ NotFirst'
           /\ job[w] \in MemberJob
           /\ Written(member, job[w]) \in MemberRow
           /\ ~Creates(job[w]) => member[job[w].of] # Null
  <1> DEFINE r == job[w]
  <1>1. r \in MemberJob /\ (~Creates(r) => member[r.of] # Null)
    BY DEF CommitMember, MembersInv, MembersTypeOK
  <1>2. Written(member, r) \in MemberRow
    BY <1>1, WrittenType DEF MembersInv
  <1>3. r.of \in Person
    BY <1>1 DEF MemberJob
  <1>4. \A p \in Person : member[p] # Null => member'[p] # Null
    BY <1>2, <1>3, MembersAssumption DEF CommitMember, MembersInv, MembersTypeOK
  <1>5. MembersTypeOK'
    <2>1. member' \in [Person -> MemberRow \cup {Null}]
      BY <1>2, <1>3 DEF CommitMember, MembersInv, MembersTypeOK
    <2>2. job' \in [Worker -> MemberJob \cup {Null}] /\ raced' \in BOOLEAN
      BY DEF CommitMember, MembersInv, MembersTypeOK
    <2>3. \A v \in Worker : job'[v] # Null => job'[v] = job[v] /\ job[v] \in MemberJob
      BY DEF CommitMember, MembersInv, MembersTypeOK
    <2>4. ASSUME NEW v \in Worker, job'[v] # Null, ~Creates(job'[v])
          PROVE  member'[job'[v].of] # Null
      BY <2>3, <2>4, <1>4 DEF MembersInv, MembersTypeOK, MemberJob
    <2>5. \A v \in Worker : job'[v] # Null /\ ~Creates(job'[v]) => member'[job'[v].of] # Null
      BY <2>4
    <2> QED
      BY <2>1, <2>2, <2>5 DEF MembersTypeOK, Creates
  <1>6. NotFirst'
    BY <1>4 DEF CommitMember, MembersInv, MembersTypeOK, NotFirst, FirstMember
  <1> QED
    BY <1>1, <1>2, <1>5, <1>6

(* A commit leaves an administrator, unless its check fails by now.        *)
LEMMA CommitKeepsAdmin ==
    ASSUME MembersInv, NEW w \in Worker, CommitMember(w)
    PROVE  AdminRemains'
  <1> DEFINE r == job[w]
             new == Written(member, r)
  <1>1. /\ MembersTypeOK /\ NotFirst /\ AdminRemains
        /\ r \in MemberJob /\ r.of \in Person /\ new \in MemberRow
        /\ ~Creates(r) => member[r.of] # Null
    BY CommitKeepsTypes DEF MembersInv, MemberJob
  <1>2. member' = [member EXCEPT ![r.of] = new]
    BY DEF CommitMember
  <1>3. member'[r.of] = new /\ \A p \in Person \ {r.of} : member'[p] = member[p]
    BY <1>1, <1>2 DEF MembersTypeOK
  <1> SUFFICES ASSUME ~raced'
               PROVE  \E p \in Person : CurrentAdmin(member', p)
    BY DEF AdminRemains
  <1>4. Allowed(member, r) /\ ~raced
    BY <1>1 DEF CommitMember, MembersTypeOK
  <1>5. new # Null
    BY <1>1, MembersAssumption
  <1>6. ASSUME new.status = "active", new.admin
        PROVE  CurrentAdmin(member', r.of)
    BY <1>3, <1>5, <1>6 DEF CurrentAdmin, Usable
  <1>7. ASSUME NEW p \in Person, p # r.of, CurrentAdmin(member, p)
        PROVE  CurrentAdmin(member', p)
    BY <1>3, <1>7 DEF CurrentAdmin, Usable
  <1>8. CASE r.do = "found"
    BY <1>6, <1>8, <1>1 DEF Written, Creates, StatusAfter
  <1>9. CASE r.do # "found"
    <2>1. PICK p \in Person : CurrentAdmin(member, p)
      <3>1. ~FirstMember(member)
        <4>1. CASE r.do = "sign up"
          BY <4>1, <1>1 DEF NotFirst, CommitMember
        <4>2. CASE r.do # "sign up"
          <5>1. member[r.by] # Null \/ member[r.of] # Null
            BY <1>4, <1>9, <4>2 DEF Allowed, CurrentAdmin, Usable
          <5> QED
            BY <1>1, <5>1 DEF FirstMember, MemberJob
        <4> QED
          BY <4>1, <4>2
      <3> QED
        BY <3>1, <1>1, <1>4 DEF AdminRemains
    <2>2. CASE p # r.of
      BY <1>7, <2>1, <2>2
    <2>3. CASE p = r.of
      <3>1. ~Creates(r)
        BY <1>4, <1>9, <2>1, <2>3 DEF Allowed, Creates, CurrentAdmin, Usable, CommitMember
      <3>2. member[r.of] \in MemberRow
        BY <1>1, <3>1 DEF MembersTypeOK
      <3>3. CASE r.do \in {"activate", "promote"}
        BY <1>6, <2>1, <2>3, <3>1, <3>2, <3>3
           DEF Written, StatusAfter, CurrentAdmin, Usable, MemberRow
      <3>4. CASE r.do \in {"suspend", "withdraw", "demote"}
        <4>1. AdminRemainsWithout(member, r.of)
          BY <1>4, <3>4 DEF Allowed
        <4>2. PICK o \in Person \ {r.of} : CurrentAdmin(member, o)
          BY <4>1, <2>1, <2>3 DEF AdminRemainsWithout, CurrentAdmin
        <4> QED
          BY <1>7, <4>2
      <3> QED
        BY <1>1, <3>1, <3>3, <3>4 DEF MemberJob, Creates
    <2> QED
      BY <2>2, <2>3
  <1> QED
    BY <1>8, <1>9

LEMMA MembersStepwise ==
    ASSUME MembersInv, [MembersNext]_memberVars
    PROVE  MembersInv'
  <1>1. CASE UNCHANGED memberVars
    BY <1>1 DEF memberVars, MembersInv, MembersTypeOK, NotFirst, AdminRemains,
                FirstMember, CurrentAdmin, Usable
  <1>2. ASSUME NEW w \in Worker, NEW p \in Person, CreateMember(w, p)
        PROVE  MembersInv'
    <2> DEFINE r == [do |-> IF FirstMember(member) THEN "found" ELSE "sign up",
                     by |-> p, of |-> p]
    <2>1. r \in MemberJob /\ Creates(r) /\ (r.do = "sign up" => ~FirstMember(member))
      BY DEF MemberJob, Creates
    <2>2. Begins(w, r)
      BY <1>2 DEF CreateMember
    <2> QED
      BY <2>1, <2>2, BeginsKeeps
  <1>3. ASSUME NEW w \in Worker, NEW a \in Person, NEW p \in Person,
               CreateMemberByAdmin(w, a, p)
        PROVE  MembersInv'
    <2> DEFINE r == [do |-> "create", by |-> a, of |-> p]
    <2>1. r \in MemberJob /\ Creates(r) /\ r.do # "sign up"
      BY DEF MemberJob, Creates
    <2>2. Begins(w, r)
      BY <1>3 DEF CreateMemberByAdmin
    <2> QED
      BY <2>1, <2>2, BeginsKeeps
  <1>4. ASSUME NEW w \in Worker, NEW a \in Person, NEW p \in Person, NEW do,
               do \in {"activate", "suspend", "withdraw", "promote", "demote"},
               Begins(w, [do |-> do, by |-> a, of |-> p])
        PROVE  MembersInv'
    <2> DEFINE r == [do |-> do, by |-> a, of |-> p]
    <2>1. r \in MemberJob /\ ~Creates(r) /\ r.do # "sign up"
      BY <1>4 DEF MemberJob, Creates
    <2>2. member[r.of] # Null
      BY <1>4 DEF Begins, Allowed, Usable
    <2> QED
      BY <1>4, <2>1, <2>2, BeginsKeeps
  <1>5. ASSUME NEW w \in Worker, CommitMember(w)
        PROVE  MembersInv'
    BY <1>5, CommitKeepsTypes, CommitKeepsAdmin DEF MembersInv
  <1>6. ASSUME NEW w \in Worker, DropMemberJob(w)
        PROVE  MembersInv'
    BY <1>6 DEF DropMemberJob, MembersInv, MembersTypeOK, NotFirst, AdminRemains,
                FirstMember, CurrentAdmin, Usable
  <1>7. ASSUME NEW w \in Worker, NEW p \in Person, Withdraw(w, p)
        PROVE  MembersInv'
    BY <1>7, <1>4 DEF Withdraw
  <1>8. ASSUME NEW w \in Worker, NEW a \in Person, NEW p \in Person,
               UpdateStatus(w, a, p) \/ UpdateRoles(w, a, p)
        PROVE  MembersInv'
    <2>1. CASE UpdateStatus(w, a, p)
      BY <2>1, <1>4 DEF UpdateStatus
    <2>2. CASE UpdateRoles(w, a, p)
      <3>1. CASE member[p].admin
        BY <2>2, <3>1, <1>4 DEF UpdateRoles
      <3>2. CASE ~member[p].admin
        BY <2>2, <3>2, <1>4 DEF UpdateRoles
      <3> QED
        BY <3>1, <3>2
    <2> QED
      BY <1>8, <2>1, <2>2
  <1> QED
    BY <1>1, <1>2, <1>3, <1>5, <1>6, <1>7, <1>8 DEF MembersNext

(* In every reachable state, for every set of people and of requests open  *)
(* at once, the rows have their types, nobody waits to be the second       *)
(* member of an empty table, and an administrator can log in.              *)
THEOREM MembersInvariance == MembersSpec => []MembersInv
  <1>1. MembersInit => MembersInv
    BY MembersInitially
  <1>2. MembersInv /\ [MembersNext]_memberVars => MembersInv'
    BY MembersStepwise
  <1> QED
    BY <1>1, <1>2, PTL DEF MembersSpec

(* Rows and open requests always have their types (members.models).        *)
THEOREM MembersTypeCorrect == MembersSpec => []MembersTypeOK
  <1>1. MembersInv => MembersTypeOK
    BY DEF MembersInv
  <1> QED
    BY <1>1, MembersInvariance, PTL

(* There is an administrator who can log in from the first signup on, as   *)
(* long as no check of _ensure_not_last_active_admin was overtaken.        *)
THEOREM AnAdminRemains == MembersSpec => []AdminRemains
  <1>1. MembersInv => AdminRemains
    BY DEF MembersInv
  <1> QED
    BY <1>1, MembersInvariance, PTL


(***************************************************************************)
(* Refresh tokens.                                                         *)
(***************************************************************************)

(* The session of a token, and a session logged out, begins with a row.    *)
SessionsRooted ==
    /\ \A t \in Token : token[t] # Null => token[token[t].session] # Null
    /\ \A s \in loggedOut : token[s] # Null

(* An open request issues a token nobody has, and revokes one that was     *)
(* read unrevoked, for the session of that token.                          *)
ExchangesSound ==
    \A w \in Worker : exchange[w] # Null =>
        LET r == exchange[w]
        IN  /\ r.issue # Null => token[r.issue] = Null
            /\ r.revoke # Null => ~r.read /\ r.session = token[r.revoke].session
            /\ r.revoke = Null => r.issue # Null /\ r.session = r.issue

IssuesApart ==
    \A v, w \in Worker :
        v # w /\ exchange[v] # Null /\ exchange[w] # Null /\ exchange[v].issue # Null
            => exchange[v].issue # exchange[w].issue

TokensInv ==
    TokensTypeOK /\ SessionsRooted /\ ExchangesSound /\ IssuesApart /\ TokensRotate

LEMMA TokensInitially ==
    ASSUME TokensInit
    PROVE  TokensInv
  <1>1. TokensTypeOK
    BY DEF TokensInit, Idle, TokensTypeOK
  <1>2. SessionsRooted /\ ExchangesSound /\ IssuesApart /\ TokensRotate
    BY DEF TokensInit, Idle, SessionsRooted, ExchangesSound, IssuesApart, TokensRotate
  <1> QED
    BY <1>1, <1>2 DEF TokensInv

(* A request that begins changes no row. *)
LEMMA BeginExchangeKeeps ==
    ASSUME TokensInv, NEW w \in Worker, NEW r \in TokenJob, BeginExchange(w, r),
           r.issue # Null => Unissued(r.issue),
           r.revoke # Null => /\ token[r.revoke] # Null
                              /\ ~r.read /\ r.session = token[r.revoke].session,
           r.revoke = Null => r.issue # Null /\ r.session = r.issue
    PROVE  TokensInv'
  <1>1. /\ exchange' = [exchange EXCEPT ![w] = r]
        /\ exchange[w] = Null
        /\ UNCHANGED <<usable, token, loggedOut, forked>>
    BY DEF BeginExchange
  <1>2. exchange'[w] = r /\ \A v \in Worker \ {w} : exchange'[v] = exchange[v]
    BY <1>1 DEF TokensInv, TokensTypeOK
  <1>3. TokensTypeOK'
    BY <1>1 DEF TokensInv, TokensTypeOK
  <1>4. SessionsRooted' /\ TokensRotate'
    BY <1>1 DEF TokensInv, SessionsRooted, TokensRotate
  <1>5. r.issue # Null => token[r.issue] = Null
    BY DEF Unissued
  <1>6. ExchangesSound'
    BY <1>1, <1>2, <1>5 DEF TokensInv, ExchangesSound
  <1>7. IssuesApart'
    BY <1>1, <1>2 DEF TokensInv, IssuesApart, Unissued
  <1> QED
    BY <1>3, <1>4, <1>6, <1>7 DEF TokensInv

(* What a commit makes of the rows. *)
LEMMA CommittedRows ==
    ASSUME TokensInv, NEW w \in Worker, CommitExchange(w)
    PROVE  LET r == exchange[w]
           IN  /\ r \in TokenJob
               /\ token' \in [Token -> TokenRow \cup {Null}]
               /\ r.issue # Null =>
                     /\ token[r.issue] = Null
                     /\ token'[r.issue] = [of |-> r.of, session |-> r.session,
                                           revoked |-> FALSE, expired |-> FALSE]
               /\ r.revoke # Null =>
                     /\ token[r.revoke] # Null /\ r.revoke # r.issue
                     /\ token'[r.revoke] # Null /\ token'[r.revoke].revoked
                     /\ token'[r.revoke].session = token[r.revoke].session
               /\ \A t \in Token \ {r.issue, r.revoke} : token'[t] = token[t]
               /\ \A t \in Token : token[t] # Null =>
                     /\ token'[t] # Null
                     /\ token'[t].session = token[t].session
                     /\ ~token'[t].revoked => ~token[t].revoked
  <1> DEFINE r == exchange[w]
  <1>1. r # Null /\ r \in TokenJob
    BY DEF CommitExchange, TokensInv, TokensTypeOK
  <1>2. /\ token \in [Token -> TokenRow \cup {Null}]
        /\ r.issue # Null => token[r.issue] = Null
        /\ r.revoke # Null => token[r.revoke] # Null
    BY <1>1 DEF TokensInv, TokensTypeOK, ExchangesSound
  <1>3. token' = [t \in Token |->
            IF t = r.issue
            THEN [of |-> r.of, session |-> r.session, revoked |-> FALSE, expired |-> FALSE]
            ELSE IF t = r.revoke THEN [token[t] EXCEPT !.revoked = TRUE]
            ELSE token[t]]
    BY DEF CommitExchange
  <1>4. [of |-> r.of, session |-> r.session, revoked |-> FALSE, expired |-> FALSE] \in TokenRow
    BY <1>1 DEF TokenJob, TokenRow
  <1>5. ASSUME NEW t \in Token, token[t] # Null
        PROVE  /\ token[t] \in TokenRow
               /\ [token[t] EXCEPT !.revoked = TRUE] \in TokenRow
               /\ [token[t] EXCEPT !.revoked = TRUE].revoked
               /\ [token[t] EXCEPT !.revoked = TRUE].session = token[t].session
    <2>1. token[t] \in TokenRow
      BY <1>2, <1>5
    <2> QED
      BY <2>1 DEF TokenRow
  <1>6. ASSUME NEW t \in Token
        PROVE  token'[t] \in TokenRow \cup {Null}
    <2>1. CASE t = r.issue
      BY <2>1, <1>3, <1>4
    <2>2. CASE t # r.issue /\ t = r.revoke
      BY <2>2, <1>2, <1>3, <1>5, TokensAssumption
    <2>3. CASE t # r.issue /\ t # r.revoke
      BY <2>3, <1>2, <1>3
    <2> QED
      BY <2>1, <2>2, <2>3
  <1>7. token' \in [Token -> TokenRow \cup {Null}]
    BY <1>3, <1>6
  <1>8. r.issue # Null => r.issue \in Token
    BY <1>1 DEF TokenJob
  <1>9. r.revoke # Null => r.revoke \in Token /\ r.revoke # r.issue
    BY <1>1, <1>2 DEF TokenJob
  <1>10. r.issue # Null => token'[r.issue] = [of |-> r.of, session |-> r.session,
                                              revoked |-> FALSE, expired |-> FALSE]
    BY <1>3, <1>8
  <1>11. r.revoke # Null =>
            /\ token'[r.revoke] # Null /\ token'[r.revoke].revoked
            /\ token'[r.revoke].session = token[r.revoke].session
    BY <1>2, <1>3, <1>5, <1>9, TokenRowsAssumption
  <1>12. \A t \in Token \ {r.issue, r.revoke} : token'[t] = token[t]
    BY <1>3
  <1>13. ASSUME NEW t \in Token, token[t] # Null
         PROVE  /\ token'[t] # Null
                /\ token'[t].session = token[t].session
                /\ ~token'[t].revoked => ~token[t].revoked
    <2>1. t # r.issue
      BY <1>2, <1>13, TokensAssumption
    <2>2. CASE t = r.revoke
      BY <2>2, <1>11, <1>13, TokensAssumption
    <2>3. CASE t # r.revoke
      BY <2>1, <2>3, <1>12, <1>13
    <2> QED
      BY <2>2, <2>3
  <1> QED
    BY <1>1, <1>2, <1>7, <1>9, <1>10, <1>11, <1>12, <1>13

LEMMA CommitExchangeKeeps ==
    ASSUME TokensInv, NEW w \in Worker, CommitExchange(w)
    PROVE  TokensInv'
  <1> DEFINE r == exchange[w]
  <1>1. /\ r \in TokenJob /\ r # Null
        /\ token' \in [Token -> TokenRow \cup {Null}]
        /\ r.issue # Null =>
              /\ token[r.issue] = Null
              /\ token'[r.issue] = [of |-> r.of, session |-> r.session,
                                    revoked |-> FALSE, expired |-> FALSE]
        /\ r.revoke # Null =>
              /\ token[r.revoke] # Null /\ r.revoke # r.issue
              /\ token'[r.revoke] # Null /\ token'[r.revoke].revoked
              /\ token'[r.revoke].session = token[r.revoke].session
        /\ \A t \in Token \ {r.issue, r.revoke} : token'[t] = token[t]
        /\ \A t \in Token : token[t] # Null =>
              /\ token'[t] # Null
              /\ token'[t].session = token[t].session
              /\ ~token'[t].revoked => ~token[t].revoked
    BY CommittedRows DEF CommitExchange
  <1>2. /\ r.session \in Token
        /\ r.issue \in Token \cup {Null} /\ r.revoke \in Token \cup {Null}
    BY <1>1 DEF TokenJob
  <1>3. /\ r.revoke # Null => ~r.read /\ r.session = token[r.revoke].session
        /\ r.revoke = Null => r.issue # Null /\ r.session = r.issue
    BY <1>1 DEF TokensInv, ExchangesSound
  <1>4. /\ exchange' = [exchange EXCEPT ![w] = Null]
        /\ loggedOut' = IF r.issue = Null THEN loggedOut \cup {r.session} ELSE loggedOut
        /\ forked' = (forked \/ (r.revoke # Null /\ token[r.revoke].revoked # r.read))
        /\ usable' = usable
    BY DEF CommitExchange
  <1>5. \A v \in Worker : exchange'[v] # Null => v # w /\ exchange'[v] = exchange[v]
    BY <1>4 DEF TokensInv, TokensTypeOK
  <1>6. TokensTypeOK'
    <2>1. exchange' \in [Worker -> TokenJob \cup {Null}] /\ usable' \subseteq User
      BY <1>4 DEF TokensInv, TokensTypeOK
    <2>2. loggedOut' \subseteq Token
      BY <1>2, <1>4 DEF TokensInv, TokensTypeOK
    <2>3. forked' \in BOOLEAN
      BY <1>4 DEF TokensInv, TokensTypeOK
    <2>4. ASSUME NEW v \in Worker, exchange'[v] # Null, exchange'[v].revoke # Null
          PROVE  token'[exchange'[v].revoke] # Null
      <3>1. exchange'[v] = exchange[v] /\ exchange[v] \in TokenJob
        BY <1>5, <2>4 DEF TokensInv, TokensTypeOK
      <3>2. exchange[v].revoke \in Token /\ token[exchange[v].revoke] # Null
        BY <3>1, <2>4 DEF TokensInv, TokensTypeOK, TokenJob
      <3> QED
        BY <3>1, <3>2, <1>1
    <2> QED
      BY <1>1, <2>1, <2>2, <2>3, <2>4 DEF TokensTypeOK
  <1>7. \A t \in Token : token'[t] # Null => token[t] # Null \/ t = r.issue
    BY <1>1, <1>2, TokensAssumption
  <1>8. token'[r.session] # Null
    <2>1. CASE r.revoke = Null
      <3>1. [of |-> r.of, session |-> r.session, revoked |-> FALSE, expired |-> FALSE]
               \in TokenRow
        BY <1>1 DEF TokenJob, TokenRow
      <3> QED
        BY <3>1, <2>1, <1>1, <1>3, TokenRowsAssumption
    <2>2. CASE r.revoke # Null
      <3>1. r.revoke \in Token /\ token[r.session] # Null
        BY <1>1, <1>2, <1>3, <2>2 DEF TokensInv, SessionsRooted
      <3> QED
        BY <3>1, <1>1, <1>2
    <2> QED
      BY <2>1, <2>2
  <1>9. SessionsRooted'
    <2>1. ASSUME NEW t \in Token, token'[t] # Null
          PROVE  token'[token'[t].session] # Null
      <3>1. CASE t = r.issue
        BY <3>1, <1>1, <1>8, TokensAssumption
      <3>2. CASE token[t] # Null
        <4>1. token[t].session \in Token
          BY <3>2 DEF TokensInv, TokensTypeOK, TokenRow
        <4>2. token[token[t].session] # Null
          BY <3>2 DEF TokensInv, SessionsRooted
        <4> QED
          BY <3>2, <4>1, <4>2, <1>1
      <3> QED
        BY <2>1, <1>7, <3>1, <3>2
    <2>2. ASSUME NEW s \in loggedOut'
          PROVE  token'[s] # Null
      <3>1. CASE s = r.session
        BY <3>1, <1>8
      <3>2. CASE s \in loggedOut
        BY <3>2, <1>1 DEF TokensInv, TokensTypeOK, SessionsRooted
      <3> QED
        BY <2>2, <1>4, <3>1, <3>2
    <2> QED
      BY <2>1, <2>2 DEF SessionsRooted
  <1>10. ExchangesSound'
    <2> SUFFICES ASSUME NEW v \in Worker, exchange'[v] # Null
                 PROVE  /\ exchange'[v].issue # Null => token'[exchange'[v].issue] = Null
                        /\ exchange'[v].revoke # Null =>
                              /\ ~exchange'[v].read
                              /\ exchange'[v].session = token'[exchange'[v].revoke].session
                        /\ exchange'[v].revoke = Null =>
                              /\ exchange'[v].issue # Null
                              /\ exchange'[v].session = exchange'[v].issue
      BY DEF ExchangesSound
    <2> DEFINE q == exchange[v]
    <2>1. exchange'[v] = q /\ v # w /\ q # Null /\ q \in TokenJob
      BY <1>5 DEF TokensInv, TokensTypeOK
    <2>2. /\ q.issue # Null => token[q.issue] = Null
          /\ q.revoke # Null => ~q.read /\ q.session = token[q.revoke].session
          /\ q.revoke = Null => q.issue # Null /\ q.session = q.issue
      BY <2>1 DEF TokensInv, ExchangesSound
    <2>3. q.issue \in Token \cup {Null} /\ q.revoke \in Token \cup {Null}
      BY <2>1 DEF TokenJob
    <2>4. q.issue # Null => q.issue # r.issue
      BY <1>1, <2>1 DEF TokensInv, IssuesApart
    <2>5. q.issue # Null => token'[q.issue] = Null
      BY <2>2, <2>3, <2>4, <1>7
    <2>6. q.revoke # Null => token[q.revoke] # Null
      BY <2>1 DEF TokensInv, TokensTypeOK
    <2>7. q.revoke # Null => token'[q.revoke].session = token[q.revoke].session
      BY <2>3, <2>6, <1>1
    <2> QED
      BY <2>1, <2>2, <2>5, <2>7
  <1>11. IssuesApart'
    BY <1>5 DEF TokensInv, IssuesApart
  <1>12. TokensRotate'
    <2> SUFFICES ASSUME ~forked',
                        NEW t \in Token, NEW u \in Token,
                        token'[t] # Null, ~token'[t].revoked,
                        token'[u] # Null, ~token'[u].revoked,
                        token'[t].session = token'[u].session
                 PROVE  t = u /\ token'[t].session \notin loggedOut'
      BY DEF TokensRotate
    <2>1. ~forked /\ (r.revoke # Null => ~token[r.revoke].revoked)
      BY <1>3, <1>4, <1>1, <1>2 DEF TokensInv, TokensTypeOK, TokenRow
    <2>2. \A x, y \in Token :
              /\ token[x] # Null /\ ~token[x].revoked
              /\ token[y] # Null /\ ~token[y].revoked
              /\ token[x].session = token[y].session
              => x = y /\ token[x].session \notin loggedOut
      BY <2>1 DEF TokensInv, TokensRotate
    <2>3. t # r.revoke /\ u # r.revoke
      BY <1>1, TokensAssumption
    <2>4. \A x \in Token : token'[x] # Null /\ ~token'[x].revoked /\ x # r.issue =>
              /\ token[x] # Null /\ ~token[x].revoked
              /\ token'[x].session = token[x].session
      BY <1>1, <1>7
    (* No row but the revoked one may go on with the session of r. *)
    <2>5. ASSUME NEW x \in Token, token[x] # Null, ~token[x].revoked, x # r.revoke
          PROVE  token[x].session # r.session
      <3>1. CASE r.revoke = Null
        <4>1. token[r.session] = Null
          BY <3>1, <1>1, <1>3
        <4> QED
          BY <4>1, <2>5 DEF TokensInv, SessionsRooted
      <3>2. CASE r.revoke # Null
        BY <3>2, <2>1, <2>2, <2>5, <1>1, <1>2, <1>3
      <3> QED
        BY <3>1, <3>2
    <2>6. r.issue # Null => r.session \notin loggedOut
      <3>1. CASE r.revoke = Null
        BY <3>1, <1>1, <1>3 DEF TokensInv, SessionsRooted
      <3>2. CASE r.revoke # Null
        BY <3>2, <2>1, <2>2, <1>1, <1>2, <1>3
      <3> QED
        BY <3>1, <3>2
    <2>7. t = r.issue => token'[t].session = r.session
      BY <1>1, TokensAssumption
    <2>8. u = r.issue => token'[u].session = r.session
      BY <1>1, TokensAssumption
    <2>9. CASE t = r.issue
      <3>1. u = r.issue
        BY <2>3, <2>4, <2>5, <2>7, <2>9
      <3>2. loggedOut' = loggedOut
        BY <1>4, <2>9, TokensAssumption
      <3> QED
        BY <3>1, <3>2, <2>6, <2>7, <2>9, TokensAssumption
    <2>10. CASE t # r.issue
      <3>1. /\ token[t] # Null /\ ~token[t].revoked
            /\ token'[t].session = token[t].session /\ token[t].session # r.session
        BY <2>3, <2>4, <2>5, <2>10
      <3>2. u # r.issue
        BY <3>1, <2>8
      <3>3. /\ token[u] # Null /\ ~token[u].revoked
            /\ token'[u].session = token[u].session
        BY <3>2, <2>4
      <3> QED
        BY <3>1, <3>3, <2>2, <1>4
    <2> QED
      BY <2>9, <2>10
  <1> QED
    BY <1>6, <1>9, <1>10, <1>11, <1>12 DEF TokensInv

LEMMA TokensStepwise ==
    ASSUME TokensInv, [TokensNext]_tokenVars
    PROVE  TokensInv'
  <1>1. CASE UNCHANGED tokenVars
    BY <1>1 DEF tokenVars, TokensInv, TokensTypeOK, SessionsRooted, ExchangesSound,
                IssuesApart, TokensRotate
  <1>2. ASSUME NEW w \in Worker, NEW p \in User, NEW t \in Token,
               Login(w, p, t) \/ Signup(w, p, t)
        PROVE  TokensInv'
    <2> DEFINE r == [of |-> p, session |-> t, issue |-> t, revoke |-> Null, read |-> FALSE]
    <2>1. r \in TokenJob /\ r.issue = t /\ r.session = t /\ r.revoke = Null
      BY DEF TokenJob
    <2>2. BeginExchange(w, r) /\ Unissued(t) /\ t # Null
      BY <1>2, TokensAssumption DEF Login, Signup
    <2> HIDE DEF r
    <2> QED
      BY <2>1, <2>2, BeginExchangeKeeps
  <1>3. ASSUME NEW w \in Worker, NEW old \in Token, NEW t \in Token, Refresh(w, old, t)
        PROVE  TokensInv'
    <2> DEFINE r == [of |-> token[old].of, session |-> token[old].session,
                     issue |-> t, revoke |-> old, read |-> token[old].revoked]
    <2>1. token[old] # Null /\ token[old] \in TokenRow /\ ~token[old].revoked
      BY <1>3 DEF Refresh, Valid, TokensInv, TokensTypeOK
    <2>2. /\ r \in TokenJob /\ r.issue = t /\ r.revoke = old
          /\ ~r.read /\ r.session = token[old].session
      BY <2>1 DEF TokenJob, TokenRow
    <2>3. BeginExchange(w, r) /\ Unissued(t) /\ old # Null
      BY <1>3, TokensAssumption DEF Refresh
    <2> HIDE DEF r
    <2> QED
      BY <2>1, <2>2, <2>3, BeginExchangeKeeps
  <1>4. ASSUME NEW w \in Worker, NEW old \in Token, Logout(w, old)
        PROVE  TokensInv'
    <2> DEFINE r == [of |-> token[old].of, session |-> token[old].session,
                     issue |-> Null, revoke |-> old, read |-> token[old].revoked]
    <2>1. token[old] # Null /\ token[old] \in TokenRow /\ ~token[old].revoked
      BY <1>4 DEF Logout, TokensInv, TokensTypeOK
    <2>2. /\ r \in TokenJob /\ r.issue = Null /\ r.revoke = old
          /\ ~r.read /\ r.session = token[old].session
      BY <2>1 DEF TokenJob, TokenRow
    <2>3. BeginExchange(w, r) /\ old # Null
      BY <1>4, TokensAssumption DEF Logout
    <2> HIDE DEF r
    <2> QED
      BY <2>1, <2>2, <2>3, BeginExchangeKeeps
  <1>5. ASSUME NEW w \in Worker, CommitExchange(w)
        PROVE  TokensInv'
    BY <1>5, CommitExchangeKeeps
  <1>6. ASSUME NEW w \in Worker, DropExchange(w)
        PROVE  TokensInv'
    BY <1>6 DEF DropExchange, TokensInv, TokensTypeOK, SessionsRooted, ExchangesSound,
                IssuesApart, TokensRotate
  <1>7. ASSUME NEW t \in Token, ExpireToken(t)
        PROVE  TokensInv'
    <2>1. token[t] # Null /\ token[t] \in TokenRow
      BY <1>7 DEF ExpireToken, TokensInv, TokensTypeOK
    <2>2. [token[t] EXCEPT !.expired = TRUE] \in TokenRow
      BY <2>1 DEF TokenRow
    <2>3. /\ token' = [token EXCEPT ![t] = [token[t] EXCEPT !.expired = TRUE]]
          /\ UNCHANGED <<usable, exchange, loggedOut, forked>>
      BY <1>7 DEF ExpireToken
    <2>4. token' \in [Token -> TokenRow \cup {Null}]
      BY <2>2, <2>3 DEF TokensInv, TokensTypeOK
    <2>5. \A u \in Token :
              /\ token[u] # Null <=> token'[u] # Null
              /\ token[u] # Null => /\ token'[u].session = token[u].session
                                    /\ token'[u].revoked = token[u].revoked
      <3>1. /\ token'[t] # Null
            /\ token'[t].session = token[t].session
            /\ token'[t].revoked = token[t].revoked
        BY <2>1, <2>2, <2>3, TokenRowsAssumption DEF TokensInv, TokensTypeOK, TokenRow
      <3>2. \A u \in Token \ {t} : token'[u] = token[u]
        BY <2>3 DEF TokensInv, TokensTypeOK
      <3> QED
        BY <2>1, <3>1, <3>2
    <2>6. TokensTypeOK'
      <3>1. \A w \in Worker : exchange[w] # Null /\ exchange[w].revoke # Null =>
                exchange[w].revoke \in Token /\ token[exchange[w].revoke] # Null
        BY DEF TokensInv, TokensTypeOK, TokenJob
      <3> QED
        BY <2>3, <2>4, <2>5, <3>1 DEF TokensInv, TokensTypeOK
    <2>7. SessionsRooted'
      <3>1. \A u \in Token : token[u] # Null => token[u].session \in Token
        BY DEF TokensInv, TokensTypeOK, TokenRow
      <3> QED
        BY <2>3, <2>5, <3>1 DEF TokensInv, TokensTypeOK, SessionsRooted
    <2>8. ExchangesSound'
      <3>1. \A w \in Worker : exchange[w] # Null =>
                /\ exchange[w].issue \in Token \cup {Null}
                /\ exchange[w].revoke # Null =>
                      exchange[w].revoke \in Token /\ token[exchange[w].revoke] # Null
        BY DEF TokensInv, TokensTypeOK, TokenJob
      <3> QED
        BY <2>3, <2>5, <3>1 DEF TokensInv, ExchangesSound
    <2>9. IssuesApart' /\ TokensRotate'
      BY <2>3, <2>5 DEF TokensInv, IssuesApart, TokensRotate
    <2> QED
      BY <2>6, <2>7, <2>8, <2>9 DEF TokensInv
  <1>8. ASSUME NEW p \in User, ChangeUsable(p)
        PROVE  TokensInv'
    BY <1>8 DEF ChangeUsable, TokensInv, TokensTypeOK, SessionsRooted, ExchangesSound,
                IssuesApart, TokensRotate
  <1> QED
    BY <1>1, <1>2, <1>3, <1>4, <1>5, <1>6, <1>7, <1>8 DEF TokensNext

(* In every reachable state, for every set of members, tokens and open     *)
(* requests, sessions begin with a row, open requests issue new tokens and *)
(* revoke those of their session, and sessions have one token.             *)
THEOREM TokensInvariance == TokensSpec => []TokensInv
  <1>1. TokensInit => TokensInv
    BY TokensInitially
  <1>2. TokensInv /\ [TokensNext]_tokenVars => TokensInv'
    BY TokensStepwise
  <1> QED
    BY <1>1, <1>2, PTL DEF TokensSpec

(* A session has at most one token that is not revoked, and none after a   *)
(* logout, as long as no exchange was overtaken (AuthService.refresh).     *)
THEOREM TokensAlwaysRotate == TokensSpec => []TokensRotate
  <1>1. TokensInv => TokensRotate
    BY DEF TokensInv
  <1> QED
    BY <1>1, TokensInvariance, PTL

(***************************************************************************)
(* Versions of the application.                                            *)
(***************************************************************************)

(* A request that found versions registered still finds some.              *)
FoundStays ==
    outrun \/ \A w \in Worker :
        change[w] # Null /\ change[w].version # Null /\ ~change[w].seeds => registered # {}

VersionsInv == VersionsTypeOK /\ FoundStays /\ ActiveRegistered

LEMMA VersionsInitially ==
    ASSUME VersionsInit
    PROVE  VersionsInv
  BY VersionsAssumption DEF VersionsInit, Idle, VersionsInv, VersionsTypeOK, FoundStays,
     ActiveRegistered, ActiveOf, Listed

(* A request that begins changes no row. *)
LEMMA BeginChangeKeeps ==
    ASSUME VersionsInv, NEW w \in Worker, NEW r \in VersionJob,
           change' = [change EXCEPT ![w] = r],
           UNCHANGED <<registered, active, notice, outrun>>,
           r.version # Null => r.seeds = (registered = {})
    PROVE  VersionsInv'
  <1>1. VersionsTypeOK'
    BY DEF VersionsInv, VersionsTypeOK
  <1>2. FoundStays'
    BY DEF VersionsInv, VersionsTypeOK, FoundStays
  <1>3. ActiveRegistered'
    BY DEF VersionsInv, ActiveRegistered, ActiveOf, Listed
  <1> QED
    BY <1>1, <1>2, <1>3 DEF VersionsInv

(* The rows a commit leaves, if no check failed by then: with versions     *)
(* registered before there are some, and the active one among them.        *)
LEMMA CommittedVersions ==
    ASSUME VersionsInv, NEW w \in Worker, CommitChange(w), ~outrun'
    PROVE  /\ registered # {} => registered' # {}
           /\ ActiveOf(active') \in Listed(registered')
  <1> DEFINE r == change[w]
             reg == IF r.seeds THEN Seed ELSE registered
  <1>1. r # Null /\ r \in VersionJob
    BY DEF CommitChange, VersionsInv, VersionsTypeOK
  <1>2. /\ r.seeds => registered = {}
        /\ registered' = IF r.do = "add" THEN reg \cup {r.version}
                         ELSE IF r.do = "delete" THEN reg \ {r.version} ELSE reg
        /\ active' = IF r.do = "activate" THEN r.version
                     ELSE IF r.do = "delete" /\ r.insert THEN First ELSE active
        /\ r.do \notin {"show", "hide"} /\ r.insert => active = Null
    BY DEF CommitChange, RowsAsRead
  <1>3. ~outrun /\ (r.version = Null \/ Passes(registered, active, r))
    BY DEF CommitChange, VersionsInv, VersionsTypeOK
  <1>4. ActiveOf(active) \in Listed(registered)
    BY <1>3 DEF VersionsInv, ActiveRegistered
  <1>5. r.version # Null => reg = Listed(registered) /\ reg # {}
    BY <1>1, <1>2, <1>3, VersionsAssumption DEF VersionsInv, FoundStays, Listed
  <1>6. CASE r.do \in {"show", "hide"}
    BY <1>1, <1>2, <1>4, <1>6 DEF VersionJob
  <1>7. CASE r.do \notin {"show", "hide"}
    <2>1. r.version \in Version /\ r.version # Null
      BY <1>1, <1>7, VersionsAssumption DEF VersionJob
    <2>2. Passes(registered, active, r)
      BY <1>3, <2>1
    <2>3. CASE r.do = "activate"
      <3>1. r.version \in reg /\ registered' = reg /\ active' = r.version
        BY <1>2, <1>5, <2>1, <2>2, <2>3 DEF Passes
      <3> QED
        BY <3>1, <1>5, <2>1 DEF Listed, ActiveOf
    <2>4. CASE r.do = "add"
      <3>1. registered' = reg \cup {r.version} /\ active' = active
        BY <1>2, <2>4
      <3> QED
        BY <3>1, <1>4, <1>5, <2>1 DEF Listed
    <2>5. CASE r.do = "delete"
      <3>1. registered' = reg \ {r.version} /\ ActiveOf(active') = ActiveOf(active)
        BY <1>2, <2>5, VersionsAssumption DEF ActiveOf
      <3>2. ActiveOf(active) # r.version
        BY <2>2, <2>5 DEF Passes, Deletable
      <3>3. ActiveOf(active) \in registered'
        BY <3>1, <3>2, <1>4, <1>5, <2>1
      <3> QED
        BY <3>1, <3>3 DEF Listed
    <2>6. CASE r.do = "write notes"
      <3>1. registered' = reg /\ active' = active
        BY <1>2, <2>6
      <3> QED
        BY <3>1, <1>4, <1>5, <2>1 DEF Listed
    <2> QED
      BY <1>1, <1>7, <2>3, <2>4, <2>5, <2>6 DEF VersionJob
  <1> QED
    BY <1>6, <1>7

LEMMA CommitChangeKeeps ==
    ASSUME VersionsInv, NEW w \in Worker, CommitChange(w)
    PROVE  VersionsInv'
  <1> DEFINE r == change[w]
  <1>1. r # Null /\ r \in VersionJob
    BY DEF CommitChange, VersionsInv, VersionsTypeOK
  <1>2. r.version \in Version \cup {Null} /\ (r.do \notin {"show", "hide"} => r.version \in Version)
    BY <1>1 DEF VersionJob
  <1>3. VersionsTypeOK'
    <2>1. registered' \subseteq Version
      BY <1>2, VersionsAssumption DEF CommitChange, VersionsInv, VersionsTypeOK
    <2>2. active' \in Version \cup {Null}
      BY <1>2, VersionsAssumption DEF CommitChange, VersionsInv, VersionsTypeOK
    <2>3. notice' \in BOOLEAN \cup {Null}
      BY DEF CommitChange, VersionsInv, VersionsTypeOK
    <2>4. change' \in [Worker -> VersionJob \cup {Null}]
      BY DEF CommitChange, VersionsInv, VersionsTypeOK
    <2>5. outrun' \in BOOLEAN
      BY DEF CommitChange, VersionsInv, VersionsTypeOK
    <2> QED
      BY <2>1, <2>2, <2>3, <2>4, <2>5 DEF VersionsTypeOK
  <1>4. FoundStays'
    <2> SUFFICES ASSUME ~outrun', NEW v \in Worker,
                        change'[v] # Null, change'[v].version # Null, ~change'[v].seeds
                 PROVE  registered' # {}
      BY DEF FoundStays
    <2>1. change'[v] = change[v] /\ ~outrun
      BY DEF CommitChange, VersionsInv, VersionsTypeOK
    <2>2. registered # {}
      BY <2>1 DEF VersionsInv, FoundStays
    <2> QED
      BY <2>2, CommittedVersions
  <1>5. ActiveRegistered'
    BY CommittedVersions DEF ActiveRegistered
  <1> QED
    BY <1>3, <1>4, <1>5 DEF VersionsInv

LEMMA VersionsStepwise ==
    ASSUME VersionsInv, [VersionsNext]_versionVars
    PROVE  VersionsInv'
  <1>1. CASE UNCHANGED versionVars
    BY <1>1 DEF versionVars, VersionsInv, VersionsTypeOK, FoundStays, ActiveRegistered,
                ActiveOf, Listed
  <1>2. ASSUME NEW w \in Worker, NEW v \in Version,
               NEW do \in {"activate", "add", "delete", "write notes"}, BeginChange(w, do, v)
        PROVE  VersionsInv'
    <2> DEFINE r == [do |-> do, version |-> v, seeds |-> registered = {},
                     insert |-> do \in {"activate", "delete"} /\ active = Null]
    <2>1. r \in VersionJob /\ r.seeds = (registered = {})
      BY DEF VersionJob
    <2>2. change' = [change EXCEPT ![w] = r] /\ UNCHANGED <<registered, active, notice, outrun>>
      BY <1>2 DEF BeginChange
    <2> HIDE DEF r
    <2> QED
      BY <2>1, <2>2, BeginChangeKeeps
  <1>3. ASSUME NEW w \in Worker, NEW b \in BOOLEAN, SetNoticeEnabled(w, b)
        PROVE  VersionsInv'
    <2> DEFINE r == [do |-> IF b THEN "show" ELSE "hide", version |-> Null,
                     seeds |-> FALSE, insert |-> notice = Null]
    <2>1. r \in VersionJob /\ r.version = Null
      BY DEF VersionJob
    <2>2. change' = [change EXCEPT ![w] = r] /\ UNCHANGED <<registered, active, notice, outrun>>
      BY <1>3 DEF SetNoticeEnabled
    <2> HIDE DEF r
    <2> QED
      BY <2>1, <2>2, BeginChangeKeeps
  <1>4. ASSUME NEW w \in Worker, CommitChange(w)
        PROVE  VersionsInv'
    BY <1>4, CommitChangeKeeps
  <1>5. ASSUME NEW w \in Worker, DropChange(w)
        PROVE  VersionsInv'
    BY <1>5 DEF DropChange, VersionsInv, VersionsTypeOK, FoundStays, ActiveRegistered,
                ActiveOf, Listed
  <1> QED
    BY <1>1, <1>2, <1>3, <1>4, <1>5
       DEF VersionsNext, SetVersion, AddVersion, DeleteVersion, SetNotes

(* In every reachable state, for every set of versions and open requests,  *)
(* rows and requests have their types, versions once found remain, and the *)
(* active one is among them.                                               *)
THEOREM VersionsInvariance == VersionsSpec => []VersionsInv
  <1>1. VersionsInit => VersionsInv
    BY VersionsInitially
  <1>2. VersionsInv /\ [VersionsNext]_versionVars => VersionsInv'
    BY VersionsStepwise
  <1> QED
    BY <1>1, <1>2, PTL DEF VersionsSpec

(* The version the service shows is registered, as long as no check was    *)
(* overtaken (delete_version).                                             *)
THEOREM TheActiveIsRegistered == VersionsSpec => []ActiveRegistered
  <1>1. VersionsInv => ActiveRegistered
    BY DEF VersionsInv
  <1> QED
    BY <1>1, VersionsInvariance, PTL

(***************************************************************************)
(* Names of members.                                                       *)
(***************************************************************************)

(* An open request writes names.                                           *)
EditsSound ==
    \A w \in Worker : edit[w] # Null =>
        \A f \in DOMAIN edit[w].names : edit[w].names[f] \in Name

ProfilesInv == ProfilesTypeOK /\ EditsSound /\ NamesUnambiguous

LEMMA ProfilesInitially ==
    ASSUME ProfilesInit
    PROVE  ProfilesInv
  BY DEF ProfilesInit, Idle, ProfilesInv, ProfilesTypeOK, EditsSound, NamesUnambiguous

(* A request that begins changes no row. *)
LEMMA BeginEditKeeps ==
    ASSUME ProfilesInv, NEW w \in Worker, NEW r, BeginEdit(w, r),
           r.of \in Account, DOMAIN r.names \subseteq Field,
           \A f \in DOMAIN r.names : r.names[f] \in Name,
           profile[r.of] = Null => DOMAIN r.names = Field
    PROVE  ProfilesInv'
  <1>1. edit' = [edit EXCEPT ![w] = r] /\ UNCHANGED <<profile, overtaken>>
    BY DEF BeginEdit
  <1>2. /\ DOMAIN edit' = Worker /\ edit'[w] = r
        /\ \A v \in Worker \ {w} : edit'[v] = edit[v]
    BY <1>1 DEF ProfilesInv, ProfilesTypeOK
  <1>3. ProfilesTypeOK'
    BY <1>1, <1>2 DEF ProfilesInv, ProfilesTypeOK
  <1>4. EditsSound'
    BY <1>2 DEF ProfilesInv, EditsSound
  <1>5. NamesUnambiguous'
    BY <1>1 DEF ProfilesInv, NamesUnambiguous
  <1> QED
    BY <1>3, <1>4, <1>5 DEF ProfilesInv

(* The row a commit writes: names, those of the request or those before. *)
LEMMA CommittedNames ==
    ASSUME ProfilesInv, NEW w \in Worker, CommitEdit(w)
    PROVE  LET r == edit[w]
           IN  /\ r # Null /\ r.of \in Account
               /\ profile' \in [Account -> [Field -> Name] \cup {Null}]
               /\ profile'[r.of] \in [Field -> Name]
               /\ \A p \in Account \ {r.of} : profile'[p] = profile[p]
               /\ \A f \in Field : f \in DOMAIN r.names => profile'[r.of][f] = r.names[f]
               /\ \A f \in Field : f \notin DOMAIN r.names =>
                     profile[r.of] # Null /\ profile'[r.of][f] = profile[r.of][f]
  <1> DEFINE r   == edit[w]
             kept == [f \in Field |-> IF f \in DOMAIN r.names
                                       THEN r.names[f] ELSE profile[r.of][f]]
  <1>1. /\ r # Null /\ r.of \in Account
        /\ profile \in [Account -> [Field -> Name] \cup {Null}]
        /\ profile[r.of] = Null => DOMAIN r.names = Field
        /\ \A f \in DOMAIN r.names : r.names[f] \in Name
    BY DEF CommitEdit, ProfilesInv, ProfilesTypeOK, EditsSound
  <1>2. profile' = [profile EXCEPT ![r.of] = kept]
    BY DEF CommitEdit
  <1>3. \A f \in Field : f \notin DOMAIN r.names => profile[r.of] \in [Field -> Name]
    BY <1>1
  <1>4. kept \in [Field -> Name]
    BY <1>1, <1>3
  <1>5. profile'[r.of] = kept /\ \A p \in Account \ {r.of} : profile'[p] = profile[p]
    BY <1>1, <1>2
  <1>6. profile' \in [Account -> [Field -> Name] \cup {Null}]
    BY <1>1, <1>2, <1>4
  <1> QED
    BY <1>1, <1>3, <1>4, <1>5, <1>6

LEMMA CommitEditKeeps ==
    ASSUME ProfilesInv, NEW w \in Worker, CommitEdit(w)
    PROVE  ProfilesInv'
  <1> DEFINE r == edit[w]
  <1>1. /\ r # Null /\ r.of \in Account
        /\ profile' \in [Account -> [Field -> Name] \cup {Null}]
        /\ profile'[r.of] \in [Field -> Name]
        /\ \A p \in Account \ {r.of} : profile'[p] = profile[p]
        /\ \A f \in Field : f \in DOMAIN r.names => profile'[r.of][f] = r.names[f]
        /\ \A f \in Field : f \notin DOMAIN r.names =>
              profile[r.of] # Null /\ profile'[r.of][f] = profile[r.of][f]
    BY CommittedNames
  <1>2. /\ edit' = [edit EXCEPT ![w] = Null]
        /\ overtaken' = (overtaken \/ ~NamesFree(profile, r))
    BY DEF CommitEdit
  <1>3. /\ DOMAIN edit' = Worker
        /\ \A v \in Worker : edit'[v] # Null => edit'[v] = edit[v]
    BY <1>2 DEF ProfilesInv, ProfilesTypeOK
  <1>4. \A p \in Account : profile'[p] = Null => profile[p] = Null
    BY <1>1, ProfilesAssumption
  <1>5. ProfilesTypeOK'
    <2>1. overtaken' \in BOOLEAN
      BY <1>2 DEF ProfilesInv, ProfilesTypeOK
    <2>2. ASSUME NEW v \in Worker, edit'[v] # Null
          PROVE  /\ edit'[v].of \in Account
                 /\ DOMAIN edit'[v].names \subseteq Field
                 /\ profile'[edit'[v].of] = Null => DOMAIN edit'[v].names = Field
      BY <1>3, <1>4, <2>2 DEF ProfilesInv, ProfilesTypeOK
    <2> QED
      BY <1>1, <1>3, <2>1, <2>2 DEF ProfilesTypeOK
  <1>6. EditsSound'
    BY <1>3 DEF ProfilesInv, EditsSound
  <1>7. NamesUnambiguous'
    <2> SUFFICES ASSUME ~overtaken'
                 PROVE  \A f \in Field, p, o \in {a \in Account : profile'[a] # Null} :
                            Fold[profile'[p][f]] = Fold[profile'[o][f]] => p = o
      BY DEF NamesUnambiguous
    <2>1. ~overtaken /\ NamesFree(profile, r)
      BY <1>2 DEF ProfilesInv, ProfilesTypeOK
    <2>2. \A f \in Field, p, o \in {a \in Account : profile[a] # Null} :
              Fold[profile[p][f]] = Fold[profile[o][f]] => p = o
      BY <2>1 DEF ProfilesInv, NamesUnambiguous
    (* Nobody else has one of the names of the row written. *)
    <2>3. ASSUME NEW f \in Field, NEW o \in Account, o # r.of, profile[o] # Null
          PROVE  Fold[profile[o][f]] # Fold[profile'[r.of][f]]
      <3>1. CASE f \in DOMAIN r.names
        <4>1. o \notin Found(profile, f, r.names[f])
          BY <2>1, <2>3, <3>1 DEF NamesFree
        <4> QED
          BY <4>1, <1>1, <2>3, <3>1 DEF Found
      <3>2. CASE f \notin DOMAIN r.names
        BY <1>1, <2>2, <2>3, <3>2
      <3> QED
        BY <3>1, <3>2
    <2> SUFFICES ASSUME NEW f \in Field, NEW p \in Account, NEW o \in Account,
                        profile'[p] # Null, profile'[o] # Null,
                        Fold[profile'[p][f]] = Fold[profile'[o][f]]
                 PROVE  p = o
      OBVIOUS
    <2>4. CASE p = r.of /\ o # r.of
      BY <2>3, <2>4, <1>1
    <2>5. CASE p # r.of /\ o = r.of
      BY <2>3, <2>5, <1>1
    <2>6. CASE p # r.of /\ o # r.of
      BY <2>2, <2>6, <1>1
    <2> QED
      BY <2>4, <2>5, <2>6
  <1> QED
    BY <1>5, <1>6, <1>7 DEF ProfilesInv

LEMMA ProfilesStepwise ==
    ASSUME ProfilesInv, [ProfilesNext]_profileVars
    PROVE  ProfilesInv'
  <1>1. CASE UNCHANGED profileVars
    BY <1>1 DEF profileVars, ProfilesInv, ProfilesTypeOK, EditsSound, NamesUnambiguous
  <1>2. ASSUME NEW w \in Worker, NEW p \in Account, NEW i \in Name, NEW b \in Name,
               CreateProfile(w, p, i, b)
        PROVE  ProfilesInv'
    <2> DEFINE nick  == IF BeforeTag[b] = Null THEN i ELSE BeforeTag[b]
               names == [id |-> i, battletag |-> b, nickname |-> nick]
               r     == [of |-> p, names |-> names]
    <2>1. nick \in Name
      BY NamesAssumption
    <2>2. DOMAIN names = Field /\ \A f \in Field : names[f] \in Name
      BY <2>1 DEF Field
    <2>3. BeginEdit(w, r)
      BY <1>2 DEF CreateProfile
    <2>4. r.of = p /\ r.names = names
      OBVIOUS
    <2> HIDE DEF r, names
    <2> QED
      BY <2>2, <2>3, <2>4, BeginEditKeeps
  <1>3. ASSUME NEW w \in Worker, NEW p \in Account, NEW names \in Renamings(p),
               UpdateProfile(w, p, names)
        PROVE  ProfilesInv'
    <2> DEFINE r == [of |-> p, names |-> names]
    <2>1. /\ profile[p] # Null /\ DOMAIN names \subseteq Field
          /\ \A f \in DOMAIN names : names[f] \in Name
      BY DEF Renamings
    <2>2. BeginEdit(w, r)
      BY <1>3 DEF UpdateProfile
    <2>3. r.of = p /\ r.names = names
      OBVIOUS
    <2> HIDE DEF r
    <2> QED
      BY <2>1, <2>2, <2>3, BeginEditKeeps
  <1>4. ASSUME NEW w \in Worker, CommitEdit(w)
        PROVE  ProfilesInv'
    BY <1>4, CommitEditKeeps
  <1>5. ASSUME NEW w \in Worker, DropEdit(w)
        PROVE  ProfilesInv'
    BY <1>5 DEF DropEdit, ProfilesInv, ProfilesTypeOK, EditsSound, NamesUnambiguous
  <1> QED
    BY <1>1, <1>2, <1>3, <1>4, <1>5 DEF ProfilesNext

(* In every reachable state, for every set of members, names and open      *)
(* requests, members have their three names, and nobody another's.         *)
THEOREM ProfilesInvariance == ProfilesSpec => []ProfilesInv
  <1>1. ProfilesInit => ProfilesInv
    BY ProfilesInitially
  <1>2. ProfilesInv /\ [ProfilesNext]_profileVars => ProfilesInv'
    BY ProfilesStepwise
  <1> QED
    BY <1>1, <1>2, PTL DEF ProfilesSpec

(* A look-up by id, battletag or nickname finds one member at most, as     *)
(* long as no check was overtaken (MemberRepository).                      *)
THEOREM NamesStayUnambiguous == ProfilesSpec => []NamesUnambiguous
  <1>1. ProfilesInv => NamesUnambiguous
    BY DEF ProfilesInv
  <1> QED
    BY <1>1, ProfilesInvariance, PTL

(***************************************************************************)
(* Pictures and attachments.                                               *)
(***************************************************************************)

(* A file no form has passed on is named by one row at most, and is no     *)
(* file of another part.                                                   *)
RowsApart ==
    /\ Attached \subseteq shown
    /\ \A p \in Pictured : avatar[p] \in Attached => avatar[p] \in lent
    /\ \A p, o \in Pictured : p # o /\ avatar[p] = avatar[o] => avatar[p] \in lent \cup {Null}

(* An open request is about to commit a URL that has been in a row, or the *)
(* file that it has saved, and no two have saved one file.                 *)
UploadsSound ==
    \A w \in Worker : upload[w] # Null =>
        /\ upload[w].url \in shown \cup pictures \cup {Null}
        /\ ~upload[w].changed => upload[w].gone = {}

UploadsApart ==
    \A v, w \in Worker :
        /\ v # w /\ upload[v] # Null /\ upload[w] # Null
        /\ upload[v].url = upload[w].url
        => upload[v].url \in shown \cup {Null}

AvatarsInv == AvatarsTypeOK /\ RowsApart /\ UploadsSound /\ UploadsApart /\ PicturesExist

LEMMA AvatarsInitially ==
    ASSUME AvatarsInit
    PROVE  AvatarsInv
  BY FilesAssumption DEF AvatarsInit, Idle, AvatarsInv, AvatarsTypeOK, Url, RowsApart,
     UploadsSound, UploadsApart, PicturesExist

(* A request that begins deletes no file but that of the member it is for: *)
(* then it is open, and other rows that name the file were lent it.        *)
LEMMA UploadsKeep ==
    ASSUME AvatarsInv, NEW w \in Worker, NEW p \in Pictured, NEW changed \in BOOLEAN,
           NEW url \in Fresh \cup shown \cup {Null}, Uploads(w, p, url, changed)
    PROVE  AvatarsInv'
  <1> DEFINE gone == Replaced(avatar[p], changed)
             r    == [of |-> p, url |-> url, changed |-> changed, gone |-> gone]
  <1>1. /\ AvatarsTypeOK /\ RowsApart /\ UploadsSound /\ UploadsApart /\ PicturesExist
        /\ upload[w] = Null
        /\ pictures' = (pictures \cup ({url} \cap Fresh)) \ gone
        /\ upload' = [upload EXCEPT ![w] = r]
        /\ UNCHANGED <<avatar, shown, lent, torn>>
    BY DEF AvatarsInv, Uploads
  <1>2. gone \subseteq {avatar[p]} \cap File
    BY DEF Replaced
  <1>3. r \in UploadRow /\ r # Null
    <2>1. url \in Url
      BY <1>1 DEF AvatarsTypeOK, Fresh, Url
    <2>2. r \in UploadRow
      BY <2>1, <1>2 DEF UploadRow
    <2> QED
      BY <2>2, UploadRowsAssumption
  <1>4. r.of = p /\ r.url = url /\ r.gone = gone
    OBVIOUS
  <1>5. gone \subseteq shown
    BY <1>1, <1>2, FilesAssumption DEF AvatarsTypeOK
  <1> HIDE DEF gone, r
  <1>6. upload'[w] = r /\ \A v \in Worker \ {w} : upload'[v] = upload[v]
    BY <1>1 DEF AvatarsTypeOK
  <1>7. AvatarsTypeOK'
    BY <1>1, <1>3 DEF AvatarsTypeOK, Fresh
  <1>8. RowsApart'
    BY <1>1 DEF RowsApart
  <1>9. UploadsSound'
    <2>1. url \in shown \cup pictures' \cup {Null}
      BY <1>1, <1>5
    <2>2. \A v \in Worker \ {w} : upload[v] # Null =>
             /\ upload[v].url \in shown \cup pictures' \cup {Null}
             /\ ~upload[v].changed => upload[v].gone = {}
      BY <1>1, <1>5 DEF UploadsSound
    <2>3. ~r.changed => r.gone = {}
      BY DEF r, gone, Replaced
    <2> QED
      BY <1>1, <1>4, <1>6, <2>1, <2>2, <2>3 DEF UploadsSound
  <1>10. UploadsApart'
    <2>1. \A v \in Worker \ {w} : upload[v] # Null /\ upload[v].url = url
             => url \in shown \cup {Null}
      BY <1>1 DEF UploadsSound, Fresh
    <2> QED
      BY <1>1, <1>4, <1>6, <2>1 DEF UploadsApart
  <1>11. PicturesExist'
    <2>1. ASSUME NEW o \in Pictured, avatar[o] \notin pictures' \cup lent \cup torn \cup {Null}
          PROVE  \E v \in Worker :
                    upload'[v] # Null /\ upload'[v].of = o /\ avatar[o] \in upload'[v].gone
      <3>1. CASE avatar[o] \in pictures
        <4>1. avatar[o] \in gone
          BY <1>1, <2>1, <3>1
        <4>2. o = p
          BY <1>1, <1>2, <2>1, <4>1 DEF RowsApart
        <4> QED
          BY <1>3, <1>4, <1>6, <4>1, <4>2
      <3>2. CASE avatar[o] \notin pictures
        <4>1. PICK v \in Worker :
                 upload[v] # Null /\ upload[v].of = o /\ avatar[o] \in upload[v].gone
          BY <1>1, <2>1, <3>2 DEF PicturesExist
        <4>2. upload'[v] = upload[v]
          BY <1>1, <1>6, <4>1
        <4> QED
          BY <4>1, <4>2
      <3> QED
        BY <3>1, <3>2
    <2>2. Attached \subseteq pictures' \cup lent \cup torn
      BY <1>1, <1>2 DEF PicturesExist, RowsApart
    <2> QED
      BY <1>1, <2>1, <2>2 DEF PicturesExist
  <1> QED
    BY <1>7, <1>8, <1>9, <1>10, <1>11 DEF AvatarsInv

(* A row that is committed names a file that the request has saved, or one *)
(* that is lent by this.                                                   *)
LEMMA CommitUploadKeeps ==
    ASSUME AvatarsInv, NEW w \in Worker, CommitUpload(w)
    PROVE  AvatarsInv'
  <1> DEFINE r == upload[w]
  <1>1. /\ AvatarsTypeOK /\ RowsApart /\ UploadsSound /\ UploadsApart /\ PicturesExist
        /\ r # Null /\ r \in UploadRow
        /\ upload' = [upload EXCEPT ![w] = Null]
        /\ UNCHANGED <<pictures, torn>>
    BY DEF AvatarsInv, AvatarsTypeOK, CommitUpload
  <1>2. upload'[w] = Null /\ \A v \in Worker \ {w} : upload'[v] = upload[v]
    BY <1>1 DEF AvatarsTypeOK
  <1>3. r.of \in Pictured /\ r.url \in Url
    BY <1>1 DEF UploadRow
  <1>4. r.url \in shown \cup pictures \cup {Null}
    BY <1>1 DEF UploadsSound
  <1>5. CASE ~r.changed
    <2>1. UNCHANGED <<avatar, shown, lent>>
      BY <1>5 DEF CommitUpload
    <2>2. AvatarsTypeOK' /\ RowsApart'
      BY <1>1, <2>1 DEF AvatarsTypeOK, RowsApart
    <2>3. UploadsSound' /\ UploadsApart'
      BY <1>1, <1>2, <2>1 DEF UploadsSound, UploadsApart
    <2>4. PicturesExist'
      <3>1. r.gone = {}
        BY <1>1, <1>5 DEF UploadsSound
      <3> QED
        BY <1>1, <1>2, <2>1, <3>1 DEF PicturesExist
    <2> QED
      BY <2>2, <2>3, <2>4 DEF AvatarsInv
  <1>6. CASE r.changed
    <2>1. /\ avatar' = [avatar EXCEPT ![r.of] = r.url]
          /\ shown' = shown \cup ({r.url} \cap File)
          /\ lent' = lent \cup ({r.url} \cap shown)
      BY <1>6 DEF CommitUpload
    <2>2. avatar'[r.of] = r.url /\ \A p \in Pictured \ {r.of} : avatar'[p] = avatar[p]
      BY <1>1, <1>3, <2>1 DEF AvatarsTypeOK
    <2>3. AvatarsTypeOK'
      <3>1. /\ avatar' \in [Pictured -> Url]
            /\ upload' \in [Worker -> UploadRow \cup {Null}]
        BY <1>1, <1>3, <2>1 DEF AvatarsTypeOK
      <3>2. /\ shown' \subseteq File /\ lent' \subseteq shown'
            /\ \A p \in Pictured : avatar'[p] \in shown' \cup {Null}
        BY <1>1, <1>3, <2>1, <2>2 DEF AvatarsTypeOK, Url
      <3> QED
        BY <1>1, <3>1, <3>2 DEF AvatarsTypeOK
    <2>4. RowsApart'
      <3>1. Attached \subseteq shown'
        BY <1>1, <2>1 DEF RowsApart
      <3>2. ASSUME NEW p \in Pictured, avatar'[p] \in Attached
            PROVE  avatar'[p] \in lent'
        BY <1>1, <2>1, <2>2, <3>2 DEF RowsApart
      <3>3. ASSUME NEW p \in Pictured \ {r.of}, avatar[p] = r.url
            PROVE  r.url \in lent' \cup {Null}
        BY <1>1, <2>1, <3>3 DEF AvatarsTypeOK
      <3>4. ASSUME NEW p \in Pictured, NEW o \in Pictured, p # o, avatar'[p] = avatar'[o]
            PROVE  avatar'[p] \in lent' \cup {Null}
        <4>1. CASE p # r.of /\ o # r.of
          BY <1>1, <2>1, <2>2, <3>4, <4>1 DEF RowsApart
        <4>2. CASE p = r.of \/ o = r.of
          BY <2>2, <3>3, <3>4, <4>2
        <4> QED
          BY <4>1, <4>2
      <3> QED
        BY <3>1, <3>2, <3>4 DEF RowsApart
    <2>5. UploadsSound' /\ UploadsApart'
      BY <1>1, <1>2, <2>1 DEF UploadsSound, UploadsApart
    <2>6. PicturesExist'
      <3>1. r.url \in pictures \cup lent' \cup {Null}
        BY <1>4, <2>1
      <3>2. ASSUME NEW p \in Pictured \ {r.of}
            PROVE  \/ avatar[p] \in pictures \cup lent' \cup torn \cup {Null}
                   \/ \E v \in Worker :
                         upload'[v] # Null /\ upload'[v].of = p /\ avatar[p] \in upload'[v].gone
        <4>1. \A v \in Worker : upload[v] # Null /\ upload[v].of = p => upload'[v] = upload[v]
          BY <1>2, <3>2
        <4> QED
          BY <1>1, <2>1, <4>1 DEF PicturesExist
      <3>3. Attached \subseteq pictures \cup lent' \cup torn
        BY <1>1, <2>1 DEF PicturesExist
      <3> QED
        BY <1>1, <2>2, <3>1, <3>2, <3>3 DEF PicturesExist
    <2> QED
      BY <2>3, <2>4, <2>5, <2>6 DEF AvatarsInv
  <1> QED
    BY <1>5, <1>6

(* A request that fails leaves its file deleted, and that is noted.        *)
LEMMA DropUploadKeeps ==
    ASSUME AvatarsInv, NEW w \in Worker, DropUpload(w)
    PROVE  AvatarsInv'
  <1>1. /\ AvatarsTypeOK /\ RowsApart /\ UploadsSound /\ UploadsApart /\ PicturesExist
        /\ upload[w] # Null /\ upload[w] \in UploadRow
        /\ torn' = torn \cup upload[w].gone
        /\ upload' = [upload EXCEPT ![w] = Null]
        /\ UNCHANGED <<avatar, shown, pictures, lent>>
    BY DEF AvatarsInv, AvatarsTypeOK, DropUpload
  <1>2. upload'[w] = Null /\ \A v \in Worker \ {w} : upload'[v] = upload[v]
    BY <1>1 DEF AvatarsTypeOK
  <1>3. upload[w].gone \subseteq File
    BY <1>1 DEF UploadRow
  <1>4. AvatarsTypeOK' /\ RowsApart'
    BY <1>1, <1>3 DEF AvatarsTypeOK, RowsApart
  <1>5. UploadsSound' /\ UploadsApart'
    BY <1>1, <1>2 DEF UploadsSound, UploadsApart
  <1>6. PicturesExist'
    BY <1>1, <1>2 DEF PicturesExist
  <1> QED
    BY <1>4, <1>5, <1>6 DEF AvatarsInv

(* A file of another part that goes with its own row is noted, too.        *)
LEMMA LetGoKeeps ==
    ASSUME AvatarsInv, NEW f \in Attached, LetGo(f)
    PROVE  AvatarsInv'
  <1>1. /\ AvatarsTypeOK /\ RowsApart /\ UploadsSound /\ UploadsApart /\ PicturesExist
        /\ pictures' = pictures \ {f}
        /\ torn' = torn \cup {f}
        /\ UNCHANGED <<avatar, shown, upload, lent>>
    BY DEF AvatarsInv, LetGo
  <1>2. f \in File /\ f \in shown
    BY <1>1, FilesAssumption DEF RowsApart
  <1>3. AvatarsTypeOK' /\ RowsApart'
    BY <1>1, <1>2 DEF AvatarsTypeOK, RowsApart
  <1>4. UploadsSound' /\ UploadsApart'
    BY <1>1, <1>2 DEF UploadsSound, UploadsApart
  <1>5. PicturesExist'
    <2>1. Attached \subseteq pictures' \cup lent \cup torn'
      BY <1>1 DEF PicturesExist
    <2>2. pictures \cup torn \subseteq pictures' \cup torn'
      BY <1>1
    <2> QED
      BY <1>1, <2>1, <2>2 DEF PicturesExist
  <1> QED
    BY <1>3, <1>4, <1>5 DEF AvatarsInv

LEMMA AvatarsStepwise ==
    ASSUME AvatarsInv, [AvatarsNext]_avatarVars
    PROVE  AvatarsInv'
  <1>1. CASE UNCHANGED avatarVars
    BY <1>1 DEF avatarVars, AvatarsInv, AvatarsTypeOK, RowsApart, UploadsSound, UploadsApart,
                PicturesExist
  <1>2. ASSUME NEW w \in Worker, NEW p \in Pictured, SetAvatar(w, p)
        PROVE  AvatarsInv'
    BY <1>2, UploadsKeep DEF SetAvatar
  <1>3. ASSUME NEW w \in Worker, NEW p \in Pictured, ReprocessAvatar(w, p)
        PROVE  AvatarsInv'
    BY <1>3, UploadsKeep DEF ReprocessAvatar
  <1> QED
    BY <1>1, <1>2, <1>3, CommitUploadKeeps, DropUploadKeeps, LetGoKeeps
       DEF AvatarsNext

(* In every reachable state, for every set of members, files and open      *)
(* requests, a file no form has passed on is one row's, and a picture or   *)
(* file of another part that is missing was lent, torn or let go, or is     *)
(* being replaced (_store_avatar_if_needed, update_profile).                     *)
THEOREM AvatarsInvariance == AvatarsSpec => []AvatarsInv
  <1>1. AvatarsInit => AvatarsInv
    BY AvatarsInitially
  <1>2. AvatarsInv /\ [AvatarsNext]_avatarVars => AvatarsInv'
    BY AvatarsStepwise
  <1> QED
    BY <1>1, <1>2, PTL DEF AvatarsSpec

(* An open request on the schedule has saved the files it adds to those it *)
(* read, and deleted those it takes from them.                             *)
TasksSound ==
    \A w \in Worker : task[w] # Null =>
        LET r == task[w]
        IN  /\ r.touched \cup r.read \subseteq stored
            /\ r.files = (r.read \ r.touched) \cup (r.touched \ r.read)
            /\ r.touched \ r.read \subseteq docs \ Files(schedule)
            /\ r.touched \cap r.read \cap docs = {}
            /\ r.do = "delete" => r.files = {}
            /\ r.do \in {"mark", "unmark"} => r.touched = {}
            /\ r.do \in {"create", "mark", "unmark"} => r.by \in Guest
            /\ r.do = "create" => ~made /\ r.read = {}

(* What one has saved no other has read, and the schedule is made by one.  *)
TasksApart ==
    \A v, w \in Worker : v # w /\ task[v] # Null /\ task[w] # Null =>
        /\ (task[v].touched \ task[v].read) \cap (task[w].touched \cup task[w].read) = {}
        /\ task[v].do # "create"

SchedulesInv == SchedulesTypeOK /\ TasksSound /\ TasksApart /\ AttachmentsExist

LEMMA SchedulesInitially ==
    ASSUME SchedulesInit
    PROVE  SchedulesInv
  BY DEF SchedulesInit, Idle, SchedulesInv, SchedulesTypeOK, TasksSound, TasksApart,
         AttachmentsExist, Files

(* A request that begins saves files nobody has had, and takes files from  *)
(* those it has read.                                                      *)
LEMMA BeginTaskKeeps ==
    ASSUME SchedulesInv, NEW w \in Worker, NEW do \in {"create", "update", "delete", "mark", "unmark"},
           NEW p \in Guest \cup {Null}, NEW new \in SUBSET Doc, NEW old \in SUBSET Files(schedule),
           BeginTask(w, do, p, (Files(schedule) \ old) \cup new, new, old),
           do = "delete" => new = {} /\ old = Files(schedule),
           do \in {"mark", "unmark"} => new = {} /\ old = {},
           do \in {"create", "mark", "unmark"} => p \in Guest,
           do # "create" => schedule # Null,
           do = "create" => ~made /\ \A v \in Worker : task[v] = Null
    PROVE  SchedulesInv'
  <1> DEFINE r == [do |-> do, by |-> p, files |-> (Files(schedule) \ old) \cup new,
                   touched |-> new \cup old, read |-> Files(schedule)]
  <1>1. /\ SchedulesTypeOK /\ TasksSound /\ TasksApart /\ AttachmentsExist
        /\ task[w] = Null
        /\ new \cap stored = {}
        /\ docs' = (docs \cup new) \ old
        /\ stored' = stored \cup new
        /\ task' = [task EXCEPT ![w] = r]
        /\ UNCHANGED <<schedule, made, comments, adrift, spoiled>>
    BY DEF SchedulesInv, BeginTask
  <1>2. Files(schedule) \subseteq stored /\ docs \subseteq stored /\ stored \subseteq Doc
    BY <1>1 DEF SchedulesTypeOK
  <1>3. r \in TaskRow /\ r # Null
    BY <1>2, ScheduleRowsAssumption DEF TaskRow
  <1>4. task'[w] = r /\ \A v \in Worker \ {w} : task'[v] = task[v]
    BY <1>1 DEF SchedulesTypeOK
  <1>5. /\ r.do = do /\ r.by = p /\ r.files = (Files(schedule) \ old) \cup new
        /\ r.touched = new \cup old /\ r.read = Files(schedule)
    OBVIOUS
  <1> HIDE DEF r
  <1>6. SchedulesTypeOK'
    BY <1>1, <1>2, <1>3 DEF SchedulesTypeOK, Files
  <1>7. TasksSound'
    <2>1. ASSUME NEW v \in Worker, v # w, task[v] # Null
          PROVE  /\ task[v].touched \cup task[v].read \subseteq stored'
                 /\ task[v].files = (task[v].read \ task[v].touched)
                                       \cup (task[v].touched \ task[v].read)
                 /\ task[v].touched \ task[v].read \subseteq docs' \ Files(schedule)
                 /\ task[v].touched \cap task[v].read \cap docs' = {}
                 /\ task[v].do = "delete" => task[v].files = {}
                 /\ task[v].do \in {"mark", "unmark"} => task[v].touched = {}
                 /\ task[v].do \in {"create", "mark", "unmark"} => task[v].by \in Guest
                 /\ task[v].do = "create" => ~made /\ task[v].read = {}
      BY <1>1, <2>1 DEF TasksSound
    <2>2. /\ r.touched \cup r.read \subseteq stored'
          /\ r.files = (r.read \ r.touched) \cup (r.touched \ r.read)
          /\ r.touched \ r.read \subseteq docs' \ Files(schedule)
          /\ r.touched \cap r.read \cap docs' = {}
          /\ r.do = "delete" => r.files = {}
          /\ r.do \in {"mark", "unmark"} => r.touched = {}
          /\ r.do \in {"create", "mark", "unmark"} => r.by \in Guest
          /\ r.do = "create" => ~made /\ r.read = {}
      <3>1. do = "create" => Files(schedule) = {}
        BY <1>1 DEF SchedulesTypeOK, Files
      <3> QED
        BY <1>1, <1>2, <1>5, <3>1
    <2>3. Files(schedule)' = Files(schedule)
      BY <1>1 DEF Files
    <2> QED
      BY <1>1, <1>4, <2>1, <2>2, <2>3 DEF TasksSound
  <1>8. TasksApart'
    <2>1. ASSUME NEW v \in Worker, v # w, task[v] # Null
          PROVE  /\ (task[v].touched \ task[v].read) \cap (r.touched \cup r.read) = {}
                 /\ (r.touched \ r.read) \cap (task[v].touched \cup task[v].read) = {}
                 /\ task[v].do # "create" /\ r.do # "create"
      <3>1. /\ task[v].touched \cup task[v].read \subseteq stored
            /\ task[v].touched \ task[v].read \subseteq docs \ Files(schedule)
        BY <2>1, <1>1 DEF TasksSound
      <3>2. r.do # "create"
        BY <1>5, <2>1
      <3>3. task[v].do # "create"
        <4> SUFFICES ASSUME task[v].do = "create" PROVE FALSE
          OBVIOUS
        <4>1. schedule = Null
          BY <1>1, <2>1 DEF TasksSound, SchedulesTypeOK
        <4>2. do # "create" /\ task[v] # Null
          BY <2>1
        <4> QED
          BY <4>1, <4>2
      <3> QED
        BY <1>1, <1>5, <3>1, <3>2, <3>3
    <2> QED
      BY <1>1, <1>4, <2>1 DEF TasksApart
  <1>9. AttachmentsExist'
    <2>1. Files(schedule)' = Files(schedule)
      BY <1>1 DEF Files
    <2>2. ASSUME ~spoiled, NEW d \in Doc, d \notin adrift,
                 \A v \in Worker : task'[v] # Null => d \notin task'[v].touched
          PROVE  d \in docs' <=> d \in Files(schedule)
      <3>1. \A v \in Worker : task[v] # Null => d \notin task[v].touched
        BY <1>1, <1>4, <2>2
      <3>2. d \in docs <=> d \in Files(schedule)
        BY <1>1, <2>2, <3>1 DEF AttachmentsExist
      <3>3. d \notin new \cup old
        BY <1>3, <1>4, <1>5, <2>2
      <3> QED
        BY <1>1, <3>2, <3>3
    <2> QED
      BY <1>1, <2>1, <2>2 DEF AttachmentsExist
  <1> QED
    BY <1>6, <1>7, <1>8, <1>9 DEF SchedulesInv

(* What a commit leaves of the row, and which files it names.              *)
LEMMA RowCommitted ==
    ASSUME SchedulesTypeOK, TasksSound, NEW w \in Worker, task[w] # Null, CanCommit(task[w])
    PROVE  /\ RowAfter(task[w]) \in ScheduleRow \cup {Null}
           /\ RowAfter(task[w]) = Null <=> task[w].do = "delete"
           /\ Files(RowAfter(task[w])) =
                 IF Changes(task[w]) THEN task[w].files ELSE Files(schedule)
  <1> DEFINE r == task[w]
             S == ScheduleRow
  <1>1. /\ r \in TaskRow /\ schedule \in S \cup {Null} /\ Null \notin S
        /\ \A s \in S : Files(s) = s.files
        /\ Files(Null) = {}
        /\ r.do = "delete" => r.files = {}
        /\ r.do \in {"create", "mark", "unmark"} => r.by \in Guest
        /\ r.do = "create" => schedule = Null /\ r.read = {}
        /\ r.do \in {"mark", "unmark"} => r.touched = {}
    BY ScheduleRowsAssumption DEF SchedulesTypeOK, TasksSound, Files
  <1>2. /\ r.do \in {"create", "update", "delete", "mark", "unmark"}
        /\ r.files \in SUBSET Doc /\ r.read \in SUBSET Doc /\ r.touched \in SUBSET Doc
        /\ r.files = (r.read \ r.touched) \cup (r.touched \ r.read)
    BY <1>1 DEF TaskRow, TasksSound
  <1>3. CanCommit(r)
    OBVIOUS
  <1> HIDE DEF r
  <1>4. CASE r.do = "create"
    <2>1. RowAfter(r) = [author |-> r.by, files |-> r.files, attendees |-> {}]
      BY <1>4 DEF RowAfter
    <2>2. RowAfter(r) \in S /\ RowAfter(r).files = r.files
      BY <1>1, <1>2, <1>4, <2>1 DEF ScheduleRow
    <2>3. Changes(r) \/ r.files = {}
      BY <1>1, <1>4 DEF Changes
    <2> HIDE DEF S
    <2>4. Files(RowAfter(r)) = r.files
      BY <1>1, <2>2
    <2> QED
      BY <1>1, <1>4, <2>2, <2>3, <2>4 DEF r, S
  <1>5. CASE r.do = "delete"
    <2>1. RowAfter(r) = Null
      BY <1>5 DEF RowAfter
    <2> HIDE DEF S
    <2> QED
      BY <1>1, <1>5, <2>1 DEF r, Changes
  <1>6. CASE r.do \in {"update", "mark", "unmark"}
    <2>1. schedule \in S /\ schedule # Null
      BY <1>1, <1>3, <1>6 DEF CanCommit
    <2>2. /\ RowAfter(r) \in S
          /\ RowAfter(r).files =
                IF r.do = "update" /\ Changes(r) THEN r.files ELSE schedule.files
      BY <1>1, <1>2, <1>6, <2>1 DEF RowAfter, ScheduleRow
    <2>3. r.do # "update" => ~Changes(r)
      BY <1>1, <1>2, <1>6 DEF Changes
    <2> HIDE DEF S
    <2>4. Files(RowAfter(r)) = RowAfter(r).files /\ Files(schedule) = schedule.files
      BY <1>1, <2>1, <2>2
    <2> QED
      BY <1>1, <1>6, <2>2, <2>3, <2>4 DEF r, S
  <1> QED
    BY <1>2, <1>4, <1>5, <1>6

(* A commit on the files that were read leaves those that are on disk.     *)
LEMMA CommitTaskKeeps ==
    ASSUME SchedulesInv, NEW w \in Worker, CommitTask(w)
    PROVE  SchedulesInv'
  <1> DEFINE r == task[w]
  <1>1. /\ SchedulesTypeOK /\ TasksSound /\ TasksApart /\ AttachmentsExist
        /\ r # Null /\ r \in TaskRow
        /\ CanCommit(r)
        /\ schedule' = RowAfter(r)
        /\ made' = TRUE
        /\ comments' = CommentsAfter(r)
        /\ spoiled' = (spoiled \/ (Changes(r) /\ Files(schedule) # r.read))
        /\ task' = [task EXCEPT ![w] = Null]
        /\ UNCHANGED <<docs, stored, adrift>>
    BY DEF SchedulesInv, SchedulesTypeOK, CommitTask
  <1>2. task'[w] = Null /\ \A v \in Worker \ {w} : task'[v] = task[v]
    BY <1>1 DEF SchedulesTypeOK
  <1>3. /\ schedule' \in ScheduleRow \cup {Null}
        /\ schedule' = Null <=> r.do = "delete"
        /\ Files(schedule)' = IF Changes(r) THEN r.files ELSE Files(schedule)
    <2>1. Files(schedule)' = Files(RowAfter(r))
      BY <1>1 DEF Files
    <2> QED
      BY <1>1, <2>1, RowCommitted
  <1>4. /\ r.touched \cup r.read \subseteq stored
        /\ r.files = (r.read \ r.touched) \cup (r.touched \ r.read)
        /\ r.touched \ r.read \subseteq docs \ Files(schedule)
        /\ r.touched \cap r.read \cap docs = {}
        /\ ~Changes(r) => r.files = r.read
    BY <1>1 DEF TasksSound, Changes
  <1>5. \A c \in Comment : comments'[c] \in {"in time", "late", Null}
                           /\ (r.do = "delete" => comments'[c] # "in time")
    BY <1>1, SchedulesAssumption DEF CommentsAfter, SchedulesTypeOK
  <1>6. comments' \in [Comment -> {"in time", "late", Null}]
    BY <1>1 DEF CommentsAfter, SchedulesTypeOK
  <1>7. \A v \in Worker : v # w /\ task[v] # Null =>
            /\ (task[v].touched \ task[v].read) \cap (r.touched \cup r.read) = {}
            /\ task[v].do # "create"
    BY <1>1 DEF TasksApart
  <1> HIDE DEF r
  <1>8. SchedulesTypeOK'
    <2>1. Files(schedule)' \subseteq stored
      BY <1>1, <1>3, <1>4 DEF SchedulesTypeOK
    <2>2. spoiled' \in BOOLEAN
      BY <1>1, Zenon
    <2>3. task' \in [Worker -> TaskRow \cup {Null}]
      BY <1>1 DEF SchedulesTypeOK
    <2> QED
      BY <1>1, <1>3, <1>6, <2>1, <2>2, <2>3 DEF SchedulesTypeOK
  <1>9. TasksSound'
    <2>1. ASSUME NEW v \in Worker, v # w, task[v] # Null
          PROVE  /\ task[v].touched \cup task[v].read \subseteq stored
                 /\ task[v].files = (task[v].read \ task[v].touched)
                                       \cup (task[v].touched \ task[v].read)
                 /\ task[v].touched \ task[v].read \subseteq docs \ Files(schedule)'
                 /\ task[v].touched \cap task[v].read \cap docs = {}
                 /\ task[v].do = "delete" => task[v].files = {}
                 /\ task[v].do \in {"mark", "unmark"} => task[v].touched = {}
                 /\ task[v].do \in {"create", "mark", "unmark"} => task[v].by \in Guest
                 /\ task[v].do # "create"
      BY <1>1, <1>3, <1>4, <1>7, <2>1 DEF TasksSound
    <2> QED
      BY <1>1, <1>2, <2>1 DEF TasksSound
  <1>10. TasksApart'
    BY <1>1, <1>2 DEF TasksApart
  <1>11. AttachmentsExist'
    <2>1. ASSUME ~spoiled', NEW d \in Doc, d \notin adrift,
                 \A v \in Worker : task'[v] # Null => d \notin task'[v].touched
          PROVE  d \in docs <=> d \in Files(schedule)'
      <3>1. ~spoiled /\ (Changes(r) => Files(schedule) = r.read)
        BY <1>1, <2>1, Zenon
      <3>2. CASE d \in r.touched
        <4>1. CASE Changes(r)
          BY <1>3, <1>4, <3>1, <3>2, <4>1
        <4>2. CASE ~Changes(r)
          BY <1>4, <3>2, <4>2
        <4> QED
          BY <4>1, <4>2
      <3>3. CASE d \notin r.touched
        <4>1. \A v \in Worker : task[v] # Null => d \notin task[v].touched
          BY <1>1, <1>2, <2>1, <3>3 DEF r
        <4>2. d \in docs <=> d \in Files(schedule)
          BY <1>1, <2>1, <3>1, <4>1 DEF AttachmentsExist
        <4> QED
          BY <1>3, <1>4, <3>1, <3>3, <4>2
      <3> QED
        BY <3>2, <3>3
    <2>2. spoiled' \/ \A d \in Doc :
             d \notin adrift /\ (\A v \in Worker : task'[v] # Null => d \notin task'[v].touched)
             => (d \in docs <=> d \in Files(schedule)')
      BY <2>1, Zenon
    <2>3. schedule' = Null => \A c \in Comment : comments'[c] # "in time"
      BY <1>3, <1>5
    <2> QED
      BY <1>1, <2>2, <2>3 DEF AttachmentsExist
  <1> QED
    BY <1>8, <1>9, <1>10, <1>11 DEF SchedulesInv

LEMMA DropTaskKeeps ==
    ASSUME SchedulesInv, NEW w \in Worker, DropTask(w)
    PROVE  SchedulesInv'
  <1>1. /\ SchedulesTypeOK /\ TasksSound /\ TasksApart /\ AttachmentsExist
        /\ task[w] # Null
        /\ adrift' = adrift \cup task[w].touched
        /\ task' = [task EXCEPT ![w] = Null]
        /\ UNCHANGED <<schedule, made, comments, docs, stored, spoiled>>
    BY DEF SchedulesInv, DropTask
  <1>2. task'[w] = Null /\ \A v \in Worker \ {w} : task'[v] = task[v]
    BY <1>1 DEF SchedulesTypeOK
  <1>3. Files(schedule)' = Files(schedule)
    BY <1>1 DEF Files
  <1>4. task[w].touched \subseteq stored
    BY <1>1 DEF TasksSound
  <1>5. SchedulesTypeOK'
    BY <1>1, <1>3, <1>4 DEF SchedulesTypeOK
  <1>6. TasksSound' /\ TasksApart'
    BY <1>1, <1>2, <1>3 DEF TasksSound, TasksApart
  <1>7. AttachmentsExist'
    <2>1. ASSUME ~spoiled, NEW d \in Doc, d \notin adrift',
                 \A v \in Worker : task'[v] # Null => d \notin task'[v].touched
          PROVE  d \in docs <=> d \in Files(schedule)
      <3>1. \A v \in Worker : task[v] # Null => d \notin task[v].touched
        BY <1>1, <1>2, <2>1
      <3> QED
        BY <1>1, <2>1, <3>1 DEF AttachmentsExist
    <2> QED
      BY <1>1, <1>3, <2>1 DEF AttachmentsExist
  <1> QED
    BY <1>5, <1>6, <1>7 DEF SchedulesInv

LEMMA CommentKeeps ==
    ASSUME SchedulesInv, NEW c \in Comment, CreateComment(c) \/ DeleteComment(c)
    PROVE  SchedulesInv'
  <1>1. /\ SchedulesTypeOK /\ TasksSound /\ TasksApart /\ AttachmentsExist
        /\ UNCHANGED <<schedule, made, docs, stored, task, adrift, spoiled>>
    BY DEF SchedulesInv, CreateComment, DeleteComment
  <1>2. Files(schedule)' = Files(schedule)
    BY <1>1 DEF Files
  <1>3. /\ comments' \in [Comment -> {"in time", "late", Null}]
        /\ \A o \in Comment \ {c} : comments'[o] = comments[o]
        /\ schedule = Null => comments'[c] # "in time"
    BY <1>1, SchedulesAssumption DEF CreateComment, DeleteComment, SchedulesTypeOK
  <1>4. SchedulesTypeOK'
    BY <1>1, <1>2, <1>3 DEF SchedulesTypeOK
  <1>5. TasksSound' /\ TasksApart'
    BY <1>1, <1>2 DEF TasksSound, TasksApart
  <1>6. AttachmentsExist'
    BY <1>1, <1>2, <1>3 DEF AttachmentsExist
  <1> QED
    BY <1>4, <1>5, <1>6 DEF SchedulesInv

(* A file lost to a picture is one of the row, which the exception covers, *)
(* and no open request saves or deletes it.                                *)
LEMMA LoseDocKeeps ==
    ASSUME SchedulesInv, NEW d \in Doc, LoseDoc(d)
    PROVE  SchedulesInv'
  <1>1. /\ SchedulesTypeOK /\ TasksSound /\ TasksApart /\ AttachmentsExist
        /\ d \in docs
        /\ \A w \in Worker : task[w] # Null => d \notin task[w].touched
        /\ docs' = docs \ {d} /\ adrift' = adrift \cup {d}
        /\ UNCHANGED <<schedule, made, comments, stored, task, spoiled>>
    BY DEF SchedulesInv, LoseDoc
  <1>2. Files(schedule)' = Files(schedule)
    BY <1>1 DEF Files
  <1>3. SchedulesTypeOK'
    BY <1>1, <1>2 DEF SchedulesTypeOK
  <1>4. TasksSound'
    BY <1>1, <1>2 DEF TasksSound
  <1>5. TasksApart'
    BY <1>1 DEF TasksApart
  <1>6. AttachmentsExist'
    BY <1>1, <1>2 DEF AttachmentsExist
  <1> QED
    BY <1>3, <1>4, <1>5, <1>6 DEF SchedulesInv

LEMMA SchedulesStepwise ==
    ASSUME SchedulesInv, [SchedulesNext]_scheduleVars
    PROVE  SchedulesInv'
  <1>1. CASE UNCHANGED scheduleVars
    <2>1. Files(schedule)' = Files(schedule)
      BY <1>1 DEF scheduleVars, Files
    <2>2. SchedulesTypeOK'
      BY <1>1, <2>1 DEF scheduleVars, SchedulesInv, SchedulesTypeOK
    <2>3. TasksSound' /\ TasksApart'
      BY <1>1, <2>1 DEF scheduleVars, SchedulesInv, TasksSound, TasksApart
    <2>4. AttachmentsExist'
      BY <1>1, <2>1 DEF scheduleVars, SchedulesInv, AttachmentsExist
    <2> QED
      BY <2>2, <2>3, <2>4 DEF SchedulesInv
  <1>2. SchedulesTypeOK /\ Files(Null) = {} /\ (made \in BOOLEAN)
        /\ (schedule # Null => made /\ schedule.files \in SUBSET Doc /\ Files(schedule) = schedule.files)
    BY DEF SchedulesInv, SchedulesTypeOK, ScheduleRow, Files
  <1>3. ASSUME NEW w \in Worker, NEW p \in Guest, Attend(w, p)
        PROVE  SchedulesInv'
    <2> DEFINE do == IF p \in schedule.attendees THEN "unmark" ELSE "mark"
    <2>1. do \in {"mark", "unmark"} /\ schedule # Null
      BY <1>3 DEF Attend
    <2>2. BeginTask(w, do, p, (Files(schedule) \ {}) \cup {}, {}, {})
      BY <1>2, <1>3 DEF Attend
    <2> HIDE DEF do
    <2> QED
      BY <2>1, <2>2, BeginTaskKeeps
  <1>4. ASSUME NEW w \in Worker, NEW p \in Guest, DeleteSchedule(w, p)
        PROVE  SchedulesInv'
    <2>1. BeginTask(w, "delete", Null, (Files(schedule) \ Files(schedule)) \cup {}, {},
                    Files(schedule))
      BY <1>2, <1>4 DEF DeleteSchedule
    <2> QED
      BY <1>4, <2>1, BeginTaskKeeps DEF DeleteSchedule
  <1>5. ASSUME NEW w \in Worker, NEW p \in Guest, NEW new \in SUBSET Doc,
               CreateSchedule(w, p, new)
        PROVE  SchedulesInv'
    <2>1. schedule = Null /\ ~made /\ \A v \in Worker : task[v] = Null
      BY <1>2, <1>5 DEF CreateSchedule
    <2>2. BeginTask(w, "create", p, (Files(schedule) \ {}) \cup new, new, {})
      BY <1>2, <1>5, <2>1 DEF CreateSchedule
    <2> QED
      BY <2>1, <2>2, BeginTaskKeeps
  <1>6. ASSUME NEW w \in Worker, NEW p \in Guest, NEW new \in SUBSET Doc,
               NEW asked \in SUBSET Doc, UpdateSchedule(w, p, asked, new)
        PROVE  SchedulesInv'
    <2> DEFINE old == schedule.files \ Kept(schedule, asked)
    <2>1. schedule # Null /\ old \in SUBSET Files(schedule)
      BY <1>2, <1>6 DEF UpdateSchedule
    <2>2. Kept(schedule, asked) \cup new = (Files(schedule) \ old) \cup new
      BY <1>2, <2>1 DEF Kept
    <2>3. BeginTask(w, "update", Null, (Files(schedule) \ old) \cup new, new, old)
      BY <1>6, <2>2 DEF UpdateSchedule
    <2> HIDE DEF old
    <2> QED
      BY <2>1, <2>3, BeginTaskKeeps
  <1> QED
    BY <1>1, <1>3, <1>4, <1>5, <1>6, CommitTaskKeeps, DropTaskKeeps, LoseDocKeeps,
       CommentKeeps DEF SchedulesNext

(* In every reachable state, for every set of members, files, comments and *)
(* open requests, the files are those of the row, but for what open, failed *)
(* and overlapping requests have done, and the comments went with the row. *)
THEOREM SchedulesInvariance == SchedulesSpec => []SchedulesInv
  <1>1. SchedulesInit => SchedulesInv
    BY SchedulesInitially
  <1>2. SchedulesInv /\ [SchedulesNext]_scheduleVars => SchedulesInv'
    BY SchedulesStepwise
  <1> QED
    BY <1>1, <1>2, PTL DEF SchedulesSpec

(***************************************************************************)
(* The list of activities.                                                 *)
(***************************************************************************)

(* An activity as the handlers write it.  A result comes with a date, and  *)
(* a cancellation with its time.                                           *)
FeedItem ==
         [kind : {"gameResult"}, at : Nat \cup {NoValue}, day : Nat]
    \cup {r \in [kind : {"challenge"}, day : Nat \cup {NoValue},
                 state : {"open", "discarded", "done"}, closed : Nat \cup {NoValue}] :
             /\ r.state = "done" => r.day \in Nat
             /\ r.state = "discarded" => r.closed \in Nat}
    \cup [kind : {"leagueMatch"}, at : Nat, played : BOOLEAN]
    \cup [kind : {"schedule", "rankingShift", "notice"}, at : Nat]

Items == Seq(FeedItem \cup {NoValue})

Reader == [cursor : Nat \cup {NoValue}, owed : SUBSET Nat, jumped : BOOLEAN,
           lost : SUBSET {"moved", "grown"}]

(* While its place is kept, what the reader is owed is below its cursor.   *)
OwedBelow ==
    /\ reader # NoValue /\ reader.lost = {} /\ ~reader.jumped
    /\ reader.cursor # NoValue /\ reader.cursor \in Entries(items)
    => \A i \in reader.owed : Before(items, time, reader.cursor, i)

FeedInv ==
    /\ FeedTypeOK
    /\ items \in Items
    /\ reader \in Reader \cup {NoValue}
    /\ OwedBelow
    /\ NothingSkipped

LEMMA SortKeyIsNumber ==
    ASSUME NEW r \in FeedItem, NEW n \in Nat
    PROVE  SortKey(r, n) \in Int
  <1>1. CASE r \in [kind : {"gameResult"}, at : Nat \cup {NoValue}, day : Nat]
    <2>1. r.kind = "gameResult" /\ r.at \in Nat \cup {NoValue} /\ r.day \in Nat
      BY <1>1
    <2> QED
      BY <2>1 DEF SortKey, Midnight
  <1>2. CASE r \in [kind : {"leagueMatch"}, at : Nat, played : BOOLEAN]
    <2>1. r.kind = "leagueMatch" /\ r.at \in Nat
      BY <1>2
    <2> QED
      BY <2>1 DEF SortKey, JustAhead
  <1>3. CASE r \in [kind : {"schedule", "rankingShift", "notice"}, at : Nat]
    <2>1. r.kind \in {"schedule", "rankingShift", "notice"} /\ r.at \in Nat
      BY <1>3
    <2> QED
      BY <2>1 DEF SortKey
  <1>4. CASE /\ r \in [kind : {"challenge"}, day : Nat \cup {NoValue},
                       state : {"open", "discarded", "done"}, closed : Nat \cup {NoValue}]
             /\ r.state = "done" => r.day \in Nat
             /\ r.state = "discarded" => r.closed \in Nat
    <2>1. /\ r.kind = "challenge" /\ r.day \in Nat \cup {NoValue}
          /\ r.state \in {"open", "discarded", "done"}
      BY <1>4
    <2>2. ChallengeKey(r, n) \in Int
      BY <1>4, <2>1 DEF ChallengeKey, JustAhead, LastSecond, Morning
    <2> QED
      BY <2>1, <2>2 DEF SortKey
  <1> QED
    BY <1>1, <1>2, <1>3, <1>4 DEF FeedItem

Kinds == {"challenge", "gameResult", "rankingShift", "leagueMatch", "schedule", "notice"}

LEMMA RankOfKind ==
    /\ \A k \in Kinds : Rank[k] \in Nat
    /\ \A k, l \in Kinds : Rank[k] = Rank[l] => k = l
  <1>1. /\ Rank["challenge"] = 1 /\ Rank["gameResult"] = 2 /\ Rank["rankingShift"] = 3
        /\ Rank["leagueMatch"] = 4 /\ Rank["schedule"] = 5 /\ Rank["notice"] = 6
    BY DEF Rank
  <1> QED
    BY <1>1 DEF Kinds

LEMMA KindOfItem ==
    ASSUME NEW r \in FeedItem
    PROVE  r.kind \in Kinds
  BY DEF FeedItem, Kinds

LEMMA EntriesAreNumbered ==
    ASSUME NEW its \in Items
    PROVE  /\ Entries(its) \subseteq 1..Len(its) /\ Entries(its) \subseteq Nat
           /\ IsFiniteSet(Entries(its))
           /\ \A i \in Entries(its) : its[i] \in FeedItem
  <1>1. Entries(its) \in SUBSET (1..Len(its)) /\ Len(its) \in Nat
    BY DEF Entries, Items
  <1>2. IsFiniteSet(1..Len(its))
    BY <1>1, FS_Interval
  <1>3. IsFiniteSet(Entries(its))
    BY <1>1, <1>2, FS_Subset, Zenon
  <1>4. \A i \in Entries(its) : its[i] \in FeedItem
    BY DEF Entries, Items
  <1> QED
    BY <1>1, <1>3, <1>4

(* The list is in a strict total order (_row_sort_key and the stable sort).*)
LEMMA BeforeOrders ==
    ASSUME NEW its \in Items, NEW n \in Nat
    PROVE  /\ \A i \in Entries(its) : ~Before(its, n, i, i)
           /\ \A i, j, k \in Entries(its) :
                 Before(its, n, i, j) /\ Before(its, n, j, k) => Before(its, n, i, k)
           /\ \A i, j \in Entries(its) : i = j \/ Before(its, n, i, j) \/ Before(its, n, j, i)
  <1> DEFINE E == Entries(its)
             K(i) == SortKey(its[i], n)
             R(i) == Rank[its[i].kind]
             L(i) == its[i].kind \in {"leagueMatch", "schedule"}
  <1>1. \A i \in E : i \in Nat /\ K(i) \in Int /\ R(i) \in Nat
    BY EntriesAreNumbered, SortKeyIsNumber, KindOfItem, RankOfKind
  <1>2. \A i, j \in E : R(i) = R(j) => its[i].kind = its[j].kind
    BY EntriesAreNumbered, KindOfItem, RankOfKind
  <1>3. \A i, j \in E :
           Before(its, n, i, j) <=>
              \/ K(i) > K(j)
              \/ K(i) = K(j) /\ R(i) < R(j)
              \/ K(i) = K(j) /\ R(i) = R(j) /\ IF L(i) THEN i < j ELSE i > j
    <2> TAKE i, j \in E
    <2>1. /\ K(i) - K(j) > 0 <=> K(i) > K(j)
          /\ K(i) - K(j) = 0 <=> K(i) = K(j)
      BY <1>1
    <2>2. its[i].kind = its[j].kind <=> R(i) = R(j)
      BY <1>2
    <2> QED
      BY <2>1, <2>2 DEF Before
  <1>4. \A i, j \in E : R(i) = R(j) => (L(i) <=> L(j))
    BY <1>2
  <1> HIDE DEF E, K, R, L
  <1>5. \A i \in E : ~Before(its, n, i, i)
    BY <1>1, <1>3
  <1>6. \A i, j, k \in E : Before(its, n, i, j) /\ Before(its, n, j, k) => Before(its, n, i, k)
    <2> SUFFICES ASSUME NEW i \in E, NEW j \in E, NEW k \in E,
                        Before(its, n, i, j), Before(its, n, j, k)
                 PROVE  Before(its, n, i, k)
      OBVIOUS
    <2>1. /\ K(i) \in Int /\ K(j) \in Int /\ K(k) \in Int /\ R(i) \in Nat /\ R(j) \in Nat /\ R(k) \in Nat
          /\ i \in Nat /\ j \in Nat /\ k \in Nat
      BY <1>1
    <2>2. (R(i) = R(j) => (L(i) <=> L(j))) /\ (R(j) = R(k) => (L(j) <=> L(k)))
      BY <1>4
    <2>3. \/ K(i) > K(j)
          \/ K(i) = K(j) /\ R(i) < R(j)
          \/ K(i) = K(j) /\ R(i) = R(j) /\ IF L(i) THEN i < j ELSE i > j
      BY <1>3
    <2>4. \/ K(j) > K(k)
          \/ K(j) = K(k) /\ R(j) < R(k)
          \/ K(j) = K(k) /\ R(j) = R(k) /\ IF L(j) THEN j < k ELSE j > k
      BY <1>3
    <2>5. \/ K(i) > K(k)
          \/ K(i) = K(k) /\ R(i) < R(k)
          \/ K(i) = K(k) /\ R(i) = R(k) /\ IF L(i) THEN i < k ELSE i > k
      BY <2>1, <2>2, <2>3, <2>4
    <2> QED
      BY <1>3, <2>5
  <1>7. \A i, j \in E : i = j \/ Before(its, n, i, j) \/ Before(its, n, j, i)
    <2> TAKE i, j \in E
    <2>1. /\ K(i) \in Int /\ K(j) \in Int /\ R(i) \in Nat /\ R(j) \in Nat
          /\ i \in Nat /\ j \in Nat
      BY <1>1
    <2>2. R(i) = R(j) => (L(i) <=> L(j))
      BY <1>4
    <2> QED
      BY <1>3, <2>1, <2>2
  <1> QED
    BY <1>5, <1>6, <1>7 DEF E

(* Entries have a first one and a last one. *)
LEMMA FirstAndLast ==
    ASSUME NEW its \in Items, NEW n \in Nat, NEW T \in SUBSET Entries(its), T # {}
    PROVE  /\ \E h \in T : \A k \in T \ {h} : Before(its, n, h, k)
           /\ \E h \in T : \A k \in T \ {h} : Before(its, n, k, h)
  <1> DEFINE Above(h) == {k \in T : Before(its, n, k, h)}
             Below(h) == {k \in T : Before(its, n, h, k)}
             Ups == {Cardinality(Above(h)) : h \in T}
             Downs == {Cardinality(Below(h)) : h \in T}
  <1>1. IsFiniteSet(T)
    BY EntriesAreNumbered, FS_Subset, Zenon
  <1>2. /\ \A i \in T : ~Before(its, n, i, i)
        /\ \A i, j, k \in T : Before(its, n, i, j) /\ Before(its, n, j, k) => Before(its, n, i, k)
        /\ \A i, j \in T : i = j \/ Before(its, n, i, j) \/ Before(its, n, j, i)
    BY BeforeOrders
  <1>3. \A h \in T :
           /\ Above(h) \in SUBSET T /\ IsFiniteSet(Above(h)) /\ Cardinality(Above(h)) \in Nat
           /\ Below(h) \in SUBSET T /\ IsFiniteSet(Below(h)) /\ Cardinality(Below(h)) \in Nat
    <2> TAKE h \in T
    <2>1. Above(h) \in SUBSET T /\ Below(h) \in SUBSET T
      OBVIOUS
    <2> QED
      BY <1>1, <2>1, FS_Subset, FS_CardinalityType
  <1>4. Ups \in SUBSET Nat /\ Ups # {} /\ Downs \in SUBSET Nat /\ Downs # {}
    BY <1>3
  <1>5. PICK h \in T : \A k \in T : Cardinality(Above(h)) <= Cardinality(Above(k))
    <2> HIDE DEF Ups
    <2>1. PICK c \in Ups : \A d \in Ups : c <= d
      BY <1>4, LeastNumber
    <2> USE DEF Ups
    <2>2. PICK h \in T : c = Cardinality(Above(h))
      BY <2>1
    <2> QED
      BY <2>1, <2>2
  <1>6. PICK l \in T : \A k \in T : Cardinality(Below(l)) <= Cardinality(Below(k))
    <2> HIDE DEF Downs
    <2>1. PICK c \in Downs : \A d \in Downs : c <= d
      BY <1>4, LeastNumber
    <2> USE DEF Downs
    <2>2. PICK l \in T : c = Cardinality(Below(l))
      BY <2>1
    <2> QED
      BY <2>1, <2>2
  <1>7. ASSUME NEW k \in T, Before(its, n, k, h)
        PROVE  FALSE
    <2>1. Above(k) \in SUBSET Above(h) /\ k \in Above(h) /\ k \notin Above(k)
      BY <1>2, <1>7
    <2> HIDE DEF Above
    <2>2. Cardinality(Above(k)) <= Cardinality(Above(h))
          /\ Cardinality(Above(k)) # Cardinality(Above(h))
      BY <1>3, <2>1, FS_Subset
    <2>3. /\ Cardinality(Above(h)) \in Nat /\ Cardinality(Above(k)) \in Nat
          /\ Cardinality(Above(h)) <= Cardinality(Above(k))
      BY <1>3, <1>5, Zenon
    <2> QED
      BY <2>2, <2>3
  <1>8. ASSUME NEW k \in T, Before(its, n, l, k)
        PROVE  FALSE
    <2>1. Below(k) \in SUBSET Below(l) /\ k \in Below(l) /\ k \notin Below(k)
      BY <1>2, <1>8
    <2> HIDE DEF Below
    <2>2. Cardinality(Below(k)) <= Cardinality(Below(l))
          /\ Cardinality(Below(k)) # Cardinality(Below(l))
      BY <1>3, <2>1, FS_Subset
    <2>3. /\ Cardinality(Below(l)) \in Nat /\ Cardinality(Below(k)) \in Nat
          /\ Cardinality(Below(l)) <= Cardinality(Below(k))
      BY <1>3, <1>6, Zenon
    <2> QED
      BY <2>2, <2>3
  <1> QED
    BY <1>2, <1>7, <1>8

(* Every entry is in the row of the last head that is not below it.        *)
LEMMA EntryHasRow ==
    ASSUME NEW its \in Items, NEW n \in Nat, NEW i \in Entries(its)
    PROVE  \E h \in Heads(its, n) :
              /\ h = i \/ Before(its, n, h, i)
              /\ i \in RowOf(its, n, h)
              /\ \A k \in Heads(its, n) :
                    k = i \/ Before(its, n, k, i) => k = h \/ Before(its, n, k, h)
  <1> DEFINE E == Entries(its)
             H == Heads(its, n)
             B(j, k) == Before(its, n, j, k)
             T == {k \in H : k = i \/ B(k, i)}
  <1>1. /\ \A j \in E : ~B(j, j)
        /\ \A j, k, l \in E : B(j, k) /\ B(k, l) => B(j, l)
        /\ \A j, k \in E : j = k \/ B(j, k) \/ B(k, j)
    BY BeforeOrders
  <1>2. H \in SUBSET E
    BY DEF Heads
  <1>3. T # {}
    <2>1. PICK f \in E : \A k \in E \ {f} : B(f, k)
      BY FirstAndLast
    <2>2. ~JoinsRow(its, n, f)
      BY <1>1, <2>1 DEF JoinsRow
    <2>3. f \in T
      BY <2>1, <2>2 DEF Heads
    <2> QED
      BY <2>3
  <1>4. PICK h \in T : \A k \in T \ {h} : B(k, h)
    BY <1>2, <1>3, FirstAndLast
  <1>5. i \in RowOf(its, n, h)
    <2>1. ASSUME NEW k \in H, B(h, k), k = i \/ B(k, i)
          PROVE  FALSE
      <3>1. k \in T \ {h}
        BY <1>1, <1>2, <2>1
      <3> QED
        BY <1>1, <1>2, <1>4, <2>1, <3>1
    <2> HIDE DEF T
    <2>2. h = i \/ B(h, i)
      BY <1>4 DEF T
    <2> QED
      BY <2>1, <2>2 DEF RowOf
  <1> QED
    BY <1>4, <1>5

(* What a page takes from a list it takes from the top; the next cursor is *)
(* its last row.                                                           *)
LEMMA PageFromTop ==
    ASSUME NEW its \in Items, NEW n \in Nat, NEW rest \in SUBSET Heads(its, n)
    PROVE  /\ Cardinality(rest) <= Limit =>
                 PageOf(its, n, rest) = rest /\ NextCursor(its, n, rest) = NoValue
           /\ ~(Cardinality(rest) <= Limit) =>
                 /\ NextCursor(its, n, rest) \in PageOf(its, n, rest)
                 /\ \A h \in rest \ PageOf(its, n, rest) :
                       Before(its, n, NextCursor(its, n, rest), h)
  <1> DEFINE B(j, k) == Before(its, n, j, k)
             P == PageOf(its, n, rest)
             Above(h) == {k \in rest : B(k, h)}
  <1>1. rest \in SUBSET Entries(its) /\ IsFiniteSet(rest) /\ Cardinality(rest) \in Nat
    <2>1. rest \in SUBSET Entries(its)
      BY DEF Heads
    <2> QED
      BY <2>1, EntriesAreNumbered, FS_Subset, FS_CardinalityType
  <1>2. /\ \A j \in rest : ~B(j, j)
        /\ \A j, k, l \in rest : B(j, k) /\ B(k, l) => B(j, l)
        /\ \A j, k \in rest : j = k \/ B(j, k) \/ B(k, j)
    BY <1>1, BeforeOrders
  <1>3. Limit \in Nat \ {0}
    BY FeedAssumption
  <1>4. P = {h \in rest : Cardinality(Above(h)) < Limit}
    BY DEF PageOf
  <1>5. \A h \in rest : IsFiniteSet(Above(h)) /\ Cardinality(Above(h)) \in Nat
                        /\ Cardinality(Above(h)) < Cardinality(rest)
    <2> TAKE h \in rest
    <2>1. Above(h) \in SUBSET rest /\ h \notin Above(h)
      BY <1>2
    <2>2. /\ IsFiniteSet(Above(h)) /\ Cardinality(Above(h)) \in Nat
          /\ Cardinality(Above(h)) < Cardinality(rest)
      <3> HIDE DEF Above
      <3>1. /\ IsFiniteSet(Above(h)) /\ Cardinality(Above(h)) <= Cardinality(rest)
            /\ Cardinality(Above(h)) # Cardinality(rest)
        BY <1>1, <2>1, FS_Subset
      <3>2. Cardinality(Above(h)) \in Nat
        BY <3>1, FS_CardinalityType
      <3> QED
        BY <1>1, <3>1, <3>2
    <2> QED
      BY <2>2, Zenon
  <1>6. CASE Cardinality(rest) <= Limit
    <2>1. ASSUME NEW h \in rest
          PROVE  Cardinality(Above(h)) < Limit
      <3> HIDE DEF Above
      <3>1. Cardinality(Above(h)) \in Nat /\ Cardinality(Above(h)) < Cardinality(rest)
        BY <1>5, Zenon
      <3> QED
        BY <1>1, <1>3, <1>6, <3>1
    <2>2. P = rest
      BY <1>4, <2>1, Zenon
    <2> QED
      BY <1>6, <2>2 DEF NextCursor
  <1>7. CASE ~(Cardinality(rest) <= Limit)
    <2>1. rest # {}
      BY <1>3, <1>7, FS_EmptySet
    <2>2. P # {}
      <3>1. PICK f \in rest : \A k \in rest \ {f} : B(f, k)
        BY <1>1, <2>1, FirstAndLast
      <3>2. Above(f) = {}
        BY <1>2, <3>1
      <3>3. f \in P
        BY <1>3, <1>4, <3>2, FS_EmptySet
      <3> QED
        BY <3>3
    <2>3. P \in SUBSET Entries(its)
      BY <1>1, <1>4
    <2>4. \E h \in P : \A k \in P \ {h} : B(k, h)
      <3> HIDE DEF P
      <3> QED
        BY <2>2, <2>3, FirstAndLast
    <2> DEFINE c == CHOOSE h \in P : \A k \in P \ {h} : B(k, h)
    <2>5. c \in P /\ \A k \in P \ {c} : B(k, c)
      <3> HIDE DEF P
      <3> QED
        BY <2>4
    <2>6. NextCursor(its, n, rest) = c
      BY <1>7 DEF NextCursor
    <2> HIDE DEF c
    <2>7. ASSUME NEW h \in rest \ P
          PROVE  B(c, h)
      <3> SUFFICES ASSUME ~B(c, h) PROVE FALSE
        OBVIOUS
      <3>1. c \in rest /\ B(h, c)
        BY <1>2, <1>4, <2>5
      <3>2. Above(h) \in SUBSET Above(c)
        BY <1>2, <3>1
      <3>3. Cardinality(Above(h)) <= Cardinality(Above(c)) /\ Cardinality(Above(c)) < Limit
            /\ Cardinality(Above(h)) \in Nat /\ Cardinality(Above(c)) \in Nat
        <4>1. IsFiniteSet(Above(c)) /\ Cardinality(Above(h)) \in Nat /\ Cardinality(Above(c)) \in Nat
          BY <1>5, <3>1
        <4>2. Cardinality(Above(c)) < Limit
          BY <1>4, <2>5
        <4> HIDE DEF Above
        <4> QED
          BY <4>1, <4>2, <3>2, FS_Subset
      <3>4. h \in P
        BY <1>3, <1>4, <3>3
      <3> QED
        BY <3>4
    <2> QED
      BY <1>7, <2>5, <2>6, <2>7
  <1> QED
    BY <1>6, <1>7

(* What a page leaves of the rows it could take is below the next cursor.  *)
LEMMA GivenOrBelow ==
    ASSUME items \in Items, time \in Nat,
           NEW rest \in SUBSET Heads(items, time), NEW i \in Entries(items) \ Given(rest),
           NEW h \in rest, h = i \/ Before(items, time, h, i), i \in RowOf(items, time, h)
    PROVE  /\ NextCursor(items, time, rest) \in Entries(items)
           /\ NextCursor(items, time, rest) # NoValue
           /\ Before(items, time, NextCursor(items, time, rest), i)
  <1> DEFINE P == PageOf(items, time, rest)
             c == NextCursor(items, time, rest)
  <1>1. h \notin P
    BY DEF Given
  <1>2. ~(Cardinality(rest) <= Limit)
    BY <1>1, PageFromTop
  <1>3. c \in P /\ Before(items, time, c, h)
    BY <1>1, <1>2, PageFromTop
  <1>4. c \in Entries(items) /\ h \in Entries(items)
    BY <1>3 DEF PageOf, Heads
  <1>5. c # NoValue
    BY <1>4, EntriesAreNumbered, FeedAssumption
  <1>6. Before(items, time, c, i)
    BY <1>3, <1>4, BeforeOrders
  <1> QED
    BY <1>4, <1>5, <1>6

LEMMA NextCursorType ==
    ASSUME items \in Items, time \in Nat, NEW rest \in SUBSET Heads(items, time)
    PROVE  /\ NextCursor(items, time, rest) \in DOMAIN items \cup {NoValue}
           /\ NextCursor(items, time, rest) \in Nat \cup {NoValue}
  <1>1. PageOf(items, time, rest) \subseteq Entries(items)
    BY DEF PageOf, Heads
  <1>2. NextCursor(items, time, rest) \in Entries(items) \cup {NoValue}
    BY <1>1, PageFromTop
  <1> QED
    BY <1>2, EntriesAreNumbered DEF Entries

(* Whatever changes between two pages, the reader is owed only what stays  *)
(* below the row of its cursor.                                            *)
LEMMA ObservingKeeps ==
    ASSUME FeedInv, NEW its \in Items, NEW n \in Start..End,
           DOMAIN items \subseteq DOMAIN its, Len(its) <= MaxItems,
           \A i \in Entries(its) \cap DOMAIN items :
              i \in Entries(items) /\ its[i].kind = items[i].kind,
           items' = its, time' = n, reader' = Observing(its, n)
    PROVE  FeedInv'
  <1> DEFINE Moved(i) == i \notin Entries(its) \/ SortKey(its[i], n) # SortKey(items[i], time)
             jumps == reader.jumped \/ (reader.cursor \in Entries(items) /\ Moved(reader.cursor))
  <1>1. /\ FeedTypeOK /\ items \in Items /\ reader \in Reader \cup {NoValue}
        /\ OwedBelow
    BY DEF FeedInv
  <1>2. CASE reader = NoValue \/ reader.cursor = NoValue
    <2>1. reader' = NoValue
      BY <1>2 DEF Observing
    <2> QED
      BY <1>1, <2>1 DEF FeedInv, FeedTypeOK, OwedBelow, NothingSkipped, Finished
  <1>3. CASE reader # NoValue /\ reader.cursor # NoValue
    <2>1. reader \in Reader
      BY <1>1, <1>3
    <2>2. reader' = [reader EXCEPT !.owed = {i \in @ : ~Moved(i)}, !.jumped = jumps]
      BY <1>3 DEF Observing
    <2>3. /\ reader'.cursor = reader.cursor /\ reader'.lost = reader.lost
          /\ reader'.owed = {i \in reader.owed : ~Moved(i)}
          /\ reader'.jumped = jumps
      BY <2>1, <2>2 DEF Reader
    <2>4. jumps \in BOOLEAN
      BY <2>1 DEF Reader
    <2>5. reader' \in Reader
      <3> HIDE DEF jumps, Moved
      <3> QED
        BY <2>1, <2>2, <2>4 DEF Reader
    <2>6. FeedTypeOK'
      BY <1>1, <1>3, <2>3 DEF FeedTypeOK
    <2>7. OwedBelow'
      <3> SUFFICES ASSUME reader.lost = {}, ~jumps, reader.cursor \in Entries(its),
                          NEW i \in reader.owed, ~Moved(i)
                   PROVE  Before(its, n, reader.cursor, i)
        BY <2>3, Zenon DEF OwedBelow
      <3> DEFINE c == reader.cursor
      <3>1. c \in Entries(items) /\ its[c].kind = items[c].kind
        BY <1>1, <1>3 DEF FeedTypeOK
      <3>2. ~reader.jumped /\ ~Moved(c)
        BY <3>1
      <3>3. i \in Entries(items) /\ i \in Entries(its)
        BY <1>1, <1>3 DEF FeedTypeOK
      <3>4. its[i].kind = items[i].kind
        BY <3>3 DEF Entries
      <3>5. Before(items, time, c, i)
        BY <1>1, <1>3, <3>1, <3>2 DEF OwedBelow
      <3>6. SortKey(its[i], n) = SortKey(items[i], time) /\ SortKey(its[c], n) = SortKey(items[c], time)
        BY <3>2
      <3> QED
        BY <3>1, <3>4, <3>5, <3>6 DEF Before
    <2>8. NothingSkipped'
      BY <1>3, <2>3 DEF NothingSkipped, Finished
    <2> QED
      BY <2>5, <2>6, <2>7, <2>8 DEF FeedInv
  <1> QED
    BY <1>2, <1>3

(* The reader begins anew, and what the first page leaves is below it. *)
LEMMA FirstPageKeeps ==
    ASSUME FeedInv, FirstPage
    PROVE  FeedInv'
  <1> DEFINE rest == Heads(items, time)
             c == NextCursor(items, time, rest)
             owed == Entries(items) \ Given(rest)
  <1>1. /\ FeedTypeOK /\ items \in Items /\ time \in Nat
        /\ reader' = [cursor |-> c, owed |-> owed, jumped |-> FALSE, lost |-> {}]
        /\ UNCHANGED <<time, items>>
    BY FeedAssumption DEF FeedInv, FeedTypeOK, FirstPage
  <1>2. c \in DOMAIN items \cup {NoValue} /\ c \in Nat \cup {NoValue}
    BY <1>1, NextCursorType
  <1>3. owed \subseteq Entries(items) /\ owed \in SUBSET Nat
    BY <1>1, EntriesAreNumbered
  <1>4. \A i \in owed : c # NoValue /\ Before(items, time, c, i)
    <2> TAKE i \in owed
    <2>1. PICK h \in rest : (h = i \/ Before(items, time, h, i)) /\ i \in RowOf(items, time, h)
      BY <1>1, EntryHasRow
    <2> QED
      BY <1>1, <2>1, GivenOrBelow
  <1> HIDE DEF rest, c, owed
  <1>5. /\ reader'.cursor = c /\ reader'.owed = owed /\ reader'.lost = {}
        /\ reader' \in Reader
    BY <1>1, <1>2, <1>3 DEF Reader
  <1>6. FeedTypeOK'
    BY <1>1, <1>2, <1>3, <1>5 DEF FeedTypeOK
  <1>7. OwedBelow'
    BY <1>1, <1>4, <1>5 DEF OwedBelow
  <1>8. NothingSkipped'
    BY <1>4, <1>5 DEF NothingSkipped, Finished, Complete
  <1> QED
    BY <1>1, <1>5, <1>6, <1>7, <1>8 DEF FeedInv

(* A page that finds the place of the reader skips nothing it is owed; one *)
(* that finds the row of the cursor gone begins at the top.                *)
LEMMA NextPageKeeps ==
    ASSUME FeedInv, NextPage
    PROVE  FeedInv'
  <1> DEFINE heads == Heads(items, time)
             rest == RowsAfter(items, time, reader.cursor)
             c == NextCursor(items, time, rest)
             owed == reader.owed \ Given(rest)
             lost == reader.lost \cup PlaceLost
  <1>1. /\ FeedTypeOK /\ items \in Items /\ time \in Nat /\ OwedBelow
        /\ reader # NoValue /\ reader \in Reader /\ reader.cursor # NoValue
        /\ reader' = [cursor |-> c, owed |-> owed, jumped |-> FALSE, lost |-> lost]
        /\ UNCHANGED <<time, items>>
    BY FeedAssumption DEF FeedInv, FeedTypeOK, NextPage
  <1>2. rest \in SUBSET heads
    BY DEF RowsAfter
  <1>3. c \in DOMAIN items \cup {NoValue} /\ c \in Nat \cup {NoValue}
    BY <1>1, <1>2, NextCursorType
  <1>4. owed \subseteq Entries(items) /\ owed \in SUBSET Nat
    BY <1>1 DEF FeedTypeOK, Reader
  <1>5. lost \in SUBSET {"moved", "grown"}
    BY <1>1 DEF PlaceLost, Reader
  <1>6. ASSUME lost = {}, NEW i \in owed
        PROVE  c # NoValue /\ Before(items, time, c, i)
    <2>1. i \in Entries(items)
      BY <1>4
    <2>2. PICK h \in heads : /\ h = i \/ Before(items, time, h, i)
                             /\ i \in RowOf(items, time, h)
                             /\ \A k \in heads : k = i \/ Before(items, time, k, i)
                                   => k = h \/ Before(items, time, k, h)
      BY <1>1, <2>1, EntryHasRow
    <2>3. h \in rest
      <3>1. CASE reader.cursor \notin heads
        BY <3>1 DEF RowsAfter
      <3>2. CASE reader.cursor \in heads
        <4>1. ~reader.jumped /\ RowOf(items, time, reader.cursor) \cap reader.owed = {}
          BY <1>6, <3>2 DEF PlaceLost
        <4>2. reader.cursor \in Entries(items)
          BY <3>2 DEF Heads
        <4>3. Before(items, time, reader.cursor, i)
          BY <1>1, <1>6, <4>1, <4>2 DEF OwedBelow
        <4>4. h # reader.cursor
          BY <2>2, <4>1
        <4>5. Before(items, time, reader.cursor, h)
          BY <2>2, <3>2, <4>3, <4>4
        <4> QED
          BY <3>2, <4>5 DEF RowsAfter
      <3> QED
        BY <3>1, <3>2
    <2>4. i \in Entries(items) \ Given(rest)
      BY <2>1
    <2> HIDE DEF rest, owed
    <2> QED
      BY <1>1, <1>2, <2>2, <2>3, <2>4, GivenOrBelow
  <1> HIDE DEF rest, c, owed, lost
  <1>7. /\ reader'.cursor = c /\ reader'.owed = owed /\ reader'.lost = lost
        /\ reader' \in Reader
    BY <1>1, <1>3, <1>4, <1>5 DEF Reader
  <1>8. FeedTypeOK'
    BY <1>1, <1>3, <1>4, <1>7 DEF FeedTypeOK
  <1>9. OwedBelow'
    BY <1>1, <1>6, <1>7 DEF OwedBelow
  <1>10. NothingSkipped'
    BY <1>6, <1>7 DEF NothingSkipped, Finished, Complete
  <1> QED
    BY <1>1, <1>7, <1>8, <1>9, <1>10 DEF FeedInv

LEMMA DateOfIsNumber == \A t \in Nat : DateOf(t) \in Nat
  BY DEF DateOf

(* What is posted and what it becomes are activities of the same kind. *)
LEMMA PostedItems ==
    ASSUME NEW n \in Nat, NEW r \in NewItems(n)
    PROVE  r \in FeedItem
  <1>1. CASE r \in [kind : {"gameResult"}, at : {NoValue}, day : {d \in Day : d <= DateOf(n)}]
    BY <1>1, FeedAssumption DEF FeedItem
  <1>2. CASE r \in {[kind |-> "gameResult", at |-> t, day |-> DateOf(t)] :
                       t \in {u \in Mark : u <= n}}
    <2>1. PICK t \in Mark : r = [kind |-> "gameResult", at |-> t, day |-> DateOf(t)]
      BY <1>2
    <2>2. t \in Nat /\ DateOf(t) \in Nat
      BY FeedAssumption, DateOfIsNumber
    <2> QED
      BY <2>1, <2>2 DEF FeedItem
  <1>3. CASE r \in [kind : {"challenge"}, day : Day \cup {NoValue}, state : {"open"},
                    closed : {NoValue}]
    BY <1>3, FeedAssumption DEF FeedItem
  <1>4. CASE r \in [kind : {"leagueMatch"}, at : Mark, played : BOOLEAN]
    BY <1>4, FeedAssumption DEF FeedItem
  <1>5. CASE r \in [kind : {"schedule"}, at : Mark] \cup [kind : {"rankingShift", "notice"}, at : {n}]
    BY <1>5, FeedAssumption DEF FeedItem
  <1> QED
    BY <1>1, <1>2, <1>3, <1>4, <1>5 DEF NewItems

LEMMA ChangedItems ==
    ASSUME NEW n \in Nat, NEW r \in FeedItem, NEW q \in Becomes(r, n)
    PROVE  q \in FeedItem /\ q.kind = r.kind
  <1>1. CASE r \in [kind : {"gameResult"}, at : Nat \cup {NoValue}, day : Nat]
    <2>1. PICK t \in Mark : q = [r EXCEPT !.at = t, !.day = DateOf(t)]
      BY <1>1 DEF Becomes
    <2>2. t \in Nat /\ DateOf(t) \in Nat
      BY FeedAssumption, DateOfIsNumber
    <2>3. /\ q \in [kind : {"gameResult"}, at : Nat \cup {NoValue}, day : Nat]
          /\ q.kind = r.kind
      BY <1>1, <2>1, <2>2
    <2> QED
      BY <2>3 DEF FeedItem
  <1>2. CASE r \in [kind : {"leagueMatch"}, at : Nat, played : BOOLEAN]
    <2>1. r.kind = "leagueMatch"
      BY <1>2
    <2>2. q \in [kind : {"leagueMatch"}, at : Mark, played : BOOLEAN]
      BY <2>1 DEF Becomes
    <2> QED
      BY <2>1, <2>2, FeedAssumption DEF FeedItem
  <1>3. CASE r \in [kind : {"schedule", "rankingShift", "notice"}, at : Nat]
    <2>1. r.kind \in {"schedule", "rankingShift", "notice"}
      BY <1>3
    <2>2. r.kind = "schedule" /\ q \in [kind : {"schedule"}, at : Mark]
      BY <2>1 DEF Becomes
    <2> QED
      BY <2>2, FeedAssumption DEF FeedItem
  <1>4. CASE /\ r \in [kind : {"challenge"}, day : Nat \cup {NoValue},
                       state : {"open", "discarded", "done"}, closed : Nat \cup {NoValue}]
             /\ r.state = "done" => r.day \in Nat
             /\ r.state = "discarded" => r.closed \in Nat
    <2>1. /\ r.kind = "challenge" /\ r.day \in Nat \cup {NoValue}
          /\ r.state \in {"open", "discarded", "done"} /\ r.closed \in Nat \cup {NoValue}
      BY <1>4
    <2>2. \/ r.state = "open" /\ \E d \in Day \cup {NoValue} : q = [r EXCEPT !.day = d]
          \/ \E d \in Day : q = [r EXCEPT !.state = "done", !.day = d, !.closed = NoValue]
          \/ r.state = "open" /\ q = [r EXCEPT !.state = "discarded", !.closed = n]
      BY <2>1 DEF Becomes
    <2>3. CASE r.state = "open" /\ \E d \in Day \cup {NoValue} : q = [r EXCEPT !.day = d]
      BY <1>4, <2>1, <2>3, FeedAssumption DEF FeedItem
    <2>4. CASE \E d \in Day : q = [r EXCEPT !.state = "done", !.day = d, !.closed = NoValue]
      BY <1>4, <2>1, <2>4, FeedAssumption DEF FeedItem
    <2>5. CASE r.state = "open" /\ q = [r EXCEPT !.state = "discarded", !.closed = n]
      BY <1>4, <2>1, <2>5, FeedAssumption DEF FeedItem
    <2> QED
      BY <2>2, <2>3, <2>4, <2>5
  <1> QED
    BY <1>1, <1>2, <1>3, <1>4 DEF FeedItem

LEMMA EditsKeep ==
    ASSUME FeedInv, NEW i \in Entries(items), NEW q \in FeedItem \cup {NoValue},
           q # NoValue => q.kind = items[i].kind, Edits([items EXCEPT ![i] = q])
    PROVE  FeedInv'
  <1> DEFINE its == [items EXCEPT ![i] = q]
  <1>1. FeedTypeOK /\ items \in Items
    BY DEF FeedInv
  <1>2. i \in 1..Len(items)
    BY <1>1, EntriesAreNumbered
  <1>3. its \in Items /\ Len(its) = Len(items) /\ DOMAIN its = DOMAIN items
        /\ its[i] = q /\ \A j \in DOMAIN items \ {i} : its[j] = items[j]
    BY <1>1, <1>2 DEF Items
  <1>4. items' = its /\ time' = time /\ reader' = Observing(its, time)
    BY DEF Edits
  <1> HIDE DEF its
  <1>5. \A j \in Entries(its) \cap DOMAIN items :
           j \in Entries(items) /\ its[j].kind = items[j].kind
    BY <1>3 DEF Entries
  <1> QED
    BY <1>1, <1>3, <1>4, <1>5, ObservingKeeps DEF FeedTypeOK

LEMMA FeedInitially ==
    ASSUME FeedInit
    PROVE  FeedInv
  BY FeedAssumption
     DEF FeedInit, FeedInv, FeedTypeOK, Items, OwedBelow, NothingSkipped, Finished

LEMMA FeedStepwise ==
    ASSUME FeedInv, [FeedNext]_feedVars
    PROVE  FeedInv'
  <1>1. FeedTypeOK /\ items \in Items /\ time \in Nat /\ MaxItems \in Nat
    BY FeedAssumption DEF FeedInv, FeedTypeOK
  <1>2. CASE UNCHANGED feedVars
    BY <1>2 DEF feedVars, FeedInv, FeedTypeOK, Entries, OwedBelow, Before, NothingSkipped,
                Finished, Complete
  <1>3. CASE Post
    <2>1. PICK r \in NewItems(time) : Edits(Append(items, r)) /\ Len(items) < MaxItems
      BY <1>3 DEF Post
    <2> DEFINE its == Append(items, r)
    <2>2. its \in Items /\ Len(its) <= MaxItems /\ DOMAIN items \subseteq DOMAIN its
          /\ \A j \in DOMAIN items : its[j] = items[j]
      BY <1>1, <2>1, PostedItems DEF Items
    <2>3. items' = its /\ time' = time /\ reader' = Observing(its, time)
      BY <2>1 DEF Edits
    <2> HIDE DEF its
    <2>4. \A j \in Entries(its) \cap DOMAIN items :
             j \in Entries(items) /\ its[j].kind = items[j].kind
      BY <2>2 DEF Entries
    <2> QED
      BY <1>1, <2>2, <2>3, <2>4, ObservingKeeps DEF FeedTypeOK
  <1>4. ASSUME NEW i \in Entries(items), Change(i)
        PROVE  FeedInv'
    <2>1. PICK q \in Becomes(items[i], time) : Edits([items EXCEPT ![i] = q])
      BY <1>4 DEF Change
    <2>2. items[i] \in FeedItem
      BY <1>1, EntriesAreNumbered
    <2>3. q \in FeedItem /\ q.kind = items[i].kind
      BY <1>1, <2>2, ChangedItems
    <2> QED
      BY <2>1, <2>3, EditsKeep
  <1>5. ASSUME NEW i \in Entries(items), Take(i)
        PROVE  FeedInv'
    BY <1>5, EditsKeep DEF Take
  <1>6. CASE Pass
    <2>1. time + 1 \in Start..End /\ time' = time + 1 /\ items' = items
          /\ reader' = Observing(items, time + 1)
      BY <1>1, <1>6, FeedAssumption DEF Pass, FeedTypeOK
    <2>2. \A j \in Entries(items) \cap DOMAIN items :
             j \in Entries(items) /\ items[j].kind = items[j].kind
      OBVIOUS
    <2> QED
      BY <1>1, <2>1, <2>2, ObservingKeeps DEF FeedTypeOK
  <1> QED
    BY <1>2, <1>3, <1>4, <1>5, <1>6, FirstPageKeeps, NextPageKeeps DEF FeedNext

(* In every reachable state, for every set of times and dates, every       *)
(* length of the list and of a page, what the reader is owed is below the  *)
(* cursor while that keeps its place.                                      *)
THEOREM FeedInvariance == FeedSpec => []FeedInv
  <1>1. FeedInit => FeedInv
    BY FeedInitially
  <1>2. FeedInv /\ [FeedNext]_feedVars => FeedInv'
    BY FeedStepwise
  <1> QED
    BY <1>1, <1>2, PTL DEF FeedSpec

(* A reader who has come to the end of the list has missed nothing, as     *)
(* long as no page lost the place (list_feed, _cursor_index).              *)
THEOREM ReaderMissesNothing == FeedSpec => []NothingSkipped
  <1>1. FeedInv => NothingSkipped
    BY DEF FeedInv
  <1> QED
    BY <1>1, FeedInvariance, PTL

(***************************************************************************)
(* All parts.                                                              *)
(***************************************************************************)

(* The registry the statistics read, as MatchRegistry's theorems know it.  *)
Registry ==
    INSTANCE RegistryProofs WITH
        Member     <- {"m", "n"},
        Kind       <- {"computer"},
        Name       <- {"a", "b"},
        Tag        <- [who \in {"m", "n"} |-> IF who = "m" THEN "a" ELSE "b"],
        Race       <- {"zerg"},
        Outcome    <- {"team1", "draw", "not_held"},
        Lineup     <- RecordLineup,
        Day        <- {0, 1},
        Moment     <- {},
        Match      <- {1, 2},
        LastTwin   <- 2,
        LastManual <- 0,
        Type       <- [i \in {1, 2} |-> IF i = 1 THEN "0101" ELSE "0102"]

(* The challenge on which requests overlap, as ChallengeProofs knows it.   *)
Throng ==
    INSTANCE ChallengeProofs WITH
        Target    <- {CHOOSE t \in Target : TRUE},
        Date      <- {0},
        Expire    <- 0,
        Retention <- 0,
        MaxAge    <- 1,
        Session   <- Worker,
        called    <- row,
        age       <- clock,
        db        <- rows,
        txn       <- open

(* What is a step of the whole is a step of each part or leaves it alone.  *)
LEMMA PartsStepwise ==
    ASSUME [RequestsNext]_requestsVars
    PROVE  /\ [Next]_vars
           /\ [MembersNext]_memberVars
           /\ [ProfilesNext]_profileVars
           /\ [AvatarsNext]_avatarVars
           /\ [TokensNext]_tokenVars
           /\ [VersionsNext]_versionVars
           /\ [SchedulesNext]_scheduleVars
           /\ [FeedNext]_feedVars
           /\ [Records!Next]_recordVars
           /\ [Crowd!Next]_crowdVars
           /\ UNCHANGED part
  BY DEF RequestsNext, requestsVars, ChallengeStep, MembersStep, ProfilesStep, AvatarsStep,
         TokensStep, VersionsStep, SchedulesStep, FeedStep, RecordsStep, CrowdStep

(* Side by side, every part behaves as it does on its own.                 *)
THEOREM PartsRunAlongside ==
    RequestsSpec =>
        /\ Spec /\ MembersSpec /\ ProfilesSpec /\ AvatarsSpec /\ TokensSpec
        /\ VersionsSpec /\ SchedulesSpec /\ FeedSpec /\ Records!Spec /\ Crowd!Spec
  <1>1. RequestsInit =>
           /\ Init /\ MembersInit /\ ProfilesInit /\ AvatarsInit /\ TokensInit
           /\ VersionsInit /\ SchedulesInit /\ FeedInit /\ Records!Init
           /\ Crowd!Init
    BY DEF RequestsInit
  <1>2. [RequestsNext]_requestsVars =>
           /\ [Next]_vars /\ [MembersNext]_memberVars /\ [ProfilesNext]_profileVars
           /\ [AvatarsNext]_avatarVars /\ [TokensNext]_tokenVars
           /\ [VersionsNext]_versionVars /\ [SchedulesNext]_scheduleVars
           /\ [FeedNext]_feedVars /\ [Records!Next]_Records!vars
           /\ [Crowd!Next]_Crowd!vars
    BY PartsStepwise DEF recordVars, Records!vars, crowdVars, Crowd!vars
  <1> QED
    BY <1>1, <1>2, PTL
    DEF RequestsSpec, Spec, MembersSpec, ProfilesSpec, AvatarsSpec, TokensSpec,
        VersionsSpec, SchedulesSpec, FeedSpec, Records!Spec, Crowd!Spec

(* A picture a member shows and an attachment a schedule names are on disk, *)
(* except where a request that is open, has failed or overlapped another    *)
(* explains why not, or a form that has set a picture to the URL of a file  *)
(* that was shown before (update_profile, reprocess_avatar, _store_files,   *)
(* delete).                                                                 *)
THEOREM FilesAreThere == RequestsSpec => []FilesExist
  <1>1. AvatarsInv /\ SchedulesInv => FilesExist
    BY DEF AvatarsInv, SchedulesInv, FilesExist
  <1> QED
    BY <1>1, PartsRunAlongside, AvatarsInvariance, SchedulesInvariance, PTL

(* The two instances of the registry are one: their definitions are, one by *)
(* one, the same.                                                          *)
LEMMA SameStatistics == Records!StatsAgree <=> Registry!StatsAgree
  <1>1. ASSUME NEW f, NEW them
        PROVE  Records!PairsAgree(f, them) <=> Registry!PairsAgree(f, them)
    BY DEF Records!PairsAgree, Records!HeadToHead, Records!Meetings,
           Records!Rivals, Records!RivalWins, Records!OneMemberEach,
           Records!Tally, Records!Losses, Records!Cardinality, Records!Ahead,
           Records!Behind,
           Registry!PairsAgree, Registry!HeadToHead, Registry!Meetings,
           Registry!Rivals, Registry!RivalWins, Registry!OneMemberEach,
           Registry!Tally, Registry!Losses, Registry!Cardinality, Registry!Ahead,
           Registry!Behind
  <1>2. ASSUME NEW f, NEW them, NEW all
        PROVE  Records!RecordsAgree(f, them, all) <=> Registry!RecordsAgree(f, them, all)
    BY DEF Records!RecordsAgree, Records!Regular, Records!Record, Records!Tally,
           Records!Cardinality, Records!ListOf, Records!Registered,
           Records!Passes, Records!RatingGames, Records!LoggedMatches,
           Records!HasHistory, Records!Rated, Records!HeldRows, Records!SinceEver,
           Registry!RecordsAgree, Registry!Regular, Registry!Record,
           Registry!Tally, Registry!Cardinality, Registry!ListOf,
           Registry!Registered, Registry!Passes, Registry!RatingGames,
           Registry!LoggedMatches, Registry!HasHistory, Registry!Rated,
           Registry!HeldRows, Registry!SinceEver
  <1>3. Records!Rows = Registry!Rows /\ Records!Filter = Registry!Filter
    BY DEF Records!Rows, Records!Registered, Records!MemberOf, Records!Filter,
           Registry!Rows, Registry!Registered, Registry!MemberOf, Registry!Filter
  <1>4. ASSUME NEW f, NEW all
        PROVE  Records!HeldRows(f, all) = Registry!HeldRows(f, all)
    BY DEF Records!HeldRows, Records!Passes,
           Registry!HeldRows, Registry!Passes
  <1> QED
    BY <1>1, <1>2, <1>3, <1>4 DEF Records!StatsAgree, Registry!StatsAgree

LEMMA SameRegistry == Records!Spec <=> Registry!Spec
  <1>1. Records!Init <=> Registry!Init
    BY DEF Records!Init, Registry!Init
  <1>2. Records!Next <=> Registry!Next
    BY Zenon DEF Records!Next, Records!CreateMatch, Records!MergeReplay,
           Records!RewriteSummary, Records!DeleteMatch, Records!DeleteAllMatches,
           Records!SetClassification, Records!SetMapping, Records!ReplaceAliases,
           Records!AddAlias, Records!ReadRaces, Records!Owner,
           Records!ValidLineup, Records!NamesAllowed, Records!NoNameTwice,
           Records!NewNames, Records!SlotsOf, Records!ToSet,
           Records!UniqueMatchNo, Records!MatchNoBase, Records!NextImpossible,
           Records!TimedNumbers, Records!Used, Records!Registered, Records!DayOf,
           Records!HoursPerDay, Records!Max, Records!StoredTeams,
           Records!StoredNames, Records!NamesOf, Records!MatchRow,
           Records!Remembered, Records!Reread, Records!NumberAfter,
           Records!StartAfter,
           Registry!Next, Registry!CreateMatch, Registry!MergeReplay,
           Registry!RewriteSummary, Registry!DeleteMatch,
           Registry!DeleteAllMatches, Registry!SetClassification,
           Registry!SetMapping, Registry!ReplaceAliases, Registry!AddAlias,
           Registry!ReadRaces, Registry!Owner, Registry!ValidLineup,
           Registry!NamesAllowed, Registry!NoNameTwice, Registry!NewNames,
           Registry!SlotsOf, Registry!ToSet, Registry!UniqueMatchNo,
           Registry!MatchNoBase, Registry!NextImpossible, Registry!TimedNumbers,
           Registry!Used, Registry!Registered, Registry!DayOf,
           Registry!HoursPerDay, Registry!Max, Registry!StoredTeams,
           Registry!StoredNames, Registry!NamesOf, Registry!MatchRow,
           Registry!Remembered, Registry!Reread, Registry!NumberAfter,
           Registry!StartAfter
  <1>3. [Records!Next]_Records!vars <=> [Registry!Next]_Registry!vars
    BY <1>2 DEF Records!vars, Registry!vars
  <1> QED
    BY <1>1, <1>3, PTL DEF Records!Spec, Registry!Spec

(* What MatchRegistry assumes of its constants holds of this registry.     *)
LEMMA RegistryAssumptions ==
    /\ Registry!OwnerAssumption!:
    /\ Registry!TagAssumption!:
    /\ Registry!TimeAssumption!:
    /\ Registry!LineupAssumption!:
    /\ Registry!NullAssumption!:
    /\ Registry!OutcomeAssumption!:
  <1>1. Registry!OwnerAssumption!:
    BY RecordsAssumption DEF Registry!Owner
  <1>2. Registry!LineupAssumption!:
    <2>1. /\ RecordSlot("m", None) \in Registry!RequestSlot
          /\ RecordSlot("n", None) \in Registry!RequestSlot
          /\ RecordSlot("n", "b") \in Registry!RequestSlot
          /\ RecordSlot("computer", "b") \in Registry!RequestSlot
      BY DEF RecordSlot, Registry!RequestSlot, Registry!Owner
    <2>2. /\ <<RecordSlot("m", None)>> \in Seq(Registry!RequestSlot)
          /\ <<RecordSlot("n", "b")>> \in Seq(Registry!RequestSlot)
          /\ <<RecordSlot("m", None), RecordSlot("computer", "b")>>
                \in Seq(Registry!RequestSlot)
          /\ <<RecordSlot("n", None)>> \in Seq(Registry!RequestSlot)
      BY <2>1
    <2>3. \A s, t \in Seq(Registry!RequestSlot) :
             <<s, t>> \in Seq(Registry!RequestSlot) \X Seq(Registry!RequestSlot)
      OBVIOUS
    <2> QED
      BY <2>2, <2>3, Zenon DEF RecordLineup
  <1>3. Registry!RowType = Records!RowType /\ Registry!Number = Records!Number
    BY DEF Records!RowType, Records!Team, Records!Number,
           Registry!RowType, Registry!Team, Registry!Number
  <1>4. Registry!NullAssumption!:
    BY <1>3, RecordsAssumption
  <1>5. /\ Registry!TagAssumption!: /\ Registry!TimeAssumption!:
        /\ Registry!OutcomeAssumption!:
    BY RecordsAssumption
  <1> QED
    BY <1>1, <1>2, <1>4, <1>5

(* The statistics of a registry that stands beside the other parts tell one *)
(* story (head_to_head_rows, rivalry_rows, aggregate_stats).                *)
THEOREM RequestsStatistics == RequestsSpec => []StatsAgree
  <1>1. Registry!Spec => []Registry!StatsAgree
    BY RegistryAssumptions, Registry!StatisticsDoAgree
  <1>2. Registry!StatsAgree => StatsAgree
    BY SameStatistics DEF StatsAgree
  <1> QED
    BY <1>1, <1>2, SameRegistry, PartsRunAlongside, PTL

(* One member called, and dates and times of the least size, are people    *)
(* and times as Challenge assumes them.                                    *)
LEMMA ThrongAssumptions ==
    Throng!TimeAssumption!: /\ Throng!PeopleAssumption!: /\ Throng!NoneAssumption!:
  <1>1. (CHOOSE t \in Target : TRUE) \in Target
    BY PeopleAssumption
  <1>2. Throng!TimeAssumption!:
    OBVIOUS
  <1>3. Throng!Participant \subseteq Participant
    BY <1>1 DEF Throng!Participant, Participant
  <1>4. Throng!PeopleAssumption!:
    BY <1>1, <1>3, PeopleAssumption
  <1>5. Throng!Real = Real
    BY DEF Throng!Real, Real
  <1>6. Throng!NoneAssumption!:
    BY <1>3, <1>5, NoneAssumption
  <1> QED
    BY <1>2, <1>4, <1>6

(* The two instances of Challenge are one.                                 *)
LEMMA SameCrowd ==
    /\ Crowd!Spec <=> Throng!Spec
    /\ Crowd!TypeOK <=> Throng!TypeOK
    /\ Crowd!NothingIsUndone <=> Throng!NothingIsUndone
  <1>1. \A d : Crowd!NewRows(d) = Throng!NewRows(d)
    BY DEF Crowd!NewRows, Crowd!Participant, Throng!NewRows, Throng!Participant
  <1>2. Crowd!Init <=> Throng!Init
    BY <1>1 DEF Crowd!Init, Throng!Init
  <1>3. Crowd!Next <=> Throng!Next
    BY <1>1 DEF Crowd!Next, Crowd!CreateChallenge, Crowd!Delete, Crowd!Tick, Crowd!Handle, Crowd!Commit,
       Crowd!RunBatches, Crowd!GetPendingForMe, Crowd!GetResultPendingForMe, Crowd!Respond,
       Crowd!Cancel, Crowd!Reschedule, Crowd!EnterResult, Crowd!Participant, Crowd!Answer,
       Crowd!Real, Crowd!Begin, Crowd!Dirty, Crowd!Discard, Crowd!Status, Crowd!Expired,
       Crowd!Deadline, Crowd!TrashFull, Crowd!ClosedBy, Crowd!Forced,
       Throng!Next, Throng!CreateChallenge, Throng!Delete, Throng!Tick, Throng!Handle, Throng!Commit,
       Throng!RunBatches, Throng!GetPendingForMe, Throng!GetResultPendingForMe, Throng!Respond,
       Throng!Cancel, Throng!Reschedule, Throng!EnterResult, Throng!Participant, Throng!Answer,
       Throng!Real, Throng!Begin, Throng!Dirty, Throng!Discard, Throng!Status, Throng!Expired,
       Throng!Deadline, Throng!TrashFull, Throng!ClosedBy, Throng!Forced
  <1>4. [Crowd!Next]_Crowd!vars <=> [Throng!Next]_Throng!vars
    BY <1>3 DEF Crowd!vars, Throng!vars
  <1>5. Crowd!TypeOK <=> Throng!TypeOK
    BY DEF Crowd!TypeOK, Crowd!Row, Crowd!Participant, Crowd!Answer, Crowd!Real,
           Throng!TypeOK, Throng!Row, Throng!Participant, Throng!Answer, Throng!Real
  <1>6. [row /\ row' => Crowd!Onward(rows, rows')]_Crowd!vars
            <=> [row /\ row' => Throng!Onward(rows, rows')]_Throng!vars
    BY DEF Crowd!Onward, Crowd!Participant, Crowd!vars,
           Throng!Onward, Throng!Participant, Throng!vars
  <1>7. Crowd!Spec <=> Throng!Spec
    BY <1>2, <1>4, PTL DEF Crowd!Spec, Throng!Spec
  <1>8. Crowd!NothingIsUndone <=> Throng!NothingIsUndone
    BY <1>6, PTL DEF Crowd!NothingIsUndone, Throng!NothingIsUndone
  <1> QED
    BY <1>5, <1>7, <1>8

(* No update of a challenge is lost beside the other parts, however many   *)
(* requests on it overlap (respond, cancel, enter_result).                 *)
THEOREM RequestsLoseNothing == RequestsSpec => NothingIsLost
  <1>1. Throng!Spec => Throng!NothingIsUndone
    BY ThrongAssumptions, Throng!NothingLost
  <1> QED
    BY <1>1, SameCrowd, PartsRunAlongside, PTL DEF NothingIsLost

PartKnown == part \in Part

(* Every part keeps its types: what an open request is about to write fits  *)
(* the columns it was read from, however many of them overlap               *)
(* (db/session.py).                                                        *)
THEOREM RequestsTypesKept == RequestsSpec => []RequestsTypeOK
  <1>1. Registry!Spec => []Registry!TypeOK
    BY RegistryAssumptions, Registry!RegistryTypeCorrect
  <1>2. Registry!TypeOK <=> Records!TypeOK
    BY DEF Records!TypeOK, Records!Owner, Records!RowType, Records!Team, Records!Number,
           Registry!TypeOK, Registry!Owner, Registry!RowType, Registry!Team, Registry!Number
  <1>3. Spec => []TypeOK
    BY RowsKeepTypes
  <1>8. Throng!Spec => []Throng!TypeOK
    BY ThrongAssumptions, Throng!RowsKeepTypes
  <1>9. Throng!TypeOK <=> Crowd!TypeOK
    BY SameCrowd
  <1>4. /\ MembersInv => MembersTypeOK
        /\ ProfilesInv => ProfilesTypeOK
        /\ AvatarsInv => AvatarsTypeOK
        /\ TokensInv => TokensTypeOK
        /\ VersionsInv => VersionsTypeOK
        /\ SchedulesInv => SchedulesTypeOK
        /\ FeedInv => FeedTypeOK
    BY DEF MembersInv, ProfilesInv, AvatarsInv, TokensInv, VersionsInv, SchedulesInv, FeedInv
  <1>5. RequestsInit => PartKnown
    BY DEF RequestsInit, PartKnown
  <1>6. PartKnown /\ [RequestsNext]_requestsVars => PartKnown'
    BY PartsStepwise DEF PartKnown
  <1>7. /\ PartKnown /\ TypeOK /\ MembersTypeOK /\ ProfilesTypeOK /\ AvatarsTypeOK
        /\ TokensTypeOK /\ VersionsTypeOK /\ SchedulesTypeOK /\ FeedTypeOK /\ Records!TypeOK
        /\ Crowd!TypeOK
        => RequestsTypeOK
    BY Zenon DEF PartKnown, Part, RequestsTypeOK
  <1> QED
    BY <1>1, <1>2, <1>3, <1>4, <1>5, <1>6, <1>7, <1>8, <1>9, SameRegistry, SameCrowd, PartsRunAlongside,
       MembersInvariance, ProfilesInvariance, AvatarsInvariance, TokensInvariance,
       VersionsInvariance, SchedulesInvariance, FeedInvariance, PTL DEF RequestsSpec

(* What each part promises it keeps beside the others: an administrator who *)
(* can log in, names of one member, one live token of a login, an active    *)
(* version that is registered, files where rows name them, and a feed       *)
(* without gaps (_ensure_not_last_active_admin, create_member, refresh,     *)
(* delete_version, update_profile, _store_files, list_feed).                *)
THEOREM PromisesAreKept ==
    RequestsSpec =>
        [](/\ AdminRemains /\ NamesUnambiguous /\ TokensRotate
           /\ ActiveRegistered /\ FilesExist /\ NothingSkipped)
  BY PartsRunAlongside, AnAdminRemains, NamesStayUnambiguous, TokensAlwaysRotate,
     TheActiveIsRegistered, FilesAreThere, ReaderMissesNothing, PTL

=============================================================================
