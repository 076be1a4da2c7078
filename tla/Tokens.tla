------------------------------- MODULE Tokens -------------------------------
(***************************************************************************)
(* Refresh tokens (src/app/domain/auth).  A login or signup issues a       *)
(* token; a refresh revokes it and issues its successor; a logout revokes  *)
(* it.  A login and all that was issued in exchange for it is a session:   *)
(* the tokens of a session carry the first of them.  Passwords, access     *)
(* tokens and the access history decide nothing here.                      *)
(***************************************************************************)
EXTENDS Requests

CONSTANTS
    User,   \* the members who log in
    Token   \* random values, never issued twice; bounds how many are

ASSUME TokensAssumption == Null \notin Token

VARIABLES
    usable,     \* the members a request may be made for (see Members)
    token,      \* the rows, or Null
    exchange,   \* what each open request is about to commit
    loggedOut,  \* the sessions a logout has ended
    forked      \* a token was exchanged that had been revoked meanwhile

tokenVars == <<usable, token, exchange, loggedOut, forked>>

(* Mutant of Valid: a revoked token is taken until it expires. *)
Unexpired(ts, t) == ts[t] # Null /\ ~ts[t].expired

(* Neither revoked nor expired. *)
Valid(ts, t) == ts[t] # Null /\ ~ts[t].revoked /\ ~ts[t].expired

(* Random values are taken neither by a row nor by an open request. *)
Unissued(t) ==
    token[t] = Null /\ \A w \in Worker : exchange[w] # Null => exchange[w].issue # t

\* read is whether the token to be revoked was revoked when it was read.
BeginExchange(w, r) ==
    /\ exchange[w] = Null
    /\ exchange' = [exchange EXCEPT ![w] = r]
    /\ UNCHANGED <<usable, token, loggedOut, forked>>

(* login and signup.  A member who signs up need not be usable yet. *)
Login(w, p, t) ==
    /\ p \in usable
    /\ Unissued(t)
    /\ BeginExchange(w, [of |-> p, session |-> t, issue |-> t, revoke |-> Null,
                         read |-> FALSE])

Signup(w, p, t) ==
    /\ p \notin usable
    /\ Unissued(t)
    /\ BeginExchange(w, [of |-> p, session |-> t, issue |-> t, revoke |-> Null,
                         read |-> FALSE])

Refresh(w, old, t) ==
    /\ Valid(token, old)
    /\ token[old].of \in usable
    /\ Unissued(t)
    /\ BeginExchange(w, [of |-> token[old].of, session |-> token[old].session,
                         issue |-> t, revoke |-> old, read |-> token[old].revoked])

(* A logout does not ask whether the token has expired. *)
Logout(w, old) ==
    /\ token[old] # Null /\ ~token[old].revoked
    /\ BeginExchange(w, [of |-> token[old].of, session |-> token[old].session,
                         issue |-> Null, revoke |-> old, read |-> token[old].revoked])

-----------------------------------------------------------------------------

(* One transaction revokes the old token and adds the new one. *)
CommitExchange(w) ==
    LET r == exchange[w]
    IN  /\ r # Null
        /\ token' = [t \in Token |->
              IF t = r.issue
              THEN [of |-> r.of, session |-> r.session, revoked |-> FALSE, expired |-> FALSE]
              ELSE IF t = r.revoke THEN [token[t] EXCEPT !.revoked = TRUE]
              ELSE token[t]]
        /\ loggedOut' = IF r.issue = Null THEN loggedOut \cup {r.session} ELSE loggedOut
        /\ forked' = (forked \/ (r.revoke # Null /\ token[r.revoke].revoked # r.read))
        /\ exchange' = [exchange EXCEPT ![w] = Null]
        /\ UNCHANGED usable

DropExchange(w) ==
    /\ exchange[w] # Null
    /\ exchange' = [exchange EXCEPT ![w] = Null]
    /\ UNCHANGED <<usable, token, loggedOut, forked>>

(* expires_at passes. *)
ExpireToken(t) ==
    /\ token[t] # Null /\ ~token[t].expired
    /\ token' = [token EXCEPT ![t].expired = TRUE]
    /\ UNCHANGED <<usable, exchange, loggedOut, forked>>

(* A member is approved, suspended or withdraws (see Members). *)
ChangeUsable(p) ==
    /\ usable' = IF p \in usable THEN usable \ {p} ELSE usable \cup {p}
    /\ UNCHANGED <<token, exchange, loggedOut, forked>>

TokensInit ==
    /\ usable = {}
    /\ token = [t \in Token |-> Null]
    /\ exchange = Idle
    /\ loggedOut = {}
    /\ forked = FALSE

TokensNext ==
    \/ \E w \in Worker :
          \/ \E p \in User, t \in Token : Login(w, p, t) \/ Signup(w, p, t)
          \/ \E old, t \in Token : Refresh(w, old, t)
          \/ \E old \in Token : Logout(w, old)
          \/ CommitExchange(w)
          \/ DropExchange(w)
    \/ \E t \in Token : ExpireToken(t)
    \/ \E p \in User : ChangeUsable(p)

TokensSpec == TokensInit /\ [][TokensNext]_tokenVars

-----------------------------------------------------------------------------

TokenRow == [of : User, session : Token, revoked : BOOLEAN, expired : BOOLEAN]

TokenJob == [of : User, session : Token, issue : Token \cup {Null},
             revoke : Token \cup {Null}, read : BOOLEAN]

\* NULL is not one of the rows.
ASSUME TokenRowsAssumption == Null \notin TokenRow

(* Rows and requests have their types, and only rows are revoked. *)
TokensTypeOK ==
    /\ usable \subseteq User
    /\ token \in [Token -> TokenRow \cup {Null}]
    /\ exchange \in [Worker -> TokenJob \cup {Null}]
    /\ loggedOut \subseteq Token
    /\ forked \in BOOLEAN
    /\ \A w \in Worker : exchange[w] # Null /\ exchange[w].revoke # Null =>
          token[exchange[w].revoke] # Null

(* However a session is refreshed, repeated with old tokens, interrupted   *)
(* and ended, it has one token at a time that is not revoked, and none     *)
(* once it is logged out, as long as no exchange was overtaken             *)
(* (_issue_refresh_token in one transaction with revoked_at).              *)
TokensRotate ==
    forked \/ \A t, u \in {x \in Token : token[x] # Null /\ ~token[x].revoked} :
        token[t].session = token[u].session =>
            t = u /\ token[t].session \notin loggedOut

=============================================================================
