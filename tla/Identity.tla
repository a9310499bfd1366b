------------------------------- MODULE Identity -------------------------------
(***************************************************************************)
(* The account behind a token: _synchronize_oidc_user of                   *)
(* backend/app/auth/dependencies.py, after OIDCVerifier accepted the token *)
(* (external).  The issuer's subject is the account's key; the e-mail      *)
(* address and the name follow the token.  Both columns are unique.        *)
(*                                                                         *)
(* A request reads in one step and commits in another; a commit that       *)
(* breaks a unique column is not caught, and the request fails.  Left out: *)
(* display names, and the development provider, which is not available in  *)
(* production.                                                             *)
(***************************************************************************)
EXTENDS Naturals, FiniteSets

CONSTANTS
    Logins,      \* requests under way at the same time
    Subjects,
    Emails,
    Accounts,    \* user identifiers
    NoAccount

ASSUME IdentityAssumption == NoAccount \notin Accounts

VARIABLES
    users,     \* the User rows
    login,     \* per request: its token and what it read
    known_as   \* the accounts each subject was ever answered with

identityVars == <<users, login, known_as>>

UserRow == [id : Accounts, subject : Subjects, email : Emails, active : BOOLEAN]

Away == [step |-> "idle"]

IdentityInit ==
    /\ users = {}
    /\ login = [q \in Logins |-> Away]
    /\ known_as = [s \in Subjects |-> {}]

\* Rows other than the account's own that hold the address
Conflicting(email, id) == {u \in users : u.email = email /\ u.id # id}

\* The look-ups: an unknown subject is inserted, an account whose address has
\* changed is updated, and an address somebody else holds is refused
Authenticate(q) ==
    /\ login[q] = Away
    /\ \E s \in Subjects, e \in Emails :
         \/ /\ \A u \in users : u.subject # s
            /\ Conflicting(e, NoAccount) = {}
            /\ login' = [login EXCEPT ![q] =
                           [step |-> "insert", subject |-> s, email |-> e]]
            /\ UNCHANGED known_as
         \/ \E u \in users :
            /\ u.subject = s
            /\ \/ /\ u.email = e /\ u.active
                  /\ known_as' = [known_as EXCEPT ![s] = @ \cup {u.id}]
                  /\ UNCHANGED login
               \/ /\ u.email # e /\ Conflicting(e, u.id) = {}
                  /\ login' = [login EXCEPT ![q] =
                                 [step |-> "update", subject |-> s,
                                  email |-> e, id |-> u.id]]
                  /\ UNCHANGED known_as
    /\ UNCHANGED users

Returns(q, subject, id) ==
    /\ known_as' = [known_as EXCEPT ![subject] = @ \cup {id}]
    /\ login' = [login EXCEPT ![q] = Away]

Fails(q) ==
    /\ login' = [login EXCEPT ![q] = Away]
    /\ UNCHANGED <<users, known_as>>

\* Without the unique columns
CollidesNever(subject, email, id) == FALSE

\* The unique columns
Collides(subject, email, id) ==
    \E u \in users : u.id # id /\ (u.subject = subject \/ u.email = email)

InsertUser(q) ==
    LET l == login[q] IN
    /\ l.step = "insert"
    /\ \/ Collides(l.subject, l.email, NoAccount) /\ Fails(q)
       \/ /\ ~Collides(l.subject, l.email, NoAccount)
          /\ \E id \in Accounts :
               /\ \A u \in users : u.id # id
               /\ users' = users \cup {[id |-> id, subject |-> l.subject,
                                        email |-> l.email, active |-> TRUE]}
               /\ Returns(q, l.subject, id)

\* The update is committed before is_active is looked at
UpdateUser(q) ==
    LET l == login[q] IN
    /\ l.step = "update"
    /\ \/ Collides(l.subject, l.email, l.id) /\ Fails(q)
       \/ /\ ~Collides(l.subject, l.email, l.id)
          /\ \E u \in users :
               /\ u.id = l.id
               /\ users' = (users \ {u}) \cup {[u EXCEPT !.email = l.email]}
               /\ IF u.active THEN Returns(q, l.subject, l.id)
                  ELSE login' = [login EXCEPT ![q] = Away] /\ UNCHANGED known_as

\* An operator deactivates an account
Deactivate ==
    /\ \E u \in users :
         u.active /\ users' = (users \ {u}) \cup {[u EXCEPT !.active = FALSE]}
    /\ UNCHANGED <<login, known_as>>

IdentityNext ==
    \/ \E q \in Logins : Authenticate(q) \/ InsertUser(q) \/ UpdateUser(q)
    \/ Deactivate

IdentitySpec == IdentityInit /\ [][IdentityNext]_identityVars

-------------------------------------------------------------------------------
IdentityTypeOK ==
    /\ users \in SUBSET UserRow
    /\ known_as \in [Subjects -> SUBSET Accounts]

\* _synchronize_oidc_user: one identity, one account.  However requests with
\* first and changed addresses race, a subject is always answered with the
\* same account, and no account is answered to two subjects.
AccountIsTheSubjects ==
    \A s, t \in Subjects :
        /\ Cardinality(known_as[s]) <= 1
        /\ s # t => known_as[s] \cap known_as[t] = {}
===============================================================================
