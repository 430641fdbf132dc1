------------------------- MODULE RegistrationProofs -------------------------
(***************************************************************************)
(* What Registration guarantees for every set of users and addresses, any  *)
(* number of restarts and any overlapping of the requests.                 *)
(***************************************************************************)
EXTENDS Registration, TLAPS

(* An address leads to the user who asked for it. *)

\* From the creation of the user on, the user exists; one who is about to be indexed
\* has credentials.
UserExists ==
  \A u \in Users :
    /\ at[u] \in InStore \cup {"check", "created"} => status[u] # "none"
    /\ at[u] = "index" => u \in byUser

LookupInv == AddressLeadsToUser /\ UserExists

LEMMA LookupInit == Init => LookupInv
BY UsersAssumption, EmailsAssumption
DEF Init, LookupInv, AddressLeadsToUser, UserExists, TypeOK, Taken, Over, InStore

LEMMA LookupStep == LookupInv /\ [Next]_vars => LookupInv'
<1> SUFFICES ASSUME LookupInv, [Next]_vars PROVE LookupInv'
  OBVIOUS
<1> USE UsersAssumption, EmailsAssumption
    DEF LookupInv, AddressLeadsToUser, UserExists, TypeOK, Taken, Over, InStore, Go
<1>1. ASSUME NEW u \in Users, NEW e \in Emails, CheckEmail(u, e) PROVE LookupInv'
  BY <1>1 DEF CheckEmail
<1>2. ASSUME NEW u \in Users, CreateUser(u) PROVE LookupInv'
  BY <1>2 DEF CreateUser
<1>3. ASSUME NEW u \in Users, CreateUserFails(u) PROVE LookupInv'
  BY <1>3 DEF CreateUserFails
<1>4. ASSUME NEW u \in Users, CheckCredentials(u) PROVE LookupInv'
  BY <1>4 DEF CheckCredentials
<1>5. ASSUME NEW u \in Users, StoreByUser(u) PROVE LookupInv'
  BY <1>5 DEF StoreByUser
<1>6. ASSUME NEW u \in Users, StoreByEmail(u) PROVE LookupInv'
  BY <1>6 DEF StoreByEmail
<1>7. ASSUME NEW u \in Users, ActivateUser(u) PROVE LookupInv'
  BY <1>7 DEF ActivateUser
<1>8. CASE Crash
  BY <1>8, BoundAssumption DEF Crash
<1>9. CASE UNCHANGED vars
  BY <1>9 DEF vars
<1> QED
  BY <1>1, <1>2, <1>3, <1>4, <1>5, <1>6, <1>7, <1>8, <1>9 DEF Next

LEMMA LookupInvariant == Spec => []LookupInv
BY LookupInit, LookupStep, PTL DEF Spec

\* An address never leads to credentials that do not exist, nor to a user who did not
\* ask for it or does not exist, whatever overlaps and however often the process
\* restarts (credentials.py:55-57, auth.py:85-94).
THEOREM LookupIsRight == Spec => []AddressLeadsToUser
BY LookupInvariant, PTL DEF LookupInv

-----------------------------------------------------------------------------
(* Who was registered can log in. *)

\* Two calls of store() for one address at once have raced, and one of them has raced
\* with the call that has just returned; an address that was answered with 201 keeps
\* credentials, and without a race those of the user who was answered.
Exclusive ==
  \A u, v \in Users : u # v /\ email[u] = email[v] =>
    /\ at[u] \in InStore /\ at[v] \in InStore => email[u] \in raced
    /\ at[u] = "created" /\ at[v] \in InStore /\ crashes = 0 => email[u] \in raced

Answered ==
  \A u \in Users : at[u] = "created" /\ crashes = 0 =>
    /\ Taken(email[u])
    /\ email[u] \notin raced => byEmail[email[u]] = u

LoginInv == Exclusive /\ Answered

LEMMA LoginInit == Init => LoginInv
BY DEF Init, LoginInv, Exclusive, Answered, InStore

LEMMA LoginStep == LookupInv /\ LoginInv /\ [Next]_vars => LoginInv'
<1> SUFFICES ASSUME LookupInv, LoginInv, [Next]_vars PROVE LoginInv'
  OBVIOUS
<1> USE UsersAssumption, EmailsAssumption
    DEF LoginInv, Exclusive, Answered, LookupInv, AddressLeadsToUser, TypeOK, Taken,
        Over, InStore, Go
<1>1. ASSUME NEW u \in Users, NEW e \in Emails, CheckEmail(u, e) PROVE LoginInv'
  BY <1>1 DEF CheckEmail
<1>2. ASSUME NEW u \in Users, CreateUser(u) PROVE LoginInv'
  BY <1>2 DEF CreateUser
<1>3. ASSUME NEW u \in Users, CreateUserFails(u) PROVE LoginInv'
  BY <1>3 DEF CreateUserFails
<1>4. ASSUME NEW u \in Users, CheckCredentials(u) PROVE LoginInv'
  BY <1>4 DEF CheckCredentials, Known
<1>5. ASSUME NEW u \in Users, StoreByUser(u) PROVE LoginInv'
  BY <1>5 DEF StoreByUser
<1>6. ASSUME NEW u \in Users, StoreByEmail(u) PROVE LoginInv'
  BY <1>6 DEF StoreByEmail
<1>7. ASSUME NEW u \in Users, ActivateUser(u) PROVE LoginInv'
  BY <1>7 DEF ActivateUser
<1>8. CASE Crash
  BY <1>8, BoundAssumption DEF Crash
<1>9. CASE UNCHANGED vars
  BY <1>9 DEF vars
<1> QED
  BY <1>1, <1>2, <1>3, <1>4, <1>5, <1>6, <1>7, <1>8, <1>9 DEF Next

\* A user who was answered with 201 and is ACTIVE can log in until a restart, for any
\* number of requests, unless another call of store() for the address overlapped
\* (auth.py:85-94, 121-150).
THEOREM RegisteredLogsIn == Spec => []RegisteredCanLogIn
<1>1. LoginInv => RegisteredCanLogIn
  BY DEF LoginInv, Answered, RegisteredCanLogIn, CanLogIn
<1> QED
  BY <1>1, LoginInit, LoginStep, LookupInvariant, PTL DEF Spec
=============================================================================
