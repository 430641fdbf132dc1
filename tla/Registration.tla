---------------------------- MODULE Registration ----------------------------
(***************************************************************************)
(* Registration and login (app/routes/auth.py) over the users' repository  *)
(* and the credentials, which always live in the memory of the process     *)
(* (infrastructure/security/credentials.py).  Requests run on the threads  *)
(* of a pool; nothing is locked, so each look at the two dictionaries and  *)
(* each write to one is a step of its own.  The users are those of the     *)
(* SQLite repository, which survive a restart.                             *)
(***************************************************************************)
EXTENDS Naturals, FiniteSets

CONSTANTS
  Users,        \* registration requests, and the users they create
  Emails,       \* normalized e-mail addresses
  MaxCrashes    \* bound

NoUser == "none"    \* an address without credentials
NoEmail == "none"   \* a request that has not been made

ASSUME UsersAssumption == IsFiniteSet(Users) /\ NoUser \notin Users
ASSUME EmailsAssumption == NoEmail \notin Emails
ASSUME BoundAssumption == MaxCrashes \in Nat

\* Definitions named ..._mutant are plausible bugs of the definition after them;
\* no action uses them, the properties are tested against them.

VARIABLES
  status,              \* status of each user in the users' repository
  byUser, byEmail,     \* _by_user_id (its keys) and _by_email
  email, at,           \* each request: its address, the step it is about to make
  raced,               \* history: the addresses for which calls of store() have overlapped
  crashes

vars == <<status, byUser, byEmail, email, at, raced, crashes>>

Over == {"idle", "created", "conflict", "lost"}
InStore == {"store", "index"}

\* Users, credentials and requests have their types; a request under way has its
\* address (auth.py:61-81).
TypeOK ==
  /\ status \in [Users -> {"none", "PENDING", "ACTIVE"}]
  /\ byUser \subseteq Users
  /\ byEmail \in [Emails -> Users \cup {NoUser}]
  /\ email \in [Users -> Emails \cup {NoEmail}]
  /\ at \in [Users -> Over \cup InStore \cup {"add", "check"}]
  /\ \A u \in Users : email[u] = NoEmail <=> at[u] = "idle"
  /\ raced \subseteq Emails
  /\ crashes \in Nat

Init ==
  /\ status = [u \in Users |-> "none"]
  /\ byUser = {} /\ byEmail = [e \in Emails |-> NoUser]
  /\ email = [u \in Users |-> NoEmail]
  /\ at = [u \in Users |-> "idle"]
  /\ raced = {} /\ crashes = 0

-----------------------------------------------------------------------------
(* register *)

Go(u, from, to) == at[u] = from /\ at' = [at EXCEPT ![u] = to]

\* get_by_email.
Taken(e) == byEmail[e] # NoUser

\* The address has no credentials, before the user is created.
CheckEmail(u, e) ==
  /\ Go(u, "idle", IF Taken(e) THEN "conflict" ELSE "add")
  /\ email' = [email EXCEPT ![u] = e]
  /\ UNCHANGED <<status, byUser, byEmail, raced, crashes>>

\* MarketplaceService.create_user.
CreateUser(u) ==
  /\ Go(u, "add", "check")
  /\ status' = [status EXCEPT ![u] = "PENDING"]
  /\ UNCHANGED <<byUser, byEmail, email, raced, crashes>>

\* The repository refuses the user.
CreateUserFails(u) ==
  /\ Go(u, "add", "conflict")
  /\ UNCHANGED <<status, byUser, byEmail, email, raced, crashes>>

Known_mutant(u) == u \in byUser   \* does not look at the address
\* What store() looks for in both dictionaries.
Known(u) == u \in byUser \/ Taken(email[u])

\* store: neither the user nor the address is known, ...
CheckCredentials(u) ==
  /\ Go(u, "check", IF Known(u) THEN "conflict" ELSE "store")
  /\ raced' = raced \cup {email[v] : v \in {v \in Users : at[v] \in InStore /\ email[v] = email[u]}}
  /\ UNCHANGED <<status, byUser, byEmail, email, crashes>>

StoreByUser_mutant(u) ==   \* _by_email first
  /\ Go(u, "store", "index")
  /\ byEmail' = [byEmail EXCEPT ![email[u]] = u]
  /\ UNCHANGED <<status, byUser, email, raced, crashes>>

\* ... then _by_user_id ...
StoreByUser(u) ==
  /\ Go(u, "store", "index")
  /\ byUser' = byUser \cup {u}
  /\ UNCHANGED <<status, byEmail, email, raced, crashes>>

\* ... and _by_email; the answer is 201.
StoreByEmail(u) ==
  /\ Go(u, "index", "created")
  /\ byEmail' = [byEmail EXCEPT ![email[u]] = u]
  /\ UNCHANGED <<status, byUser, email, raced, crashes>>

-----------------------------------------------------------------------------

ActivateUser(u) ==
  /\ status[u] = "PENDING"
  /\ status' = [status EXCEPT ![u] = "ACTIVE"]
  /\ UNCHANGED <<byUser, byEmail, email, at, raced, crashes>>

\* login with u's address and password gets a token for u: the credentials under
\* the address are u's, and u is ACTIVE.
CanLogIn(u) == byEmail[email[u]] = u /\ status[u] = "ACTIVE"

\* The process ends, and the credentials with it.
Crash ==
  /\ crashes < MaxCrashes
  /\ crashes' = crashes + 1
  /\ byUser' = {} /\ byEmail' = [e \in Emails |-> NoUser]
  /\ at' = [u \in Users |-> IF at[u] \in Over THEN at[u] ELSE "lost"]
  /\ UNCHANGED <<status, email, raced>>

Next ==
  \/ \E u \in Users :
       \/ \E e \in Emails : CheckEmail(u, e)
       \/ CreateUser(u) \/ CreateUserFails(u)
       \/ CheckCredentials(u) \/ StoreByUser(u) \/ StoreByEmail(u)
       \/ ActivateUser(u)
  \/ Crash

Spec == Init /\ [][Next]_vars

-----------------------------------------------------------------------------
(* Properties. *)

\* Types hold and, whatever requests overlap and however often the process restarts, an address
\* leads to credentials that exist, of a user who exists and asked for it
\* (credentials.py:55-57, auth.py:85-94).
AddressLeadsToUser ==
  /\ TypeOK
  /\ \A e \in Emails : Taken(e) =>
       LET u == byEmail[e] IN u \in byUser /\ email[u] = e /\ status[u] # "none"

\* A user whose registration was answered with 201 can log in from activation on,
\* until a restart, unless another call of store() for the address has overlapped
\* (auth.py:85-94, 121-150).
RegisteredCanLogIn ==
  \A u \in Users :
    at[u] = "created" /\ status[u] = "ACTIVE" /\ crashes = 0 /\ email[u] \notin raced => CanLogIn(u)
=============================================================================
