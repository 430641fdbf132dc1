\* Requests that overlap anywhere, and a restart.
SPECIFICATION Spec
CONSTANTS
  Users = {u1, u2, u3}
  Emails = {a, b}
  MaxCrashes = 1
INVARIANTS
  AddressLeadsToUser
  RegisteredCanLogIn
CHECK_DEADLOCK FALSE
