\* Two requests and two PUTs of grants at a time on two agents.
SPECIFICATION GrantsSpec
CONSTANTS
  a1 = a1  a2 = a2  r1 = r1  r2 = r2
  Agents = {a1, a2}
  Requests = {r1, r2}
  Mailboxes = {m1}
  Puts = {p1, p2}
SYMMETRY Symmetry
INVARIANTS AdminRemains PasswordWhenJoined GrantsOfExisting
PROPERTY ChangesOnlyAsAsked
CHECK_DEADLOCK FALSE
