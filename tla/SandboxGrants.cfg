SPECIFICATION Spec
CONSTANTS
  r1 = r1
  r2 = r2
  c1 = c1
  c2 = c2
  h1 = h1
  d1 = d1
  Clients = {c1, c2}
  Requests = {r1, r2}
  Hosts = {h1}
  Dirs = {d1}
  GrantOf <- MCGrantOf
  MaxSessions = 2
INVARIANTS ActiveIsWhatWasApproved ViewsConverge
PROPERTIES EveryRequestSettles
