SPECIFICATION Spec
CONSTANTS
  i1 = i1  i2 = i2
  alice = alice  bob = bob  carol = carol
  a1 = a1  b1 = b1  c1 = c1
  f1 = f1  f2 = f2  f3 = f3  f4 = f4
  Instances = {i1, i2}
  Workers = {w1, w2}
  Users = {alice, bob, carol}
  Tabs = {a1, b1, c1}
  UserOf <- MCUserOf
  HomeOf <- MCHomeOf
  Uploads = {f1, f2, f3, f4}
  SessionOf <- MCSessionOf
  InitialRoles <- MCRoles
  Ranks <- MCRanks
  Scenarios <- MCScenarios
  MaxChanges = 4
  MaxNotes = 8
INVARIANT PostedIsDelivered
CHECK_DEADLOCK FALSE
