\* Two instances of two workers and two tabs of Alice, in each scenario.
SPECIFICATION Spec
CONSTANTS
  i1 = i1  i2 = i2  w1 = w1  w2 = w2
  alice = alice   tab1 = tab1  tab2 = tab2  lobby = lobby  attic = attic
  Instances = {i1, i2}
  Workers = {w1, w2}
  Users = {alice}
  Sockets = {tab1, tab2}
  UserOf <- AliceTabs
  Rooms = {lobby, attic}
  WikiRooms = {lobby}
  InitialMembers <- EmptyLobby
  InitialAdmins = {}
  Budgets <- Scenarios
SYMMETRY Symmetric
\* A behaviour ends when its budget is spent and its queues are empty.
CHECK_DEADLOCK FALSE
INVARIANTS TypeOK IndexAgrees RegistryAgrees PersonallyReachable NoMissedSubscription
