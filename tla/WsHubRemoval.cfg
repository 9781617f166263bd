\* A removal beside a connecting tab.
SPECIFICATION Spec
CONSTANTS
  i1 = i1  i2 = i2  w1 = w1  w2 = w2
  alice = alice   tab1 = tab1  tab2 = tab2  lobby = lobby  attic = attic
  Instances = {i1}
  Workers = {w1, w2}
  Users = {alice}
  Sockets = {tab1}
  UserOf <- AliceTabs
  Rooms = {lobby}
  WikiRooms = {}
  InitialMembers <- AlicesLobby
  InitialAdmins = {}
  Budgets <- Removal
\* A behaviour ends when its budget is spent and its queues are empty.
CHECK_DEADLOCK FALSE
INVARIANT RemovedMemberUnsubscribed
