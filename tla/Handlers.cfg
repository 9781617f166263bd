\* Two workers, each component of the handlers in its own scenarios.
SPECIFICATION HandlersSpec
CONSTANTS
  alice = alice  bob = bob  carol = carol  nobody = nobody
  c1 = c1  c2 = c2  c3 = c3  w1 = w1  w2 = w2
  passkey1 = passkey1  passkey2 = passkey2  key1 = key1
  Users <- MCUsers
  Workers <- MCWorkers
  Channels <- MCChannels
  Scenarios <- MCScenarios
  Threads <- MCWorkers
  Names <- MCNames
  Passkeys <- MCPasskeys
  BrowserKeys <- MCBrowserKeys
  RegistrationScenarios <- MCRegistrationScenarios
  People <- MCPeople
  Admins <- MCAdmins
  PersonalPasskeys <- MCPasskeys
  PersonalKeys <- MCBrowserKeys
  MaxClock = 2
  HistoryCount = 1
  CredentialScenarios <- MCCredentialScenarios
  SpaceMembers <- MCPeople
  Librarians <- MCLibrarians
  FileNames <- MCFileNames
  SpaceLimit = 2
  FileScenarios <- MCFileScenarios
  Writers <- MCPeople
  Keepers <- MCLibrarians
  Titles <- MCTitles
  Texts <- MCTexts
  WikiScenarios <- MCWikiScenarios
  Staff <- MCPeople
  Strangers <- MCStrangers
  Chiefs <- MCLibrarians
  BoardScenarios <- MCBoardScenarios
  Guests <- MCPeople
  Hosts <- MCLibrarians
  Ranges <- Shown
  MaxOccurrences = 9
  CalendarScenarios <- MCCalendarScenarios
INVARIANTS
  TypeOK LeftAloneArchived NoMissedDefaultChannel AdminRemains DirectMembersWrite
  Types InvitesHold OwnerRemains AccountsComplete ServedOnce KeepsALogin BanEndsSessions
  BlobsMatchFiles FoldersAreATree LimitHolds TasksWhereLogged PagesAndTextsKept
  AgendaShowsOccurrences
CHECK_DEADLOCK FALSE
