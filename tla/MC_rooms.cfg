SPECIFICATION Spec
CONSTANTS
  NoFile = NoFile
  Damaged = Damaged
  BundledRoom = bundled
  NewRooms = {room}
  Requests = {request}
  Folders = {folder}
  OwnerFolders <- MCOwnerFolders
  Paths <- MCPaths
  Scenarios <- MCScenarios
  Installations <- MCInstallations
  MaxRooms = 2
  MaxMembers = 3
  MaxMessages = 5
  MaxContext = 1
  MaxBackups = 1
INVARIANT StartServesTheSame
PROPERTIES ResumedKnowsTheRest ImplementsRoomService
CHECK_DEADLOCK FALSE
