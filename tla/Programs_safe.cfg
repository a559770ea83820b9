SPECIFICATION Spec
CONSTANTS
  Client = {1, 2}
  Writes <- MCWrites
  Chunks <- MCChunks
  RawLimit = 6
  RecordLimit = 3
  SpoolLimit = 7
  TailLimit = 1
  Runs = {1}
  Reconciler = {r1, r2}
  MaxPrunes = 1
  Member = {1, 2}
  Physical <- MCPhysical
  MaxCommands = 2
  MaxRequests = 2
  Steps = 3
  Name = {n, m}
  MaxCollects = 2
  Pieces <- MCPieces
  Limit = 8
  HeadLimit = 3
  LineLimit = 3
  MaxOutput = 9
  Tool = {1, 2}
  Rules <- MCRules
  Computers <- MCComputers
  Values <- MCValues
  Installer = {1, 2}
  Releases = 2
  Download = 2
  MaxTicks = 3
  Command = {1, 2}
  Devices = {1, 2}
  Adapters = {1, 2}
  MaxEdits = 3
  Starter = {1, 2}
  MaxInits = 3
  Commands <- MCCommands
  Named <- MCNamed
  DownNames = {"down"}
  ConfigFields = {"path"}
  InstallFields = {"release"}
  Scan <- MCScan
  Installable = {"idf"}
  Configurable <- MCConfigurable
  MembersOf <- MCMembersOf
  MaxBacks = 2
  Platform = {"linux", "windows"}
  Catalog <- MCCatalog
  Contract <- MCContract
  FirstWritten <- MCWritten
  Changes <- MCChanges
  Removals <- MCRemovals
  MaxChanges = 2
  Builder = {"first", "second"}
  Loader = {l1, l2}
  Content <- MCContent
INVARIANTS
  WriterSafe
  LogExact
  WholeUnlessMarked
  StopsForGood
  FilesSafe
  CutsDoNotMatter
  ToolsRun
  InstallSafe
  InitCompletes
  SaysWhatItDoes
  AcceptedWorks
  BuildsHold
PROPERTIES
  TurnsAndApprovals
  OlderChangesStay
  Consented
CHECK_DEADLOCK FALSE
