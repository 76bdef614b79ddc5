CONSTANTS
  CellAttributes <- TwoAttributes
  SgrSequences <- FourSgrSequences
  Titles <- ShortTitles
  Clients = {"p", "q"}
  Candidates = {1, 2}
  Pids = {"p1", "p2", "p3"}
  Groups = {1, 2}
  HandleValues <- FourHandles
  MaxProcesses = 2
  MaxRows = 2
  Chars = {"x", "y"}
  RowColumns = 4
  MaxLine = 2
  Prompts = {1}
  Capacities = {1, 2}
  Aliases <- Echo
  Exes = {"cmd", "pwsh"}
  Sources = {"LS", "ls"}
  Targets = {"t", "wide"}
  Commands = {"wide"}
  Key <- LowerCase
  Sorted <- SortedKeys
  Units <- NameUnits
  Bytes <- NameBytes
  BodyTail = 12
  MaxCommands = 2
  Coordinates = {0, 1, 2}
  Windows = {"w"}
  Extras = {0, 3}
  MaxSignals = 3
  AskedSizes <- LaunchSizes
  HandleNumbers = {4, 8}
  ClientCommands <- ProgramLines
  CodePages = {"gbk", "utf8"}
  EastAsian = {"gbk"}
  AnsiPage = "gbk"
  OemPage = "utf8"
  InputModes <- AskedModes
  Lengths = {1, 4}
  ShrtMax = 3
  WindowTitles <- ThreeTitles
  TitleRooms = {0, 1, 3, 4, 5, 7}
  MaxChanges = 2
  Alphabet <- KeyAlphabet
  MaxSequence = 5
  MaxEvents = 3
  MaxWritten = 2
  MaxRecords <- ReaderSizes
SPECIFICATION SessionSpec
INVARIANTS
  LineShown DraftKept
  SnapshotCurrent KindKept
  RowKept
  ScreenAgrees
  ScreensInStep
  SequencesExact
  AliasKept
  OneServer SignalsInStep LaunchedAsAsked CharactersWhole TerminalKnown
  InputAsTold ReadsBack
PROPERTY LengthSuffices
CHECK_DEADLOCK FALSE
