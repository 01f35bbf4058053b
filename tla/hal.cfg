SPECIFICATION MCSpec
CONSTANTS
  BufLen = 2
  Depth = 2
  Almost = 1
  IntMax = 4
  Default = 2
  Timeouts <- MCTimeouts
  RxChars = 2
  TxChars = 2
  MaxCount = 2
  Alarms = {1, 2, 3}
  NoAlarm = 0
  TickWords = 6
  Delays <- MCDelays
  NIRQ = 3
  Handlers = {h1}
  Nobody = Nobody
  MaxFd = 5
  Devices = {"null", "uart", "lcd"}
  FileSystems = {"zip"}
  Null = "null"
  NoDriver = "none"
  FileNames = {"/dev/null", "/dev/uart", "/dev/lcd", "/mnt/f"}
  NameOf <- MCNameOf
  Below <- MCBelow
  Has <- MCHas
  Failing = {"zip"}
  Modes = {"RDONLY", "WRONLY"}
  Options = {"NONBLOCK"}
  StdStreams <- MCStdStreams
  Height = 2
  Width = 2
  VirtualWidth = 3
  ByteWords = 4
  Printable = {"a", " "}
  Blank = " "
  Parms = {0, 2}
  Text = 5
  Systems <- MCSystems
  Buses <- MCBuses
  LastAddress = 1
  MaxNets = 3
  MaxProfiles = 2
CHECK_DEADLOCK FALSE
INVARIANTS
  InOrder
  Awake
  CallsRegistered
  EnablesKept
  MoreUrgentOnTop
  TableIsTrue
  PanelShowsLines
  GroupsAreBuses
  OnePhyEach
PROPERTIES
  IsCountdown
  LockKeepsOut
