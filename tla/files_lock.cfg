SPECIFICATION FilesSpec
CONSTANTS
  MaxFd = 5
  Devices = {"null", "uart", "lcd"}
  FileSystems = {"zip"}
  Null = "null"
  NoDriver = "none"
  FileNames = {"/dev/null", "/dev/uart", "/dev/lcd", "/mnt/f"}
  NameOf <- MCNameOf
  Below <- MCBelow
  Has <- MCHas
  Failing = {"zip"}
  Modes = {"RDONLY", "WRONLY"}
  Options = {"NONBLOCK"}
  StdStreams <- MCStdStreams
PROPERTIES
  LockIsExclusive
