------------------------------- MODULE Files -------------------------------
(***************************************************************************)
(* The file layer of the HAL: the lists of the devices and the file        *)
(* systems, the pool of file descriptors with its locks, and the calls     *)
(* open, close, read, write, lseek, fstat, isatty, ioctl and fcntl.        *)
(*                                                                         *)
(* One thread runs it and no interrupt handler opens files, so that a call *)
(* is a step; alt_io_redirect is one for each of its three streams.  The   *)
(* program uses the descriptors it holds: any other has no device, which   *)
(* the code does not test for.  A driver's functions are known by whether  *)
(* they are there and whether they may fail.                               *)
(***************************************************************************)
EXTENDS Integers, SequencesExt, FiniteSetsExt

CONSTANTS
  MaxFd,         \* ALT_MAX_FD
  Devices, FileSystems,
  Null,          \* /dev/null, the device there before all others
  NoDriver,      \* none
  FileNames,     \* what is opened
  NameOf,        \* the name of each device
  Below,         \* the names at or below each file system's mount point
  Has,           \* the functions each driver has
  Failing,       \* the drivers whose functions may fail
  StdStreams,    \* the names of ALT_STDIN, ALT_STDOUT and ALT_STDERR
  Modes,         \* access modes: RDONLY, WRONLY, RDWR
  Options        \* flags fcntl may set: APPEND, NONBLOCK

Std == 0 .. 2
Descriptors == 0 .. MaxFd - 1
Drivers == Devices \cup FileSystems

ASSUME FilesAssumption ==
  /\ MaxFd \in Nat /\ MaxFd > 3 /\ Null \in Devices /\ NoDriver \notin Drivers
  /\ NameOf \in [Devices -> FileNames] /\ Below \in [FileSystems -> SUBSET FileNames]
  /\ Failing \subseteq Drivers /\ StdStreams \in [Std -> FileNames]
  /\ Modes \subseteq {"RDONLY", "WRONLY", "RDWR"}

VARIABLES alt_dev_list, alt_fs_list,   \* the last one inserted first
          alt_fd_list, alt_max_fd,
          redirected,                  \* how many streams are
          opened                       \* what the program holds, as it opened it

fileVars == <<alt_dev_list, alt_fs_list, alt_fd_list, alt_max_fd, redirected, opened>>

Descriptor == [dev : Drivers \cup {NoDriver}, mode : Modes, options : SUBSET Options,
               excl : BOOLEAN, isDev : BOOLEAN]
Unused == [dev |-> NoDriver, mode |-> "RDONLY", options |-> {}, excl |-> FALSE,
           isDev |-> FALSE]

FilesInit ==
  /\ alt_dev_list = <<Null>> /\ alt_fs_list = <<>>
  /\ alt_fd_list = [f \in Descriptors |->
                     IF f \in Std THEN [Unused EXCEPT !.dev = Null] ELSE Unused]
  /\ alt_max_fd = -1 /\ redirected = 0 /\ opened = <<>>

-----------------------------------------------------------------------------
(* alt_dev_reg and alt_fs_reg: the drivers' initialization, before the     *)
(* streams are redirected.                                                 *)
Registered == Range(alt_dev_list) \cup Range(alt_fs_list)

DevReg(d) ==
  /\ redirected = 0 /\ d \notin Registered
  /\ alt_dev_list' = <<d>> \o alt_dev_list
  /\ UNCHANGED <<alt_fs_list, alt_fd_list, alt_max_fd, redirected, opened>>

FsReg(d) ==
  /\ redirected = 0 /\ d \notin Registered
  /\ alt_fs_list' = <<d>> \o alt_fs_list
  /\ UNCHANGED <<alt_dev_list, alt_fd_list, alt_max_fd, redirected, opened>>

(* alt_find_dev and alt_find_file: the first that goes by the name.        *)
First(list, wanted) ==
  LET hits == {i \in DOMAIN list : list[i] \in wanted}
  IN IF hits = {} THEN NoDriver ELSE list[Min(hits)]
FindDev(name) == First(alt_dev_list, {d \in ToSet(alt_dev_list) : NameOf[d] = name})
FindFile(name) == First(alt_fs_list, {d \in ToSet(alt_fs_list) : name \in Below[d]})

-----------------------------------------------------------------------------
(* open: alt_get_fd takes the lowest free descriptor.  On any failure it   *)
(* is released again.                                                      *)
Free == {f \in Descriptors : alt_fd_list[f].dev = NoDriver}
Raised(f) == IF f > alt_max_fd THEN f ELSE alt_max_fd

(* alt_file_locked looks at every descriptor up to the highest ever used.  *)
LockedBelow(list, max, d) == \E i \in Descriptors : i < max /\ list[i].dev = d /\ list[i].excl
LockedUpTo(list, max, d) == \E i \in Descriptors : i <= max /\ list[i].dev = d /\ list[i].excl
FileLocked(list, max, d) == LockedUpTo(list, max, d)

Opens(d) == IF d \in Failing /\ "open" \in Has[d] THEN {TRUE, FALSE} ELSE {TRUE}

(* The descriptor open fills in, and whether it succeeds.                  *)
NewFd(d, isFs, mode, options) ==
  [Unused EXCEPT !.dev = d, !.mode = mode, !.options = options, !.isDev = ~isFs]

AttemptOf(name) ==
  IF FindDev(name) # NoDriver THEN [dev |-> FindDev(name), isFs |-> FALSE]
  ELSE [dev |-> FindFile(name), isFs |-> TRUE]

Succeeds(name) ==
  LET a == AttemptOf(name)
  IN IF a.dev = NoDriver \/ Free = {} THEN {FALSE}
     ELSE IF ~a.isFs /\ FileLocked(alt_fd_list, Raised(Min(Free)), a.dev) THEN {FALSE}
     ELSE Opens(a.dev)

(* alt_release_fd, which leaves the standard streams alone.                *)
Release(list, f) == IF f > 2 THEN [list EXCEPT ![f] = Unused] ELSE list
Keep(list, f) == list
OnFailure(list, f) == Release(list, f)

(* What open leaves behind: in ok, whether it succeeded.                   *)
Opened(name, mode, options, ok) ==
  LET a == AttemptOf(name)
      f == Min(Free)
      taken == [alt_fd_list EXCEPT ![f] = NewFd(a.dev, a.isFs, mode, options)]
  IN IF a.dev = NoDriver \/ Free = {} THEN [list |-> alt_fd_list, max |-> alt_max_fd]
     ELSE [list |-> IF ok THEN taken ELSE OnFailure(taken, f), max |-> Raised(f)]

(* The program has descriptor f for what it opened.                        *)
Holding(f, what) ==
  [g \in DOMAIN opened \cup {f} |-> IF g = f THEN what ELSE opened[g]]

Open(name, mode, options) ==
  \E ok \in Succeeds(name) :
    LET after == Opened(name, mode, options, ok)
    IN /\ redirected = 3
       /\ alt_fd_list' = after.list /\ alt_max_fd' = after.max
       /\ opened' = IF ~ok THEN opened
                    ELSE Holding(Min(Free), [dev |-> AttemptOf(name).dev, mode |-> mode])
       /\ UNCHANGED <<alt_dev_list, alt_fs_list, redirected>>

(* alt_io_redirect: stdout, then stdin, then stderr get what an open of    *)
(* their device fills in, and its descriptor is released.                  *)
Redirect ==
  LET std == <<1, 0, 2>>[redirected + 1]
      mode == IF std = 0 THEN "RDONLY" ELSE "WRONLY"
  IN /\ redirected < 3
     /\ \E ok \in Succeeds(StdStreams[std]) :
          LET after == Opened(StdStreams[std], mode, {}, ok)
              f == Min(Free)
          IN /\ alt_fd_list' = IF ok
                  THEN Release([after.list EXCEPT ![std] = after.list[f]], f)
                  ELSE after.list
             /\ alt_max_fd' = after.max
     /\ redirected' = redirected + 1
     /\ UNCHANGED <<alt_dev_list, alt_fs_list, opened>>

-----------------------------------------------------------------------------
(* close, whose descriptor is gone also when the driver's function fails.  *)
Held == DOMAIN opened \cup Std

CloseFile(f) ==
  /\ redirected = 3 /\ f \in Held
  /\ alt_fd_list' = Release(alt_fd_list, f)
  /\ opened' = [g \in DOMAIN opened \ {f} |-> opened[g]]
  /\ UNCHANGED <<alt_dev_list, alt_fs_list, alt_max_fd, redirected>>

(* ioctl: TIOCEXCL and TIOCNXCL on a device; all else is the driver's, or  *)
(* ENOTTY.  alt_fd_lock looks below the highest descriptor ever used.      *)
Changes(f, fd) ==
  /\ redirected = 3 /\ f \in Held
  /\ alt_fd_list' = [alt_fd_list EXCEPT ![f] = fd]
  /\ UNCHANGED <<alt_dev_list, alt_fs_list, alt_max_fd, redirected, opened>>

Others(f) == {g \in Descriptors : g < alt_max_fd /\ g # f}
MayLock(f) == \A g \in Others(f) : alt_fd_list[g].dev # alt_fd_list[f].dev
Lock(f) ==
  /\ alt_fd_list[f].isDev /\ MayLock(f)
  /\ Changes(f, [alt_fd_list[f] EXCEPT !.excl = TRUE])
Unlock(f) ==
  /\ alt_fd_list[f].isDev /\ Changes(f, [alt_fd_list[f] EXCEPT !.excl = FALSE])

(* fcntl: F_SETFL sets two of the flags, F_GETFL hides the layer's own.    *)
SetFlags(fd, mode, options) == [fd EXCEPT !.options = options]
SetAllFlags(fd, mode, options) == [fd EXCEPT !.options = options, !.mode = mode]
SetFl(fd, mode, options) == SetFlags(fd, mode, options)
Fcntl(f, mode, options) == Changes(f, SetFl(alt_fd_list[f], mode, options))
GetFl(fd) == [mode |-> fd.mode, options |-> fd.options]

(* The other calls change nothing here: the driver answers them, or the    *)
(* layer itself.                                                           *)
Calls(fd, call, otherwise) == IF call \in Has[fd.dev] THEN "driver" ELSE otherwise
ReadFd(fd) == IF fd.mode # "WRONLY" THEN Calls(fd, "read", "EACCES") ELSE "EACCES"
WriteFd(fd) == IF fd.mode # "RDONLY" THEN Calls(fd, "write", "EACCES") ELSE "EACCES"
Lseek(fd) == Calls(fd, "lseek", "ENOTSUP")
Fstat(fd) == Calls(fd, "fstat", "_IFCHR")
Isatty(fd) == Calls(fd, "fstat", "yes")
Ioctl(fd) == Calls(fd, "ioctl", "ENOTTY")
Answers(fd) ==
  <<ReadFd(fd), WriteFd(fd), Lseek(fd), Fstat(fd), Isatty(fd), Ioctl(fd), GetFl(fd).mode>>

FilesNext ==
  \/ \E d \in Devices : DevReg(d)
  \/ \E d \in FileSystems : FsReg(d)
  \/ Redirect
  \/ \E name \in FileNames, mode \in Modes, options \in SUBSET Options :
       Open(name, mode, options)
  \/ \E f \in Descriptors :
       \/ CloseFile(f) \/ Lock(f) \/ Unlock(f)
       \/ \E mode \in Modes, options \in SUBSET Options : Fcntl(f, mode, options)

FilesSpec == FilesInit /\ [][FilesNext]_fileVars

-----------------------------------------------------------------------------
(* A descriptor has a device exactly while the program holds it, or it is  *)
(* a standard stream; and every call on it is answered as by the device,   *)
(* with the rights to it, that open was asked for, whatever failed or was  *)
(* closed, locked and set in between (alt_open.c:161-166, alt_close.c:88,  *)
(* alt_fcntl.c:89-90, alt_io_redirect.c:66-70).                             *)
TableIsTrue ==
  \A f \in Descriptors :
    /\ alt_fd_list[f].dev # NoDriver <=> f \in Held
    /\ f \in DOMAIN opened
         => /\ alt_fd_list[f].dev = opened[f].dev
            /\ Answers(alt_fd_list[f])
                 = Answers([Unused EXCEPT !.dev = opened[f].dev, !.mode = opened[f].mode])

(* No open of a device succeeds while a descriptor holds it locked         *)
(* (alt_open.c:79-87, alt_file.h:97-104).                                   *)
LockKeepsOut ==
  [][\A f \in Descriptors, g \in DOMAIN opened :
       (f \in DOMAIN opened' \ DOMAIN opened /\ alt_fd_list[g].excl)
         => opened'[f].dev # alt_fd_list[g].dev]_fileVars

(* A lock is granted only on the one descriptor of its device: "If there   *)
(* are no other open file descriptors which reference the same device,     *)
(* then alt_fd_lock() will grant the lock" (alt_fd_lock.c:43-44).          *)
LockIsExclusive ==
  [][\A f \in Descriptors, g \in Held :
       (~alt_fd_list[f].excl /\ alt_fd_list'[f].excl /\ g # f)
         => alt_fd_list[g].dev # alt_fd_list[f].dev]_fileVars
=============================================================================
