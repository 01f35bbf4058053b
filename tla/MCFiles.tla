------------------------------ MODULE MCFiles ------------------------------
(* Files with two descriptors besides the standard streams, a console, a   *)
(* display and a file system with one file.                                *)
EXTENDS Files

MCNameOf == [null |-> "/dev/null", uart |-> "/dev/uart", lcd |-> "/dev/lcd"]
MCBelow == [zip |-> {"/mnt/f"}]
MCHas == [null |-> {"write"}, uart |-> {"read", "write"}, lcd |-> {"write"},
          zip |-> {"open", "close", "read", "lseek", "fstat"}]
MCStdStreams == [f \in Std |-> "/dev/uart"]
=============================================================================
