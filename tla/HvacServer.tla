------------------------------ MODULE HvacServer ------------------------------
(***************************************************************************)
(* One hvac_server process: the four RPC handlers of hvac_comm.cpp, run    *)
(* one at a time by the Mercury progress thread, over the kernel's table   *)
(* of open descriptors and fd_to_path, next to the data mover thread of    *)
(* HvacDataMover.  A handler is an operator: its first parameters are the  *)
(* fields of the request, the last ones the reply it sends.                *)
(*                                                                         *)
(* A failed assert aborts the process (the build type defaults to Debug,   *)
(* CMakeLists.txt): alive becomes FALSE and neither thread steps again.    *)
(***************************************************************************)
EXTENDS HvacDataMover

CONSTANTS
    RemoteFds,      \* the descriptors the server process may open files on
    Missing,        \* files that open(2) refuses on the server's node
    Unreadable,     \* files on which read(2) may fail though they are open
    Size,           \* file -> its length
    Zeros           \* the content of a buffer fresh from calloc

\* An open file: whose content it is, the copy it was redirected to (0 for
\* the file itself), and the file position.
OpenFile == [src : Paths, copy : Nat, pos : Nat]

ASSUME ServerAssumption ==
    /\ RemoteFds \subseteq Nat \ {0}
    /\ Missing \subseteq Paths
    /\ Unreadable \subseteq Paths
    /\ Size \in [Paths -> Nat]
    /\ NoEntry \notin OpenFile

VARIABLES
    alive,          \* the process has not aborted
    open_fds,       \* the kernel's table: descriptor -> open file, or NoEntry
    fd_to_path      \* descriptor -> the path the client asked for, or NoEntry

serverVars == <<alive, open_fds, fd_to_path>>

BadFd == -1

ServerTypeOK ==
    /\ alive \in BOOLEAN
    /\ open_fds \in [RemoteFds -> OpenFile \cup {NoEntry}]
    /\ fd_to_path \in [RemoteFds \cup {BadFd} -> Paths \cup {NoEntry}]

ServerInit ==
    /\ alive = TRUE
    /\ open_fds = [f \in RemoteFds |-> NoEntry]
    /\ fd_to_path = [f \in RemoteFds \cup {BadFd} |-> NoEntry]

IsOpen(f) == f \in RemoteFds /\ open_fds[f] # NoEntry

MovedTo(file, pos) == [src |-> file.src, copy |-> file.copy, pos |-> pos]

FreeFds == {f \in RemoteFds : open_fds[f] = NoEntry}

-----------------------------------------------------------------------------
(***************************************************************************)
(* hvac_open_rpc_handler.                                                  *)
(***************************************************************************)

\* The file open(2) reaches for p when path_cache_map yielded found; no file
\* when the string names none.
OpenedFile(p, found) ==
    IF found = Garbled \/ (found = NoEntry /\ p \in Missing) THEN {}
    ELSE IF found = NoEntry THEN {[src |-> p, copy |-> 0, pos |-> 0]}
         ELSE {[src |-> nvme[found].src, copy |-> found, pos |-> 0]}

\* open(2) picks a free descriptor.  Any one, not the lowest: the mover and
\* the log files hold descriptors of the same process for short times.
OpenSucceeds(p, found, ret) ==
    \E file \in OpenedFile(p, found) :
        /\ ret \in FreeFds
        /\ open_fds' = [open_fds EXCEPT ![ret] = file]

OpenFails(p, found, ret) ==
    /\ OpenedFile(p, found) = {} \/ FreeFds = {}
    /\ ret = BadFd
    /\ UNCHANGED open_fds

\* The path the client sent is recorded, not the redirected one, and it is
\* recorded under -1 when the open failed.
hvac_open_rpc_handler(path, ret) ==
    /\ alive
    /\ \E found \in LookupOutcomes(path) :
           OpenSucceeds(path, found, ret) \/ OpenFails(path, found, ret)
    /\ fd_to_path' = [fd_to_path EXCEPT ![ret] = path]
    /\ UNCHANGED <<alive, moverVars>>

-----------------------------------------------------------------------------
(***************************************************************************)
(* hvac_rpc_handler: read (offset -1) or pread into a zeroed buffer, then  *)
(* push the buffer to the client.                                          *)
(***************************************************************************)

AtMost(m, n) == IF m <= n THEN m ELSE n

\* Where the read starts: at the file position, or at the given offset.
ReadStart(fd, offset) == IF offset = -1 THEN open_fds[fd].pos ELSE offset

BytesRead(fd, count, offset) ==
    LET left == Size[open_fds[fd].src] - ReadStart(fd, offset)
    IN  IF left <= 0 THEN 0 ELSE AtMost(count, left)

\* What is pushed: a slice of a file, or the zeroed buffer.
Slice(src, from, len) == [src |-> src, from |-> from, len |-> len]

\* What read(2) or pread(2) may return: -1 on a descriptor that is not open,
\* and on an open one whose file the node fails to read (EIO, ESTALE).
ReadReturns(fd, count, offset) ==
    {n \in {-1} : IsOpen(fd) => open_fds[fd].src \in Unreadable}
        \cup {BytesRead(f, count, offset) : f \in {f \in RemoteFds \cap {fd} : IsOpen(f)}}

\* Faulty variant of ReadOutcome: the -1 of a failed read is the size.
ReadOutcomeMinusOne(fd, count, offset, readbytes) ==
    IF readbytes # -1
    THEN [size |-> readbytes,
          data |-> Slice(open_fds[fd].src, ReadStart(fd, offset), readbytes)]
    ELSE [size |-> -1, data |-> Slice(Zeros, 0, 0)]

\* What the handler pushes and later reports.  When read(2) or pread(2)
\* succeeds, the transfer is cut to the bytes that were read; when it returns
\* -1, size stays at the requested count and the zeroed buffer is pushed.
ReadOutcome(fd, count, offset, readbytes) ==
    IF readbytes # -1
    THEN [size |-> readbytes,
          data |-> Slice(open_fds[fd].src, ReadStart(fd, offset), readbytes)]
    ELSE [size |-> count, data |-> Slice(Zeros, 0, count)]

\* Faulty variant of hvac_rpc_handler: pread moves the file position too.
PreadMovesPosition(fd, count, offset, readbytes) ==
    /\ alive
    /\ readbytes \in ReadReturns(fd, count, offset)
    /\ open_fds' = IF readbytes # -1
                   THEN [open_fds EXCEPT ![fd] = MovedTo(@, @.pos + readbytes)]
                   ELSE open_fds
    /\ UNCHANGED <<alive, fd_to_path, moverVars>>

\* read(2) moves the file position, pread(2) does not, and neither does when
\* it fails.
hvac_rpc_handler(fd, count, offset, readbytes) ==
    /\ alive
    /\ readbytes \in ReadReturns(fd, count, offset)
    /\ open_fds' = IF readbytes # -1 /\ offset = -1
                   THEN [open_fds EXCEPT ![fd] = MovedTo(@, @.pos + readbytes)]
                   ELSE open_fds
    /\ UNCHANGED <<alive, fd_to_path, moverVars>>

-----------------------------------------------------------------------------
(***************************************************************************)
(* hvac_seek_rpc_handler.                                                  *)
(***************************************************************************)

SeekTarget(fd, offset, whence) ==
    CASE whence = "SEEK_SET" -> offset
      [] whence = "SEEK_CUR" -> open_fds[fd].pos + offset
      [] whence = "SEEK_END" -> Size[open_fds[fd].src] + offset

CanSeek(fd, offset, whence) == IsOpen(fd) /\ SeekTarget(fd, offset, whence) >= 0

SeekResult(fd, offset, whence) ==
    IF CanSeek(fd, offset, whence) THEN SeekTarget(fd, offset, whence) ELSE -1

hvac_seek_rpc_handler(fd, offset, whence) ==
    /\ alive
    /\ open_fds' = IF CanSeek(fd, offset, whence)
                   THEN [open_fds EXCEPT ![fd] = MovedTo(@, SeekTarget(fd, offset, whence))]
                   ELSE open_fds
    /\ UNCHANGED <<alive, fd_to_path, moverVars>>

-----------------------------------------------------------------------------
(***************************************************************************)
(* hvac_close_rpc_handler: close, queue the file for caching unless it is  *)
(* cached, forget the descriptor.                                          *)
(***************************************************************************)

CloseSucceeds(fd) ==
    /\ IsOpen(fd)
    /\ open_fds' = [open_fds EXCEPT ![fd] = NoEntry]
    /\ RequestCaching(fd_to_path[fd])
    /\ fd_to_path' = [fd_to_path EXCEPT ![fd] = NoEntry]
    /\ UNCHANGED alive

\* close(2) returned -1 and assert(ret == 0) aborts the process.
CloseAborts(fd) ==
    /\ ~IsOpen(fd)
    /\ alive' = FALSE
    /\ UNCHANGED <<open_fds, fd_to_path, moverVars>>

hvac_close_rpc_handler(fd) ==
    /\ alive
    /\ CloseSucceeds(fd) \/ CloseAborts(fd)

-----------------------------------------------------------------------------
\* The data mover inside the server: it stops with the process.
ServerMoverStep ==
    /\ alive
    /\ MoverStep
    /\ UNCHANGED serverVars

ServerSpuriousWakeup ==
    /\ alive
    /\ SpuriousWakeup
    /\ UNCHANGED serverVars

-----------------------------------------------------------------------------
(***************************************************************************)
(* Properties.                                                             *)
(***************************************************************************)

(***************************************************************************)
(* A descriptor of the server reads the file the client asked for: either  *)
(* the file itself or a whole copy of it.  So a redirection through        *)
(* path_cache_map is invisible to the reader, whatever the mover is doing  *)
(* while the handlers run; and the close handler, which looks the          *)
(* descriptor up in fd_to_path, queues the client's path and never the     *)
(* path of a copy.                                                         *)
(***************************************************************************)
RedirectionIsTransparent ==
    \A f \in RemoteFds : open_fds[f] # NoEntry =>
        /\ fd_to_path[f] = open_fds[f].src
        /\ open_fds[f].copy # 0 =>
               /\ open_fds[f].copy \in DOMAIN nvme
               /\ nvme[open_fds[f].copy] = [src |-> open_fds[f].src, whole |-> TRUE]
=============================================================================
