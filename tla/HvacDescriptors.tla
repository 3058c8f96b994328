---------------------------- MODULE HvacDescriptors ----------------------------
(***************************************************************************)
(* The wrappers of wrappers.c over the two descriptors behind a number:    *)
(* the local one, which the wrapper opened first, and the remote one of    *)
(* hvac_track_file.  Each has a file position of its own.  read, pread and *)
(* lseek use the remote one; read64, readv, write and all stdio calls use  *)
(* the local one; fclose is not intercepted at all.                        *)
(*                                                                         *)
(* One process with one thread.  A remote call is one step, as HvacSystem  *)
(* shows (ImplementsPosixFiles).  The server may refuse an open, and a     *)
(* read of an open file may fail there; neither is reported.  The close of *)
(* a refused file aborts the server at some later time (SystemAbort); the  *)
(* calls up to then are modelled here, what the next one meets is in       *)
(* HvacAddressBook.                                                        *)
(***************************************************************************)
EXTENDS Integers, FiniteSets

CONSTANTS
    DataSet,        \* paths below HVAC_DATA_DIR
    Others,         \* paths elsewhere
    Size,           \* path -> its length
    MaxFd,          \* descriptors of the process are 1..MaxFd
    Counts,         \* byte counts of the calls
    MaxOpens,       \* bound: number of opens
    NoEntry         \* not open, not in the map

Paths == DataSet \cup Others
Fds == 1..MaxFd
RemoteFds == 1..MaxOpens

\* What open(2) of a server returns when it fails.
BadFd == -1

Flags == {"O_RDONLY", "O_RDWR", "O_WRONLY", "O_APPEND"}

\* An open file of a server, and what POSIX says of a number.
File == [path : Paths, pos : Nat]

\* A local file; a stream is one that fopen has opened.
LocalFile == [path : Paths, pos : Nat, stream : BOOLEAN, flags : Flags]

None == [path |-> NoEntry, pos |-> 0]

ASSUME DescriptorAssumption ==
    /\ DataSet \cap Others = {}
    /\ Size \in [Paths -> Nat]
    /\ MaxFd \in Nat
    /\ Counts \subseteq Nat \ {0}
    /\ MaxOpens \in Nat
    /\ NoEntry \notin Paths \cup Int \cup File \cup LocalFile

VARIABLES
    local,          \* number -> the local open file, or NoEntry
    remote,         \* remote descriptor -> the open file, or NoEntry
    fd_map,         \* number -> path, or NoEntry
    fd_redir_map,   \* number -> remote descriptor, or NoEntry
    opens,          \* number of opens so far
    posix,          \* observed: number -> path and position POSIX gives it
    moved,          \* observed: number -> the positions its file has moved
    failed,         \* observed: tracked numbers on which a remote open, read
                    \* or lseek has failed
    left,           \* observed: numbers of tracked streams that were fclosed
    lost            \* observed: remote descriptors whose entry fclose left
                    \* behind and another open has overwritten

vars == <<local, remote, fd_map, fd_redir_map, opens, posix, moved, failed, left, lost>>

TypeOK ==
    /\ local \in [Fds -> LocalFile \cup {NoEntry}]
    /\ remote \in [RemoteFds -> File \cup {NoEntry}]
    /\ fd_map \in [Fds -> Paths \cup {NoEntry}]
    /\ fd_redir_map \in [Fds -> RemoteFds \cup {BadFd, NoEntry}]
    /\ opens \in 0..MaxOpens
    /\ posix \in [Fds -> File \cup {None}]
    /\ moved \in [Fds -> SUBSET {"local", "remote"}]
    /\ failed \subseteq Fds
    /\ left \subseteq Fds
    /\ lost \subseteq RemoteFds

Init ==
    /\ local = [fd \in Fds |-> NoEntry]
    /\ remote = [f \in RemoteFds |-> NoEntry]
    /\ fd_map = [fd \in Fds |-> NoEntry]
    /\ fd_redir_map = [fd \in Fds |-> NoEntry]
    /\ opens = 0
    /\ posix = [fd \in Fds |-> None]
    /\ moved = [fd \in Fds |-> {}]
    /\ failed = {}
    /\ left = {}
    /\ lost = {}

-----------------------------------------------------------------------------
(***************************************************************************)
(* open, open64, fopen, fopen64.                                           *)
(***************************************************************************)
FreeFds == {fd \in Fds : local[fd] = NoEntry}

\* The kernel gives out the lowest free number.
Lowest(fd) == fd \in FreeFds /\ \A g \in FreeFds : fd <= g

\* Files that are only written, or appended to, are left to libc.
IsTracked(path, flags) == path \in DataSet /\ flags \notin {"O_WRONLY", "O_APPEND"}

\* hvac_open_rpc_handler: a descriptor at the start of the file, or -1.
RemoteOpen(path, ret) ==
    \/ /\ ret = opens + 1
       /\ remote' = [remote EXCEPT ![ret] = [path |-> path, pos |-> 0]]
    \/ /\ ret = BadFd
       /\ UNCHANGED remote

\* What the server said to the open of a number, refused or not.
Refused(fd, ret) == failed' = IF ret = BadFd THEN failed \cup {fd} ELSE failed \ {fd}

Tracks(path, fd) ==
    /\ fd_map' = [fd_map EXCEPT ![fd] = path]
    /\ left' = left \ {fd}
    /\ lost' = IF fd \in left THEN lost \cup ({fd_redir_map[fd]} \ {BadFd}) ELSE lost

\* Faulty variant of hvac_track_file: the caller goes on before the response
\* has put the remote descriptor into the map.
TrackWithoutBlock(path, flags, fd) ==
    IF IsTracked(path, flags)
    THEN /\ Tracks(path, fd)
         /\ \E ret \in RemoteFds \cup {BadFd} : RemoteOpen(path, ret) /\ Refused(fd, ret)
         /\ UNCHANGED fd_redir_map
    ELSE UNCHANGED <<fd_map, fd_redir_map, remote, failed, left, lost>>

\* Faulty variant of hvac_track_file: a remote descriptor that the number had
\* before is kept.
TrackKeepsRedirection(path, flags, fd) ==
    IF IsTracked(path, flags)
    THEN /\ Tracks(path, fd)
         /\ \E ret \in RemoteFds \cup {BadFd} :
                /\ RemoteOpen(path, ret)
                /\ Refused(fd, ret)
                /\ fd_redir_map' = [fd_redir_map EXCEPT ![fd] = IF @ = NoEntry THEN ret ELSE @]
    ELSE UNCHANGED <<fd_map, fd_redir_map, remote, failed, left, lost>>

\* The entry of a stream that had the number before is overwritten, or stays.
\* The file is tracked also if the server has refused it.
hvac_track_file(path, flags, fd) ==
    IF IsTracked(path, flags)
    THEN /\ Tracks(path, fd)
         /\ \E ret \in RemoteFds \cup {BadFd} :
                /\ RemoteOpen(path, ret)
                /\ Refused(fd, ret)
                /\ fd_redir_map' = [fd_redir_map EXCEPT ![fd] = ret]
    ELSE UNCHANGED <<fd_map, fd_redir_map, remote, failed, left, lost>>

RealOpen(path, flags, stream, fd) ==
    /\ opens < MaxOpens
    /\ opens' = opens + 1
    /\ Lowest(fd)
    /\ local' = [local EXCEPT ![fd] =
                    [path |-> path, pos |-> 0, stream |-> stream, flags |-> flags]]
    /\ posix' = [posix EXCEPT ![fd] = [path |-> path, pos |-> 0]]
    /\ moved' = [moved EXCEPT ![fd] = {}]

open(path, flags, fd) ==
    /\ RealOpen(path, flags, FALSE, fd)
    /\ hvac_track_file(path, flags, fd)

\* Whatever the mode is, hvac_track_file is told O_RDONLY.
fopen(path, mode, fd) ==
    /\ RealOpen(path, mode, TRUE, fd)
    /\ hvac_track_file(path, "O_RDONLY", fd)

-----------------------------------------------------------------------------
(***************************************************************************)
(* close, and fclose of libc.                                              *)
(***************************************************************************)
Forget(fd) ==
    /\ local' = [local EXCEPT ![fd] = NoEntry]
    /\ posix' = [posix EXCEPT ![fd] = None]
    /\ moved' = [moved EXCEPT ![fd] = {}]
    /\ UNCHANGED <<opens, lost>>

\* fd_redir_map[fd]: operator[] yields 0 if there is no entry.
Redirected(fd) == IF fd_redir_map[fd] = NoEntry THEN 0 ELSE fd_redir_map[fd]

IsOpen(f) == f \in RemoteFds /\ remote[f] # NoEntry

Untracked(fd) ==
    /\ fd_map' = [fd_map EXCEPT ![fd] = NoEntry]
    /\ fd_redir_map' = [fd_redir_map EXCEPT ![fd] = NoEntry]
    /\ failed' = failed \ {fd}
    /\ left' = left \ {fd}

\* Faulty variant of hvac_remove_fd: the entry goes, the remote close is not
\* sent.
RemoveWithoutRemoteClose(fd) == Untracked(fd) /\ UNCHANGED remote

\* The remote close, of -1 if the open was refused, and the end of both
\* entries.
hvac_remove_fd(fd) ==
    IF fd_map[fd] # NoEntry
    THEN /\ remote' = IF IsOpen(Redirected(fd))
                      THEN [remote EXCEPT ![Redirected(fd)] = NoEntry]
                      ELSE remote
         /\ Untracked(fd)
    ELSE UNCHANGED <<remote, fd_map, fd_redir_map, failed, left>>

close(fd) ==
    /\ local[fd] # NoEntry
    /\ ~local[fd].stream
    /\ hvac_remove_fd(fd)
    /\ Forget(fd)

\* libc closes the number itself: no wrapper sees it.
fclose(fd) ==
    /\ local[fd] # NoEntry
    /\ local[fd].stream
    /\ Forget(fd)
    /\ left' = IF fd_map[fd] # NoEntry THEN left \cup {fd} ELSE left
    /\ UNCHANGED <<remote, fd_map, fd_redir_map, failed>>

-----------------------------------------------------------------------------
(***************************************************************************)
(* Calls that read, write or seek.                                         *)
(***************************************************************************)
Smaller(m, n) == IF m <= n THEN m ELSE n

\* The position after reading n units of a file: files do not grow.
After(file, n) ==
    IF file.pos >= Size[file.path] THEN file.pos ELSE Smaller(file.pos + n, Size[file.path])

Readable(fd) == local[fd] # NoEntry /\ local[fd].flags \in {"O_RDONLY", "O_RDWR"}

\* What every call leaves alone.
Keeps == UNCHANGED <<fd_map, opens, left, lost>>

PosixMoves(fd, pos) == posix' = [posix EXCEPT ![fd].pos = pos]

Marks(fd, which) == moved' = [moved EXCEPT ![fd] = @ \cup {which}]

MoveLocal(fd, pos) ==
    /\ local' = [local EXCEPT ![fd].pos = pos]
    /\ Marks(fd, "local")
    /\ UNCHANGED <<remote, fd_redir_map, failed>>

\* A request of a number to the server.  operator[] leaves the entry it made.
Remotely(fd) ==
    /\ fd_redir_map' = [fd_redir_map EXCEPT ![fd] = Redirected(fd)]
    /\ Marks(fd, "remote")
    /\ UNCHANGED local

MoveRemote(fd, pos) ==
    /\ remote' = [remote EXCEPT ![Redirected(fd)].pos = pos]
    /\ UNCHANGED failed

\* The call fails on the server, and moves no position there.
RemoteFails(fd) ==
    /\ failed' = failed \cup {fd}
    /\ UNCHANGED remote

\* read: remote if the number is in fd_map, whatever it was opened for.  If
\* read(2) fails on the server, because the descriptor is -1 or by an error
\* of the file, the application gets zeros and the count it asked for.  The
\* fallback to the local descriptor is never taken (ReadNeverFallsBack of
\* HvacSystem).
read(fd, n) ==
    /\ local[fd] # NoEntry
    /\ \/ /\ fd_map[fd] = NoEntry
          /\ Readable(fd)
          /\ MoveLocal(fd, After(local[fd], n))
       \/ /\ fd_map[fd] # NoEntry
          /\ Remotely(fd)
          /\ \/ /\ IsOpen(Redirected(fd))
                /\ MoveRemote(fd, After(remote[Redirected(fd)], n))
             \/ RemoteFails(fd)
    /\ IF Readable(fd) THEN PosixMoves(fd, After(posix[fd], n)) ELSE UNCHANGED posix
    /\ Keeps

\* Faulty variant of lseek: only the local position is set.
LseekLocally(fd, pos) ==
    /\ local[fd] # NoEntry
    /\ local' = [local EXCEPT ![fd].pos = pos]
    /\ Marks(fd, IF fd_map[fd] = NoEntry THEN "local" ELSE "remote")
    /\ PosixMoves(fd, pos)
    /\ UNCHANGED <<remote, fd_redir_map, failed>>
    /\ Keeps

\* lseek and lseek64, to a position.  On the server it fails if the descriptor
\* is -1.
lseek(fd, pos) ==
    /\ local[fd] # NoEntry
    /\ \/ /\ fd_map[fd] = NoEntry
          /\ MoveLocal(fd, pos)
       \/ /\ fd_map[fd] # NoEntry
          /\ Remotely(fd)
          /\ IF IsOpen(Redirected(fd)) THEN MoveRemote(fd, pos) ELSE RemoteFails(fd)
    /\ PosixMoves(fd, pos)
    /\ Keeps

\* read64, readv, and the reads of a stream, which libc makes: the local
\* descriptor, tracked or not.
read_local(fd, n) ==
    /\ Readable(fd)
    /\ MoveLocal(fd, After(local[fd], n))
    /\ PosixMoves(fd, After(posix[fd], n))
    /\ Keeps

\* write returns after the real write; the assert below it is never reached.
\* (Writes inside the file: one that made it grow would change Size.)
write(fd, n) ==
    /\ local[fd] # NoEntry
    /\ local[fd].flags \in {"O_RDWR", "O_WRONLY"}
    /\ local[fd].pos + n <= Size[local[fd].path]
    /\ posix[fd].pos + n <= Size[local[fd].path]
    /\ MoveLocal(fd, local[fd].pos + n)
    /\ PosixMoves(fd, posix[fd].pos + n)
    /\ Keeps

-----------------------------------------------------------------------------
Next ==
    \E fd \in Fds :
        \/ \E path \in Paths, flags \in Flags : open(path, flags, fd) \/ fopen(path, flags, fd)
        \/ close(fd)
        \/ fclose(fd)
        \/ \E n \in Counts : read(fd, n) \/ read_local(fd, n) \/ write(fd, n)
        \/ local[fd] # NoEntry /\ \E pos \in 0..Size[local[fd].path] : lseek(fd, pos)

Spec == Init /\ [][Next]_vars

-----------------------------------------------------------------------------
\* Where the next read on a number takes its bytes from, and the next readv.
\* pread moves no position, so it is no action here: it reads the file of
\* ReadSource.
ReadSource(fd) ==
    IF fd_map[fd] = NoEntry THEN [path |-> local[fd].path, pos |-> local[fd].pos]
    ELSE IF IsOpen(Redirected(fd)) THEN remote[Redirected(fd)]
         ELSE None

LocalSource(fd) == [path |-> local[fd].path, pos |-> local[fd].pos]

(***************************************************************************)
(* As long as the application sticks to one family of calls on a           *)
(* descriptor, read/lseek or readv/read64/write/stdio, the next call of    *)
(* that family continues where POSIX says it does, in the right file,      *)
(* over every reuse of numbers by opens and closes.  For the first family  *)
(* this takes a server that has refused nothing: after a failure, which    *)
(* nobody reports, reads deliver zeros.  The second never notices.  What   *)
(* is lost for both is the number of a tracked stream that was fclosed.    *)
(* (A stream opened for writing only can be read, from the server; POSIX   *)
(* gives an error.)                                                        *)
(***************************************************************************)
OneFamilyIsRight ==
    \A fd \in Fds \ left : local[fd] # NoEntry =>
        /\ moved[fd] \subseteq {"remote"} /\ Readable(fd) /\ fd \notin failed =>
               ReadSource(fd) = posix[fd]
        /\ moved[fd] \subseteq {"local"} => LocalSource(fd) = posix[fd]

(***************************************************************************)
(* fd_map and fd_redir_map have the same numbers, those of tracked files   *)
(* that are open, besides what fclose has left behind.  A number is        *)
(* redirected to a descriptor of its own that is open on its file; or to   *)
(* -1, and then the server has refused it.                                 *)
(***************************************************************************)
MapsAgree ==
    \A fd \in Fds :
        /\ (fd_map[fd] = NoEntry) = (fd_redir_map[fd] = NoEntry)
        /\ fd_map[fd] # NoEntry =>
               /\ \/ fd_redir_map[fd] = BadFd /\ fd \in failed
                  \/ /\ IsOpen(fd_redir_map[fd])
                     /\ remote[fd_redir_map[fd]].path = fd_map[fd]
                     /\ \A g \in Fds \ {fd} : fd_redir_map[g] # fd_redir_map[fd]
               /\ fd \in left \/ (local[fd] # NoEntry /\ local[fd].path = fd_map[fd])

Orphans == {f \in RemoteFds : remote[f] # NoEntry /\ \A fd \in Fds : fd_redir_map[fd] # f}

(***************************************************************************)
(* A remote descriptor that no entry names any more can never be closed.   *)
(* There is only one way to get one: a tracked stream was fclosed, and its *)
(* number was opened and tracked again.  Every close is paid back to the   *)
(* server, also that of an untracked file that found a stale entry.        *)
(***************************************************************************)
OnlyFcloseLeaks == Orphans = lost

(***************************************************************************)
(* "It's probably easiest to work through the close / fclose call          *)
(* intercept" (hvac_internal.h:4-5): whether a file is closed with close   *)
(* or with fclose, the next file to get the number is read itself (or,     *)
(* refused by the server, not at all).  It is not: the entry of an fclosed *)
(* stream captures the next file that is not tracked, and reads on it      *)
(* return the bytes of the old one.                                        *)
(***************************************************************************)
ReadsItsOwnFile ==
    \A fd \in Fds : local[fd] # NoEntry =>
        ReadSource(fd).path \in {local[fd].path, NoEntry}
=============================================================================
