------------------------------ MODULE PosixFiles ------------------------------
(***************************************************************************)
(* What the applications see: the POSIX calls open, read, pread, lseek and *)
(* close on files nobody writes, each taking effect in one step between    *)
(* its call and its return.  There is no server, no cache and no message   *)
(* here.  HvacSystem implements this module.                               *)
(*                                                                         *)
(* Two weaknesses are part of the promise because the code has them.  An   *)
(* open may hand out a descriptor that is not good, on which reads deliver *)
(* zeros and claim them to be the bytes asked for, and seeks fail.  And a  *)
(* read of a file that the server's node cannot read delivers such zeros   *)
(* too, where POSIX has an error.                                          *)
(***************************************************************************)
EXTENDS Integers

CONSTANTS
    Clients,        \* application processes, one thread each
    LocalFds,       \* descriptors of an application process
    Paths,          \* the files
    Size,           \* file -> its length
    Unreadable,     \* the files whose reads may fail underneath
    ReadArgs,       \* <<count, offset>>; offset -1 is read, others pread
    SeekArgs,       \* <<offset, whence>>
    Zeros,          \* content that comes from no file
    NoEntry,        \* a descriptor that is not open
    NoCall,         \* the thread is not inside a call
    NoReply         \* the call has not taken effect yet

VARIABLES
    desc,           \* client -> descriptor -> open file
    call,           \* client -> the call its thread is in
    reply           \* client -> what the call will return

vars == <<desc, call, reply>>

Init ==
    /\ desc = [c \in Clients |-> [fd \in LocalFds |-> NoEntry]]
    /\ call = [c \in Clients |-> NoCall]
    /\ reply = [c \in Clients |-> NoReply]

Begin(c, request) ==
    /\ call[c] = NoCall
    /\ call' = [call EXCEPT ![c] = request]
    /\ UNCHANGED <<desc, reply>>

CallOpen(c, fd, path) ==
    /\ desc[c][fd] = NoEntry
    /\ Begin(c, [op |-> "open", fd |-> fd, path |-> path])

CallRead(c, fd, args) ==
    /\ desc[c][fd] # NoEntry
    /\ Begin(c, [op |-> "read", fd |-> fd, count |-> args[1], offset |-> args[2]])

CallSeek(c, fd, args) ==
    /\ desc[c][fd] # NoEntry
    /\ Begin(c, [op |-> "seek", fd |-> fd, offset |-> args[1], whence |-> args[2]])

\* close returns at once.
Close(c, fd) ==
    /\ call[c] = NoCall
    /\ desc[c][fd] # NoEntry
    /\ desc' = [desc EXCEPT ![c][fd] = NoEntry]
    /\ UNCHANGED <<call, reply>>

-----------------------------------------------------------------------------
Pending(c, op) == call[c] # NoCall /\ call[c].op = op /\ reply[c] = NoReply

Answer(c, ret, data) == reply' = [reply EXCEPT ![c] = [ret |-> ret, data |-> data]]

Open(c) ==
    /\ Pending(c, "open")
    /\ \E good \in BOOLEAN :
           desc' = [desc EXCEPT ![c][call[c].fd] =
                       [path |-> call[c].path, pos |-> 0, good |-> good]]
    /\ Answer(c, 0, NoEntry)
    /\ UNCHANGED call

\* read advances the file position by what it returns; pread does not.  The
\* count is cut short only by the end of the file.
Read(c) ==
    /\ Pending(c, "read")
    /\ LET d     == desc[c][call[c].fd]
           start == IF call[c].offset = -1 THEN d.pos ELSE call[c].offset
           left  == Size[d.path] - start
       IN  \/ /\ d.good
              /\ \E n \in 0..call[c].count :
                     /\ n <= left \/ n = 0
                     /\ n = call[c].count \/ n >= left
                     /\ Answer(c, n, [src |-> d.path, from |-> start, len |-> n])
                     /\ desc' = IF call[c].offset = -1
                                THEN [desc EXCEPT ![c][call[c].fd].pos = start + n]
                                ELSE desc
           \/ /\ ~d.good \/ d.path \in Unreadable
              /\ Answer(c, call[c].count,
                        [src |-> Zeros, from |-> 0, len |-> call[c].count])
              /\ UNCHANGED desc
    /\ UNCHANGED call

Seek(c) ==
    /\ Pending(c, "seek")
    /\ LET d    == desc[c][call[c].fd]
           base == CASE call[c].whence = "SEEK_SET" -> 0
                     [] call[c].whence = "SEEK_CUR" -> d.pos
                     [] call[c].whence = "SEEK_END" -> Size[d.path]
           to   == base + call[c].offset
       IN  IF d.good /\ to >= 0
           THEN /\ Answer(c, to, NoEntry)
                /\ desc' = [desc EXCEPT ![c][call[c].fd].pos = to]
           ELSE /\ Answer(c, -1, NoEntry)
                /\ UNCHANGED desc
    /\ UNCHANGED call

Return(c) ==
    /\ call[c] # NoCall
    /\ reply[c] # NoReply
    /\ call' = [call EXCEPT ![c] = NoCall]
    /\ reply' = [reply EXCEPT ![c] = NoReply]
    /\ UNCHANGED desc

Next ==
    \E c \in Clients :
        \/ \E fd \in LocalFds :
               \/ \E path \in Paths : CallOpen(c, fd, path)
               \/ \E args \in ReadArgs : CallRead(c, fd, args)
               \/ \E args \in SeekArgs : CallSeek(c, fd, args)
               \/ Close(c, fd)
        \/ Open(c)
        \/ Read(c)
        \/ Seek(c)
        \/ Return(c)

Spec == Init /\ [][Next]_vars
=============================================================================
