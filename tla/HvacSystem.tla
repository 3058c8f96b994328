------------------------------ MODULE HvacSystem ------------------------------
(***************************************************************************)
(* Applications with the preloaded HVAC client, one server, and the        *)
(* messages between them.                                                  *)
(*                                                                         *)
(* A client is a process with one application thread, which calls open,    *)
(* read, pread, lseek and close on files of the data set, and a Mercury    *)
(* progress thread, which runs the callbacks.  The application thread      *)
(* blocks until the callback of its own request has run, so within one     *)
(* client the two threads alternate; close alone does not wait.  (What     *)
(* happens with several application threads is in HvacRendezvous.)         *)
(*                                                                         *)
(* Mercury delivers every message once, in any order.  Files of the data   *)
(* set are tracked on the server that the hash of their path selects;      *)
(* servers share nothing, so one of them stands for all.                   *)
(***************************************************************************)
EXTENDS HvacServer

CONSTANTS
    Clients,        \* application processes
    LocalFds,       \* the descriptors of an application process
    ReadArgs,       \* <<count, offset>> pairs: offset -1 is read, others pread
    SeekArgs,       \* <<offset, whence>> pairs
    MaxOpens,       \* bound: number of open calls in a behaviour
    NoCall,         \* the application thread is outside HVAC
    NoReply         \* refinement only: the call has not taken effect

Whence == {"SEEK_SET", "SEEK_CUR", "SEEK_END"}

\* The calls an application thread can be in.
OpenCall == [op : {"open"}, fd : LocalFds, path : Paths]
ReadCall == [op : {"read"}, fd : LocalFds, count : Nat, offset : Nat \cup {-1}]
SeekCall == [op : {"seek"}, fd : LocalFds, offset : Int, whence : Whence]
Call == OpenCall \cup ReadCall \cup SeekCall

\* What a transfer carries: a slice of a file, or zeros.
Data == [src : Paths \cup {Zeros}, from : Nat, len : Nat]

ASSUME SystemAssumption ==
    /\ NoCall \notin Call
    /\ NoEntry \notin [path : Paths, pos : Nat, good : BOOLEAN]
    /\ NoReply \notin [ret : Int, data : Data \cup {NoEntry}]
    /\ ReadArgs \subseteq (Nat \ {0}) \X (Nat \cup {-1})
    /\ SeekArgs \subseteq Int \X Whence
    /\ MaxOpens \in Nat

VARIABLES
    fd_map,         \* client -> local descriptor -> path, or NoEntry
    fd_redir_map,   \* client -> local descriptor -> remote descriptor, or NoEntry
    call,           \* client -> the call its application thread is in
    done,           \* client -> the flag the application thread waits for
    read_ret,       \* client -> result of the last read or seek callback
    buffer,         \* client -> what the last bulk transfer put in the buffer
    net,            \* messages on their way
    opens           \* number of open calls so far

clientVars == <<fd_map, fd_redir_map, call, done, read_ret, buffer>>
vars == <<clientVars, net, opens, serverVars, moverVars>>

-----------------------------------------------------------------------------
(***************************************************************************)
(* Messages: the requests of hvac_comm.h, their responses, and "push", the *)
(* bulk transfer a read handler has started.  net is a set: two equal      *)
(* messages on their way can only be closes of -1, and the first of them   *)
(* aborts the server.                                                      *)
(***************************************************************************)
OpenMsg(c, fd, path)        == [type |-> "open", client |-> c, lfd |-> fd, path |-> path]
OpenedMsg(c, fd, ret)       == [type |-> "opened", client |-> c, lfd |-> fd, ret |-> ret]
ReadMsg(c, fd, n, offset)   == [type |-> "read", client |-> c, fd |-> fd,
                                count |-> n, offset |-> offset]
PushMsg(c, size, data)      == [type |-> "push", client |-> c, size |-> size, data |-> data]
ReadDoneMsg(c, ret)         == [type |-> "readDone", client |-> c, ret |-> ret]
SeekMsg(c, fd, off, whence) == [type |-> "seek", client |-> c, fd |-> fd,
                                offset |-> off, whence |-> whence]
SoughtMsg(c, ret)           == [type |-> "sought", client |-> c, ret |-> ret]
CloseMsg(c, fd)             == [type |-> "close", client |-> c, fd |-> fd]

RemoteRef == RemoteFds \cup {BadFd, 0}

Message ==
    [type : {"open"}, client : Clients, lfd : LocalFds, path : Paths]
        \cup [type : {"opened"}, client : Clients, lfd : LocalFds, ret : RemoteFds \cup {BadFd}]
        \cup [type : {"read"}, client : Clients, fd : RemoteRef, count : Nat,
              offset : Nat \cup {-1}]
        \cup [type : {"push"}, client : Clients, size : Nat, data : Data]
        \cup [type : {"readDone", "sought"}, client : Clients, ret : Int]
        \cup [type : {"seek"}, client : Clients, fd : RemoteRef, offset : Int, whence : Whence]
        \cup [type : {"close"}, client : Clients, fd : RemoteRef]

MsgOfType(t) == {m \in net : m.type = t}

-----------------------------------------------------------------------------
(***************************************************************************)
(* The application thread.                                                 *)
(***************************************************************************)

\* fd_redir_map[fd] with std::map's operator[]: a missing key reads as 0.
Redirected(c, fd) == IF fd_redir_map[c][fd] = NoEntry THEN 0 ELSE fd_redir_map[c][fd]

hvac_client_comm_gen_open_rpc(c, fd, path) ==
    /\ done' = [done EXCEPT ![c] = 0]
    /\ net' = net \cup {OpenMsg(c, fd, path)}
    /\ call' = [call EXCEPT ![c] = [op |-> "open", fd |-> fd, path |-> path]]

\* open on a file of the data set: the real open returned the free local
\* descriptor fd, hvac_track_file records it and asks the server.
hvac_track_file(c, fd, path) ==
    /\ call[c] = NoCall
    /\ fd_map[c][fd] = NoEntry
    /\ opens < MaxOpens
    /\ opens' = opens + 1
    /\ fd_map' = [fd_map EXCEPT ![c][fd] = path]
    /\ hvac_client_comm_gen_open_rpc(c, fd, path)
    /\ UNCHANGED <<fd_redir_map, read_ret, buffer, serverVars, moverVars>>

\* Faulty variant of hvac_client_comm_gen_read_rpc: done is not reset.
ReadRpcWithoutReset(c, fd, count, offset) ==
    /\ read_ret' = [read_ret EXCEPT ![c] = -1]
    /\ net' = net \cup {ReadMsg(c, Redirected(c, fd), count, offset)}
    /\ call' = [call EXCEPT ![c] =
                   [op |-> "read", fd |-> fd, count |-> count, offset |-> offset]]
    /\ UNCHANGED done

hvac_client_comm_gen_read_rpc(c, fd, count, offset) ==
    /\ done' = [done EXCEPT ![c] = 0]
    /\ read_ret' = [read_ret EXCEPT ![c] = -1]
    /\ net' = net \cup {ReadMsg(c, Redirected(c, fd), count, offset)}
    /\ call' = [call EXCEPT ![c] =
                   [op |-> "read", fd |-> fd, count |-> count, offset |-> offset]]

\* read and pread on a tracked descriptor.
hvac_remote_read(c, fd, args) ==
    /\ call[c] = NoCall
    /\ fd_map[c][fd] # NoEntry
    /\ hvac_client_comm_gen_read_rpc(c, fd, args[1], args[2])
    /\ UNCHANGED <<fd_map, fd_redir_map, buffer, opens, serverVars, moverVars>>

hvac_client_comm_gen_seek_rpc(c, fd, offset, whence) ==
    /\ read_ret' = [read_ret EXCEPT ![c] = -1]
    /\ done' = [done EXCEPT ![c] = 0]
    /\ net' = net \cup {SeekMsg(c, Redirected(c, fd), offset, whence)}
    /\ call' = [call EXCEPT ![c] =
                   [op |-> "seek", fd |-> fd, offset |-> offset, whence |-> whence]]

hvac_remote_lseek(c, fd, args) ==
    /\ call[c] = NoCall
    /\ fd_map[c][fd] # NoEntry
    /\ hvac_client_comm_gen_seek_rpc(c, fd, args[1], args[2])
    /\ UNCHANGED <<fd_map, fd_redir_map, buffer, opens, serverVars, moverVars>>

\* Faulty variant of hvac_client_block: it does not wait.
BlockWithoutWait(c) ==
    /\ call[c] # NoCall
    /\ call' = [call EXCEPT ![c] = NoCall]
    /\ UNCHANGED <<fd_map, fd_redir_map, done, read_ret, buffer, net, opens,
                   serverVars, moverVars>>

\* hvac_client_block, hvac_read_block, hvac_seek_block: done is HG_TRUE, the
\* call returns read_ret and, for a read, the buffer.
hvac_client_block(c) ==
    /\ call[c] # NoCall
    /\ done[c] = 1
    /\ call' = [call EXCEPT ![c] = NoCall]
    /\ UNCHANGED <<fd_map, fd_redir_map, done, read_ret, buffer, net, opens,
                   serverVars, moverVars>>

\* Faulty variant of hvac_client_comm_gen_close_rpc: the remote descriptor is
\* not erased.
CloseRpcKeepsRedirection(c, fd) ==
    /\ net' = net \cup {CloseMsg(c, Redirected(c, fd))}
    /\ UNCHANGED fd_redir_map

\* No callback and no reset of done: nobody waits for a close.
hvac_client_comm_gen_close_rpc(c, fd) ==
    /\ net' = net \cup {CloseMsg(c, Redirected(c, fd))}
    /\ fd_redir_map' = [fd_redir_map EXCEPT ![c][fd] = NoEntry]

\* close on a tracked descriptor: hvac_remote_close, then the entry goes.
hvac_remove_fd(c, fd) ==
    /\ call[c] = NoCall
    /\ fd_map[c][fd] # NoEntry
    /\ hvac_client_comm_gen_close_rpc(c, fd)
    /\ fd_map' = [fd_map EXCEPT ![c][fd] = NoEntry]
    /\ UNCHANGED <<call, done, read_ret, buffer, opens, serverVars, moverVars>>

-----------------------------------------------------------------------------
(***************************************************************************)
(* The client's progress thread: the callbacks.                            *)
(***************************************************************************)

hvac_open_cb(m) ==
    /\ fd_redir_map' = [fd_redir_map EXCEPT ![m.client][m.lfd] = m.ret]
    /\ done' = [done EXCEPT ![m.client] = @ + 1]
    /\ net' = net \ {m}
    /\ UNCHANGED <<fd_map, call, read_ret, buffer, opens, serverVars, moverVars>>

\* hvac_read_cb and hvac_seek_cb do the same to the shared variables.
hvac_read_cb(m) ==
    /\ done' = [done EXCEPT ![m.client] = @ + 1]
    /\ read_ret' = [read_ret EXCEPT ![m.client] = m.ret]
    /\ net' = net \ {m}
    /\ UNCHANGED <<fd_map, fd_redir_map, call, buffer, opens, serverVars, moverVars>>

-----------------------------------------------------------------------------
(***************************************************************************)
(* The server's progress thread: the handlers and the bulk callback.       *)
(***************************************************************************)

Reply(m, response) ==
    /\ net' = (net \ {m}) \cup {response}
    /\ UNCHANGED <<clientVars, opens>>

ServeOpen(m) ==
    \E ret \in RemoteFds \cup {BadFd} :
        /\ hvac_open_rpc_handler(m.path, ret)
        /\ Reply(m, OpenedMsg(m.client, m.lfd, ret))

\* The handler returns once the transfer is started: other requests may be
\* handled before it completes.
ServeRead(m) ==
    \E readbytes \in ReadReturns(m.fd, m.count, m.offset) :
        LET out == ReadOutcome(m.fd, m.count, m.offset, readbytes)
        IN  /\ hvac_rpc_handler(m.fd, m.count, m.offset, readbytes)
            /\ Reply(m, PushMsg(m.client, out.size, out.data))

\* The transfer has filled the client's buffer; the handler responds.
hvac_rpc_handler_bulk_cb(m) ==
    /\ alive
    /\ buffer' = [buffer EXCEPT ![m.client] = m.data]
    /\ net' = (net \ {m}) \cup {ReadDoneMsg(m.client, m.size)}
    /\ UNCHANGED <<fd_map, fd_redir_map, call, done, read_ret, opens,
                   serverVars, moverVars>>

ServeSeek(m) ==
    /\ hvac_seek_rpc_handler(m.fd, m.offset, m.whence)
    /\ Reply(m, SoughtMsg(m.client, SeekResult(m.fd, m.offset, m.whence)))

\* The close RPC has no response.
ServeClose(m) ==
    /\ hvac_close_rpc_handler(m.fd)
    /\ net' = net \ {m}
    /\ UNCHANGED <<clientVars, opens>>

-----------------------------------------------------------------------------
(***************************************************************************)
(* The system.                                                             *)
(***************************************************************************)

Init ==
    /\ fd_map = [c \in Clients |-> [fd \in LocalFds |-> NoEntry]]
    /\ fd_redir_map = [c \in Clients |-> [fd \in LocalFds |-> NoEntry]]
    /\ call = [c \in Clients |-> NoCall]
    /\ done = [c \in Clients |-> 0]
    /\ read_ret = [c \in Clients |-> -1]
    /\ buffer = [c \in Clients |-> Slice(Zeros, 0, 0)]
    /\ net = {}
    /\ opens = 0
    /\ ServerInit
    /\ MoverInit

Application(c) ==
    \E fd \in LocalFds :
        \/ \E path \in Paths : hvac_track_file(c, fd, path)
        \/ \E args \in ReadArgs : hvac_remote_read(c, fd, args)
        \/ \E args \in SeekArgs : hvac_remote_lseek(c, fd, args)
        \/ hvac_remove_fd(c, fd)

Callback(m) ==
    \/ m.type = "opened" /\ hvac_open_cb(m)
    \/ m.type \in {"readDone", "sought"} /\ hvac_read_cb(m)

Serve(m) ==
    \/ m.type = "open" /\ ServeOpen(m)
    \/ m.type = "read" /\ ServeRead(m)
    \/ m.type = "push" /\ hvac_rpc_handler_bulk_cb(m)
    \/ m.type = "seek" /\ ServeSeek(m)
    \/ m.type = "close" /\ ServeClose(m)

MoverThread ==
    /\ ServerMoverStep
    /\ UNCHANGED <<clientVars, net, opens>>

MoverSpuriousWakeup ==
    /\ ServerSpuriousWakeup
    /\ UNCHANGED <<clientVars, net, opens>>

Next ==
    \/ \E c \in Clients : Application(c) \/ hvac_client_block(c)
    \/ \E m \in net : Callback(m) \/ Serve(m)
    \/ MoverThread
    \/ MoverSpuriousWakeup

Spec == Init /\ [][Next]_vars

(***************************************************************************)
(* Fairness: the progress threads loop over HG_Trigger and HG_Progress, so *)
(* a delivered request or response is eventually handled, for every client *)
(* (Mercury's completion queue is first in, first out); a woken thread     *)
(* eventually runs.  Nothing is assumed of the applications' next call.    *)
(***************************************************************************)
Progress(c) == \E m \in net : m.client = c /\ (Callback(m) \/ Serve(m))

FairSpec ==
    /\ Spec
    /\ \A c \in Clients : WF_vars(Progress(c)) /\ WF_vars(hvac_client_block(c))
    /\ WF_vars(MoverThread)

-----------------------------------------------------------------------------
(***************************************************************************)
(* Properties.                                                             *)
(***************************************************************************)

ClientTypeOK ==
    /\ fd_map \in [Clients -> [LocalFds -> Paths \cup {NoEntry}]]
    /\ fd_redir_map \in [Clients -> [LocalFds -> RemoteFds \cup {BadFd, NoEntry}]]
    /\ call \in [Clients -> Call \cup {NoCall}]
    /\ done \in [Clients -> Nat]
    /\ read_ret \in [Clients -> Int]
    /\ buffer \in [Clients -> Data]
    /\ net \subseteq Message
    /\ opens \in 0..MaxOpens

SystemTypeOK == ClientTypeOK /\ ServerTypeOK /\ MoverTypeOK

(***************************************************************************)
(* A client has at most one request or response under way, besides closes, *)
(* and only while its thread is inside the call and done is still down.    *)
(* So no callback is taken for the callback of another call, and an open   *)
(* response finds the entry it writes, fd_redir_map[local_fd], vacant and  *)
(* the local descriptor still open.                                        *)
(***************************************************************************)
OneRequestAtATime ==
    /\ \A m \in net : m.type # "close" => call[m.client] # NoCall /\ done[m.client] = 0
    /\ \A m, n \in net :
           m.type # "close" /\ n.type # "close" /\ m.client = n.client => m = n
    /\ \A m \in net : m.type \in {"open", "opened"} =>
           /\ fd_redir_map[m.client][m.lfd] = NoEntry
           /\ fd_map[m.client][m.lfd] # NoEntry

(***************************************************************************)
(* Who knows a remote descriptor: a local descriptor that is redirected to *)
(* it, the response that carries it to its client, or the close request    *)
(* that carries it back.                                                   *)
(***************************************************************************)
Carries(m, f) == \/ m.type = "opened" /\ m.ret = f
                 \/ m.type = "close" /\ m.fd = f

Holders(f) ==
    {<<"map", h>> : h \in {h \in Clients \X LocalFds : fd_redir_map[h[1]][h[2]] = f}}
        \cup {<<"net", m>> : m \in {m \in net : Carries(m, f)}}

(***************************************************************************)
(* "We must know the remote FD to avoid collision on the remote side"      *)
(* (hvac_client.cpp:147): every descriptor the server has open is known to *)
(* exactly one holder, and one it has closed to none.  So no two local     *)
(* descriptors, of whatever clients, share a file position, a close        *)
(* request that is still on its way cannot hit a descriptor that was       *)
(* opened meanwhile under the same number, and no descriptor leaks while   *)
(* its client lives.                                                       *)
(***************************************************************************)
RemoteFdHasOneHolder ==
    \A f \in RemoteFds :
        IF open_fds[f] = NoEntry THEN Holders(f) = {}
        ELSE \E h \in Holders(f) : Holders(f) = {h}

(***************************************************************************)
(* A read or seek request names the remote descriptor of the file that the *)
(* local descriptor was opened on (or -1 if the remote open failed), when  *)
(* it is sent and still when it is handled; it never names descriptor 0,   *)
(* which fd_redir_map's operator[] yields for a missing entry              *)
(* (hvac_comm_client.cpp:271,299).                                         *)
(***************************************************************************)
RequestsHitOwnFile ==
    \A m \in net : m.type \in {"read", "seek"} =>
        \/ m.fd = BadFd
        \/ /\ IsOpen(m.fd)
           /\ fd_to_path[m.fd] = fd_map[m.client][call[m.client].fd]

(***************************************************************************)
(* A read on a tracked descriptor never comes back as -1, because the      *)
(* handler reports the requested size when read(2) fails.  So the fallback *)
(* of the read wrapper (wrappers.c:207-210), which would read the local    *)
(* descriptor at its own position, is never taken by a single-threaded     *)
(* client, and a pread never reports an error.                             *)
(***************************************************************************)
ReadNeverFallsBack ==
    \A c \in Clients :
        call[c] # NoCall /\ call[c].op = "read" /\ done[c] = 1 => read_ret[c] >= 0

(***************************************************************************)
(* The system implements PosixFiles: seen from the applications, every     *)
(* open, read, pread and lseek takes effect in one step between call and   *)
(* return and delivers the bytes of the file at the right position,        *)
(* whatever else the clients, the server and the data mover are doing.     *)
(***************************************************************************)
Descriptor(c, fd) ==
    CASE fd_redir_map[c][fd] = NoEntry -> NoEntry
      [] fd_redir_map[c][fd] = BadFd -> [path |-> fd_map[c][fd], pos |-> 0, good |-> FALSE]
      [] OTHER -> [path |-> fd_map[c][fd], pos |-> open_fds[fd_redir_map[c][fd]].pos,
                   good |-> TRUE]

\* The result of a call that has taken effect, from the moment the handler
\* ran: it is in a message until the callback stores it.
Results(c) ==
    LET of(t) == {m \in MsgOfType(t) : m.client = c}
    IN  {[ret |-> m.size, data |-> m.data] : m \in of("push")}
            \cup {[ret |-> m.ret, data |-> buffer[c]] : m \in of("readDone")}
            \cup {[ret |-> m.ret, data |-> NoEntry] : m \in of("sought")}
            \cup {[ret |-> IF call[c].op = "open" THEN 0 ELSE read_ret[c],
                   data |-> IF call[c].op = "read" THEN buffer[c] ELSE NoEntry]
                     : d \in {done[c]} \cap {1}}

ReplyTo(c) ==
    IF call[c] = NoCall \/ Results(c) = {} THEN NoReply
    ELSE CHOOSE r \in Results(c) : TRUE

Posix == INSTANCE PosixFiles WITH
             desc  <- [c \in Clients |-> [fd \in LocalFds |-> Descriptor(c, fd)]],
             reply <- [c \in Clients |-> ReplyTo(c)]

ImplementsPosixFiles == Posix!Spec

(***************************************************************************)
(* Every open, read and lseek returns, unless the server has aborted: the  *)
(* reset of done before each request and the callback's increment leave it *)
(* at exactly HG_TRUE, and no request waits for another client's.          *)
(***************************************************************************)
CallsReturn ==
    \A c \in Clients : call[c] # NoCall ~> (call[c] = NoCall \/ ~alive)

(***************************************************************************)
(* What assert(ret == 0) in the close handler (hvac_comm.cpp:313) says:    *)
(* the server is never asked to close a descriptor that is not open.  It   *)
(* does not hold, not even when every file exists: an open that reads      *)
(* path_cache_map while the mover is inside the assignment can fail; the   *)
(* client keeps -1 as the remote descriptor, and its close aborts the      *)
(* server.                                                                 *)
(***************************************************************************)
ServerNeverAborts == alive
=============================================================================
