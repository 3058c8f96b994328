--------------------------- MODULE HvacSystemProofs ---------------------------
(***************************************************************************)
(* Proofs about the whole system, for any number of clients, descriptors,  *)
(* files and opens.                                                        *)
(***************************************************************************)
EXTENDS HvacSystem, HvacServerProofs

\* No descriptor is mistaken for "no entry", for -1 or for the default 0.
LEMMA RemoteFdValues == /\ \A f \in RemoteFds : f # NoEntry /\ f # BadFd /\ f # 0
                        /\ BadFd # NoEntry
<1>1. \A f \in RemoteFds : f \in Nat /\ f # 0
  BY ServerAssumption
<1>2. \A i \in Int : i # NoEntry
  BY MoverAssumption
<1> QED BY <1>1, <1>2 DEF BadFd

-----------------------------------------------------------------------------
(***************************************************************************)
(* Messages.                                                               *)
(***************************************************************************)

\* The fields of a message, by its type.
LEMMA MessageFields ==
    ASSUME NEW m \in Message
    PROVE  /\ m.client \in Clients
           /\ m.type \in {"open", "opened"} => m.lfd \in LocalFds
           /\ m.type = "open" => m.path \in Paths
           /\ m.type = "opened" => m.ret \in RemoteFds \cup {BadFd}
           /\ m.type = "read" => m.count \in Nat /\ m.offset \in Nat \cup {-1}
           /\ m.type = "push" => m.size \in Nat /\ m.data \in Data
           /\ m.type \in {"readDone", "sought"} => m.ret \in Int
           /\ m.type = "seek" => m.offset \in Int /\ m.whence \in Whence
           /\ m.type = "close" => m.fd \in RemoteRef
BY DEF Message

LEMMA ClientMessages ==
    ASSUME NEW c \in Clients
    PROVE  /\ \A fd \in LocalFds, p \in Paths : OpenMsg(c, fd, p) \in Message
           /\ \A f \in RemoteRef, n \in Nat, o \in Nat \cup {-1} : ReadMsg(c, f, n, o) \in Message
           /\ \A f \in RemoteRef, o \in Int, w \in Whence : SeekMsg(c, f, o, w) \in Message
           /\ \A f \in RemoteRef : CloseMsg(c, f) \in Message
BY DEF Message, OpenMsg, ReadMsg, SeekMsg, CloseMsg

LEMMA ServerMessages ==
    ASSUME NEW c \in Clients
    PROVE  /\ \A fd \in LocalFds, r \in RemoteFds \cup {BadFd} : OpenedMsg(c, fd, r) \in Message
           /\ \A n \in Nat, d \in Data : PushMsg(c, n, d) \in Message
           /\ \A r \in Int : ReadDoneMsg(c, r) \in Message /\ SoughtMsg(c, r) \in Message
BY DEF Message, OpenedMsg, PushMsg, ReadDoneMsg, SoughtMsg

-----------------------------------------------------------------------------
(***************************************************************************)
(* Types.  The client's half; the server's half is ServerInv.              *)
(***************************************************************************)

LEMMA ClientTypeInit == Init => ClientTypeOK
BY SystemAssumption DEF Init, ClientTypeOK, Data, Slice

LEMMA RedirectedType ==
    ASSUME ClientTypeOK, NEW c \in Clients, NEW fd \in LocalFds
    PROVE  Redirected(c, fd) \in RemoteRef
BY DEF ClientTypeOK, Redirected, RemoteRef

LEMMA ApplicationType ==
    ASSUME ClientTypeOK, NEW c \in Clients, Application(c)
    PROVE  ClientTypeOK'
<1>1. PICK fd \in LocalFds :
        \/ \E path \in Paths : hvac_track_file(c, fd, path)
        \/ \E args \in ReadArgs : hvac_remote_read(c, fd, args)
        \/ \E args \in SeekArgs : hvac_remote_lseek(c, fd, args)
        \/ hvac_remove_fd(c, fd)
  BY DEF Application
<1>2. ASSUME NEW path \in Paths, hvac_track_file(c, fd, path)
      PROVE  ClientTypeOK'
  <2>1. [op |-> "open", fd |-> fd, path |-> path] \in Call
    BY DEF Call, OpenCall
  <2> QED BY <1>2, <2>1, ClientMessages, SystemAssumption
          DEF hvac_track_file, hvac_client_comm_gen_open_rpc, ClientTypeOK
<1>3. ASSUME NEW args \in ReadArgs, hvac_remote_read(c, fd, args)
      PROVE  ClientTypeOK'
  <2>1. args[1] \in Nat /\ args[2] \in Nat \cup {-1}
    BY SystemAssumption
  <2>2. [op |-> "read", fd |-> fd, count |-> args[1], offset |-> args[2]] \in Call
    BY <2>1 DEF Call, ReadCall
  <2>3. ReadMsg(c, Redirected(c, fd), args[1], args[2]) \in Message
    BY <2>1, ClientMessages, RedirectedType
  <2> QED BY <1>3, <2>2, <2>3
          DEF hvac_remote_read, hvac_client_comm_gen_read_rpc, ClientTypeOK
<1>4. ASSUME NEW args \in SeekArgs, hvac_remote_lseek(c, fd, args)
      PROVE  ClientTypeOK'
  <2>1. args[1] \in Int /\ args[2] \in Whence
    BY SystemAssumption
  <2>2. [op |-> "seek", fd |-> fd, offset |-> args[1], whence |-> args[2]] \in Call
    BY <2>1 DEF Call, SeekCall
  <2>3. SeekMsg(c, Redirected(c, fd), args[1], args[2]) \in Message
    BY <2>1, ClientMessages, RedirectedType
  <2> QED BY <1>4, <2>2, <2>3
          DEF hvac_remote_lseek, hvac_client_comm_gen_seek_rpc, ClientTypeOK
<1>5. CASE hvac_remove_fd(c, fd)
  <2>1. CloseMsg(c, Redirected(c, fd)) \in Message
    BY ClientMessages, RedirectedType
  <2> QED BY <1>5, <2>1 DEF hvac_remove_fd, hvac_client_comm_gen_close_rpc, ClientTypeOK
<1> QED BY <1>1, <1>2, <1>3, <1>4, <1>5

LEMMA CallbackType ==
    ASSUME ClientTypeOK, NEW m \in net, Callback(m)
    PROVE  ClientTypeOK'
<1>1. m \in Message
  BY DEF ClientTypeOK
<1>2. CASE m.type = "opened" /\ hvac_open_cb(m)
  BY <1>1, <1>2, MessageFields DEF hvac_open_cb, ClientTypeOK
<1>3. CASE m.type \in {"readDone", "sought"} /\ hvac_read_cb(m)
  BY <1>1, <1>3, MessageFields DEF hvac_read_cb, ClientTypeOK
<1> QED BY <1>2, <1>3 DEF Callback

\* What a read pushes is typed, whether or not the descriptor is open.
LEMMA ReadOutcomeType ==
    ASSUME ServerInv, NEW fd, NEW count \in Nat, NEW offset \in Nat \cup {-1},
           NEW readbytes \in ReadReturns(fd, count, offset)
    PROVE  /\ ReadOutcome(fd, count, offset, readbytes).size \in Nat
           /\ ReadOutcome(fd, count, offset, readbytes).data \in Data
<1>1. CASE readbytes # -1
  <2>1. /\ fd \in RemoteFds /\ open_fds[fd] # NoEntry /\ open_fds[fd] \in OpenFile
        /\ readbytes \in Nat
    BY <1>1, ReadReturnsType
  <2>2. open_fds[fd].src \in Paths
    BY <2>1 DEF OpenFile
  <2>3. ReadStart(fd, offset) \in Nat
    BY <2>1, BytesReadType
  <2> QED BY <1>1, <2>1, <2>2, <2>3 DEF ReadOutcome, Slice, Data
<1>2. CASE readbytes = -1
  BY <1>2 DEF ReadOutcome, Slice, Data
<1> QED BY <1>1, <1>2

LEMMA SeekResultType ==
    ASSUME ServerInv, NEW fd, NEW offset \in Int, NEW whence \in Whence
    PROVE  SeekResult(fd, offset, whence) \in Int
<1>1. CASE CanSeek(fd, offset, whence)
  <2>1. fd \in RemoteFds /\ open_fds[fd] \in OpenFile
    BY <1>1 DEF CanSeek, IsOpen, ServerInv, ServerTypeOK
  <2> QED BY <1>1, <2>1, ServerAssumption DEF SeekResult, SeekTarget, OpenFile, Whence
<1>2. CASE ~CanSeek(fd, offset, whence)
  BY <1>2 DEF SeekResult
<1> QED BY <1>1, <1>2

LEMMA ReplyType ==
    ASSUME ClientTypeOK, NEW m, NEW response \in Message, Reply(m, response)
    PROVE  ClientTypeOK'
BY DEF Reply, clientVars, ClientTypeOK

LEMMA ServeType ==
    ASSUME ClientTypeOK, ServerInv, NEW m \in net, Serve(m)
    PROVE  ClientTypeOK'
<1>1. m \in Message
  BY DEF ClientTypeOK
<1>2. CASE m.type = "open" /\ ServeOpen(m)
  BY <1>1, <1>2, MessageFields, ServerMessages, ReplyType DEF ServeOpen
<1>3. CASE m.type = "read" /\ ServeRead(m)
  BY <1>1, <1>3, MessageFields, ReadOutcomeType, ServerMessages, ReplyType DEF ServeRead
<1>4. CASE m.type = "push" /\ hvac_rpc_handler_bulk_cb(m)
  <2>1. ReadDoneMsg(m.client, m.size) \in Message
    BY <1>1, <1>4, MessageFields, ServerMessages
  <2> QED BY <1>1, <1>4, <2>1, MessageFields DEF hvac_rpc_handler_bulk_cb, ClientTypeOK
<1>5. CASE m.type = "seek" /\ ServeSeek(m)
  BY <1>1, <1>5, MessageFields, SeekResultType, ServerMessages, ReplyType DEF ServeSeek
<1>6. CASE m.type = "close" /\ ServeClose(m)
  BY <1>6 DEF ServeClose, clientVars, ClientTypeOK
<1> QED BY <1>2, <1>3, <1>4, <1>5, <1>6 DEF Serve

LEMMA ClientTypeStep ==
    ASSUME ClientTypeOK, ServerInv, [Next]_vars
    PROVE  ClientTypeOK'
<1>1. ASSUME NEW c \in Clients, hvac_client_block(c)
      PROVE  ClientTypeOK'
  BY <1>1 DEF hvac_client_block, ClientTypeOK
<1>2. CASE MoverThread \/ MoverSpuriousWakeup \/ UNCHANGED vars
  BY <1>2 DEF MoverThread, MoverSpuriousWakeup, vars, clientVars, ClientTypeOK
<1> QED BY <1>1, <1>2, ApplicationType, CallbackType, ServeType DEF Next

-----------------------------------------------------------------------------
(***************************************************************************)
(* The server's half of the invariant in every step of the system.         *)
(***************************************************************************)
LEMMA ServerStep ==
    ASSUME ClientTypeOK, ServerInv, [Next]_vars
    PROVE  ServerInv'
<1>1. ASSUME NEW c \in Clients, Application(c) \/ hvac_client_block(c)
      PROVE  ServerInv'
  BY <1>1, ServerInvStutter
  DEF Application, hvac_client_block, hvac_track_file, hvac_remote_read, hvac_remote_lseek,
      hvac_remove_fd
<1>2. ASSUME NEW m \in net, Callback(m)
      PROVE  ServerInv'
  BY <1>2, ServerInvStutter DEF Callback, hvac_open_cb, hvac_read_cb
<1>3. ASSUME NEW m \in net, Serve(m)
      PROVE  ServerInv'
  <2>1. m \in Message
    BY DEF ClientTypeOK
  <2>2. CASE m.type = "open" /\ ServeOpen(m)
    BY <2>1, <2>2, MessageFields, OpenHandlerInv DEF ServeOpen
  <2>3. CASE m.type = "read" /\ ServeRead(m)
    BY <2>1, <2>3, MessageFields, ReadHandlerInv DEF ServeRead
  <2>4. CASE m.type = "push" /\ hvac_rpc_handler_bulk_cb(m)
    BY <2>4, ServerInvStutter DEF hvac_rpc_handler_bulk_cb
  <2>5. CASE m.type = "seek" /\ ServeSeek(m)
    BY <2>1, <2>5, MessageFields, SeekHandlerInv DEF ServeSeek, Whence
  <2>6. CASE m.type = "close" /\ ServeClose(m)
    BY <2>6, CloseHandlerInv DEF ServeClose
  <2> QED BY <1>3, <2>2, <2>3, <2>4, <2>5, <2>6 DEF Serve
<1>4. CASE MoverThread \/ MoverSpuriousWakeup
  BY <1>4, ServerMoverInv
  DEF MoverThread, MoverSpuriousWakeup, ServerMoverStep, ServerSpuriousWakeup, MoverNext
<1>5. CASE UNCHANGED vars
  BY <1>5, ServerInvStutter DEF vars
<1> QED BY <1>1, <1>2, <1>3, <1>4, <1>5 DEF Next

LEMMA TypesAndServer == Spec => [](ClientTypeOK /\ ServerInv)
<1>1. Init => ClientTypeOK /\ ServerInv
  BY ClientTypeInit, ServerInvInit DEF Init
<1>2. ClientTypeOK /\ ServerInv /\ [Next]_vars => ClientTypeOK' /\ ServerInv'
  BY ClientTypeStep, ServerStep
<1> QED BY <1>1, <1>2, PTL DEF Spec

(***************************************************************************)
(* Clients, messages, server and mover keep their types.                   *)
(***************************************************************************)
THEOREM SystemTypeCorrect == Spec => []SystemTypeOK
<1>1. ClientTypeOK /\ ServerInv => SystemTypeOK
  BY DEF SystemTypeOK, ServerInv, MoverInv
<1> QED BY <1>1, TypesAndServer, PTL

(***************************************************************************)
(* In the whole system, with the mover running beside the handlers, every  *)
(* open descriptor of the server reads the file its client asked for, from *)
(* the file itself or from a whole copy.                                   *)
(***************************************************************************)
THEOREM RedirectionsAreTransparent == Spec => []RedirectionIsTransparent
<1>1. ServerInv => RedirectionIsTransparent
  BY DEF ServerInv
<1> QED BY <1>1, TypesAndServer, PTL

-----------------------------------------------------------------------------
(***************************************************************************)
(* Requests.  What is known of a message under way: its client waits for   *)
(* it, in the call it belongs to.                                          *)
(***************************************************************************)

RequestOf(m) ==
    /\ call[m.client] # NoCall
    /\ done[m.client] = 0
    /\ m.type \in {"open", "opened"} =>
           /\ call[m.client].op = "open"
           /\ call[m.client].fd = m.lfd
           /\ fd_redir_map[m.client][m.lfd] = NoEntry
           /\ fd_map[m.client][m.lfd] # NoEntry
    /\ m.type \in {"read", "push", "readDone"} => call[m.client].op = "read"
    /\ m.type \in {"seek", "sought"} => call[m.client].op = "seek"
    /\ m.type \in {"read", "seek"} =>
           /\ call[m.client].fd \in LocalFds
           /\ fd_redir_map[m.client][call[m.client].fd] # NoEntry
           /\ m.fd = fd_redir_map[m.client][call[m.client].fd]

EveryRequestIsAwaited == \A m \in net : m.type # "close" => RequestOf(m)

OneRequestPerClient ==
    \A m, n \in net :
        m.type # "close" /\ n.type # "close" /\ m.client = n.client => m = n

RedirectedIsTracked ==
    \A c \in Clients, fd \in LocalFds :
        fd_redir_map[c][fd] # NoEntry => fd_map[c][fd] # NoEntry

\* A tracked descriptor lacks its remote one only while its open is waiting.
TrackedIsRedirected ==
    \A c \in Clients, fd \in LocalFds :
        fd_map[c][fd] # NoEntry /\ fd_redir_map[c][fd] = NoEntry =>
            /\ call[c] # NoCall
            /\ call[c].op = "open"
            /\ call[c].fd = fd
            /\ done[c] = 0

RequestInv ==
    /\ EveryRequestIsAwaited
    /\ OneRequestPerClient
    /\ RedirectedIsTracked
    /\ TrackedIsRedirected

LEMMA RequestInit == Init => RequestInv
BY DEF Init, RequestInv, EveryRequestIsAwaited, OneRequestPerClient, RedirectedIsTracked,
    TrackedIsRedirected

LEMMA TrackFileRequest ==
    ASSUME ClientTypeOK, RequestInv, NEW c \in Clients, NEW fd \in LocalFds,
           NEW path \in Paths, hvac_track_file(c, fd, path)
    PROVE  RequestInv'
<1> DEFINE x == OpenMsg(c, fd, path)
<1>1. x.type = "open" /\ x.client = c /\ x.lfd = fd
  BY DEF OpenMsg
<1> HIDE DEF x
<1>2. /\ net' = net \cup {x}
      /\ call' = [call EXCEPT ![c] = [op |-> "open", fd |-> fd, path |-> path]]
      /\ done' = [done EXCEPT ![c] = 0]
      /\ fd_map' = [fd_map EXCEPT ![c][fd] = path]
      /\ fd_redir_map' = fd_redir_map
      /\ call[c] = NoCall
      /\ fd_map[c][fd] = NoEntry
  BY DEF hvac_track_file, hvac_client_comm_gen_open_rpc, x
<1>3. \A m \in net : m.type # "close" => m.client # c
  BY <1>2 DEF RequestInv, EveryRequestIsAwaited, RequestOf
<1>4. /\ call'[c] # NoCall /\ call'[c].op = "open" /\ call'[c].fd = fd
      /\ done'[c] = 0
      /\ fd_map'[c][fd] # NoEntry
      /\ fd_redir_map[c][fd] = NoEntry
  <2>1. [op |-> "open", fd |-> fd, path |-> path] \in Call
    BY DEF Call, OpenCall
  <2> QED BY <1>2, <2>1, SystemAssumption, MoverAssumption
          DEF ClientTypeOK, RequestInv, RedirectedIsTracked
<1>5. \A d \in Clients : d # c =>
        call'[d] = call[d] /\ done'[d] = done[d] /\ fd_map'[d] = fd_map[d]
  BY <1>2 DEF ClientTypeOK
<1>6. EveryRequestIsAwaited'
  <2> SUFFICES ASSUME NEW m \in net', m.type # "close"
               PROVE  RequestOf(m)'
    BY DEF EveryRequestIsAwaited
  <2>1. CASE m = x
    BY <1>1, <1>2, <1>4, <2>1 DEF RequestOf
  <2>2. CASE m \in net
    <3>1. RequestOf(m) /\ m.client \in Clients /\ m.client # c
      BY <1>3, <2>2, MessageFields DEF RequestInv, EveryRequestIsAwaited, ClientTypeOK
    <3> QED BY <1>2, <1>5, <3>1 DEF RequestOf
  <2> QED BY <1>2, <2>1, <2>2
<1>7. OneRequestPerClient'
  BY <1>1, <1>2, <1>3 DEF RequestInv, OneRequestPerClient
<1>8. RedirectedIsTracked'
  BY <1>2, MoverAssumption DEF RequestInv, RedirectedIsTracked, ClientTypeOK
<1>9. TrackedIsRedirected'
  BY <1>2, <1>4, <1>5 DEF RequestInv, TrackedIsRedirected, ClientTypeOK
<1> QED BY <1>6, <1>7, <1>8, <1>9 DEF RequestInv

\* A read or a seek: the message names the remote descriptor.
LEMMA BeginRequest ==
    ASSUME ClientTypeOK, RequestInv, NEW c \in Clients, NEW fd \in LocalFds,
           NEW x, NEW k \in Call, call[c] = NoCall, fd_map[c][fd] # NoEntry,
           x.client = c, x.fd = Redirected(c, fd), k.fd = fd,
           \/ x.type = "read" /\ k.op = "read"
           \/ x.type = "seek" /\ k.op = "seek",
           net' = net \cup {x}, call' = [call EXCEPT ![c] = k],
           done' = [done EXCEPT ![c] = 0],
           UNCHANGED <<fd_map, fd_redir_map>>
    PROVE  RequestInv'
<1>1. \A m \in net : m.type # "close" => m.client # c
  BY DEF RequestInv, EveryRequestIsAwaited, RequestOf
<1>2. /\ call'[c] = k /\ k # NoCall /\ done'[c] = 0
      /\ \A d \in Clients : d # c => call'[d] = call[d] /\ done'[d] = done[d]
  BY SystemAssumption DEF ClientTypeOK
<1>3. fd_redir_map[c][fd] # NoEntry /\ x.fd = fd_redir_map[c][fd]
  BY DEF RequestInv, TrackedIsRedirected, Redirected
<1>4. EveryRequestIsAwaited'
  <2> SUFFICES ASSUME NEW m \in net', m.type # "close"
               PROVE  RequestOf(m)'
    BY DEF EveryRequestIsAwaited
  <2>1. CASE m = x
    BY <1>2, <1>3, <2>1 DEF RequestOf
  <2>2. CASE m \in net
    <3>1. RequestOf(m) /\ m.client \in Clients /\ m.client # c
      BY <1>1, <2>2, MessageFields DEF RequestInv, EveryRequestIsAwaited, ClientTypeOK
    <3> QED BY <1>2, <3>1 DEF RequestOf
  <2> QED BY <2>1, <2>2
<1>5. OneRequestPerClient'
  BY <1>1 DEF RequestInv, OneRequestPerClient
<1>6. RedirectedIsTracked'
  BY DEF RequestInv, RedirectedIsTracked
<1>7. TrackedIsRedirected'
  BY <1>2 DEF RequestInv, TrackedIsRedirected
<1> QED BY <1>4, <1>5, <1>6, <1>7 DEF RequestInv

LEMMA RemoveFdRequest ==
    ASSUME ClientTypeOK, RequestInv, NEW c \in Clients, NEW fd \in LocalFds,
           hvac_remove_fd(c, fd)
    PROVE  RequestInv'
<1> DEFINE x == CloseMsg(c, Redirected(c, fd))
<1>1. x.type = "close"
  BY DEF CloseMsg
<1> HIDE DEF x
<1>2. /\ net' = net \cup {x}
      /\ call[c] = NoCall
      /\ UNCHANGED <<call, done>>
      /\ fd_redir_map' = [fd_redir_map EXCEPT ![c][fd] = NoEntry]
      /\ fd_map' = [fd_map EXCEPT ![c][fd] = NoEntry]
  BY DEF hvac_remove_fd, hvac_client_comm_gen_close_rpc, x
<1>3. \A d \in Clients : d # c => fd_redir_map'[d] = fd_redir_map[d] /\ fd_map'[d] = fd_map[d]
  BY <1>2 DEF ClientTypeOK
<1>4. EveryRequestIsAwaited'
  <2> SUFFICES ASSUME NEW m \in net', m.type # "close"
               PROVE  RequestOf(m)'
    BY DEF EveryRequestIsAwaited
  <2>1. m \in net /\ RequestOf(m) /\ m.client \in Clients /\ m.client # c
    BY <1>1, <1>2, MessageFields DEF RequestInv, EveryRequestIsAwaited, ClientTypeOK, RequestOf
  <2> QED BY <1>2, <1>3, <2>1 DEF RequestOf
<1>5. OneRequestPerClient'
  BY <1>1, <1>2 DEF RequestInv, OneRequestPerClient
<1>6. RedirectedIsTracked'
  BY <1>2, <1>3 DEF RequestInv, RedirectedIsTracked, ClientTypeOK
<1>7. TrackedIsRedirected'
  BY <1>2, <1>3 DEF RequestInv, TrackedIsRedirected, ClientTypeOK
<1> QED BY <1>4, <1>5, <1>6, <1>7 DEF RequestInv

LEMMA ApplicationRequest ==
    ASSUME ClientTypeOK, RequestInv, NEW c \in Clients, Application(c)
    PROVE  RequestInv'
<1>1. PICK fd \in LocalFds :
        \/ \E path \in Paths : hvac_track_file(c, fd, path)
        \/ \E args \in ReadArgs : hvac_remote_read(c, fd, args)
        \/ \E args \in SeekArgs : hvac_remote_lseek(c, fd, args)
        \/ hvac_remove_fd(c, fd)
  BY DEF Application
<1>2. ASSUME NEW args \in ReadArgs, hvac_remote_read(c, fd, args)
      PROVE  RequestInv'
  <2> DEFINE x == ReadMsg(c, Redirected(c, fd), args[1], args[2])
             k == [op |-> "read", fd |-> fd, count |-> args[1], offset |-> args[2]]
  <2>1. args[1] \in Nat /\ args[2] \in Nat \cup {-1}
    BY SystemAssumption
  <2>2. k \in Call /\ k.fd = fd /\ k.op = "read"
    BY <2>1 DEF Call, ReadCall
  <2>3. x.client = c /\ x.fd = Redirected(c, fd) /\ x.type = "read"
    BY DEF ReadMsg
  <2>4. /\ call[c] = NoCall /\ fd_map[c][fd] # NoEntry
        /\ net' = net \cup {x} /\ call' = [call EXCEPT ![c] = k]
        /\ done' = [done EXCEPT ![c] = 0]
        /\ UNCHANGED <<fd_map, fd_redir_map>>
    BY <1>2 DEF hvac_remote_read, hvac_client_comm_gen_read_rpc
  <2> HIDE DEF x, k
  <2> QED BY <2>2, <2>3, <2>4, BeginRequest
<1>3. ASSUME NEW args \in SeekArgs, hvac_remote_lseek(c, fd, args)
      PROVE  RequestInv'
  <2> DEFINE x == SeekMsg(c, Redirected(c, fd), args[1], args[2])
             k == [op |-> "seek", fd |-> fd, offset |-> args[1], whence |-> args[2]]
  <2>1. args[1] \in Int /\ args[2] \in Whence
    BY SystemAssumption
  <2>2. k \in Call /\ k.fd = fd /\ k.op = "seek"
    BY <2>1 DEF Call, SeekCall
  <2>3. x.client = c /\ x.fd = Redirected(c, fd) /\ x.type = "seek"
    BY DEF SeekMsg
  <2>4. /\ call[c] = NoCall /\ fd_map[c][fd] # NoEntry
        /\ net' = net \cup {x} /\ call' = [call EXCEPT ![c] = k]
        /\ done' = [done EXCEPT ![c] = 0]
        /\ UNCHANGED <<fd_map, fd_redir_map>>
    BY <1>3 DEF hvac_remote_lseek, hvac_client_comm_gen_seek_rpc
  <2> HIDE DEF x, k
  <2> QED BY <2>2, <2>3, <2>4, BeginRequest
<1> QED BY <1>1, <1>2, <1>3, TrackFileRequest, RemoveFdRequest

\* Only a client without a request under way returns from a call.
LEMMA BlockRequest ==
    ASSUME ClientTypeOK, RequestInv, NEW c \in Clients, hvac_client_block(c)
    PROVE  RequestInv'
<1>1. /\ done[c] = 1 /\ call' = [call EXCEPT ![c] = NoCall]
      /\ UNCHANGED <<fd_map, fd_redir_map, done, net>>
  BY DEF hvac_client_block
<1>2. \A d \in Clients : d # c => call'[d] = call[d]
  BY <1>1 DEF ClientTypeOK
<1>3. EveryRequestIsAwaited'
  <2> SUFFICES ASSUME NEW m \in net, m.type # "close"
               PROVE  RequestOf(m)'
    BY <1>1 DEF EveryRequestIsAwaited
  <2>1. RequestOf(m) /\ m.client \in Clients /\ m.client # c
    BY <1>1, MessageFields DEF RequestInv, EveryRequestIsAwaited, ClientTypeOK, RequestOf
  <2> QED BY <1>1, <1>2, <2>1 DEF RequestOf
<1>4. OneRequestPerClient' /\ RedirectedIsTracked'
  BY <1>1 DEF RequestInv, OneRequestPerClient, RedirectedIsTracked
<1>5. TrackedIsRedirected'
  BY <1>1, <1>2 DEF RequestInv, TrackedIsRedirected
<1> QED BY <1>3, <1>4, <1>5 DEF RequestInv

LEMMA CallbackRequest ==
    ASSUME ClientTypeOK, RequestInv, NEW m \in net, Callback(m)
    PROVE  RequestInv'
<1> DEFINE c == m.client
<1>1. /\ m \in Message /\ c \in Clients /\ m.type # "close" /\ RequestOf(m)
      /\ m.type \in {"opened", "readDone", "sought"}
  BY MessageFields DEF Callback, ClientTypeOK, RequestInv, EveryRequestIsAwaited
<1>2. /\ net' = net \ {m} /\ UNCHANGED <<call, fd_map>>
      /\ done' = [done EXCEPT ![c] = @ + 1]
  BY DEF Callback, hvac_open_cb, hvac_read_cb
<1>3. \A n \in net' : n.type # "close" => n \in net /\ n.client \in Clients /\ n.client # c
  BY <1>1, <1>2, MessageFields DEF RequestInv, OneRequestPerClient, ClientTypeOK
<1>4. \A d \in Clients : d # c => fd_redir_map'[d] = fd_redir_map[d] /\ done'[d] = done[d]
  BY <1>1, <1>2 DEF Callback, hvac_open_cb, hvac_read_cb, ClientTypeOK
<1>5. EveryRequestIsAwaited'
  <2> SUFFICES ASSUME NEW n \in net', n.type # "close"
               PROVE  RequestOf(n)'
    BY DEF EveryRequestIsAwaited
  <2>1. RequestOf(n) /\ n.client \in Clients /\ n.client # c
    BY <1>3 DEF RequestInv, EveryRequestIsAwaited
  <2> QED BY <1>2, <1>4, <2>1 DEF RequestOf
<1>6. OneRequestPerClient'
  BY <1>2 DEF RequestInv, OneRequestPerClient
<1>7. CASE m.type = "opened" /\ hvac_open_cb(m)
  <2>1. m.lfd \in LocalFds /\ m.ret \in RemoteFds \cup {BadFd}
    BY <1>1, <1>7, MessageFields
  <2>2. m.ret # NoEntry
    BY <2>1, RemoteFdValues
  <2>3. fd_redir_map' = [fd_redir_map EXCEPT ![c][m.lfd] = m.ret]
    BY <1>7 DEF hvac_open_cb
  <2>4. RedirectedIsTracked'
    BY <1>1, <1>2, <1>7, <2>1, <2>3 DEF RequestInv, RedirectedIsTracked, RequestOf, ClientTypeOK
  <2>5. TrackedIsRedirected'
    BY <1>1, <1>2, <1>4, <1>7, <2>1, <2>2, <2>3
    DEF RequestInv, TrackedIsRedirected, RequestOf, ClientTypeOK
  <2> QED BY <1>5, <1>6, <2>4, <2>5 DEF RequestInv
<1>8. CASE m.type \in {"readDone", "sought"} /\ hvac_read_cb(m)
  <2>1. fd_redir_map' = fd_redir_map
    BY <1>8 DEF hvac_read_cb
  <2>2. call[c].op # "open"
    BY <1>1, <1>8 DEF RequestOf
  <2>3. RedirectedIsTracked' /\ TrackedIsRedirected'
    BY <1>2, <1>4, <2>1, <2>2 DEF RequestInv, RedirectedIsTracked, TrackedIsRedirected
  <2> QED BY <1>5, <1>6, <2>3 DEF RequestInv
<1> QED BY <1>7, <1>8 DEF Callback

\* The server replaces a request by its response.
LEMMA ResponseRequest ==
    ASSUME ClientTypeOK, RequestInv, NEW m \in net, NEW r,
           m.type # "close", r.client = m.client,
           \/ m.type = "open" /\ r.type = "opened" /\ r.lfd = m.lfd
           \/ m.type = "read" /\ r.type = "push"
           \/ m.type = "push" /\ r.type = "readDone"
           \/ m.type = "seek" /\ r.type = "sought",
           net' = (net \ {m}) \cup {r},
           UNCHANGED <<call, done, fd_map, fd_redir_map>>
    PROVE  RequestInv'
<1>1. RequestOf(m)
  BY DEF RequestInv, EveryRequestIsAwaited
<1>2. RequestOf(r)
  BY <1>1 DEF RequestOf
<1>3. EveryRequestIsAwaited'
  BY <1>2 DEF RequestInv, EveryRequestIsAwaited, RequestOf
<1>4. OneRequestPerClient'
  BY DEF RequestInv, OneRequestPerClient
<1>5. RedirectedIsTracked' /\ TrackedIsRedirected'
  BY DEF RequestInv, RedirectedIsTracked, TrackedIsRedirected
<1> QED BY <1>3, <1>4, <1>5 DEF RequestInv

LEMMA ServeRequest ==
    ASSUME ClientTypeOK, RequestInv, NEW m \in net, Serve(m)
    PROVE  RequestInv'
<1>1. CASE m.type = "open" /\ ServeOpen(m)
  <2>1. PICK ret : Reply(m, OpenedMsg(m.client, m.lfd, ret))
    BY <1>1 DEF ServeOpen
  <2> DEFINE r == OpenedMsg(m.client, m.lfd, ret)
  <2>2. r.client = m.client /\ r.type = "opened" /\ r.lfd = m.lfd
    BY DEF OpenedMsg
  <2> HIDE DEF r
  <2>3. net' = (net \ {m}) \cup {r} /\ UNCHANGED <<call, done, fd_map, fd_redir_map>>
    BY <2>1 DEF Reply, clientVars, r
  <2> QED BY <1>1, <2>2, <2>3, ResponseRequest
<1>2. CASE m.type = "read" /\ ServeRead(m)
  <2>0. PICK readbytes \in ReadReturns(m.fd, m.count, m.offset) :
           LET out == ReadOutcome(m.fd, m.count, m.offset, readbytes)
           IN  /\ hvac_rpc_handler(m.fd, m.count, m.offset, readbytes)
               /\ Reply(m, PushMsg(m.client, out.size, out.data))
    BY <1>2 DEF ServeRead
  <2> DEFINE out == ReadOutcome(m.fd, m.count, m.offset, readbytes)
             r == PushMsg(m.client, out.size, out.data)
  <2>1. Reply(m, r)
    BY <2>0
  <2>2. r.client = m.client /\ r.type = "push"
    BY DEF PushMsg
  <2> HIDE DEF r
  <2>3. net' = (net \ {m}) \cup {r} /\ UNCHANGED <<call, done, fd_map, fd_redir_map>>
    BY <2>1 DEF Reply, clientVars
  <2> QED BY <1>2, <2>2, <2>3, ResponseRequest
<1>3. CASE m.type = "push" /\ hvac_rpc_handler_bulk_cb(m)
  <2> DEFINE r == ReadDoneMsg(m.client, m.size)
  <2>1. r.client = m.client /\ r.type = "readDone"
    BY DEF ReadDoneMsg
  <2> HIDE DEF r
  <2>2. net' = (net \ {m}) \cup {r} /\ UNCHANGED <<call, done, fd_map, fd_redir_map>>
    BY <1>3 DEF hvac_rpc_handler_bulk_cb, r
  <2> QED BY <1>3, <2>1, <2>2, ResponseRequest
<1>4. CASE m.type = "seek" /\ ServeSeek(m)
  <2>1. PICK n : Reply(m, SoughtMsg(m.client, n))
    BY <1>4 DEF ServeSeek
  <2> DEFINE r == SoughtMsg(m.client, n)
  <2>2. r.client = m.client /\ r.type = "sought"
    BY DEF SoughtMsg
  <2> HIDE DEF r
  <2>3. net' = (net \ {m}) \cup {r} /\ UNCHANGED <<call, done, fd_map, fd_redir_map>>
    BY <2>1 DEF Reply, clientVars, r
  <2> QED BY <1>4, <2>2, <2>3, ResponseRequest
<1>5. CASE m.type = "close" /\ ServeClose(m)
  <2>1. net' = net \ {m} /\ UNCHANGED <<call, done, fd_map, fd_redir_map>>
    BY <1>5 DEF ServeClose, clientVars
  <2> QED BY <2>1 DEF RequestInv, EveryRequestIsAwaited, RequestOf, OneRequestPerClient,
                      RedirectedIsTracked, TrackedIsRedirected
<1> QED BY <1>1, <1>2, <1>3, <1>4, <1>5 DEF Serve

LEMMA RequestStutter ==
    ASSUME RequestInv, UNCHANGED <<call, done, fd_map, fd_redir_map, net>>
    PROVE  RequestInv'
BY DEF RequestInv, EveryRequestIsAwaited, RequestOf, OneRequestPerClient,
       RedirectedIsTracked, TrackedIsRedirected

LEMMA RequestStep ==
    ASSUME ClientTypeOK, RequestInv, [Next]_vars
    PROVE  RequestInv'
<1>1. CASE MoverThread \/ MoverSpuriousWakeup \/ UNCHANGED vars
  BY <1>1, RequestStutter DEF MoverThread, MoverSpuriousWakeup, vars, clientVars
<1> QED BY <1>1, ApplicationRequest, BlockRequest, CallbackRequest, ServeRequest DEF Next

LEMMA RequestsHold == Spec => []RequestInv
<1>1. Init => RequestInv
  BY RequestInit
<1>2. ClientTypeOK /\ ServerInv /\ RequestInv /\ [Next]_vars => RequestInv'
  BY RequestStep
<1> QED BY <1>1, <1>2, TypesAndServer, PTL DEF Spec

(***************************************************************************)
(* For any number of clients: a client never has two requests under way,   *)
(* and an open response always finds the call it belongs to waiting.       *)
(***************************************************************************)
THEOREM RequestsComeOneAtATime == Spec => []OneRequestAtATime
<1>1. RequestInv => OneRequestAtATime
  BY DEF RequestInv, EveryRequestIsAwaited, RequestOf, OneRequestPerClient, OneRequestAtATime
<1> QED BY <1>1, RequestsHold, PTL

-----------------------------------------------------------------------------
(***************************************************************************)
(* Holders of remote descriptors, with the two kinds of holder apart.      *)
(***************************************************************************)

MapHolds(c, fd, f) == fd_redir_map[c][fd] = f

HolderInv ==
    \A f \in RemoteFds :
        /\ \A c \in Clients, k \in LocalFds : MapHolds(c, k, f) =>
               /\ open_fds[f] # NoEntry
               /\ \A m \in net : ~Carries(m, f)
               /\ \A d \in Clients, l \in LocalFds : MapHolds(d, l, f) => d = c /\ l = k
        /\ \A m \in net : Carries(m, f) =>
               /\ open_fds[f] # NoEntry
               /\ \A n \in net : Carries(n, f) => n = m
        /\ open_fds[f] # NoEntry =>
               \/ \E c \in Clients, k \in LocalFds : MapHolds(c, k, f)
               \/ \E m \in net : Carries(m, f)

LEMMA HolderInit == Init => HolderInv
BY RemoteFdValues DEF Init, ServerInit, HolderInv, MapHolds

\* Steps that neither open nor close a descriptor nor pass one on.
LEMMA HolderFrame ==
    ASSUME HolderInv, fd_redir_map' = fd_redir_map,
           \A f \in RemoteFds : open_fds'[f] = NoEntry <=> open_fds[f] = NoEntry,
           \A f \in RemoteFds : \A m : Carries(m, f) => (m \in net' <=> m \in net)
    PROVE  HolderInv'
BY DEF HolderInv, MapHolds, Carries

LEMMA OpenCallbackHolder ==
    ASSUME ClientTypeOK, RequestInv, HolderInv, NEW m \in net, m.type = "opened",
           hvac_open_cb(m)
    PROVE  HolderInv'
<1>1. m.client \in Clients /\ m.lfd \in LocalFds /\ fd_redir_map[m.client][m.lfd] = NoEntry
  BY MessageFields DEF ClientTypeOK, RequestInv, EveryRequestIsAwaited, RequestOf
<1>2. /\ fd_redir_map' = [fd_redir_map EXCEPT ![m.client][m.lfd] = m.ret]
      /\ net' = net \ {m} /\ open_fds' = open_fds
  BY DEF hvac_open_cb, serverVars
<1>3. \A f \in RemoteFds : Carries(m, f) <=> m.ret = f
  BY DEF Carries
<1>4. \A f \in RemoteFds, c \in Clients, k \in LocalFds :
        fd_redir_map'[c][k] = f <=>
            \/ c = m.client /\ k = m.lfd /\ m.ret = f
            \/ fd_redir_map[c][k] = f
  BY <1>1, <1>2, RemoteFdValues DEF ClientTypeOK
<1> SUFFICES ASSUME NEW f \in RemoteFds
             PROVE  /\ \A c \in Clients, k \in LocalFds : fd_redir_map'[c][k] = f =>
                           /\ open_fds[f] # NoEntry
                           /\ \A n \in net' : ~Carries(n, f)
                           /\ \A d \in Clients, l \in LocalFds :
                                  fd_redir_map'[d][l] = f => d = c /\ l = k
                    /\ \A n \in net' : Carries(n, f) =>
                           /\ open_fds[f] # NoEntry
                           /\ \A o \in net' : Carries(o, f) => o = n
                    /\ open_fds[f] # NoEntry =>
                           \/ \E c \in Clients, k \in LocalFds : fd_redir_map'[c][k] = f
                           \/ \E n \in net' : Carries(n, f)
  BY <1>2 DEF HolderInv, MapHolds, Carries
<1>5. CASE m.ret = f
  BY <1>1, <1>2, <1>3, <1>4, <1>5 DEF HolderInv, MapHolds
<1>6. CASE m.ret # f
  BY <1>2, <1>3, <1>4, <1>6 DEF HolderInv, MapHolds
<1> QED BY <1>5, <1>6

LEMMA RemoveFdHolder ==
    ASSUME ClientTypeOK, HolderInv, NEW c \in Clients, NEW fd \in LocalFds,
           hvac_remove_fd(c, fd)
    PROVE  HolderInv'
<1> DEFINE x == CloseMsg(c, Redirected(c, fd))
<1>1. \A f \in RemoteFds : Carries(x, f) <=> fd_redir_map[c][fd] = f
  <2>1. x.type = "close" /\ x.fd = Redirected(c, fd)
    BY DEF CloseMsg
  <2> QED BY <2>1, RemoteFdValues DEF Carries, Redirected
<1> HIDE DEF x
<1>2. /\ net' = net \cup {x} /\ open_fds' = open_fds
      /\ fd_redir_map' = [fd_redir_map EXCEPT ![c][fd] = NoEntry]
  BY DEF hvac_remove_fd, hvac_client_comm_gen_close_rpc, serverVars, x
<1>3. \A f \in RemoteFds, d \in Clients, k \in LocalFds :
        fd_redir_map'[d][k] = f <=> fd_redir_map[d][k] = f /\ ~(d = c /\ k = fd)
  BY <1>2, RemoteFdValues DEF ClientTypeOK
<1> SUFFICES ASSUME NEW f \in RemoteFds
             PROVE  /\ \A d \in Clients, k \in LocalFds : fd_redir_map'[d][k] = f =>
                           /\ open_fds[f] # NoEntry
                           /\ \A n \in net' : ~Carries(n, f)
                           /\ \A e \in Clients, l \in LocalFds :
                                  fd_redir_map'[e][l] = f => e = d /\ l = k
                    /\ \A n \in net' : Carries(n, f) =>
                           /\ open_fds[f] # NoEntry
                           /\ \A o \in net' : Carries(o, f) => o = n
                    /\ open_fds[f] # NoEntry =>
                           \/ \E d \in Clients, k \in LocalFds : fd_redir_map'[d][k] = f
                           \/ \E n \in net' : Carries(n, f)
  BY <1>2 DEF HolderInv, MapHolds, Carries
<1>4. CASE fd_redir_map[c][fd] = f
  BY <1>1, <1>2, <1>3, <1>4 DEF HolderInv, MapHolds
<1>5. CASE fd_redir_map[c][fd] # f
  BY <1>1, <1>2, <1>3, <1>5 DEF HolderInv, MapHolds
<1> QED BY <1>4, <1>5

LEMMA ServeOpenHolder ==
    ASSUME ClientTypeOK, ServerInv, HolderInv, NEW m \in net, m.type = "open", ServeOpen(m)
    PROVE  HolderInv'
<1>1. PICK ret \in RemoteFds \cup {BadFd} :
        /\ hvac_open_rpc_handler(m.path, ret)
        /\ Reply(m, OpenedMsg(m.client, m.lfd, ret))
  BY DEF ServeOpen
<1> DEFINE r == OpenedMsg(m.client, m.lfd, ret)
<1>2. \A f \in RemoteFds : (Carries(r, f) <=> ret = f) /\ ~Carries(m, f)
  BY DEF OpenedMsg, Carries
<1>3. net' = (net \ {m}) \cup {r} /\ fd_redir_map' = fd_redir_map
  BY <1>1 DEF Reply, clientVars
<1> HIDE DEF r
<1>4. CASE ret = BadFd
  <2>1. open_fds' = open_fds
    BY <1>1, <1>4, RemoteFdValues DEF hvac_open_rpc_handler, OpenSucceeds, OpenFails, FreeFds
  <2>2. \A f \in RemoteFds : \A n : Carries(n, f) => (n \in net' <=> n \in net)
    BY <1>2, <1>3, <1>4, RemoteFdValues
  <2> QED BY <1>3, <2>1, <2>2, HolderFrame
<1>5. CASE ret # BadFd
  <2>1. PICK file : ret \in FreeFds /\ open_fds' = [open_fds EXCEPT ![ret] = file]
    BY <1>1, <1>5 DEF hvac_open_rpc_handler, OpenSucceeds, OpenFails
  <2>2. ret \in RemoteFds /\ open_fds[ret] = NoEntry
    BY <2>1 DEF FreeFds
  <2>3. ServerTypeOK' /\ open_fds'[ret] # NoEntry
    <3>1. PICK found \in LookupOutcomes(m.path) : OpenSucceeds(m.path, found, ret)
      BY <1>1, <1>5 DEF hvac_open_rpc_handler, OpenFails
    <3>2. PICK g \in OpenedFile(m.path, found) : open_fds' = [open_fds EXCEPT ![ret] = g]
      BY <3>1 DEF OpenSucceeds
    <3>3. m.path \in Paths
      BY MessageFields DEF ClientTypeOK
    <3>4. g \in OpenFile
      BY <3>1, <3>2, <3>3, OpenedFileProperties
    <3>5. ServerTypeOK'
      BY <1>1, <3>3, OpenHandlerInv DEF ServerInv
    <3> QED BY <2>2, <3>2, <3>4, <3>5, ServerAssumption DEF ServerInv, ServerTypeOK
  <2>4. \A f \in RemoteFds : f # ret => open_fds'[f] = open_fds[f]
    BY <2>1, <2>2 DEF ServerInv, ServerTypeOK
  <2>5. \A n \in net' : ~Carries(n, ret) \/ n = r
    BY <1>2, <1>3, <2>2 DEF HolderInv
  <2>6. \A c \in Clients, k \in LocalFds : fd_redir_map'[c][k] # ret
    BY <1>3, <2>2 DEF HolderInv, MapHolds
  <2> SUFFICES ASSUME NEW f \in RemoteFds
               PROVE  /\ \A c \in Clients, k \in LocalFds : fd_redir_map'[c][k] = f =>
                             /\ open_fds'[f] # NoEntry
                             /\ \A n \in net' : ~Carries(n, f)
                             /\ \A d \in Clients, l \in LocalFds :
                                    fd_redir_map'[d][l] = f => d = c /\ l = k
                      /\ \A n \in net' : Carries(n, f) =>
                             /\ open_fds'[f] # NoEntry
                             /\ \A o \in net' : Carries(o, f) => o = n
                      /\ open_fds'[f] # NoEntry =>
                             \/ \E c \in Clients, k \in LocalFds : fd_redir_map'[c][k] = f
                             \/ \E n \in net' : Carries(n, f)
    BY DEF HolderInv, MapHolds, Carries
  <2>7. CASE f = ret
    BY <1>2, <1>3, <2>3, <2>5, <2>6, <2>7
  <2>8. CASE f # ret
    <3>1. \A n : Carries(n, f) => (n \in net' <=> n \in net)
      BY <1>2, <1>3, <2>8
    <3> QED BY <1>3, <2>4, <2>8, <3>1 DEF HolderInv, MapHolds
  <2> QED BY <2>7, <2>8
<1> QED BY <1>4, <1>5

LEMMA ServeCloseHolder ==
    ASSUME ClientTypeOK, ServerInv, HolderInv, NEW m \in net, m.type = "close", ServeClose(m)
    PROVE  HolderInv'
<1>1. net' = net \ {m} /\ fd_redir_map' = fd_redir_map
  BY DEF ServeClose, clientVars
<1>2. \A f \in RemoteFds : Carries(m, f) <=> m.fd = f
  BY DEF Carries
<1>3. CASE CloseSucceeds(m.fd)
  <2>1. m.fd \in RemoteFds /\ open_fds' = [open_fds EXCEPT ![m.fd] = NoEntry]
    BY <1>3 DEF CloseSucceeds, IsOpen
  <2>2. \A f \in RemoteFds : open_fds'[f] = IF f = m.fd THEN NoEntry ELSE open_fds[f]
    BY <2>1 DEF ServerInv, ServerTypeOK
  <2> SUFFICES ASSUME NEW f \in RemoteFds
               PROVE  /\ \A c \in Clients, k \in LocalFds : fd_redir_map[c][k] = f =>
                             /\ open_fds'[f] # NoEntry
                             /\ \A n \in net' : ~Carries(n, f)
                             /\ \A d \in Clients, l \in LocalFds :
                                    fd_redir_map[d][l] = f => d = c /\ l = k
                      /\ \A n \in net' : Carries(n, f) =>
                             /\ open_fds'[f] # NoEntry
                             /\ \A o \in net' : Carries(o, f) => o = n
                      /\ open_fds'[f] # NoEntry =>
                             \/ \E c \in Clients, k \in LocalFds : fd_redir_map[c][k] = f
                             \/ \E n \in net' : Carries(n, f)
    BY <1>1 DEF HolderInv, MapHolds, Carries
  <2>3. CASE f = m.fd
    BY <1>1, <1>2, <2>2, <2>3 DEF HolderInv, MapHolds
  <2>4. CASE f # m.fd
    BY <1>1, <1>2, <2>2, <2>4 DEF HolderInv, MapHolds
  <2> QED BY <2>3, <2>4
<1>4. CASE CloseAborts(m.fd)
  <2>1. m.fd \notin RemoteFds
    BY <1>2, <1>4 DEF CloseAborts, IsOpen, HolderInv
  <2>2. open_fds' = open_fds
    BY <1>4 DEF CloseAborts
  <2> QED BY <1>1, <1>2, <2>1, <2>2, HolderFrame
<1> QED BY <1>3, <1>4 DEF ServeClose, hvac_close_rpc_handler

\* A message that carries no descriptor gives way to another such message.
LEMMA PlainReplyHolder ==
    ASSUME HolderInv, NEW m, NEW r, m.type \notin {"opened", "close"},
           r.type \notin {"opened", "close"},
           net' = (net \ {m}) \cup {r}, fd_redir_map' = fd_redir_map,
           \A f \in RemoteFds : open_fds'[f] = NoEntry <=> open_fds[f] = NoEntry
    PROVE  HolderInv'
<1>1. \A f \in RemoteFds : \A n : Carries(n, f) => (n \in net' <=> n \in net)
  BY DEF Carries
<1> QED BY <1>1, HolderFrame

LEMMA ServeHolder ==
    ASSUME ClientTypeOK, ServerInv, HolderInv, NEW m \in net, Serve(m)
    PROVE  HolderInv'
<1>0. m \in Message
  BY DEF ClientTypeOK
<1>1. CASE m.type = "open" /\ ServeOpen(m)
  BY <1>1, ServeOpenHolder
<1>2. CASE m.type = "read" /\ ServeRead(m)
  <2>0. PICK readbytes \in ReadReturns(m.fd, m.count, m.offset) :
           LET out == ReadOutcome(m.fd, m.count, m.offset, readbytes)
           IN  /\ hvac_rpc_handler(m.fd, m.count, m.offset, readbytes)
               /\ Reply(m, PushMsg(m.client, out.size, out.data))
    BY <1>2 DEF ServeRead
  <2> DEFINE out == ReadOutcome(m.fd, m.count, m.offset, readbytes)
             r == PushMsg(m.client, out.size, out.data)
  <2>1. r.type = "push"
    BY DEF PushMsg
  <2>2. net' = (net \ {m}) \cup {r} /\ fd_redir_map' = fd_redir_map
    BY <2>0 DEF Reply, clientVars
  <2>3. \A g \in RemoteFds : open_fds'[g] = NoEntry <=> open_fds[g] = NoEntry
    BY <1>0, <1>2, <2>0, MessageFields, ReadKeepsOpen
  <2> HIDE DEF r
  <2> QED BY <1>2, <2>1, <2>2, <2>3, PlainReplyHolder
<1>3. CASE m.type = "push" /\ hvac_rpc_handler_bulk_cb(m)
  <2> DEFINE r == ReadDoneMsg(m.client, m.size)
  <2>1. r.type = "readDone"
    BY DEF ReadDoneMsg
  <2>2. net' = (net \ {m}) \cup {r} /\ UNCHANGED <<fd_redir_map, open_fds>>
    BY <1>3 DEF hvac_rpc_handler_bulk_cb, serverVars
  <2> HIDE DEF r
  <2> QED BY <1>3, <2>1, <2>2, PlainReplyHolder
<1>4. CASE m.type = "seek" /\ ServeSeek(m)
  <2> DEFINE r == SoughtMsg(m.client, SeekResult(m.fd, m.offset, m.whence))
  <2>1. r.type = "sought"
    BY DEF SoughtMsg
  <2>2. net' = (net \ {m}) \cup {r} /\ fd_redir_map' = fd_redir_map
    BY <1>4 DEF ServeSeek, Reply, clientVars
  <2>3. \A g \in RemoteFds : open_fds'[g] = NoEntry <=> open_fds[g] = NoEntry
    BY <1>0, <1>4, MessageFields, SeekKeepsOpen DEF ServeSeek, Whence
  <2> HIDE DEF r
  <2> QED BY <1>4, <2>1, <2>2, <2>3, PlainReplyHolder
<1>5. CASE m.type = "close" /\ ServeClose(m)
  BY <1>5, ServeCloseHolder
<1> QED BY <1>1, <1>2, <1>3, <1>4, <1>5 DEF Serve

\* A new request that carries no descriptor.
LEMMA PlainRequestHolder ==
    ASSUME HolderInv, NEW x, x.type \notin {"opened", "close"}, net' = net \cup {x},
           UNCHANGED <<fd_redir_map, open_fds>>
    PROVE  HolderInv'
<1>1. \A f \in RemoteFds : \A n : Carries(n, f) => (n \in net' <=> n \in net)
  BY DEF Carries
<1> QED BY <1>1, HolderFrame

LEMMA ApplicationHolder ==
    ASSUME ClientTypeOK, HolderInv, NEW c \in Clients, Application(c)
    PROVE  HolderInv'
<1>1. PICK fd \in LocalFds :
        \/ \E path \in Paths : hvac_track_file(c, fd, path)
        \/ \E args \in ReadArgs : hvac_remote_read(c, fd, args)
        \/ \E args \in SeekArgs : hvac_remote_lseek(c, fd, args)
        \/ hvac_remove_fd(c, fd)
  BY DEF Application
<1>2. ASSUME NEW path \in Paths, hvac_track_file(c, fd, path)
      PROVE  HolderInv'
  <2> DEFINE x == OpenMsg(c, fd, path)
  <2>1. x.type = "open"
    BY DEF OpenMsg
  <2>2. net' = net \cup {x} /\ UNCHANGED <<fd_redir_map, open_fds>>
    BY <1>2 DEF hvac_track_file, hvac_client_comm_gen_open_rpc, serverVars
  <2> HIDE DEF x
  <2> QED BY <2>1, <2>2, PlainRequestHolder
<1>3. ASSUME NEW args \in ReadArgs, hvac_remote_read(c, fd, args)
      PROVE  HolderInv'
  <2> DEFINE x == ReadMsg(c, Redirected(c, fd), args[1], args[2])
  <2>1. x.type = "read"
    BY DEF ReadMsg
  <2>2. net' = net \cup {x} /\ UNCHANGED <<fd_redir_map, open_fds>>
    BY <1>3 DEF hvac_remote_read, hvac_client_comm_gen_read_rpc, serverVars
  <2> HIDE DEF x
  <2> QED BY <2>1, <2>2, PlainRequestHolder
<1>4. ASSUME NEW args \in SeekArgs, hvac_remote_lseek(c, fd, args)
      PROVE  HolderInv'
  <2> DEFINE x == SeekMsg(c, Redirected(c, fd), args[1], args[2])
  <2>1. x.type = "seek"
    BY DEF SeekMsg
  <2>2. net' = net \cup {x} /\ UNCHANGED <<fd_redir_map, open_fds>>
    BY <1>4 DEF hvac_remote_lseek, hvac_client_comm_gen_seek_rpc, serverVars
  <2> HIDE DEF x
  <2> QED BY <2>1, <2>2, PlainRequestHolder
<1> QED BY <1>1, <1>2, <1>3, <1>4, RemoveFdHolder

LEMMA HolderStep ==
    ASSUME ClientTypeOK, ServerInv, RequestInv, HolderInv, [Next]_vars
    PROVE  HolderInv'
<1>1. ASSUME NEW c \in Clients, hvac_client_block(c)
      PROVE  HolderInv'
  BY <1>1, HolderFrame DEF hvac_client_block, serverVars
<1>2. ASSUME NEW m \in net, Callback(m)
      PROVE  HolderInv'
  <2>1. CASE m.type = "opened" /\ hvac_open_cb(m)
    BY <2>1, OpenCallbackHolder
  <2>2. CASE m.type \in {"readDone", "sought"} /\ hvac_read_cb(m)
    <3>1. \A f \in RemoteFds : \A n : Carries(n, f) => (n \in net' <=> n \in net)
      BY <2>2 DEF hvac_read_cb, Carries
    <3> QED BY <2>2, <3>1, HolderFrame DEF hvac_read_cb, serverVars
  <2> QED BY <1>2, <2>1, <2>2 DEF Callback
<1>3. CASE MoverThread \/ MoverSpuriousWakeup \/ UNCHANGED vars
  BY <1>3, HolderFrame DEF MoverThread, MoverSpuriousWakeup, ServerMoverStep,
     ServerSpuriousWakeup, vars, clientVars, serverVars
<1> QED BY <1>1, <1>2, <1>3, ApplicationHolder, ServeHolder DEF Next

LEMMA HoldersHold == Spec => []HolderInv
<1>1. Init => HolderInv
  BY HolderInit
<1>2. ClientTypeOK /\ ServerInv /\ RequestInv /\ HolderInv /\ [Next]_vars => HolderInv'
  BY HolderStep
<1> QED BY <1>1, <1>2, TypesAndServer, RequestsHold, PTL DEF Spec

LEMMA HolderInvImplies == HolderInv => RemoteFdHasOneHolder
<1> SUFFICES ASSUME HolderInv, NEW f \in RemoteFds
             PROVE  IF open_fds[f] = NoEntry THEN Holders(f) = {}
                    ELSE \E h \in Holders(f) : Holders(f) = {h}
  BY DEF RemoteFdHasOneHolder
<1>1. CASE open_fds[f] = NoEntry
  <2>1. \A h \in Clients \X LocalFds : fd_redir_map[h[1]][h[2]] # f
    BY <1>1 DEF HolderInv, MapHolds
  <2>2. \A m \in net : ~Carries(m, f)
    BY <1>1 DEF HolderInv
  <2> QED BY <1>1, <2>1, <2>2 DEF Holders
<1>2. CASE \E c \in Clients, k \in LocalFds : MapHolds(c, k, f)
  <2>1. PICK c \in Clients, k \in LocalFds : MapHolds(c, k, f)
    BY <1>2
  <2>2. \A h \in Clients \X LocalFds : fd_redir_map[h[1]][h[2]] = f <=> h = <<c, k>>
    BY <2>1 DEF HolderInv, MapHolds
  <2>3. \A m \in net : ~Carries(m, f)
    BY <2>1 DEF HolderInv
  <2>4. Holders(f) = {<<"map", <<c, k>>>>}
    BY <2>2, <2>3 DEF Holders
  <2>5. open_fds[f] # NoEntry
    BY <2>1 DEF HolderInv
  <2> QED BY <2>4, <2>5
<1>3. CASE /\ open_fds[f] # NoEntry
           /\ ~\E c \in Clients, k \in LocalFds : MapHolds(c, k, f)
  <2>1. PICK m \in net : Carries(m, f)
    BY <1>3 DEF HolderInv
  <2>2. \A n \in net : Carries(n, f) <=> n = m
    BY <2>1 DEF HolderInv
  <2>3. \A h \in Clients \X LocalFds : fd_redir_map[h[1]][h[2]] # f
    BY <1>3 DEF MapHolds
  <2>4. Holders(f) = {<<"net", m>>}
    BY <2>2, <2>3 DEF Holders
  <2> QED BY <1>3, <2>4
<1> QED BY <1>1, <1>2, <1>3

(***************************************************************************)
(* For any number of clients, descriptors and files: every descriptor the  *)
(* server has open is known to exactly one local descriptor, response or   *)
(* close request, and a closed one to none.  The argument needs that an    *)
(* open response finds its entry of fd_redir_map vacant, that is,          *)
(* RequestInv.                                                             *)
(***************************************************************************)
THEOREM RemoteFdsHaveOneHolder == Spec => []RemoteFdHasOneHolder
BY HolderInvImplies, HoldersHold, PTL

-----------------------------------------------------------------------------
(***************************************************************************)
(* Which file a remote descriptor stands for.                              *)
(***************************************************************************)

PathInv ==
    /\ \A c \in Clients, k \in LocalFds : fd_redir_map[c][k] \in RemoteFds =>
           fd_to_path[fd_redir_map[c][k]] = fd_map[c][k]
    /\ \A m \in net : m.type = "open" => m.path = fd_map[m.client][m.lfd]
    /\ \A m \in net : m.type = "opened" /\ m.ret \in RemoteFds =>
           fd_to_path[m.ret] = fd_map[m.client][m.lfd]

LEMMA PathInit == Init => PathInv
BY RemoteFdValues DEF Init, PathInv

\* Steps that add neither an open request nor its response.
LEMMA PathFrame ==
    ASSUME PathInv, UNCHANGED <<fd_map, fd_redir_map, fd_to_path>>,
           \A m \in net' : m \in net \/ m.type \notin {"open", "opened"}
    PROVE  PathInv'
BY DEF PathInv

LEMMA TrackFilePath ==
    ASSUME ClientTypeOK, RequestInv, PathInv, NEW c \in Clients, NEW fd \in LocalFds,
           NEW path \in Paths, hvac_track_file(c, fd, path)
    PROVE  PathInv'
<1> DEFINE x == OpenMsg(c, fd, path)
<1>1. x.type = "open" /\ x.client = c /\ x.lfd = fd /\ x.path = path
  BY DEF OpenMsg
<1> HIDE DEF x
<1>2. /\ net' = net \cup {x} /\ UNCHANGED <<fd_redir_map, fd_to_path>>
      /\ fd_map' = [fd_map EXCEPT ![c][fd] = path]
      /\ call[c] = NoCall /\ fd_map[c][fd] = NoEntry
  BY DEF hvac_track_file, hvac_client_comm_gen_open_rpc, serverVars, x
<1>3. \A m \in net : m.type \in {"open", "opened"} => m.client \in Clients /\ m.client # c
  BY <1>2, MessageFields DEF RequestInv, EveryRequestIsAwaited, RequestOf, ClientTypeOK
<1>4. fd_redir_map[c][fd] \notin RemoteFds
  BY <1>2, RemoteFdValues DEF RequestInv, RedirectedIsTracked
<1>5. /\ fd_map'[c][fd] = path
      /\ \A k \in LocalFds : k # fd => fd_map'[c][k] = fd_map[c][k]
      /\ \A d \in Clients : d # c => fd_map'[d] = fd_map[d]
  BY <1>2 DEF ClientTypeOK
<1>6. \A d \in Clients, k \in LocalFds : fd_redir_map[d][k] \in RemoteFds =>
        fd_to_path[fd_redir_map[d][k]] = fd_map'[d][k]
  BY <1>4, <1>5 DEF PathInv
<1>7. \A m \in net' : m.type = "open" => m.path = fd_map'[m.client][m.lfd]
  BY <1>1, <1>2, <1>3, <1>5 DEF PathInv
<1>8. \A m \in net' : m.type = "opened" /\ m.ret \in RemoteFds =>
        fd_to_path[m.ret] = fd_map'[m.client][m.lfd]
  BY <1>1, <1>2, <1>3, <1>5 DEF PathInv
<1> QED BY <1>2, <1>6, <1>7, <1>8 DEF PathInv

LEMMA RemoveFdPath ==
    ASSUME ClientTypeOK, RequestInv, PathInv, NEW c \in Clients, NEW fd \in LocalFds,
           hvac_remove_fd(c, fd)
    PROVE  PathInv'
<1> DEFINE x == CloseMsg(c, Redirected(c, fd))
<1>1. x.type = "close"
  BY DEF CloseMsg
<1> HIDE DEF x
<1>2. /\ net' = net \cup {x} /\ fd_to_path' = fd_to_path /\ call[c] = NoCall
      /\ fd_redir_map' = [fd_redir_map EXCEPT ![c][fd] = NoEntry]
      /\ fd_map' = [fd_map EXCEPT ![c][fd] = NoEntry]
  BY DEF hvac_remove_fd, hvac_client_comm_gen_close_rpc, serverVars, x
<1>3. \A m \in net : m.type \in {"open", "opened"} => m.client \in Clients /\ m.client # c
  BY <1>2, MessageFields DEF RequestInv, EveryRequestIsAwaited, RequestOf, ClientTypeOK
<1>4. \A d \in Clients : d # c => fd_map'[d] = fd_map[d]
  BY <1>2 DEF ClientTypeOK
<1>5. \A d \in Clients, k \in LocalFds : fd_redir_map'[d][k] \in RemoteFds =>
        fd_to_path[fd_redir_map'[d][k]] = fd_map'[d][k]
  BY <1>2, RemoteFdValues DEF PathInv, ClientTypeOK
<1>6. \A m \in net' : m.type = "open" => m.path = fd_map'[m.client][m.lfd]
  BY <1>1, <1>2, <1>3, <1>4 DEF PathInv
<1>7. \A m \in net' : m.type = "opened" /\ m.ret \in RemoteFds =>
        fd_to_path[m.ret] = fd_map'[m.client][m.lfd]
  BY <1>1, <1>2, <1>3, <1>4 DEF PathInv
<1> QED BY <1>2, <1>5, <1>6, <1>7 DEF PathInv

LEMMA OpenCallbackPath ==
    ASSUME ClientTypeOK, PathInv, NEW m \in net, m.type = "opened", hvac_open_cb(m)
    PROVE  PathInv'
<1>1. m.client \in Clients /\ m.lfd \in LocalFds
  BY MessageFields DEF ClientTypeOK
<1>2. /\ fd_redir_map' = [fd_redir_map EXCEPT ![m.client][m.lfd] = m.ret]
      /\ net' = net \ {m} /\ UNCHANGED <<fd_map, fd_to_path>>
  BY DEF hvac_open_cb, serverVars
<1>3. \A d \in Clients, k \in LocalFds : fd_redir_map'[d][k] \in RemoteFds =>
        fd_to_path[fd_redir_map'[d][k]] = fd_map[d][k]
  BY <1>1, <1>2 DEF PathInv, ClientTypeOK
<1> QED BY <1>2, <1>3 DEF PathInv

LEMMA ServeOpenPath ==
    ASSUME ClientTypeOK, ServerInv, HolderInv, PathInv, NEW m \in net, m.type = "open",
           ServeOpen(m)
    PROVE  PathInv'
<1>1. PICK ret \in RemoteFds \cup {BadFd} :
        /\ hvac_open_rpc_handler(m.path, ret)
        /\ Reply(m, OpenedMsg(m.client, m.lfd, ret))
  BY DEF ServeOpen
<1> DEFINE r == OpenedMsg(m.client, m.lfd, ret)
<1>2. r.type = "opened" /\ r.client = m.client /\ r.lfd = m.lfd /\ r.ret = ret
  BY DEF OpenedMsg
<1>3. /\ net' = (net \ {m}) \cup {r} /\ UNCHANGED <<fd_map, fd_redir_map>>
      /\ fd_to_path' = [fd_to_path EXCEPT ![ret] = m.path]
  BY <1>1 DEF Reply, clientVars, hvac_open_rpc_handler
<1> HIDE DEF r
<1>4. \A f \in RemoteFds \cup {BadFd} : fd_to_path'[f] = IF f = ret THEN m.path ELSE fd_to_path[f]
  BY <1>3 DEF ServerInv, ServerTypeOK
<1>5. ret \in RemoteFds => open_fds[ret] = NoEntry
  BY <1>1, RemoteFdValues DEF hvac_open_rpc_handler, OpenSucceeds, OpenFails, FreeFds
<1>6. \A c \in Clients, k \in LocalFds : fd_redir_map[c][k] \in RemoteFds =>
        fd_redir_map[c][k] # ret
  BY <1>5 DEF HolderInv, MapHolds
<1>7. \A n \in net : n.type = "opened" /\ n.ret \in RemoteFds => n.ret # ret
  BY <1>5 DEF HolderInv, Carries
<1>8. \A c \in Clients, k \in LocalFds : fd_redir_map[c][k] \in RemoteFds =>
        fd_to_path'[fd_redir_map[c][k]] = fd_map[c][k]
  BY <1>4, <1>6 DEF PathInv
<1>9. \A n \in net' : n.type = "opened" /\ n.ret \in RemoteFds =>
        fd_to_path'[n.ret] = fd_map[n.client][n.lfd]
  BY <1>2, <1>3, <1>4, <1>7 DEF PathInv
<1> QED BY <1>2, <1>3, <1>8, <1>9 DEF PathInv

LEMMA ServeClosePath ==
    ASSUME ClientTypeOK, ServerInv, HolderInv, PathInv, NEW m \in net, m.type = "close",
           ServeClose(m)
    PROVE  PathInv'
<1>1. net' = net \ {m} /\ UNCHANGED <<fd_map, fd_redir_map>>
  BY DEF ServeClose, clientVars
<1>2. CASE CloseSucceeds(m.fd)
  <2>1. m.fd \in RemoteFds /\ fd_to_path' = [fd_to_path EXCEPT ![m.fd] = NoEntry]
    BY <1>2 DEF CloseSucceeds, IsOpen
  <2>2. \A f \in RemoteFds : f # m.fd => fd_to_path'[f] = fd_to_path[f]
    BY <2>1 DEF ServerInv, ServerTypeOK
  <2>3. \A c \in Clients, k \in LocalFds : fd_redir_map[c][k] # m.fd
    BY <2>1 DEF HolderInv, MapHolds, Carries
  <2>4. \A n \in net : n.type = "opened" => n.ret # m.fd
    BY <2>1 DEF HolderInv, Carries
  <2> QED BY <1>1, <2>2, <2>3, <2>4 DEF PathInv
<1>3. CASE CloseAborts(m.fd)
  BY <1>1, <1>3, PathFrame DEF CloseAborts
<1> QED BY <1>2, <1>3 DEF ServeClose, hvac_close_rpc_handler

LEMMA PathStep ==
    ASSUME ClientTypeOK, ServerInv, RequestInv, HolderInv, PathInv, [Next]_vars
    PROVE  PathInv'
<1>1. ASSUME NEW c \in Clients, Application(c)
      PROVE  PathInv'
  <2>1. PICK fd \in LocalFds :
          \/ \E path \in Paths : hvac_track_file(c, fd, path)
          \/ \E args \in ReadArgs : hvac_remote_read(c, fd, args)
          \/ \E args \in SeekArgs : hvac_remote_lseek(c, fd, args)
          \/ hvac_remove_fd(c, fd)
    BY <1>1 DEF Application
  <2>2. ASSUME NEW args \in ReadArgs, hvac_remote_read(c, fd, args)
        PROVE  PathInv'
    BY <2>2, PathFrame DEF hvac_remote_read, hvac_client_comm_gen_read_rpc, serverVars, ReadMsg
  <2>3. ASSUME NEW args \in SeekArgs, hvac_remote_lseek(c, fd, args)
        PROVE  PathInv'
    BY <2>3, PathFrame DEF hvac_remote_lseek, hvac_client_comm_gen_seek_rpc, serverVars, SeekMsg
  <2> QED BY <2>1, <2>2, <2>3, TrackFilePath, RemoveFdPath
<1>2. ASSUME NEW c \in Clients, hvac_client_block(c)
      PROVE  PathInv'
  BY <1>2, PathFrame DEF hvac_client_block, serverVars
<1>3. ASSUME NEW m \in net, Callback(m)
      PROVE  PathInv'
  <2>1. CASE m.type = "opened" /\ hvac_open_cb(m)
    BY <2>1, OpenCallbackPath
  <2>2. CASE m.type \in {"readDone", "sought"} /\ hvac_read_cb(m)
    BY <2>2, PathFrame DEF hvac_read_cb, serverVars
  <2> QED BY <1>3, <2>1, <2>2 DEF Callback
<1>4. ASSUME NEW m \in net, Serve(m)
      PROVE  PathInv'
  <2>1. CASE m.type = "open" /\ ServeOpen(m)
    BY <2>1, ServeOpenPath
  <2>2. CASE m.type = "read" /\ ServeRead(m)
    BY <2>2, PathFrame DEF ServeRead, Reply, hvac_rpc_handler, clientVars, PushMsg
  <2>3. CASE m.type = "push" /\ hvac_rpc_handler_bulk_cb(m)
    BY <2>3, PathFrame DEF hvac_rpc_handler_bulk_cb, serverVars, ReadDoneMsg
  <2>4. CASE m.type = "seek" /\ ServeSeek(m)
    BY <2>4, PathFrame DEF ServeSeek, Reply, hvac_seek_rpc_handler, clientVars, SoughtMsg
  <2>5. CASE m.type = "close" /\ ServeClose(m)
    BY <2>5, ServeClosePath
  <2> QED BY <1>4, <2>1, <2>2, <2>3, <2>4, <2>5 DEF Serve
<1>5. CASE MoverThread \/ MoverSpuriousWakeup \/ UNCHANGED vars
  BY <1>5, PathFrame DEF MoverThread, MoverSpuriousWakeup, ServerMoverStep,
     ServerSpuriousWakeup, vars, clientVars, serverVars
<1> QED BY <1>1, <1>2, <1>3, <1>4, <1>5 DEF Next

(***************************************************************************)
(* For any number of clients: a read or a seek is sent to, and handled on, *)
(* the remote descriptor of the file its local descriptor was opened on.   *)
(***************************************************************************)
THEOREM RequestsHitTheirFile == Spec => []RequestsHitOwnFile
<1>1. Init => PathInv
  BY PathInit
<1>2. ClientTypeOK /\ ServerInv /\ RequestInv /\ HolderInv /\ PathInv /\ [Next]_vars => PathInv'
  BY PathStep
<1>3. ClientTypeOK /\ RequestInv /\ HolderInv /\ PathInv => RequestsHitOwnFile
  <2> SUFFICES ASSUME ClientTypeOK, RequestInv, HolderInv, PathInv,
                      NEW m \in net, m.type \in {"read", "seek"}, m.fd # BadFd
               PROVE  /\ IsOpen(m.fd)
                      /\ fd_to_path[m.fd] = fd_map[m.client][call[m.client].fd]
    BY DEF RequestsHitOwnFile
  <2>1. m.client \in Clients
    BY MessageFields DEF ClientTypeOK
  <2>2. /\ call[m.client].fd \in LocalFds
        /\ fd_redir_map[m.client][call[m.client].fd] # NoEntry
        /\ m.fd = fd_redir_map[m.client][call[m.client].fd]
    BY DEF RequestInv, EveryRequestIsAwaited, RequestOf
  <2>3. m.fd \in RemoteFds
    BY <2>1, <2>2 DEF ClientTypeOK
  <2> QED BY <2>1, <2>2, <2>3 DEF HolderInv, MapHolds, PathInv, IsOpen
<1> QED BY <1>1, <1>2, <1>3, TypesAndServer, RequestsHold, HoldersHold, PTL DEF Spec

-----------------------------------------------------------------------------
(***************************************************************************)
(* Results of reads.                                                       *)
(***************************************************************************)

\* A response to a read never carries -1: the size it reports is the one of
\* a transfer.
ResponsesCount == \A m \in net : m.type = "readDone" => m.ret >= 0

ResultInv == ResponsesCount /\ ReadNeverFallsBack

\* A step keeps both if it delivers no read response, stores no result, and
\* neither begins a read nor raises done inside one.
LEMMA ResultFrame ==
    ASSUME ResultInv,
           \A m \in net' : m.type = "readDone" => m \in net,
           \A c \in Clients :
               call'[c] # NoCall /\ call'[c].op = "read" /\ done'[c] = 1 =>
                   /\ call'[c] = call[c]
                   /\ done'[c] = done[c]
                   /\ read_ret'[c] = read_ret[c]
    PROVE  ResultInv'
BY DEF ResultInv, ResponsesCount, ReadNeverFallsBack

\* A call that begins lowers done, so nothing is claimed of it yet.
LEMMA ApplicationResult ==
    ASSUME ClientTypeOK, ResultInv, NEW c \in Clients, Application(c)
    PROVE  ResultInv'
<1>1. PICK fd \in LocalFds :
        \/ \E path \in Paths : hvac_track_file(c, fd, path)
        \/ \E args \in ReadArgs : hvac_remote_read(c, fd, args)
        \/ \E args \in SeekArgs : hvac_remote_lseek(c, fd, args)
        \/ hvac_remove_fd(c, fd)
  BY DEF Application
<1>2. ASSUME NEW path \in Paths, hvac_track_file(c, fd, path)
      PROVE  ResultInv'
  BY <1>2, ResultFrame DEF hvac_track_file, hvac_client_comm_gen_open_rpc, OpenMsg, ClientTypeOK
<1>3. ASSUME NEW args \in ReadArgs, hvac_remote_read(c, fd, args)
      PROVE  ResultInv'
  BY <1>3, ResultFrame DEF hvac_remote_read, hvac_client_comm_gen_read_rpc, ReadMsg, ClientTypeOK
<1>4. ASSUME NEW args \in SeekArgs, hvac_remote_lseek(c, fd, args)
      PROVE  ResultInv'
  BY <1>4, ResultFrame DEF hvac_remote_lseek, hvac_client_comm_gen_seek_rpc, SeekMsg, ClientTypeOK
<1>5. CASE hvac_remove_fd(c, fd)
  BY <1>5, ResultFrame DEF hvac_remove_fd, hvac_client_comm_gen_close_rpc, CloseMsg
<1> QED BY <1>1, <1>2, <1>3, <1>4, <1>5

\* A callback meets its own call: an open's or a seek's is not inside a read,
\* and a read's stores what the response carries.
LEMMA CallbackResult ==
    ASSUME ClientTypeOK, RequestInv, ResultInv, NEW m \in net, Callback(m)
    PROVE  ResultInv'
<1>1. m.client \in Clients
  BY MessageFields DEF ClientTypeOK
<1>2. CASE m.type = "opened" /\ hvac_open_cb(m)
  <2>1. call[m.client].op = "open"
    BY <1>2 DEF RequestInv, EveryRequestIsAwaited, RequestOf
  <2> QED BY <1>1, <1>2, <2>1, ResultFrame DEF hvac_open_cb, ClientTypeOK
<1>3. CASE m.type = "sought" /\ hvac_read_cb(m)
  <2>1. call[m.client].op = "seek"
    BY <1>3 DEF RequestInv, EveryRequestIsAwaited, RequestOf
  <2> QED BY <1>1, <1>3, <2>1, ResultFrame DEF hvac_read_cb, ClientTypeOK
<1>4. CASE m.type = "readDone" /\ hvac_read_cb(m)
  <2>1. read_ret'[m.client] >= 0
    BY <1>1, <1>4 DEF hvac_read_cb, ClientTypeOK, ResultInv, ResponsesCount
  <2>2. \A c \in Clients \ {m.client} : done'[c] = done[c] /\ read_ret'[c] = read_ret[c]
    BY <1>4 DEF hvac_read_cb, ClientTypeOK
  <2>3. net' \subseteq net /\ call' = call
    BY <1>4 DEF hvac_read_cb
  <2> QED BY <2>1, <2>2, <2>3 DEF ResultInv, ResponsesCount, ReadNeverFallsBack
<1> QED BY <1>2, <1>3, <1>4 DEF Callback

\* The bulk callback responds with the size of the transfer it ends.
LEMMA ServeResult ==
    ASSUME ClientTypeOK, ResultInv, NEW m \in net, Serve(m)
    PROVE  ResultInv'
<1>1. CASE m.type = "open" /\ ServeOpen(m)
  BY <1>1, ResultFrame DEF ServeOpen, Reply, OpenedMsg, clientVars
<1>2. CASE m.type = "read" /\ ServeRead(m)
  BY <1>2, ResultFrame DEF ServeRead, Reply, PushMsg, clientVars
<1>3. CASE m.type = "push" /\ hvac_rpc_handler_bulk_cb(m)
  <2>1. m.size \in Nat
    BY <1>3, MessageFields DEF ClientTypeOK
  <2>2. ResponsesCount'
    BY <1>3, <2>1 DEF hvac_rpc_handler_bulk_cb, ReadDoneMsg, ResultInv, ResponsesCount
  <2>3. ReadNeverFallsBack'
    BY <1>3 DEF hvac_rpc_handler_bulk_cb, ResultInv, ReadNeverFallsBack
  <2> QED BY <2>2, <2>3 DEF ResultInv
<1>4. CASE m.type = "seek" /\ ServeSeek(m)
  BY <1>4, ResultFrame DEF ServeSeek, Reply, SoughtMsg, clientVars
<1>5. CASE m.type = "close" /\ ServeClose(m)
  BY <1>5, ResultFrame DEF ServeClose, clientVars
<1> QED BY <1>1, <1>2, <1>3, <1>4, <1>5 DEF Serve

LEMMA ResultStep ==
    ASSUME ClientTypeOK, RequestInv, ResultInv, [Next]_vars
    PROVE  ResultInv'
<1>1. ASSUME NEW c \in Clients, hvac_client_block(c)
      PROVE  ResultInv'
  BY <1>1, ResultFrame DEF hvac_client_block, ClientTypeOK
<1>2. CASE MoverThread \/ MoverSpuriousWakeup \/ UNCHANGED vars
  BY <1>2, ResultFrame DEF MoverThread, MoverSpuriousWakeup, vars, clientVars
<1> QED BY <1>1, <1>2, ApplicationResult, CallbackResult, ServeResult DEF Next

(***************************************************************************)
(* For any number of clients with one application thread: a read on a      *)
(* tracked descriptor never returns -1, so the read wrapper never falls    *)
(* back to the local descriptor.                                           *)
(***************************************************************************)
THEOREM ReadsNeverFallBack == Spec => []ReadNeverFallsBack
<1>1. Init => ResultInv
  BY DEF Init, ResultInv, ResponsesCount, ReadNeverFallsBack
<1>2. ClientTypeOK /\ RequestInv /\ ResultInv /\ [Next]_vars => ResultInv'
  BY ResultStep
<1>3. ResultInv => ReadNeverFallsBack
  BY DEF ResultInv
<1> QED BY <1>1, <1>2, <1>3, TypesAndServer, RequestsHold, PTL DEF Spec

-----------------------------------------------------------------------------
(***************************************************************************)
(* The refinement of PosixFiles.  Three facts about a call under way come  *)
(* first, then where the reply and the descriptors of PosixFiles are in a  *)
(* state of the system, then one lemma per action: the abstract step it    *)
(* is, or that it is a stutter.                                            *)
(***************************************************************************)

\* The path of an open is the one its descriptor is tracked under.
OpenCallIsTracked ==
    \A c \in Clients : call[c] # NoCall /\ call[c].op = "open" =>
        fd_map[c][call[c].fd] = call[c].path

\* A request carries the arguments of the call it belongs to.
RequestsCarryArguments ==
    \A m \in net :
        /\ m.type = "read" => /\ call[m.client].count = m.count
                              /\ call[m.client].offset = m.offset
        /\ m.type = "seek" => /\ call[m.client].offset = m.offset
                              /\ call[m.client].whence = m.whence

\* A descriptor that is on its way to its client has not been read from.
NewDescriptorsAtStart ==
    \A m \in net : m.type = "opened" /\ m.ret \in RemoteFds => open_fds[m.ret].pos = 0

CallInv == OpenCallIsTracked /\ RequestsCarryArguments /\ NewDescriptorsAtStart

LEMMA CallInit == Init => CallInv
BY DEF Init, CallInv, OpenCallIsTracked, RequestsCarryArguments, NewDescriptorsAtStart

\* Steps that leave the applications alone and send no request.
LEMMA CallFrame ==
    ASSUME CallInv, UNCHANGED <<call, fd_map>>,
           \A m \in net' : m.type \in {"read", "seek", "opened"} => m \in net,
           \A m \in net' : m.type = "opened" /\ m.ret \in RemoteFds =>
               open_fds'[m.ret].pos = open_fds[m.ret].pos
    PROVE  CallInv'
BY DEF CallInv, OpenCallIsTracked, RequestsCarryArguments, NewDescriptorsAtStart

\* A call that begins: its message, if it is a read or a seek, carries its
\* arguments, and if it is an open, its descriptor is tracked.
LEMMA BeginCall ==
    ASSUME ClientTypeOK, RequestInv, CallInv, NEW c \in Clients, NEW x, NEW k,
           call[c] = NoCall, call' = [call EXCEPT ![c] = k], net' = net \cup {x},
           open_fds' = open_fds, x.client = c, x.type # "opened",
           x.type = "read" => k.count = x.count /\ k.offset = x.offset,
           x.type = "seek" => k.offset = x.offset /\ k.whence = x.whence,
           k.op = "open" => fd_map'[c][k.fd] = k.path,
           \A d \in Clients : d # c => fd_map'[d] = fd_map[d]
    PROVE  CallInv'
<1>1. \A m \in net : m.type # "close" => m.client \in Clients /\ m.client # c
  BY MessageFields DEF RequestInv, EveryRequestIsAwaited, RequestOf, ClientTypeOK
<1>2. call'[c] = k /\ \A d \in Clients : d # c => call'[d] = call[d]
  BY DEF ClientTypeOK
<1>3. OpenCallIsTracked'
  BY <1>2 DEF CallInv, OpenCallIsTracked
<1>4. RequestsCarryArguments'
  BY <1>1, <1>2 DEF CallInv, RequestsCarryArguments
<1>5. NewDescriptorsAtStart'
  BY DEF CallInv, NewDescriptorsAtStart
<1> QED BY <1>3, <1>4, <1>5 DEF CallInv

LEMMA ApplicationCall ==
    ASSUME ClientTypeOK, RequestInv, CallInv, NEW c \in Clients, Application(c)
    PROVE  CallInv'
<1>1. PICK fd \in LocalFds :
        \/ \E path \in Paths : hvac_track_file(c, fd, path)
        \/ \E args \in ReadArgs : hvac_remote_read(c, fd, args)
        \/ \E args \in SeekArgs : hvac_remote_lseek(c, fd, args)
        \/ hvac_remove_fd(c, fd)
  BY DEF Application
<1>2. ASSUME NEW path \in Paths, hvac_track_file(c, fd, path)
      PROVE  CallInv'
  <2> DEFINE x == OpenMsg(c, fd, path)
             k == [op |-> "open", fd |-> fd, path |-> path]
  <2>1. x.client = c /\ x.type = "open" /\ k.op = "open" /\ k.fd = fd /\ k.path = path
    BY DEF OpenMsg
  <2>2. /\ call[c] = NoCall /\ call' = [call EXCEPT ![c] = k] /\ net' = net \cup {x}
        /\ open_fds' = open_fds /\ fd_map' = [fd_map EXCEPT ![c][fd] = path]
    BY <1>2 DEF hvac_track_file, hvac_client_comm_gen_open_rpc, serverVars
  <2> HIDE DEF x, k
  <2>3. fd_map'[c][fd] = path /\ \A d \in Clients : d # c => fd_map'[d] = fd_map[d]
    BY <2>2 DEF ClientTypeOK
  <2> QED BY <2>1, <2>2, <2>3, BeginCall
<1>3. ASSUME NEW args \in ReadArgs, hvac_remote_read(c, fd, args)
      PROVE  CallInv'
  <2> DEFINE x == ReadMsg(c, Redirected(c, fd), args[1], args[2])
             k == [op |-> "read", fd |-> fd, count |-> args[1], offset |-> args[2]]
  <2>1. /\ x.client = c /\ x.type = "read" /\ k.op = "read"
        /\ k.count = x.count /\ k.offset = x.offset
    BY DEF ReadMsg
  <2>2. /\ call[c] = NoCall /\ call' = [call EXCEPT ![c] = k] /\ net' = net \cup {x}
        /\ open_fds' = open_fds /\ fd_map' = fd_map
    BY <1>3 DEF hvac_remote_read, hvac_client_comm_gen_read_rpc, serverVars
  <2> HIDE DEF x, k
  <2> QED BY <2>1, <2>2, BeginCall
<1>4. ASSUME NEW args \in SeekArgs, hvac_remote_lseek(c, fd, args)
      PROVE  CallInv'
  <2> DEFINE x == SeekMsg(c, Redirected(c, fd), args[1], args[2])
             k == [op |-> "seek", fd |-> fd, offset |-> args[1], whence |-> args[2]]
  <2>1. /\ x.client = c /\ x.type = "seek" /\ k.op = "seek"
        /\ k.offset = x.offset /\ k.whence = x.whence
    BY DEF SeekMsg
  <2>2. /\ call[c] = NoCall /\ call' = [call EXCEPT ![c] = k] /\ net' = net \cup {x}
        /\ open_fds' = open_fds /\ fd_map' = fd_map
    BY <1>4 DEF hvac_remote_lseek, hvac_client_comm_gen_seek_rpc, serverVars
  <2> HIDE DEF x, k
  <2> QED BY <2>1, <2>2, BeginCall
<1>5. CASE hvac_remove_fd(c, fd)
  <2> DEFINE x == CloseMsg(c, Redirected(c, fd))
  <2>1. x.type = "close"
    BY DEF CloseMsg
  <2>2. /\ net' = net \cup {x} /\ call[c] = NoCall /\ UNCHANGED <<call, open_fds>>
        /\ fd_map' = [fd_map EXCEPT ![c][fd] = NoEntry]
    BY <1>5 DEF hvac_remove_fd, hvac_client_comm_gen_close_rpc, serverVars
  <2> HIDE DEF x
  <2>3. \A d \in Clients : d # c => fd_map'[d] = fd_map[d]
    BY <2>2 DEF ClientTypeOK
  <2> QED BY <2>1, <2>2, <2>3
          DEF CallInv, OpenCallIsTracked, RequestsCarryArguments, NewDescriptorsAtStart
<1> QED BY <1>1, <1>2, <1>3, <1>4, <1>5

\* The file position of a descriptor that only an open response holds is out
\* of reach: reads and seeks name descriptors in the map, closes carry their
\* own.
LEMMA RequestedIsMapped ==
    ASSUME ClientTypeOK, RequestInv, NEW m \in net, m.type \in {"read", "seek"},
           m.fd \in RemoteFds
    PROVE  /\ m.client \in Clients /\ call[m.client].fd \in LocalFds
           /\ MapHolds(m.client, call[m.client].fd, m.fd)
BY MessageFields DEF RequestInv, EveryRequestIsAwaited, RequestOf, ClientTypeOK, MapHolds

LEMMA ServeOpenCall ==
    ASSUME ClientTypeOK, ServerInv, HolderInv, CallInv, NEW m \in net, m.type = "open",
           ServeOpen(m)
    PROVE  CallInv'
<1>1. PICK ret \in RemoteFds \cup {BadFd} :
        /\ hvac_open_rpc_handler(m.path, ret)
        /\ Reply(m, OpenedMsg(m.client, m.lfd, ret))
  BY DEF ServeOpen
<1> DEFINE r == OpenedMsg(m.client, m.lfd, ret)
<1>2. r.type = "opened" /\ r.ret = ret
  BY DEF OpenedMsg
<1>3. net' = (net \ {m}) \cup {r} /\ UNCHANGED <<call, fd_map>>
  BY <1>1 DEF Reply, clientVars
<1> HIDE DEF r
<1>4. CASE ret = BadFd
  <2>1. open_fds' = open_fds
    BY <1>1, <1>4, RemoteFdValues DEF hvac_open_rpc_handler, OpenSucceeds, OpenFails, FreeFds
  <2> QED BY <1>2, <1>3, <1>4, <2>1, RemoteFdValues
          DEF CallInv, OpenCallIsTracked, RequestsCarryArguments, NewDescriptorsAtStart
<1>5. CASE ret # BadFd
  <2>1. PICK found \in LookupOutcomes(m.path) : OpenSucceeds(m.path, found, ret)
    BY <1>1, <1>5 DEF hvac_open_rpc_handler, OpenFails
  <2>2. PICK g \in OpenedFile(m.path, found) :
          ret \in FreeFds /\ open_fds' = [open_fds EXCEPT ![ret] = g]
    BY <2>1 DEF OpenSucceeds
  <2>3. g.pos = 0
    BY DEF OpenedFile
  <2>4. ret \in RemoteFds /\ open_fds[ret] = NoEntry
    BY <2>2 DEF FreeFds
  <2>5. \A f \in RemoteFds : open_fds'[f] = IF f = ret THEN g ELSE open_fds[f]
    BY <2>2 DEF ServerInv, ServerTypeOK
  <2>6. NewDescriptorsAtStart'
    BY <1>2, <1>3, <2>3, <2>5 DEF CallInv, NewDescriptorsAtStart
  <2> QED BY <1>2, <1>3, <2>6 DEF CallInv, OpenCallIsTracked, RequestsCarryArguments
<1> QED BY <1>4, <1>5

\* A handler that touches only the file position of the descriptor it names.
LEMMA MoveCall ==
    ASSUME ClientTypeOK, RequestInv, HolderInv, CallInv, NEW m \in net, NEW r,
           m.type \in {"read", "seek"}, r.type \notin {"read", "seek", "opened"},
           UNCHANGED <<call, fd_map>>, net' = (net \ {m}) \cup {r},
           \A f \in RemoteFds : f # m.fd => open_fds'[f] = open_fds[f]
    PROVE  CallInv'
<1>1. \A n \in net : n.type = "opened" /\ n.ret \in RemoteFds => n.ret # m.fd
  BY RequestedIsMapped DEF HolderInv, Carries
<1> QED BY <1>1, CallFrame

LEMMA ServeCall ==
    ASSUME ClientTypeOK, ServerInv, RequestInv, HolderInv, CallInv, NEW m \in net, Serve(m)
    PROVE  CallInv'
<1>1. CASE m.type = "open" /\ ServeOpen(m)
  BY <1>1, ServeOpenCall
<1>2. CASE m.type = "read" /\ ServeRead(m)
  <2>0. PICK readbytes \in ReadReturns(m.fd, m.count, m.offset) :
           LET out == ReadOutcome(m.fd, m.count, m.offset, readbytes)
           IN  /\ hvac_rpc_handler(m.fd, m.count, m.offset, readbytes)
               /\ Reply(m, PushMsg(m.client, out.size, out.data))
    BY <1>2 DEF ServeRead
  <2> DEFINE out == ReadOutcome(m.fd, m.count, m.offset, readbytes)
             r == PushMsg(m.client, out.size, out.data)
  <2>1. r.type = "push"
    BY DEF PushMsg
  <2>2. net' = (net \ {m}) \cup {r} /\ UNCHANGED <<call, fd_map>>
    BY <2>0 DEF Reply, clientVars
  <2>3. \A f \in RemoteFds : f # m.fd => open_fds'[f] = open_fds[f]
    BY <2>0 DEF hvac_rpc_handler, ServerInv, ServerTypeOK
  <2> HIDE DEF r
  <2> QED BY <1>2, <2>1, <2>2, <2>3, MoveCall
<1>3. CASE m.type = "push" /\ hvac_rpc_handler_bulk_cb(m)
  BY <1>3, CallFrame DEF hvac_rpc_handler_bulk_cb, ReadDoneMsg, serverVars
<1>4. CASE m.type = "seek" /\ ServeSeek(m)
  <2> DEFINE r == SoughtMsg(m.client, SeekResult(m.fd, m.offset, m.whence))
  <2>1. r.type = "sought"
    BY DEF SoughtMsg
  <2>2. net' = (net \ {m}) \cup {r} /\ UNCHANGED <<call, fd_map>>
    BY <1>4 DEF ServeSeek, Reply, clientVars
  <2>3. \A f \in RemoteFds : f # m.fd => open_fds'[f] = open_fds[f]
    BY <1>4 DEF ServeSeek, hvac_seek_rpc_handler, ServerInv, ServerTypeOK
  <2> HIDE DEF r
  <2> QED BY <1>4, <2>1, <2>2, <2>3, MoveCall
<1>5. CASE m.type = "close" /\ ServeClose(m)
  <2>1. net' = net \ {m} /\ UNCHANGED <<call, fd_map>>
    BY <1>5 DEF ServeClose, clientVars
  <2>2. \A f \in RemoteFds : f # m.fd => open_fds'[f] = open_fds[f]
    BY <1>5 DEF ServeClose, hvac_close_rpc_handler, CloseSucceeds, CloseAborts, ServerInv,
       ServerTypeOK
  <2>3. \A n \in net : n.type = "opened" /\ n.ret \in RemoteFds => n.ret # m.fd
    BY <1>5 DEF HolderInv, Carries
  <2> QED BY <2>1, <2>2, <2>3, CallFrame
<1> QED BY <1>1, <1>2, <1>3, <1>4, <1>5 DEF Serve

LEMMA CallStep ==
    ASSUME ClientTypeOK, ServerInv, RequestInv, HolderInv, CallInv, [Next]_vars
    PROVE  CallInv'
<1>1. ASSUME NEW c \in Clients, hvac_client_block(c)
      PROVE  CallInv'
  <2>1. /\ done[c] = 1 /\ call' = [call EXCEPT ![c] = NoCall]
        /\ UNCHANGED <<fd_map, net, open_fds>>
    BY <1>1 DEF hvac_client_block, serverVars
  <2>2. \A m \in net : m.type # "close" => m.client \in Clients /\ m.client # c
    BY <2>1, MessageFields DEF RequestInv, EveryRequestIsAwaited, RequestOf, ClientTypeOK
  <2>3. \A d \in Clients : call'[d] = IF d = c THEN NoCall ELSE call[d]
    BY <2>1 DEF ClientTypeOK
  <2> QED BY <2>1, <2>2, <2>3
          DEF CallInv, OpenCallIsTracked, RequestsCarryArguments, NewDescriptorsAtStart
<1>2. ASSUME NEW m \in net, Callback(m)
      PROVE  CallInv'
  BY <1>2, CallFrame DEF Callback, hvac_open_cb, hvac_read_cb, serverVars
<1>3. CASE MoverThread \/ MoverSpuriousWakeup \/ UNCHANGED vars
  BY <1>3, CallFrame DEF MoverThread, MoverSpuriousWakeup, ServerMoverStep,
     ServerSpuriousWakeup, vars, clientVars, serverVars
<1> QED BY <1>1, <1>2, <1>3, ApplicationCall, ServeCall DEF Next

-----------------------------------------------------------------------------
\* The reply depends on the call, its results and its messages, nothing else.
LEMMA ReplyFrame ==
    ASSUME NEW c, call'[c] = call[c], done'[c] = done[c], read_ret'[c] = read_ret[c],
           buffer'[c] = buffer[c],
           \A m : m.type # "close" /\ m.client = c => (m \in net' <=> m \in net)
    PROVE  ReplyTo(c)' = ReplyTo(c)
<1> DEFINE of(t) == {m \in MsgOfType(t) : m.client = c}
           Pick(S) == CHOOSE r \in S : TRUE
<1>1. /\ of("push")' = of("push")
      /\ of("readDone")' = of("readDone")
      /\ of("sought")' = of("sought")
  BY DEF MsgOfType
<1> HIDE DEF of
<1>2. Results(c) = {[ret |-> m.size, data |-> m.data] : m \in of("push")}
                       \cup {[ret |-> m.ret, data |-> buffer[c]] : m \in of("readDone")}
                       \cup {[ret |-> m.ret, data |-> NoEntry] : m \in of("sought")}
                       \cup {[ret |-> IF call[c].op = "open" THEN 0 ELSE read_ret[c],
                              data |-> IF call[c].op = "read" THEN buffer[c] ELSE NoEntry]
                                : d \in {done[c]} \cap {1}}
  BY DEF Results, of
<1>3. Results(c)' = Results(c)
  BY <1>1, <1>2 DEF Results, of
<1>4. /\ ReplyTo(c) = IF call[c] = NoCall \/ Results(c) = {} THEN NoReply
                      ELSE Pick(Results(c))
      /\ ReplyTo(c)' = IF call'[c] = NoCall \/ Results(c)' = {} THEN NoReply
                       ELSE Pick(Results(c)')
  BY DEF ReplyTo
<1> HIDE DEF Pick
<1> QED BY <1>3, <1>4

LEMMA PickOnly == \A r : (CHOOSE x \in {r} : TRUE) = r
OBVIOUS

\* Where the reply is, while the call is under way.
ReplyPlaces ==
    /\ \A c \in Clients : call[c] = NoCall => ReplyTo(c) = NoReply
    /\ \A m \in net :
        /\ m.type \in {"open", "opened", "read", "seek"} => ReplyTo(m.client) = NoReply
        /\ m.type = "push" => ReplyTo(m.client) = [ret |-> m.size, data |-> m.data]
        /\ m.type = "readDone" => ReplyTo(m.client) = [ret |-> m.ret, data |-> buffer[m.client]]
        /\ m.type = "sought" => ReplyTo(m.client) = [ret |-> m.ret, data |-> NoEntry]
    /\ \A c \in Clients : call[c] # NoCall /\ done[c] = 1 =>
           ReplyTo(c) = [ret |-> IF call[c].op = "open" THEN 0 ELSE read_ret[c],
                         data |-> IF call[c].op = "read" THEN buffer[c] ELSE NoEntry]

LEMMA ReplyIsSomewhere == RequestInv => ReplyPlaces
<1> SUFFICES ASSUME RequestInv PROVE ReplyPlaces
  OBVIOUS
<1> DEFINE of(c, t) == {m \in MsgOfType(t) : m.client = c}
           stored(c) == [ret |-> IF call[c].op = "open" THEN 0 ELSE read_ret[c],
                         data |-> IF call[c].op = "read" THEN buffer[c] ELSE NoEntry]
<1>1. \A c : Results(c) = {[ret |-> m.size, data |-> m.data] : m \in of(c, "push")}
                       \cup {[ret |-> m.ret, data |-> buffer[c]] : m \in of(c, "readDone")}
                       \cup {[ret |-> m.ret, data |-> NoEntry] : m \in of(c, "sought")}
                       \cup {stored(c) : d \in {done[c]} \cap {1}}
  BY DEF Results
<1>2. \A c : call[c] = NoCall \/ Results(c) = {} => ReplyTo(c) = NoReply
  BY DEF ReplyTo
<1>3. ASSUME NEW c, NEW r, call[c] # NoCall, Results(c) = {r}
      PROVE  ReplyTo(c) = r
  BY <1>3, PickOnly DEF ReplyTo
<1>4. ASSUME NEW m \in net, m.type # "close"
      PROVE  /\ call[m.client] # NoCall
             /\ {done[m.client]} \cap {1} = {}
             /\ \A t \in {"push", "readDone", "sought"} :
                    of(m.client, t) = IF m.type = t THEN {m} ELSE {}
  BY <1>4 DEF RequestInv, EveryRequestIsAwaited, RequestOf, OneRequestPerClient, MsgOfType
<1>5. ASSUME NEW c \in Clients, call[c] # NoCall, done[c] = 1
      PROVE  Results(c) = {stored(c)}
  <2>1. \A t \in {"push", "readDone", "sought"} : of(c, t) = {}
    BY <1>5 DEF RequestInv, EveryRequestIsAwaited, RequestOf, MsgOfType
  <2>2. {done[c]} \cap {1} = {1}
    BY <1>5
  <2> HIDE DEF of, stored
  <2> QED BY <1>1, <2>1, <2>2
<1> HIDE DEF of, stored
<1>6. ASSUME NEW m \in net, m.type \in {"open", "opened", "read", "seek"}
      PROVE  ReplyTo(m.client) = NoReply
  <2>1. Results(m.client) = {}
    BY <1>1, <1>4, <1>6
  <2> QED BY <1>2, <2>1
<1>7. ASSUME NEW m \in net, m.type = "push"
      PROVE  ReplyTo(m.client) = [ret |-> m.size, data |-> m.data]
  <2>1. Results(m.client) = {[ret |-> m.size, data |-> m.data]}
    BY <1>1, <1>4, <1>7
  <2>2. call[m.client] # NoCall
    BY <1>4, <1>7
  <2> QED BY <1>3, <2>1, <2>2
<1>8. ASSUME NEW m \in net, m.type = "readDone"
      PROVE  ReplyTo(m.client) = [ret |-> m.ret, data |-> buffer[m.client]]
  <2>1. Results(m.client) = {[ret |-> m.ret, data |-> buffer[m.client]]}
    BY <1>1, <1>4, <1>8
  <2>2. call[m.client] # NoCall
    BY <1>4, <1>8
  <2> QED BY <1>3, <2>1, <2>2
<1>9. ASSUME NEW m \in net, m.type = "sought"
      PROVE  ReplyTo(m.client) = [ret |-> m.ret, data |-> NoEntry]
  <2>1. Results(m.client) = {[ret |-> m.ret, data |-> NoEntry]}
    BY <1>1, <1>4, <1>9
  <2>2. call[m.client] # NoCall
    BY <1>4, <1>9
  <2> QED BY <1>3, <2>1, <2>2
<1>10. ASSUME NEW c \in Clients, call[c] # NoCall, done[c] = 1
       PROVE  ReplyTo(c) = stored(c)
  BY <1>3, <1>5, <1>10
<1> QED BY <1>2, <1>6, <1>7, <1>8, <1>9, <1>10 DEF ReplyPlaces, stored

LEMMA ReplyIsSomewhereNext == RequestInv' => ReplyPlaces'
BY ReplyIsSomewhere, PTL

-----------------------------------------------------------------------------
\* A local descriptor, by what it is redirected to.
DescriptorPlaces ==
    \A c \in Clients, fd \in LocalFds :
        /\ fd_redir_map[c][fd] = NoEntry => Descriptor(c, fd) = NoEntry
        /\ fd_redir_map[c][fd] = BadFd =>
               Descriptor(c, fd) = [path |-> fd_map[c][fd], pos |-> 0, good |-> FALSE]
        /\ fd_redir_map[c][fd] \in RemoteFds =>
               Descriptor(c, fd) = [path |-> fd_map[c][fd],
                                    pos |-> open_fds[fd_redir_map[c][fd]].pos,
                                    good |-> TRUE]

LEMMA DescriptorNow == ClientTypeOK => DescriptorPlaces
BY RemoteFdValues DEF Descriptor, DescriptorPlaces

LEMMA DescriptorNext == ClientTypeOK' => DescriptorPlaces'
BY DescriptorNow, PTL

LEMMA DescriptorFrame ==
    ASSUME ClientTypeOK, ClientTypeOK', NEW c \in Clients, NEW fd \in LocalFds,
           fd_redir_map'[c][fd] = fd_redir_map[c][fd],
           fd_redir_map[c][fd] # NoEntry => fd_map'[c][fd] = fd_map[c][fd],
           fd_redir_map[c][fd] \in RemoteFds =>
               open_fds'[fd_redir_map[c][fd]] = open_fds[fd_redir_map[c][fd]]
    PROVE  Descriptor(c, fd)' = Descriptor(c, fd)
<1>1. fd_redir_map[c][fd] \in RemoteFds \cup {BadFd, NoEntry}
  BY DEF ClientTypeOK
<1>2. DescriptorPlaces /\ DescriptorPlaces'
  BY DescriptorNow, DescriptorNext
<1>3. CASE fd_redir_map[c][fd] = NoEntry
  BY <1>2, <1>3 DEF DescriptorPlaces
<1>4. CASE fd_redir_map[c][fd] # NoEntry
  BY <1>1, <1>2, <1>4 DEF DescriptorPlaces
<1> QED BY <1>3, <1>4

-----------------------------------------------------------------------------
\* The mapped variables.
Desc == [c \in Clients |-> [fd \in LocalFds |-> Descriptor(c, fd)]]
Replies == [c \in Clients |-> ReplyTo(c)]

OthersKeepDescriptors(c, fd) ==
    \A d \in Clients, k \in LocalFds :
        <<d, k>> # <<c, fd>> => Descriptor(d, k)' = Descriptor(d, k)

OthersKeepReplies(c) == \A d \in Clients : d # c => ReplyTo(d)' = ReplyTo(d)

LEMMA SameDescriptors ==
    ASSUME NEW c \in Clients, NEW fd \in LocalFds,
           OthersKeepDescriptors(c, fd), Descriptor(c, fd)' = Descriptor(c, fd)
    PROVE  Desc' = Desc
BY DEF Desc, OthersKeepDescriptors

LEMMA NewDescriptor ==
    ASSUME NEW c \in Clients, NEW fd \in LocalFds, NEW v,
           OthersKeepDescriptors(c, fd), Descriptor(c, fd)' = v
    PROVE  Desc' = [Desc EXCEPT ![c][fd] = v]
BY DEF Desc, OthersKeepDescriptors

LEMMA MovedDescriptor ==
    ASSUME NEW c \in Clients, NEW fd \in LocalFds, NEW a, NEW b, NEW g, NEW p,
           OthersKeepDescriptors(c, fd),
           Descriptor(c, fd) = [path |-> a, pos |-> b, good |-> g],
           Descriptor(c, fd)' = [path |-> a, pos |-> p, good |-> g]
    PROVE  Desc' = [Desc EXCEPT ![c][fd].pos = p]
<1>1. Desc[c][fd] = [path |-> a, pos |-> b, good |-> g]
  BY DEF Desc
<1>2. [Desc[c][fd] EXCEPT !.pos = p] = [path |-> a, pos |-> p, good |-> g]
  BY <1>1
<1>3. Desc' = [Desc EXCEPT ![c][fd] = [Desc[c][fd] EXCEPT !.pos = p]]
  BY <1>2, NewDescriptor
<1> QED BY <1>3

LEMMA SameReplies ==
    ASSUME NEW c \in Clients, OthersKeepReplies(c), ReplyTo(c)' = ReplyTo(c)
    PROVE  Replies' = Replies
BY DEF Replies, OthersKeepReplies

LEMMA NewReply ==
    ASSUME NEW c \in Clients, NEW v, OthersKeepReplies(c), ReplyTo(c)' = v
    PROVE  Replies' = [Replies EXCEPT ![c] = v]
BY DEF Replies, OthersKeepReplies

\* The state before and after a step.
SystemInv == ClientTypeOK /\ ServerInv /\ RequestInv /\ HolderInv /\ PathInv /\ CallInv

LEMMA Places == SystemInv => ReplyPlaces /\ DescriptorPlaces
BY ReplyIsSomewhere, DescriptorNow DEF SystemInv

LEMMA PlacesNext == SystemInv' => ReplyPlaces' /\ DescriptorPlaces'
BY Places, PTL

LEMMA HandlesAreEntries ==
    \A p \in Paths, n \in Nat, b \in BOOLEAN : [path |-> p, pos |-> n, good |-> b] # NoEntry
<1>1. \A p \in Paths, n \in Nat, b \in BOOLEAN :
        [path |-> p, pos |-> n, good |-> b] \in [path : Paths, pos : Nat, good : BOOLEAN]
  OBVIOUS
<1> QED BY <1>1, SystemAssumption, Zenon

\* Redirected descriptors are good or bad handles, never "not open".
LEMMA DescriptorOpen ==
    ASSUME SystemInv, NEW c \in Clients, NEW fd \in LocalFds, fd_redir_map[c][fd] # NoEntry
    PROVE  Descriptor(c, fd) # NoEntry
<1>1. fd_map[c][fd] \in Paths
  BY DEF SystemInv, RequestInv, RedirectedIsTracked, ClientTypeOK
<1>2. CASE fd_redir_map[c][fd] = BadFd
  <2>1. Descriptor(c, fd) = [path |-> fd_map[c][fd], pos |-> 0, good |-> FALSE]
    BY <1>2, Places DEF DescriptorPlaces
  <2>2. 0 \in Nat /\ FALSE \in BOOLEAN
    OBVIOUS
  <2> QED BY <1>1, <2>1, <2>2, HandlesAreEntries, Zenon
<1>3. CASE fd_redir_map[c][fd] \in RemoteFds
  <2>1. open_fds[fd_redir_map[c][fd]] \in OpenFile
    BY <1>3 DEF SystemInv, HolderInv, MapHolds, ServerInv, ServerTypeOK
  <2>2. open_fds[fd_redir_map[c][fd]].pos \in Nat
    BY <2>1 DEF OpenFile
  <2>3. /\ TRUE \in BOOLEAN
        /\ Descriptor(c, fd) = [path |-> fd_map[c][fd],
                                pos |-> open_fds[fd_redir_map[c][fd]].pos, good |-> TRUE]
    BY <1>3, Places DEF DescriptorPlaces
  <2> QED BY <1>1, <2>2, <2>3, HandlesAreEntries, Zenon
<1> QED BY <1>2, <1>3 DEF SystemInv, ClientTypeOK

-----------------------------------------------------------------------------
\* The application begins a call.
LEMMA BeginStep ==
    ASSUME SystemInv, SystemInv', NEW c \in Clients, NEW x, NEW k,
           x.client = c, x.type \in {"open", "read", "seek"},
           net' = net \cup {x}, call[c] = NoCall, call' = [call EXCEPT ![c] = k],
           \A d \in Clients : d # c => /\ done'[d] = done[d]
                                       /\ read_ret'[d] = read_ret[d]
                                       /\ buffer'[d] = buffer[d],
           \A d \in Clients, fd \in LocalFds :
               fd_redir_map[d][fd] # NoEntry => fd_map'[d][fd] = fd_map[d][fd],
           UNCHANGED <<fd_redir_map, open_fds>>
    PROVE  Posix!Begin(c, k)
<1>1. \A d \in Clients, fd \in LocalFds : Descriptor(d, fd)' = Descriptor(d, fd)
  BY DescriptorFrame DEF SystemInv
<1>2. ReplyTo(c) = NoReply /\ ReplyTo(c)' = NoReply
  BY Places, PlacesNext DEF ReplyPlaces
<1>3. OthersKeepReplies(c)
  <2> SUFFICES ASSUME NEW d \in Clients, d # c
               PROVE  ReplyTo(d)' = ReplyTo(d)
    BY DEF OthersKeepReplies
  <2>1. call'[d] = call[d]
    BY DEF SystemInv, ClientTypeOK
  <2>2. \A m : m.type # "close" /\ m.client = d => (m \in net' <=> m \in net)
    OBVIOUS
  <2> QED BY <2>1, <2>2, ReplyFrame
<1>4. Desc' = Desc
  BY <1>1 DEF Desc
<1>5. Replies' = Replies
  BY <1>2, <1>3, SameReplies
<1> QED BY <1>4, <1>5 DEF Posix!Begin, Desc, Replies

LEMMA OpenBegins ==
    ASSUME SystemInv, SystemInv', NEW c \in Clients, NEW fd \in LocalFds,
           NEW path \in Paths, hvac_track_file(c, fd, path)
    PROVE  Posix!CallOpen(c, fd, path)
<1> DEFINE x == OpenMsg(c, fd, path)
           k == [op |-> "open", fd |-> fd, path |-> path]
<1>1. x.client = c /\ x.type = "open"
  BY DEF OpenMsg
<1>2. /\ net' = net \cup {x} /\ call[c] = NoCall /\ call' = [call EXCEPT ![c] = k]
      /\ done' = [done EXCEPT ![c] = 0] /\ fd_map' = [fd_map EXCEPT ![c][fd] = path]
      /\ fd_map[c][fd] = NoEntry
      /\ UNCHANGED <<read_ret, buffer, fd_redir_map, open_fds>>
  BY DEF hvac_track_file, hvac_client_comm_gen_open_rpc, serverVars
<1> HIDE DEF x
<1>3. \A d \in Clients : d # c => done'[d] = done[d]
  BY <1>2 DEF SystemInv, ClientTypeOK
<1>4. fd_redir_map[c][fd] = NoEntry
  BY <1>2 DEF SystemInv, RequestInv, RedirectedIsTracked
<1>5. \A d \in Clients, l \in LocalFds :
        fd_redir_map[d][l] # NoEntry => fd_map'[d][l] = fd_map[d][l]
  BY <1>2, <1>4 DEF SystemInv, ClientTypeOK
<1>6. Posix!Begin(c, k)
  <2> HIDE DEF k
  <2> QED BY <1>1, <1>2, <1>3, <1>5, BeginStep
<1>7. Descriptor(c, fd) = NoEntry
  BY <1>4, Places DEF DescriptorPlaces
<1> QED BY <1>6, <1>7 DEF Posix!CallOpen

LEMMA ReadBegins ==
    ASSUME SystemInv, SystemInv', NEW c \in Clients, NEW fd \in LocalFds,
           NEW args \in ReadArgs, hvac_remote_read(c, fd, args)
    PROVE  Posix!CallRead(c, fd, args)
<1> DEFINE x == ReadMsg(c, Redirected(c, fd), args[1], args[2])
           k == [op |-> "read", fd |-> fd, count |-> args[1], offset |-> args[2]]
<1>1. x.client = c /\ x.type = "read"
  BY DEF ReadMsg
<1>2. /\ net' = net \cup {x} /\ call[c] = NoCall /\ call' = [call EXCEPT ![c] = k]
      /\ done' = [done EXCEPT ![c] = 0] /\ read_ret' = [read_ret EXCEPT ![c] = -1]
      /\ fd_map[c][fd] # NoEntry
      /\ UNCHANGED <<fd_map, buffer, fd_redir_map, open_fds>>
  BY DEF hvac_remote_read, hvac_client_comm_gen_read_rpc, serverVars
<1> HIDE DEF x
<1>3. \A d \in Clients : d # c => done'[d] = done[d] /\ read_ret'[d] = read_ret[d]
  BY <1>2 DEF SystemInv, ClientTypeOK
<1>4. Posix!Begin(c, k)
  <2> HIDE DEF k
  <2> QED BY <1>1, <1>2, <1>3, BeginStep
<1>5. Descriptor(c, fd) # NoEntry
  BY <1>2, DescriptorOpen DEF SystemInv, RequestInv, TrackedIsRedirected
<1> QED BY <1>4, <1>5 DEF Posix!CallRead

LEMMA SeekBegins ==
    ASSUME SystemInv, SystemInv', NEW c \in Clients, NEW fd \in LocalFds,
           NEW args \in SeekArgs, hvac_remote_lseek(c, fd, args)
    PROVE  Posix!CallSeek(c, fd, args)
<1> DEFINE x == SeekMsg(c, Redirected(c, fd), args[1], args[2])
           k == [op |-> "seek", fd |-> fd, offset |-> args[1], whence |-> args[2]]
<1>1. x.client = c /\ x.type = "seek"
  BY DEF SeekMsg
<1>2. /\ net' = net \cup {x} /\ call[c] = NoCall /\ call' = [call EXCEPT ![c] = k]
      /\ done' = [done EXCEPT ![c] = 0] /\ read_ret' = [read_ret EXCEPT ![c] = -1]
      /\ fd_map[c][fd] # NoEntry
      /\ UNCHANGED <<fd_map, buffer, fd_redir_map, open_fds>>
  BY DEF hvac_remote_lseek, hvac_client_comm_gen_seek_rpc, serverVars
<1> HIDE DEF x
<1>3. \A d \in Clients : d # c => done'[d] = done[d] /\ read_ret'[d] = read_ret[d]
  BY <1>2 DEF SystemInv, ClientTypeOK
<1>4. Posix!Begin(c, k)
  <2> HIDE DEF k
  <2> QED BY <1>1, <1>2, <1>3, BeginStep
<1>5. Descriptor(c, fd) # NoEntry
  BY <1>2, DescriptorOpen DEF SystemInv, RequestInv, TrackedIsRedirected
<1> QED BY <1>4, <1>5 DEF Posix!CallSeek

\* close takes effect for the application when it forgets the descriptor.
LEMMA CloseIsClose ==
    ASSUME SystemInv, SystemInv', NEW c \in Clients, NEW fd \in LocalFds, hvac_remove_fd(c, fd)
    PROVE  Posix!Close(c, fd)
<1> DEFINE x == CloseMsg(c, Redirected(c, fd))
<1>1. x.type = "close"
  BY DEF CloseMsg
<1> HIDE DEF x
<1>2. /\ net' = net \cup {x} /\ call[c] = NoCall
      /\ fd_map' = [fd_map EXCEPT ![c][fd] = NoEntry]
      /\ fd_redir_map' = [fd_redir_map EXCEPT ![c][fd] = NoEntry]
      /\ fd_map[c][fd] # NoEntry
      /\ UNCHANGED <<call, done, read_ret, buffer, open_fds>>
  BY DEF hvac_remove_fd, hvac_client_comm_gen_close_rpc, serverVars, x
<1>3. Descriptor(c, fd) # NoEntry
  BY <1>2, DescriptorOpen DEF SystemInv, RequestInv, TrackedIsRedirected
<1>4. Descriptor(c, fd)' = NoEntry
  <2>1. fd_redir_map'[c][fd] = NoEntry
    BY <1>2 DEF SystemInv, ClientTypeOK
  <2> QED BY <2>1, PlacesNext DEF DescriptorPlaces
<1>5. OthersKeepDescriptors(c, fd)
  <2> SUFFICES ASSUME NEW d \in Clients, NEW l \in LocalFds, d # c \/ l # fd
               PROVE  Descriptor(d, l)' = Descriptor(d, l)
    BY DEF OthersKeepDescriptors
  <2>1. fd_redir_map'[d][l] = fd_redir_map[d][l] /\ fd_map'[d][l] = fd_map[d][l]
    BY <1>2 DEF SystemInv, ClientTypeOK
  <2> QED BY <1>2, <2>1, DescriptorFrame DEF SystemInv
<1>6. Desc' = [Desc EXCEPT ![c][fd] = NoEntry]
  BY <1>4, <1>5, NewDescriptor
<1>7. \A d \in Clients : ReplyTo(d)' = ReplyTo(d)
  BY <1>1, <1>2, ReplyFrame
<1>8. Replies' = Replies
  BY <1>7 DEF Replies
<1> QED BY <1>2, <1>3, <1>6, <1>8 DEF Posix!Close, Desc, Replies

\* The application thread leaves its call with the reply.
LEMMA BlockReturns ==
    ASSUME SystemInv, SystemInv', NEW c \in Clients, hvac_client_block(c)
    PROVE  Posix!Return(c)
<1>1. /\ call[c] # NoCall /\ done[c] = 1 /\ call' = [call EXCEPT ![c] = NoCall]
      /\ UNCHANGED <<fd_map, fd_redir_map, done, read_ret, buffer, net, open_fds>>
  BY DEF hvac_client_block, serverVars
<1>2. ReplyTo(c) # NoReply
  <2> DEFINE ret == IF call[c].op = "open" THEN 0 ELSE read_ret[c]
             data == IF call[c].op = "read" THEN buffer[c] ELSE NoEntry
  <2>1. ReplyTo(c) = [ret |-> ret, data |-> data]
    BY <1>1, Places DEF ReplyPlaces
  <2>2. ret \in Int /\ data \in Data \cup {NoEntry}
    BY DEF SystemInv, ClientTypeOK
  <2> HIDE DEF ret, data
  <2> QED BY <2>1, <2>2, SystemAssumption
<1>3. ReplyTo(c)' = NoReply
  BY <1>1, PlacesNext DEF ReplyPlaces, SystemInv, ClientTypeOK
<1>4. OthersKeepReplies(c)
  <2> SUFFICES ASSUME NEW d \in Clients, d # c
               PROVE  ReplyTo(d)' = ReplyTo(d)
    BY DEF OthersKeepReplies
  <2>1. call'[d] = call[d]
    BY <1>1 DEF SystemInv, ClientTypeOK
  <2> QED BY <1>1, <2>1, ReplyFrame
<1>5. Replies' = [Replies EXCEPT ![c] = NoReply]
  BY <1>3, <1>4, NewReply
<1>6. \A d \in Clients, fd \in LocalFds : Descriptor(d, fd)' = Descriptor(d, fd)
  BY <1>1, DescriptorFrame DEF SystemInv
<1>7. Desc' = Desc
  BY <1>6 DEF Desc
<1> QED BY <1>1, <1>2, <1>5, <1>7 DEF Posix!Return, Desc, Replies

\* A message that is handled leaves the other clients' replies alone.
LEMMA HandlingReplies ==
    ASSUME NEW c \in Clients,
           \A n : n.client # c => (n \in net' <=> n \in net),
           call' = call,
           \A d \in Clients : d # c => /\ done'[d] = done[d]
                                       /\ read_ret'[d] = read_ret[d]
                                       /\ buffer'[d] = buffer[d]
    PROVE  OthersKeepReplies(c)
BY ReplyFrame DEF OthersKeepReplies

Stutter == Desc' = Desc /\ Replies' = Replies /\ call' = call

LEMMA StutterIsStutter == Stutter => UNCHANGED Posix!vars
BY DEF Stutter, Posix!vars, Desc, Replies

\* An open takes effect when its callback stores the remote descriptor.
LEMMA OpenCallbackOpens ==
    ASSUME SystemInv, SystemInv', NEW m \in net, m.type = "opened", hvac_open_cb(m)
    PROVE  Posix!Open(m.client)
<1> DEFINE c == m.client
           fd == m.lfd
<1>1. /\ c \in Clients /\ fd \in LocalFds /\ m.ret \in RemoteFds \cup {BadFd}
      /\ call[c] # NoCall /\ call[c].op = "open" /\ call[c].fd = fd /\ done[c] = 0
  BY MessageFields DEF SystemInv, ClientTypeOK, RequestInv, EveryRequestIsAwaited, RequestOf
<1>2. /\ fd_redir_map' = [fd_redir_map EXCEPT ![c][fd] = m.ret]
      /\ done' = [done EXCEPT ![c] = @ + 1] /\ net' = net \ {m}
      /\ UNCHANGED <<fd_map, call, read_ret, buffer, open_fds>>
  BY DEF hvac_open_cb, serverVars
<1>3. fd_map[c][fd] = call[c].path
  BY <1>1 DEF SystemInv, CallInv, OpenCallIsTracked
<1>4. \E good \in BOOLEAN : Descriptor(c, fd)' = [path |-> call[c].path, pos |-> 0, good |-> good]
  <2>1. fd_redir_map'[c][fd] = m.ret /\ fd_map'[c][fd] = call[c].path
    BY <1>1, <1>2, <1>3 DEF SystemInv, ClientTypeOK
  <2>2. CASE m.ret = BadFd
    <3>1. Descriptor(c, fd)' = [path |-> call[c].path, pos |-> 0, good |-> FALSE]
      BY <1>1, <2>1, <2>2, PlacesNext DEF DescriptorPlaces
    <3> QED BY <3>1
  <2>3. CASE m.ret \in RemoteFds
    <3>1. open_fds'[m.ret].pos = 0
      BY <1>2, <2>3 DEF SystemInv, CallInv, NewDescriptorsAtStart
    <3>2. Descriptor(c, fd)' = [path |-> call[c].path, pos |-> 0, good |-> TRUE]
      BY <1>1, <2>1, <2>3, <3>1, PlacesNext DEF DescriptorPlaces
    <3> QED BY <3>2
  <2> QED BY <1>1, <2>2, <2>3
<1>5. OthersKeepDescriptors(c, fd)
  <2> SUFFICES ASSUME NEW d \in Clients, NEW l \in LocalFds, d # c \/ l # fd
               PROVE  Descriptor(d, l)' = Descriptor(d, l)
    BY DEF OthersKeepDescriptors
  <2>1. fd_redir_map'[d][l] = fd_redir_map[d][l]
    BY <1>1, <1>2 DEF SystemInv, ClientTypeOK
  <2> QED BY <1>2, <2>1, DescriptorFrame DEF SystemInv
<1>6. \E good \in BOOLEAN :
        Desc' = [Desc EXCEPT ![c][fd] = [path |-> call[c].path, pos |-> 0, good |-> good]]
  BY <1>1, <1>4, <1>5, NewDescriptor
<1>7. ReplyTo(c)' = [ret |-> 0, data |-> NoEntry]
  <2>1. done'[c] = 1 /\ call'[c] # NoCall /\ call'[c].op = "open"
    BY <1>1, <1>2 DEF SystemInv, ClientTypeOK
  <2> QED BY <1>1, <2>1, PlacesNext DEF ReplyPlaces
<1>8. OthersKeepReplies(c)
  <2>1. \A d \in Clients : d # c => done'[d] = done[d]
    BY <1>1, <1>2 DEF SystemInv, ClientTypeOK
  <2>2. \A n : n.client # c => (n \in net' <=> n \in net)
    BY <1>2
  <2> QED BY <1>1, <1>2, <2>1, <2>2, HandlingReplies
<1>9. Replies' = [Replies EXCEPT ![c] = [ret |-> 0, data |-> NoEntry]]
  BY <1>1, <1>7, <1>8, NewReply
<1>10. ReplyTo(c) = NoReply
  BY Places DEF ReplyPlaces
<1>11. Posix!Pending(c, "open")
  BY <1>1, <1>10 DEF Posix!Pending
<1> QED BY <1>1, <1>2, <1>6, <1>9, <1>11 DEF Posix!Open, Posix!Answer, Desc, Replies

\* The callback of a read or a seek only takes the reply from the message.
LEMMA ReadCallbackStutters ==
    ASSUME SystemInv, SystemInv', NEW m \in net, m.type \in {"readDone", "sought"},
           hvac_read_cb(m)
    PROVE  Stutter
<1> DEFINE c == m.client
<1>1. /\ c \in Clients /\ call[c] # NoCall /\ done[c] = 0
      /\ m.type = "readDone" => call[c].op = "read"
      /\ m.type = "sought" => call[c].op = "seek"
  BY MessageFields DEF SystemInv, ClientTypeOK, RequestInv, EveryRequestIsAwaited, RequestOf
<1>2. /\ done' = [done EXCEPT ![c] = @ + 1] /\ read_ret' = [read_ret EXCEPT ![c] = m.ret]
      /\ net' = net \ {m}
      /\ UNCHANGED <<fd_map, fd_redir_map, call, buffer, open_fds>>
  BY DEF hvac_read_cb, serverVars
<1>3. done'[c] = 1 /\ read_ret'[c] = m.ret
  BY <1>1, <1>2 DEF SystemInv, ClientTypeOK
<1>4. ReplyTo(c)' = ReplyTo(c)
  <2>1. CASE m.type = "readDone"
    <3>1. ReplyTo(c)' = [ret |-> m.ret, data |-> buffer[c]]
      BY <1>1, <1>2, <1>3, <2>1, PlacesNext DEF ReplyPlaces
    <3> QED BY <2>1, <3>1, Places DEF ReplyPlaces
  <2>2. CASE m.type = "sought"
    <3>1. ReplyTo(c)' = [ret |-> m.ret, data |-> NoEntry]
      BY <1>1, <1>2, <1>3, <2>2, PlacesNext DEF ReplyPlaces
    <3> QED BY <2>2, <3>1, Places DEF ReplyPlaces
  <2> QED BY <2>1, <2>2
<1>5. OthersKeepReplies(c)
  <2>1. \A d \in Clients : d # c => done'[d] = done[d] /\ read_ret'[d] = read_ret[d]
    BY <1>1, <1>2 DEF SystemInv, ClientTypeOK
  <2>2. \A n : n.client # c => (n \in net' <=> n \in net)
    BY <1>2
  <2> QED BY <1>1, <1>2, <2>1, <2>2, HandlingReplies
<1>6. Replies' = Replies
  BY <1>1, <1>4, <1>5, SameReplies
<1>7. \A d \in Clients, fd \in LocalFds : Descriptor(d, fd)' = Descriptor(d, fd)
  BY <1>2, DescriptorFrame DEF SystemInv
<1> QED BY <1>2, <1>6, <1>7 DEF Stutter, Desc

-----------------------------------------------------------------------------
\* The handlers of open and close work on descriptors that no client holds.
LEMMA UnheldStutters ==
    ASSUME SystemInv, SystemInv', UNCHANGED <<fd_map, fd_redir_map>>,
           NEW f, \A c \in Clients, k \in LocalFds : fd_redir_map[c][k] # f,
           \A g \in RemoteFds : g # f => open_fds'[g] = open_fds[g]
    PROVE  Desc' = Desc
<1>1. \A d \in Clients, fd \in LocalFds : Descriptor(d, fd)' = Descriptor(d, fd)
  BY DescriptorFrame DEF SystemInv
<1> QED BY <1>1 DEF Desc

\* What a handler that answers does to the replies.
LEMMA AnswerReplies ==
    ASSUME SystemInv, NEW m \in net, NEW r, r.client = m.client, Reply(m, r)
    PROVE  OthersKeepReplies(m.client)
<1>1. m.client \in Clients
  BY MessageFields DEF SystemInv, ClientTypeOK
<1>2. net' = (net \ {m}) \cup {r} /\ UNCHANGED <<call, done, read_ret, buffer>>
  BY DEF Reply, clientVars
<1>3. \A n : n.client # m.client => (n \in net' <=> n \in net)
  BY <1>2
<1> QED BY <1>1, <1>2, <1>3, HandlingReplies

LEMMA ServeOpenStutters ==
    ASSUME SystemInv, SystemInv', NEW m \in net, m.type = "open", ServeOpen(m)
    PROVE  Stutter
<1>1. PICK ret \in RemoteFds \cup {BadFd} :
        /\ hvac_open_rpc_handler(m.path, ret)
        /\ Reply(m, OpenedMsg(m.client, m.lfd, ret))
  BY DEF ServeOpen
<1> DEFINE r == OpenedMsg(m.client, m.lfd, ret)
<1>2. r.type = "opened" /\ r.client = m.client
  BY DEF OpenedMsg
<1> HIDE DEF r
<1>3. /\ net' = (net \ {m}) \cup {r} /\ Reply(m, r)
      /\ UNCHANGED <<fd_map, fd_redir_map, call>>
  BY <1>1 DEF Reply, clientVars, r
<1>4. ReplyTo(m.client) = NoReply /\ ReplyTo(m.client)' = NoReply
  <2>1. ReplyTo(m.client) = NoReply
    BY Places DEF ReplyPlaces
  <2>2. ReplyTo(r.client)' = NoReply
    BY <1>2, <1>3, PlacesNext DEF ReplyPlaces
  <2> QED BY <1>2, <2>1, <2>2
<1>5. Replies' = Replies
  BY <1>2, <1>3, <1>4, AnswerReplies, SameReplies, MessageFields DEF SystemInv, ClientTypeOK
<1>6. Desc' = Desc
  <2>1. CASE ret = BadFd
    <3>1. open_fds' = open_fds
      BY <1>1, <2>1, RemoteFdValues DEF hvac_open_rpc_handler, OpenSucceeds, OpenFails, FreeFds
    <3>2. \A d \in Clients, fd \in LocalFds : Descriptor(d, fd)' = Descriptor(d, fd)
      BY <1>3, <3>1, DescriptorFrame DEF SystemInv
    <3> QED BY <3>2 DEF Desc
  <2>2. CASE ret # BadFd
    <3>1. PICK file : ret \in FreeFds /\ open_fds' = [open_fds EXCEPT ![ret] = file]
      BY <1>1, <2>2 DEF hvac_open_rpc_handler, OpenSucceeds, OpenFails
    <3>2. \A g \in RemoteFds : g # ret => open_fds'[g] = open_fds[g]
      BY <3>1 DEF SystemInv, ServerInv, ServerTypeOK
    <3>3. \A c \in Clients, k \in LocalFds : fd_redir_map[c][k] # ret
      BY <3>1 DEF FreeFds, SystemInv, HolderInv, MapHolds
    <3> QED BY <1>3, <3>2, <3>3, UnheldStutters
  <2> QED BY <2>1, <2>2
<1> QED BY <1>3, <1>5, <1>6 DEF Stutter

LEMMA ServeCloseStutters ==
    ASSUME SystemInv, SystemInv', NEW m \in net, m.type = "close", ServeClose(m)
    PROVE  Stutter
<1>1. /\ net' = net \ {m}
      /\ UNCHANGED <<fd_map, fd_redir_map, call, done, read_ret, buffer>>
  BY DEF ServeClose, clientVars
<1>2. \A d \in Clients : ReplyTo(d)' = ReplyTo(d)
  BY <1>1, ReplyFrame
<1>3. Replies' = Replies
  BY <1>2 DEF Replies
<1>4. Desc' = Desc
  <2>1. CASE CloseSucceeds(m.fd)
    <3>1. m.fd \in RemoteFds /\ open_fds' = [open_fds EXCEPT ![m.fd] = NoEntry]
      BY <2>1 DEF CloseSucceeds, IsOpen
    <3>2. \A g \in RemoteFds : g # m.fd => open_fds'[g] = open_fds[g]
      BY <3>1 DEF SystemInv, ServerInv, ServerTypeOK
    <3>3. \A c \in Clients, k \in LocalFds : fd_redir_map[c][k] # m.fd
      BY <3>1 DEF SystemInv, HolderInv, MapHolds, Carries
    <3> QED BY <1>1, <3>2, <3>3, UnheldStutters
  <2>2. CASE CloseAborts(m.fd)
    <3>1. open_fds' = open_fds
      BY <2>2 DEF CloseAborts
    <3>2. \A d \in Clients, fd \in LocalFds : Descriptor(d, fd)' = Descriptor(d, fd)
      BY <1>1, <3>1, DescriptorFrame DEF SystemInv
    <3> QED BY <3>2 DEF Desc
  <2> QED BY <2>1, <2>2 DEF ServeClose, hvac_close_rpc_handler
<1> QED BY <1>1, <1>3, <1>4 DEF Stutter

\* The end of the transfer takes the reply from one message to the next.
LEMMA BulkStutters ==
    ASSUME SystemInv, SystemInv', NEW m \in net, m.type = "push", hvac_rpc_handler_bulk_cb(m)
    PROVE  Stutter
<1> DEFINE c == m.client
           r == ReadDoneMsg(c, m.size)
<1>0. c \in Clients
  BY MessageFields DEF SystemInv, ClientTypeOK
<1>1. r.type = "readDone" /\ r.client = c /\ r.ret = m.size
  BY DEF ReadDoneMsg
<1> HIDE DEF r
<1>2. /\ buffer' = [buffer EXCEPT ![c] = m.data] /\ net' = (net \ {m}) \cup {r}
      /\ UNCHANGED <<fd_map, fd_redir_map, call, done, read_ret, open_fds>>
  BY DEF hvac_rpc_handler_bulk_cb, serverVars, r
<1>3. /\ buffer'[c] = m.data
      /\ \A d \in Clients : d # c => buffer'[d] = buffer[d]
  BY <1>0, <1>2 DEF SystemInv, ClientTypeOK
<1>4. ReplyTo(c)' = ReplyTo(c)
  <2>1. r \in net'
    BY <1>2
  <2>2. ReplyTo(c)' = [ret |-> m.size, data |-> m.data]
    BY <1>1, <1>3, <2>1, PlacesNext DEF ReplyPlaces
  <2>3. ReplyTo(c) = [ret |-> m.size, data |-> m.data]
    BY Places DEF ReplyPlaces
  <2> QED BY <2>2, <2>3
<1>5. OthersKeepReplies(c)
  <2>1. \A n : n.client # c => (n \in net' <=> n \in net)
    BY <1>1, <1>2
  <2> QED BY <1>0, <1>2, <1>3, <2>1, HandlingReplies
<1>6. Replies' = Replies
  BY <1>0, <1>4, <1>5, SameReplies
<1>7. \A d \in Clients, fd \in LocalFds : Descriptor(d, fd)' = Descriptor(d, fd)
  BY <1>2, DescriptorFrame DEF SystemInv
<1> QED BY <1>2, <1>6, <1>7 DEF Stutter, Desc

\* What a read or a seek request is about.
LEMMA RequestFacts ==
    ASSUME SystemInv, NEW m \in net, m.type \in {"read", "seek"}
    PROVE  LET c == m.client
               fd == call[c].fd
           IN  /\ c \in Clients /\ fd \in LocalFds
               /\ call[c] # NoCall /\ call[c].op = m.type
               /\ m.fd = fd_redir_map[c][fd]
               /\ m.fd \in RemoteFds \cup {BadFd}
               /\ m.fd \in RemoteFds =>
                      /\ IsOpen(m.fd) /\ open_fds[m.fd] \in OpenFile
                      /\ open_fds[m.fd].src = fd_map[c][fd]
                      /\ \A d \in Clients, k \in LocalFds :
                             <<d, k>> # <<c, fd>> => fd_redir_map[d][k] # m.fd
<1> DEFINE c == m.client
           fd == call[c].fd
<1>1. /\ c \in Clients /\ fd \in LocalFds
      /\ call[c] # NoCall /\ call[c].op = m.type
      /\ m.fd = fd_redir_map[c][fd] /\ fd_redir_map[c][fd] # NoEntry
  BY MessageFields DEF SystemInv, ClientTypeOK, RequestInv, EveryRequestIsAwaited, RequestOf
<1>2. m.fd \in RemoteFds \cup {BadFd}
  BY <1>1 DEF SystemInv, ClientTypeOK
<1>3. ASSUME m.fd \in RemoteFds
      PROVE  /\ IsOpen(m.fd) /\ open_fds[m.fd] \in OpenFile
             /\ open_fds[m.fd].src = fd_map[c][fd]
             /\ \A d \in Clients, k \in LocalFds :
                    <<d, k>> # <<c, fd>> => fd_redir_map[d][k] # m.fd
  <2>1. /\ open_fds[m.fd] # NoEntry
        /\ \A d \in Clients, k \in LocalFds : fd_redir_map[d][k] = m.fd => d = c /\ k = fd
    BY <1>1, <1>3 DEF SystemInv, HolderInv, MapHolds
  <2>2. open_fds[m.fd] \in OpenFile
    BY <1>3, <2>1 DEF SystemInv, ServerInv, ServerTypeOK
  <2>3. open_fds[m.fd].src = fd_map[c][fd]
    <3>1. fd_to_path[m.fd] = open_fds[m.fd].src
      BY <1>3, <2>1 DEF SystemInv, ServerInv, RedirectionIsTransparent
    <3>2. fd_to_path[m.fd] = fd_map[c][fd]
      BY <1>1, <1>3 DEF SystemInv, PathInv
    <3> QED BY <3>1, <3>2
  <2> QED BY <1>3, <2>1, <2>2, <2>3 DEF IsOpen
<1> QED BY <1>1, <1>2, <1>3

\* The position of the descriptor a request names moves, everything else stays.
LEMMA PositionMoves ==
    ASSUME SystemInv, SystemInv', NEW m \in net, m.type \in {"read", "seek"},
           m.fd \in RemoteFds, UNCHANGED <<fd_map, fd_redir_map>>, NEW p,
           open_fds' = [open_fds EXCEPT ![m.fd] = MovedTo(@, p)]
    PROVE  Desc' = [Desc EXCEPT ![m.client][call[m.client].fd].pos = p]
<1> DEFINE c == m.client
<1>0. PICK fd \in LocalFds : fd = call[c].fd
  BY RequestFacts
<1>1. /\ c \in Clients /\ fd \in LocalFds /\ m.fd = fd_redir_map[c][fd]
      /\ \A d \in Clients, k \in LocalFds : <<d, k>> # <<c, fd>> => fd_redir_map[d][k] # m.fd
  BY <1>0, RequestFacts
<1>2. /\ open_fds'[m.fd].pos = p
      /\ \A g \in RemoteFds : g # m.fd => open_fds'[g] = open_fds[g]
  BY DEF SystemInv, ServerInv, ServerTypeOK, MovedTo
<1>3. Descriptor(c, fd) = [path |-> fd_map[c][fd], pos |-> open_fds[m.fd].pos, good |-> TRUE]
  BY <1>1, Places DEF DescriptorPlaces
<1>4. Descriptor(c, fd)' = [path |-> fd_map[c][fd], pos |-> p, good |-> TRUE]
  <2>1. fd_redir_map'[c][fd] = m.fd /\ fd_map'[c][fd] = fd_map[c][fd]
    BY <1>1
  <2>2. Descriptor(c, fd)' = [path |-> fd_map'[c][fd], pos |-> open_fds'[fd_redir_map'[c][fd]].pos,
                              good |-> TRUE]
    BY <1>1, <2>1, PlacesNext DEF DescriptorPlaces
  <2> QED BY <1>2, <2>1, <2>2
<1>6. OthersKeepDescriptors(c, fd)
  <2> SUFFICES ASSUME NEW d \in Clients, NEW l \in LocalFds, <<d, l>> # <<c, fd>>
               PROVE  Descriptor(d, l)' = Descriptor(d, l)
    BY DEF OthersKeepDescriptors
  <2>1. fd_redir_map[d][l] # m.fd
    BY <1>1
  <2> QED BY <1>2, <2>1, DescriptorFrame DEF SystemInv
<1>7. Desc' = [Desc EXCEPT ![c][fd].pos = p]
  <2>1. PICK a, b, g : /\ Descriptor(c, fd) = [path |-> a, pos |-> b, good |-> g]
                       /\ Descriptor(c, fd)' = [path |-> a, pos |-> p, good |-> g]
    BY <1>3, <1>4, Zenon
  <2> QED BY <1>1, <1>6, <2>1, MovedDescriptor
<1> QED BY <1>0, <1>7

LEMMA PositionStays ==
    ASSUME SystemInv, SystemInv', UNCHANGED <<fd_map, fd_redir_map, open_fds>>
    PROVE  Desc' = Desc
<1>1. \A d \in Clients, fd \in LocalFds : Descriptor(d, fd)' = Descriptor(d, fd)
  BY DescriptorFrame DEF SystemInv
<1> QED BY <1>1 DEF Desc

\* A read takes effect in the handler.
LEMMA ServeReadReads ==
    ASSUME SystemInv, SystemInv', NEW m \in net, m.type = "read", ServeRead(m)
    PROVE  Posix!Read(m.client)
<1>a. PICK readbytes \in ReadReturns(m.fd, m.count, m.offset) :
         LET out == ReadOutcome(m.fd, m.count, m.offset, readbytes)
         IN  /\ hvac_rpc_handler(m.fd, m.count, m.offset, readbytes)
             /\ Reply(m, PushMsg(m.client, out.size, out.data))
  BY DEF ServeRead
<1> DEFINE c == m.client
           fd == call[c].fd
           out == ReadOutcome(m.fd, m.count, m.offset, readbytes)
           start == ReadStart(m.fd, m.offset)
           n == BytesRead(m.fd, m.count, m.offset)
<1>1. /\ c \in Clients /\ fd \in LocalFds /\ call[c] # NoCall /\ call[c].op = "read"
      /\ m.fd = fd_redir_map[c][fd] /\ m.fd \in RemoteFds \cup {BadFd}
      /\ m.fd \in RemoteFds => /\ IsOpen(m.fd) /\ open_fds[m.fd] \in OpenFile
                               /\ open_fds[m.fd].src = fd_map[c][fd]
  BY RequestFacts
<1>2. /\ call[c].count = m.count /\ call[c].offset = m.offset
      /\ m.count \in Nat /\ m.offset \in Nat \cup {-1}
  BY MessageFields DEF SystemInv, ClientTypeOK, CallInv, RequestsCarryArguments
<1>0. PICK r : r = PushMsg(c, out.size, out.data)
  OBVIOUS
<1>3. r.type = "push" /\ r.client = c /\ r.size = out.size /\ r.data = out.data
  BY <1>0 DEF PushMsg
<1>4. /\ Reply(m, r) /\ hvac_rpc_handler(m.fd, m.count, m.offset, readbytes)
      /\ net' = (net \ {m}) \cup {r} /\ UNCHANGED <<fd_map, fd_redir_map, call>>
  BY <1>0, <1>a DEF Reply, clientVars
<1> HIDE DEF out
<1>5. ReplyTo(c) = NoReply /\ ReplyTo(c)' = [ret |-> r.size, data |-> r.data]
  <2>1. ReplyTo(c) = NoReply
    BY Places DEF ReplyPlaces
  <2>2. r \in net'
    BY <1>4
  <2>3. ReplyTo(r.client)' = [ret |-> r.size, data |-> r.data]
    BY <1>3, <2>2, PlacesNext DEF ReplyPlaces
  <2> QED BY <1>3, <2>1, <2>3
<1>6. Replies' = [Replies EXCEPT ![c] = [ret |-> r.size, data |-> r.data]]
  BY <1>1, <1>3, <1>4, <1>5, AnswerReplies, NewReply
<1>7. Posix!Pending(c, "read")
  BY <1>1, <1>5 DEF Posix!Pending
<1>8. CASE readbytes # -1
  <2>0. m.fd \in RemoteFds /\ readbytes = n
    BY <1>8, <1>a, ReadReturnsWhat
  <2>1. /\ start \in Nat /\ n \in Nat /\ Size[open_fds[m.fd].src] \in Nat
        /\ open_fds[m.fd].pos \in Nat
    BY <1>1, <1>2, <2>0, BytesReadType, ServerAssumption DEF SystemInv, OpenFile
  <2>2. Desc[c][fd] = [path |-> fd_map[c][fd], pos |-> open_fds[m.fd].pos, good |-> TRUE]
    BY <1>1, <2>0, Places DEF Desc, DescriptorPlaces
  <2>3. /\ Desc[c][fd].good /\ Desc[c][fd].path = open_fds[m.fd].src
        /\ start = IF call[c].offset = -1 THEN Desc[c][fd].pos ELSE call[c].offset
    <3>1. Desc[c][fd].good
      BY <2>2
    <3>2. Desc[c][fd].path = fd_map[c][fd] /\ Desc[c][fd].pos = open_fds[m.fd].pos
      BY <2>2
    <3> QED BY <1>1, <1>2, <2>0, <3>1, <3>2 DEF ReadStart
  <2>4. out.size = n /\ out.data = [src |-> open_fds[m.fd].src, from |-> start, len |-> n]
    BY <1>8, <2>0 DEF out, ReadOutcome, Slice
  <2>5. n = IF Size[open_fds[m.fd].src] - start <= 0 THEN 0
            ELSE AtMost(m.count, Size[open_fds[m.fd].src] - start)
    BY DEF BytesRead
  <2>6. Desc' = IF call[c].offset = -1
                THEN [Desc EXCEPT ![c][fd].pos = start + n]
                ELSE Desc
    <3>1. CASE m.offset = -1
      <4>1. open_fds' = [open_fds EXCEPT ![m.fd] = MovedTo(@, @.pos + n)]
        BY <1>4, <1>8, <2>0, <3>1 DEF hvac_rpc_handler
      <4>2. open_fds[m.fd].pos = start
        BY <3>1 DEF ReadStart
      <4>3. open_fds' = [open_fds EXCEPT ![m.fd] = MovedTo(@, start + n)]
        BY <4>1, <4>2
      <4> HIDE DEF start, n
      <4> QED BY <1>2, <1>4, <2>0, <3>1, <4>3, PositionMoves
    <3>2. CASE m.offset # -1
      BY <1>2, <1>4, <3>2, PositionStays DEF hvac_rpc_handler
    <3> QED BY <3>1, <3>2
  <2> HIDE DEF start, n
  <2> DEFINE from == IF call[c].offset = -1 THEN Desc[c][fd].pos ELSE call[c].offset
             left == Size[Desc[c][fd].path] - from
  <2>7. /\ n \in 0..call[c].count
        /\ n <= left \/ n = 0
        /\ n = call[c].count \/ n >= left
    <3>1. left \in Int /\ n = IF left <= 0 THEN 0 ELSE AtMost(m.count, left)
      BY <2>1, <2>3, <2>5
    <3> HIDE DEF left
    <3> QED BY <1>2, <2>1, <3>1 DEF AtMost
  <2>8. Replies' = [Replies EXCEPT ![c] =
                       [ret |-> n, data |-> [src |-> Desc[c][fd].path, from |-> from, len |-> n]]]
    BY <1>3, <1>6, <2>3, <2>4
  <2>9. Desc' = IF call[c].offset = -1
                THEN [Desc EXCEPT ![c][fd].pos = from + n]
                ELSE Desc
    BY <2>3, <2>6
  <2>10. \E k \in 0..call[c].count :
           /\ k <= left \/ k = 0
           /\ k = call[c].count \/ k >= left
           /\ Replies' = [Replies EXCEPT ![c] =
                  [ret |-> k, data |-> [src |-> Desc[c][fd].path, from |-> from, len |-> k]]]
           /\ Desc' = IF call[c].offset = -1
                      THEN [Desc EXCEPT ![c][fd].pos = from + k]
                      ELSE Desc
    <3> HIDE DEF left, from
    <3> QED BY <2>7, <2>8, <2>9
  <2>11. Desc[c][fd].good
    BY <2>3
  <2> QED BY <1>4, <1>7, <2>10, <2>11 DEF Posix!Read, Posix!Answer, Desc, Replies
<1>9. CASE readbytes = -1
  <2>2. out.size = m.count /\ out.data = [src |-> Zeros, from |-> 0, len |-> m.count]
    BY <1>9 DEF out, ReadOutcome, Slice
  <2>3. Desc' = Desc
    BY <1>4, <1>9, PositionStays DEF hvac_rpc_handler
  <2>5. ~Desc[c][fd].good \/ Desc[c][fd].path \in Unreadable
    <3>1. CASE m.fd = BadFd
      <4>1. Desc[c][fd] = [path |-> fd_map[c][fd], pos |-> 0, good |-> FALSE]
        BY <1>1, <3>1, Places DEF Desc, DescriptorPlaces
      <4> QED BY <4>1
    <3>2. CASE m.fd \in RemoteFds
      <4>1. open_fds[m.fd].src \in Unreadable
        <5>1. IsOpen(m.fd) /\ open_fds[m.fd] # NoEntry
          BY <1>1, <3>2 DEF IsOpen
        <5>2. n \in Nat
          BY <1>2, <3>2, <5>1, BytesReadType DEF SystemInv
        <5>3. readbytes # n
          <6> HIDE DEF n
          <6> QED BY <1>9, <5>2
        <5>4. \/ /\ readbytes = -1
                 /\ IsOpen(m.fd) => open_fds[m.fd].src \in Unreadable
              \/ readbytes = n
          BY <1>a, ReadReturnsWhat
        <5> QED BY <5>1, <5>3, <5>4
      <4>2. Desc[c][fd] = [path |-> fd_map[c][fd], pos |-> open_fds[m.fd].pos, good |-> TRUE]
        BY <1>1, <3>2, Places DEF Desc, DescriptorPlaces
      <4> QED BY <1>1, <3>2, <4>1, <4>2
    <3> QED BY <1>1, <3>1, <3>2
  <2>6. Replies' = [Replies EXCEPT ![c] =
            [ret |-> call[c].count, data |-> [src |-> Zeros, from |-> 0, len |-> call[c].count]]]
    BY <1>2, <1>3, <1>6, <2>2
  <2> QED BY <1>4, <1>7, <2>3, <2>5, <2>6 DEF Posix!Read, Posix!Answer, Desc, Replies
<1> QED BY <1>8, <1>9

\* So does a seek.
LEMMA ServeSeekSeeks ==
    ASSUME SystemInv, SystemInv', NEW m \in net, m.type = "seek", ServeSeek(m)
    PROVE  Posix!Seek(m.client)
<1> DEFINE c == m.client
           fd == call[c].fd
           res == SeekResult(m.fd, m.offset, m.whence)
           to == SeekTarget(m.fd, m.offset, m.whence)
           base == CASE call[c].whence = "SEEK_SET" -> 0
                     [] call[c].whence = "SEEK_CUR" -> Desc[c][fd].pos
                     [] call[c].whence = "SEEK_END" -> Size[Desc[c][fd].path]
<1>1. /\ c \in Clients /\ fd \in LocalFds /\ call[c] # NoCall /\ call[c].op = "seek"
      /\ m.fd = fd_redir_map[c][fd] /\ m.fd \in RemoteFds \cup {BadFd}
      /\ m.fd \in RemoteFds => /\ IsOpen(m.fd) /\ open_fds[m.fd] \in OpenFile
                               /\ open_fds[m.fd].src = fd_map[c][fd]
  BY RequestFacts
<1>2. /\ call[c].offset = m.offset /\ call[c].whence = m.whence
      /\ m.offset \in Int /\ m.whence \in Whence
  BY MessageFields DEF SystemInv, ClientTypeOK, CallInv, RequestsCarryArguments
<1>0. PICK r : r = SoughtMsg(c, res)
  OBVIOUS
<1>3. r.type = "sought" /\ r.client = c /\ r.ret = res
  BY <1>0 DEF SoughtMsg
<1>4. /\ Reply(m, r) /\ hvac_seek_rpc_handler(m.fd, m.offset, m.whence)
      /\ net' = (net \ {m}) \cup {r} /\ UNCHANGED <<fd_map, fd_redir_map, call>>
  BY <1>0 DEF ServeSeek, Reply, clientVars
<1> HIDE DEF res
<1>5. ReplyTo(c) = NoReply /\ ReplyTo(c)' = [ret |-> r.ret, data |-> NoEntry]
  <2>1. ReplyTo(c) = NoReply
    BY Places DEF ReplyPlaces
  <2>2. r \in net'
    BY <1>4
  <2>3. ReplyTo(r.client)' = [ret |-> r.ret, data |-> NoEntry]
    BY <1>3, <2>2, PlacesNext DEF ReplyPlaces
  <2> QED BY <1>3, <2>1, <2>3
<1>6. Replies' = [Replies EXCEPT ![c] = [ret |-> r.ret, data |-> NoEntry]]
  BY <1>1, <1>3, <1>4, <1>5, AnswerReplies, NewReply
<1>7. Posix!Pending(c, "seek")
  BY <1>1, <1>5 DEF Posix!Pending
<1>8. CASE m.fd \in RemoteFds
  <2>1. Size[open_fds[m.fd].src] \in Nat /\ open_fds[m.fd].pos \in Nat
    BY <1>1, <1>8, ServerAssumption DEF OpenFile
  <2>2. Desc[c][fd] = [path |-> fd_map[c][fd], pos |-> open_fds[m.fd].pos, good |-> TRUE]
    BY <1>1, <1>8, Places DEF Desc, DescriptorPlaces
  <2>3. /\ Desc[c][fd].good /\ Desc[c][fd].path = open_fds[m.fd].src
        /\ Desc[c][fd].pos = open_fds[m.fd].pos
    <3>1. Desc[c][fd].good
      BY <2>2
    <3>2. Desc[c][fd].path = fd_map[c][fd] /\ Desc[c][fd].pos = open_fds[m.fd].pos
      BY <2>2
    <3> QED BY <1>1, <1>8, <3>1, <3>2
  <2>4. to = base + call[c].offset
    BY <1>2, <2>1, <2>3 DEF SeekTarget, Whence
  <2>5. CASE to >= 0
    <3>1. res = to
      BY <1>1, <1>8, <2>5 DEF res, SeekResult, CanSeek
    <3>2. open_fds' = [open_fds EXCEPT ![m.fd] = MovedTo(@, to)]
      BY <1>1, <1>4, <1>8, <2>5 DEF hvac_seek_rpc_handler, CanSeek
    <3> HIDE DEF to, base
    <3>3. Desc' = [Desc EXCEPT ![c][fd].pos = to]
      BY <1>4, <1>8, <3>2, PositionMoves
    <3>4. Replies' = [Replies EXCEPT ![c] = [ret |-> to, data |-> NoEntry]]
      BY <1>3, <1>6, <3>1
    <3> QED BY <1>4, <1>7, <2>3, <2>4, <2>5, <3>3, <3>4
            DEF Posix!Seek, Posix!Answer, Desc, Replies, base
  <2>6. CASE ~(to >= 0)
    <3>1. res = -1
      BY <2>6 DEF res, SeekResult, CanSeek
    <3>2. open_fds' = open_fds
      BY <1>4, <2>6 DEF hvac_seek_rpc_handler, CanSeek
    <3> HIDE DEF to, base
    <3>3. Desc' = Desc
      BY <1>4, <3>2, PositionStays
    <3>4. Replies' = [Replies EXCEPT ![c] = [ret |-> -1, data |-> NoEntry]]
      BY <1>3, <1>6, <3>1
    <3> QED BY <1>4, <1>7, <2>4, <2>6, <3>3, <3>4
            DEF Posix!Seek, Posix!Answer, Desc, Replies, base
  <2> QED BY <2>5, <2>6
<1>9. CASE m.fd = BadFd
  <2>1. ~IsOpen(m.fd)
    BY <1>9, RemoteFdValues DEF IsOpen
  <2>2. res = -1
    BY <2>1 DEF res, SeekResult, CanSeek
  <2>3. Desc' = Desc
    BY <1>4, <2>1, PositionStays DEF hvac_seek_rpc_handler, CanSeek
  <2>4. Desc[c][fd] = [path |-> fd_map[c][fd], pos |-> 0, good |-> FALSE]
    BY <1>1, <1>9, Places DEF Desc, DescriptorPlaces
  <2>5. ~Desc[c][fd].good
    BY <2>4
  <2>6. Replies' = [Replies EXCEPT ![c] = [ret |-> -1, data |-> NoEntry]]
    BY <1>3, <1>6, <2>2
  <2> HIDE DEF to, base
  <2> QED BY <1>4, <1>7, <2>3, <2>5, <2>6 DEF Posix!Seek, Posix!Answer, Desc, Replies
<1> QED BY <1>1, <1>8, <1>9

\* The mover never touches what a client sees.
LEMMA MoverStutters ==
    ASSUME SystemInv, SystemInv',
           MoverThread \/ MoverSpuriousWakeup \/ UNCHANGED vars
    PROVE  Stutter
<1>1. UNCHANGED <<fd_map, fd_redir_map, call, done, read_ret, buffer, net, open_fds>>
  BY DEF MoverThread, MoverSpuriousWakeup, ServerMoverStep, ServerSpuriousWakeup, vars,
     clientVars, serverVars
<1>2. \A d \in Clients : ReplyTo(d)' = ReplyTo(d)
  BY <1>1, ReplyFrame
<1>3. Replies' = Replies
  BY <1>2 DEF Replies
<1> QED BY <1>1, <1>3, PositionStays DEF Stutter

LEMMA StepOfPosix ==
    ASSUME SystemInv, SystemInv', [Next]_vars
    PROVE  [Posix!Next]_(Posix!vars)
<1>1. ASSUME NEW c \in Clients, Application(c)
      PROVE  Posix!Next
  <2>1. PICK fd \in LocalFds :
          \/ \E path \in Paths : hvac_track_file(c, fd, path)
          \/ \E args \in ReadArgs : hvac_remote_read(c, fd, args)
          \/ \E args \in SeekArgs : hvac_remote_lseek(c, fd, args)
          \/ hvac_remove_fd(c, fd)
    BY <1>1 DEF Application
  <2>2. \/ \E path \in Paths : Posix!CallOpen(c, fd, path)
        \/ \E args \in ReadArgs : Posix!CallRead(c, fd, args)
        \/ \E args \in SeekArgs : Posix!CallSeek(c, fd, args)
        \/ Posix!Close(c, fd)
    BY <2>1, OpenBegins, ReadBegins, SeekBegins, CloseIsClose
  <2> QED BY <2>2 DEF Posix!Next
<1>2. ASSUME NEW c \in Clients, hvac_client_block(c)
      PROVE  Posix!Next
  BY <1>2, BlockReturns DEF Posix!Next
<1>3. ASSUME NEW m \in net, Callback(m)
      PROVE  Posix!Next \/ Stutter
  <2>1. m.client \in Clients
    BY MessageFields DEF SystemInv, ClientTypeOK
  <2>2. Posix!Open(m.client) \/ Stutter
    BY <1>3, OpenCallbackOpens, ReadCallbackStutters DEF Callback
  <2> QED BY <2>1, <2>2 DEF Posix!Next
<1>4. ASSUME NEW m \in net, Serve(m)
      PROVE  Posix!Next \/ Stutter
  <2>1. m.client \in Clients
    BY MessageFields DEF SystemInv, ClientTypeOK
  <2>2. Posix!Read(m.client) \/ Posix!Seek(m.client) \/ Stutter
    BY <1>4, ServeOpenStutters, ServeReadReads, BulkStutters, ServeSeekSeeks,
       ServeCloseStutters DEF Serve
  <2> QED BY <2>1, <2>2 DEF Posix!Next
<1>5. ASSUME MoverThread \/ MoverSpuriousWakeup \/ UNCHANGED vars
      PROVE  Stutter
  BY <1>5, MoverStutters
<1>6. Posix!Next \/ Stutter
  BY <1>1, <1>2, <1>3, <1>4, <1>5 DEF Next
<1> QED BY <1>6, StutterIsStutter

LEMMA InitOfPosix == Init => Posix!Init
<1> SUFFICES ASSUME Init PROVE Posix!Init
  OBVIOUS
<1>1. \A c \in Clients, fd \in LocalFds : Descriptor(c, fd) = NoEntry
  BY ClientTypeInit, DescriptorNow DEF Init, DescriptorPlaces
<1>2. \A c \in Clients : ReplyTo(c) = NoReply
  BY DEF Init, ReplyTo
<1> QED BY <1>1, <1>2 DEF Init, Posix!Init

(***************************************************************************)
(* For any number of clients, descriptors, files, sizes and arguments: the *)
(* system implements PosixFiles.  With the server, its cache, the mover    *)
(* and the messages in between, the applications see opens, reads, preads, *)
(* seeks and closes that each take effect in one step and that deliver the *)
(* bytes of the file at the right position; only an open that failed on    *)
(* the server gives a descriptor that is not good.                         *)
(***************************************************************************)
THEOREM SystemImplementsPosixFiles == Spec => ImplementsPosixFiles
<1>1. Init => SystemInv
  BY ClientTypeInit, ServerInvInit, RequestInit, HolderInit, PathInit, CallInit
  DEF SystemInv, Init
<1>2. SystemInv /\ [Next]_vars => SystemInv'
  BY ClientTypeStep, ServerStep, RequestStep, HolderStep, PathStep, CallStep DEF SystemInv
<1>3. SystemInv /\ SystemInv' /\ [Next]_vars => [Posix!Next]_(Posix!vars)
  BY StepOfPosix
<1> QED BY <1>1, <1>2, <1>3, InitOfPosix, PTL DEF Spec, ImplementsPosixFiles, Posix!Spec
=============================================================================
