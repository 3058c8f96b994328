---------------------------- MODULE HvacAddressBook ----------------------------
(***************************************************************************)
(* How clients find servers, and what the loss of a server does to them.   *)
(*                                                                         *)
(* A server starts Mercury, appends "rank address" to the ports file of    *)
(* the job, and then registers its RPCs one by one; its progress thread    *)
(* already runs.  A client hashes a path to a rank, looks the rank up in   *)
(* the ports file, and keeps what it found.  The file is only appended to: *)
(* a server that is started again adds a second line for its rank.         *)
(*                                                                         *)
(* A request is answered by the process it was sent to, or fails because   *)
(* that process is gone or has not registered the RPC.  Failures are       *)
(* reported to the callback; what a callback makes of them is modelled     *)
(* here, what a handler does with a request is in HvacSystem.              *)
(***************************************************************************)
EXTENDS Integers, Sequences, FiniteSets

CONSTANTS
    NumRanks,       \* servers of the job; their ranks are 0..NumRanks-1
    Clients,        \* application processes, with one thread each
    Paths,          \* files of the data set
    Hash,           \* path -> std::hash of it
    ServerCounts,   \* the values HVAC_SERVER_COUNT may have in a client
    MaxStarts,      \* bound: how often one server is started
    MaxStreams,     \* the streams a client can open (RLIMIT_NOFILE)
    NoAddr,         \* no address, no remote descriptor
    NoCall          \* the application thread is outside HVAC

Ranks == 0..(NumRanks - 1)

\* The address of a process: Mercury picks a port when the process starts.
Addresses == Ranks \X (1..MaxStarts)

Rpcs == {"read", "open", "close", "seek"}

Request(op) == [op : op, path : Paths, to : Addresses, fd : Addresses \cup {NoAddr}]

ASSUME AddressAssumption ==
    /\ NumRanks \in Nat
    /\ Hash \in [Paths -> Nat]
    /\ ServerCounts \subseteq Nat
    /\ MaxStarts \in Nat
    /\ MaxStreams \in Nat
    /\ NoAddr \notin Addresses
    /\ NoCall \notin Request(Rpcs)

VARIABLES
    stage,          \* rank -> where its process is in hvac_start_comm_server
    starts,         \* rank -> how often it was started
    registered,     \* rank -> the RPCs it has registered
    ports_file,     \* does the ports file exist
    ports,          \* its lines
    status,         \* client -> "new", "running" or "dead"
    server_count,   \* client -> g_hvac_server_count
    address_cache,  \* client -> rank -> address, or NoAddr
    na_configs,     \* client -> streams on the ports file, never closed
    fd_redir_map,   \* client -> path -> remote descriptor, by its owner
    call,           \* client -> the request its thread waits for
    closes,         \* close requests on their way
    advance,        \* observed: client -> all servers served when it started
    lost            \* observed: the ranks whose server has ended, ever

serverVars == <<stage, starts, registered, ports_file, ports>>
bookVars == <<status, server_count, address_cache, na_configs>>
requestVars == <<fd_redir_map, call, closes>>
ghostVars == <<advance, lost>>
vars == <<serverVars, bookVars, requestVars, ghostVars>>

Stages == {"down", "listening", "created", "posted", "serving"}

TypeOK ==
    /\ stage \in [Ranks -> Stages]
    /\ starts \in [Ranks -> 0..MaxStarts]
    /\ registered \in [Ranks -> SUBSET Rpcs]
    /\ ports_file \in BOOLEAN
    /\ ports \in Seq([rank : Ranks, addr : Addresses])
    /\ status \in [Clients -> {"new", "running", "dead"}]
    /\ server_count \in [Clients -> Nat]
    /\ address_cache \in [Clients -> [Ranks -> Addresses \cup {NoAddr}]]
    /\ na_configs \in [Clients -> 0..MaxStreams]
    /\ fd_redir_map \in [Clients -> [Paths -> Addresses \cup {NoAddr}]]
    /\ call \in [Clients -> Request({"open", "read", "seek"}) \cup {NoCall}]
    /\ closes \subseteq [client : Clients, to : Addresses, fd : Addresses]
    /\ advance \in [Clients -> BOOLEAN]
    /\ lost \subseteq Ranks

Init ==
    /\ stage = [r \in Ranks |-> "down"]
    /\ starts = [r \in Ranks |-> 0]
    /\ registered = [r \in Ranks |-> {}]
    /\ ports_file = FALSE
    /\ ports = << >>
    /\ status = [c \in Clients |-> "new"]
    /\ server_count = [c \in Clients |-> 0]
    /\ address_cache = [c \in Clients |-> [r \in Ranks |-> NoAddr]]
    /\ na_configs = [c \in Clients |-> 0]
    /\ fd_redir_map = [c \in Clients |-> [p \in Paths |-> NoAddr]]
    /\ call = [c \in Clients |-> NoCall]
    /\ closes = {}
    /\ advance = [c \in Clients |-> FALSE]
    /\ lost = {}

-----------------------------------------------------------------------------
(***************************************************************************)
(* A server process: hvac_start_comm_server.                               *)
(***************************************************************************)
SelfAddr(r) == <<r, starts[r]>>

ServerStage(r, from, to) ==
    /\ stage[r] = from
    /\ stage' = [stage EXCEPT ![r] = to]

\* hvac_init_comm(true): from here the progress thread receives requests.
hvac_init_comm(r) ==
    /\ ServerStage(r, "down", "listening")
    /\ starts[r] < MaxStarts
    /\ starts' = [starts EXCEPT ![r] = @ + 1]
    /\ UNCHANGED <<registered, ports_file, ports, bookVars, requestVars, ghostVars>>

\* hvac_comm_list_addr, fopen(filename, "a+").
CreatePortsFile(r) ==
    /\ ServerStage(r, "listening", "created")
    /\ ports_file' = TRUE
    /\ UNCHANGED <<starts, registered, ports, bookVars, requestVars, ghostVars>>

\* Faulty variant of hvac_comm_list_addr: hvac_server_rank was never set.
ListAddrWithoutRank(r) ==
    /\ ServerStage(r, "created", "posted")
    /\ ports' = Append(ports, [rank |-> -1, addr |-> SelfAddr(r)])
    /\ UNCHANGED <<starts, registered, ports_file, bookVars, requestVars, ghostVars>>

\* fprintf and fclose: the line is appended.
hvac_comm_list_addr(r) ==
    /\ ServerStage(r, "created", "posted")
    /\ ports' = Append(ports, [rank |-> r, addr |-> SelfAddr(r)])
    /\ UNCHANGED <<starts, registered, ports_file, bookVars, requestVars, ghostVars>>

\* What is registered after a set of RPCs: base (read), open, close, seek.
NextRpc(done) ==
    CASE "read" \notin done -> "read"
      [] "open" \notin done -> "open"
      [] "close" \notin done -> "close"
      [] OTHER -> "seek"

\* Faulty variant of RegisterRpc: the seek RPC is forgotten.
RegisterRpcWithoutSeek(r) ==
    /\ stage[r] = "posted"
    /\ registered' = [registered EXCEPT ![r] = @ \cup {NextRpc(@)}]
    /\ stage' = [stage EXCEPT ![r] =
                    IF registered'[r] = Rpcs \ {"seek"} THEN "serving" ELSE "posted"]
    /\ UNCHANGED <<starts, ports_file, ports, bookVars, requestVars, ghostVars>>

\* hvac_*_rpc_register, one call after the other.
RegisterRpc(r) ==
    /\ stage[r] = "posted"
    /\ registered' = [registered EXCEPT ![r] = @ \cup {NextRpc(@)}]
    /\ stage' = [stage EXCEPT ![r] = IF registered'[r] = Rpcs THEN "serving" ELSE "posted"]
    /\ UNCHANGED <<starts, ports_file, ports, bookVars, requestVars, ghostVars>>

\* The server ends: an assert, exit(0) when the ports file cannot be opened,
\* or the node.  The ports file stays.
ServerEnds(r) ==
    /\ stage[r] # "down"
    /\ stage' = [stage EXCEPT ![r] = "down"]
    /\ registered' = [registered EXCEPT ![r] = {}]
    /\ lost' = lost \cup {r}
    /\ UNCHANGED <<starts, ports_file, ports, bookVars, requestVars, advance>>

-----------------------------------------------------------------------------
(***************************************************************************)
(* A client process.                                                       *)
(***************************************************************************)

\* hvac_client_init reads HVAC_SERVER_COUNT.
hvac_client_init(c) ==
    /\ status[c] = "new"
    /\ status' = [status EXCEPT ![c] = "running"]
    /\ \E n \in ServerCounts :
           /\ server_count' = [server_count EXCEPT ![c] = n]
           /\ advance' = [advance EXCEPT ![c] =
                             n \in 1..NumRanks /\ \A r \in Ranks : stage[r] = "serving"]
    /\ UNCHANGED <<serverVars, address_cache, na_configs, requestVars, lost>>

Idle(c) == status[c] = "running" /\ call[c] = NoCall

\* The process is gone, by a signal or an assert; what it had open stays
\* open on the servers.
Die(c) ==
    /\ status' = [status EXCEPT ![c] = "dead"]
    /\ call' = [call EXCEPT ![c] = NoCall]

Lines(rank) == {i \in DOMAIN ports : ports[i].rank = rank}

\* Faulty variant of FirstLine: the loop does not break.
LastLine(rank) == ports[CHOOSE i \in Lines(rank) : \A j \in Lines(rank) : j <= i].addr

\* The fscanf loop stops at the first line with the rank.
FirstLine(rank) == ports[CHOOSE i \in Lines(rank) : \A j \in Lines(rank) : i <= j].addr

\* Faulty variant of Remember: the address is not cached.
RememberNothing(c, rank, addr) == UNCHANGED address_cache

Remember(c, rank, addr) == address_cache' = [address_cache EXCEPT ![c][rank] = addr]

\* Faulty variant of hvac_client_comm_lookup_addr: the file is read every
\* time, to find a server that was started again.
LookupNewest(c, rank, addr) ==
    /\ ports_file
    /\ Lines(rank) # {}
    /\ addr = LastLine(rank)
    /\ UNCHANGED <<address_cache, na_configs>>

(***************************************************************************)
(* hvac_client_comm_lookup_addr, ending with the address addr: the cached  *)
(* one; or that of the first line, which is then cached; or, when no line  *)
(* has the rank, whatever the uninitialised handle holds, which can be the *)
(* handle of an earlier lookup.  na_config is never closed.                *)
(***************************************************************************)
hvac_client_comm_lookup_addr(c, rank, addr) ==
    \/ /\ rank \in Ranks
       /\ address_cache[c][rank] # NoAddr
       /\ addr = address_cache[c][rank]
       /\ UNCHANGED <<address_cache, na_configs>>
    \/ /\ rank \in Ranks => address_cache[c][rank] = NoAddr
       /\ ports_file
       /\ na_configs[c] < MaxStreams
       /\ na_configs' = [na_configs EXCEPT ![c] = @ + 1]
       /\ IF Lines(rank) # {}
          THEN /\ addr = FirstLine(rank)
               /\ Remember(c, rank, addr)
          ELSE /\ addr \in {address_cache[c][r] : r \in Ranks}
               /\ UNCHANGED address_cache

\* The lookup crashes: fscanf of a NULL stream, if the file is missing or no
\* stream is left, or the use of an uninitialised handle.
LookupCrashes(c, rank) ==
    /\ rank \in Ranks => address_cache[c][rank] = NoAddr
    /\ \/ ~ports_file
       \/ na_configs[c] = MaxStreams
       \/ Lines(rank) = {}

\* The process at an address runs.
Up(addr) == stage[addr[1]] # "down" /\ starts[addr[1]] = addr[2]

Host(c, p) == Hash[p] % server_count[c]

\* hvac_comm_create_handle and HG_Forward.
Send(c, p, op, addr) ==
    call' = [call EXCEPT ![c] =
                [op |-> op, path |-> p, to |-> addr, fd |-> fd_redir_map[c][p]]]

\* open, read (pread) and lseek on a file of the data set.
Call(c, p, op) ==
    /\ Idle(c)
    /\ (op = "open") = (fd_redir_map[c][p] = NoAddr)
    /\ server_count[c] # 0
    /\ \E addr \in Addresses :
           /\ hvac_client_comm_lookup_addr(c, Host(c, p), addr)
           /\ Send(c, p, op, addr)
    /\ UNCHANGED <<serverVars, status, server_count, fd_redir_map, closes, ghostVars>>

\* close: nobody waits for the answer, there is none.  The request may still
\* be lost with the server.
hvac_client_comm_gen_close_rpc(c, p) ==
    /\ Idle(c)
    /\ fd_redir_map[c][p] # NoAddr
    /\ \E addr \in Addresses :
           /\ hvac_client_comm_lookup_addr(c, Host(c, p), addr)
           /\ closes' = closes \cup {[client |-> c, to |-> addr, fd |-> fd_redir_map[c][p]]}
    /\ fd_redir_map' = [fd_redir_map EXCEPT ![c][p] = NoAddr]
    /\ UNCHANGED <<serverVars, status, server_count, call, ghostVars>>

\* HG_Forward finds that the server is gone, and its result is asserted: the
\* entry is not erased.
CloseKills(c, p) ==
    /\ Idle(c)
    /\ fd_redir_map[c][p] # NoAddr
    /\ \E addr \in Addresses :
           /\ hvac_client_comm_lookup_addr(c, Host(c, p), addr)
           /\ ~Up(addr)
    /\ Die(c)
    /\ UNCHANGED <<serverVars, server_count, fd_redir_map, closes, ghostVars>>

\* Any of the calls: a division by zero in the hash, or a crash in the lookup.
CallCrashes(c, p) ==
    /\ Idle(c)
    /\ \/ server_count[c] = 0
       \/ server_count[c] # 0 /\ LookupCrashes(c, Host(c, p))
    /\ Die(c)
    /\ UNCHANGED <<serverVars, server_count, address_cache, na_configs,
                   fd_redir_map, closes, ghostVars>>

-----------------------------------------------------------------------------
(***************************************************************************)
(* Answers.                                                                *)
(***************************************************************************)
Serves(addr, op) == Up(addr) /\ op \in registered[addr[1]]

\* The handler responds and the callback runs.
Answered(c) ==
    /\ call[c] # NoCall
    /\ Serves(call[c].to, call[c].op)
    /\ fd_redir_map' = IF call[c].op = "open"
                       THEN [fd_redir_map EXCEPT ![c][call[c].path] = call[c].to]
                       ELSE fd_redir_map
    /\ call' = [call EXCEPT ![c] = NoCall]
    /\ UNCHANGED <<serverVars, bookVars, closes, ghostVars>>

Fails(c) == call[c] # NoCall /\ ~Serves(call[c].to, call[c].op)

\* hvac_open_cb and hvac_read_cb assert on info->ret; for any request,
\* HG_Forward itself may report the error, and that is asserted, too.
RequestKills(c) ==
    /\ Fails(c)
    /\ Die(c)
    /\ UNCHANGED <<serverVars, server_count, address_cache, na_configs,
                   fd_redir_map, closes, ghostVars>>

\* hvac_seek_cb does not look at info->ret: lseek returns with the garbage
\* in an output that was never decoded.
SeekReturnsGarbage(c) ==
    /\ Fails(c)
    /\ call[c].op = "seek"
    /\ call' = [call EXCEPT ![c] = NoCall]
    /\ UNCHANGED <<serverVars, bookVars, fd_redir_map, closes, ghostVars>>

\* A close is handled, or lost with the process it was meant for.
CloseArrives(m) ==
    /\ closes' = closes \ {m}
    /\ UNCHANGED <<serverVars, bookVars, fd_redir_map, call, ghostVars>>

-----------------------------------------------------------------------------
Server(r) ==
    \/ hvac_init_comm(r)
    \/ CreatePortsFile(r)
    \/ hvac_comm_list_addr(r)
    \/ RegisterRpc(r)

Client(c) ==
    \/ hvac_client_init(c)
    \/ \E p \in Paths :
           \/ \E op \in {"open", "read", "seek"} : Call(c, p, op)
           \/ hvac_client_comm_gen_close_rpc(c, p)
           \/ CloseKills(c, p)
           \/ CallCrashes(c, p)

Outcome(c) == Answered(c) \/ RequestKills(c) \/ SeekReturnsGarbage(c)

Next ==
    \/ \E r \in Ranks : Server(r) \/ ServerEnds(r)
    \/ \E c \in Clients : Client(c) \/ Outcome(c)
    \/ \E m \in closes : CloseArrives(m)

Spec == Init /\ [][Next]_vars

\* A request is answered or reported as failed: the progress threads run, and
\* the tcp provider notices a peer that is gone.  Nothing is assumed of the
\* start of servers, or of the applications.
FairSpec == Spec /\ \A c \in Clients : WF_vars(Outcome(c))

-----------------------------------------------------------------------------
(***************************************************************************)
(* The ports file and the caches are an AddressDirectory: whatever servers *)
(* start, post and end in whatever order, all clients that look a rank up  *)
(* get the same address, the one posted first, for as long as they live    *)
(* (hvac_comm_client.cpp:320-345).                                         *)
(***************************************************************************)
Directory == INSTANCE AddressDirectory WITH
    dir   <- [r \in Ranks |-> IF Lines(r) = {} THEN NoAddr ELSE FirstLine(r)],
    known <- address_cache

ImplementsDirectory == Directory!Spec

(***************************************************************************)
(* A remote descriptor means something only to the process that opened it. *)
(* Every request of a client that was started after the servers carries a  *)
(* descriptor of the very process it is sent to, over every restart of     *)
(* servers, because the lookup of a rank never changes its answer.  (A     *)
(* client that came too early can use the uninitialised handle, and then   *)
(* its descriptors stray.)                                                 *)
(***************************************************************************)
DescriptorsGoHome ==
    /\ \A c \in Clients : call[c] # NoCall /\ advance[c] =>
           call[c].fd \in {NoAddr, call[c].to}
    /\ \A m \in closes : advance[m.client] => m.fd = m.to

\* The ranks that a client has the address of and whose server has ended.
Met(c) == {r \in lost : address_cache[c][r] # NoAddr}

(***************************************************************************)
(* "There is an expectation that the server will be started in advance of  *)
(* the clients" (hvac_comm.cpp:138-139).  If it is met, a client dies only *)
(* of a server that ended and that it has turned to: no lookup comes to    *)
(* nothing, no request meets an RPC that is not registered yet, and the    *)
(* end of one server does nothing to those who use the others.  A server   *)
(* that has ended before and was started again counts as ended: every      *)
(* client takes its first address, and the first open kills it.  And a     *)
(* client must be able to open as many streams as there are servers: it    *)
(* keeps one for each rank it looked up.                                   *)
(***************************************************************************)
StartInAdvanceIsSafe ==
    NumRanks <= MaxStreams =>
        \A c \in Clients : advance[c] /\ status[c] # "running" => Met(c) # {}

(***************************************************************************)
(* lookup_addr never closes the stream it reads the ports file from, but a *)
(* client that was started after the servers opens it once for each rank:  *)
(* it does not run out of descriptors however many calls it makes.         *)
(***************************************************************************)
StreamsBounded ==
    \A c \in Clients : advance[c] =>
        na_configs[c] <= Cardinality({r \in Ranks : address_cache[c][r] # NoAddr})

(***************************************************************************)
(* A request of a client started in advance is answered, unless it has     *)
(* turned to a server that ended: it is never left waiting for, or killed  *)
(* by, a server that is still on its way up, or one it has no business     *)
(* with.                                                                   *)
(***************************************************************************)
RequestsAnswered ==
    \A c \in Clients :
        (advance[c] /\ call[c] # NoCall) ~>
            (status[c] = "running" /\ call[c] = NoCall) \/ Met(c) # {}
=============================================================================
