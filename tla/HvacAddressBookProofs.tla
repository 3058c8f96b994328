------------------------- MODULE HvacAddressBookProofs -------------------------
(***************************************************************************)
(* Proofs about the ports file and the clients' address caches, for any    *)
(* number of servers, clients, files, restarts and streams.                *)
(***************************************************************************)
EXTENDS HvacAddressBook, FiniteSetTheorems, WellFoundedInduction, TLAPS

\* A server posts its line before it serves, and serves with all its RPCs; as
\* long as it has not ended, it is in its first start.
ServersInv ==
    \A r \in Ranks :
        /\ stage[r] # "down" => starts[r] > 0
        /\ stage[r] \in {"created", "posted", "serving"} => ports_file
        /\ stage[r] \in {"posted", "serving"} => Lines(r) # {}
        /\ stage[r] = "serving" => registered[r] = Rpcs
        /\ r \notin lost => starts[r] = IF stage[r] = "down" THEN 0 ELSE 1

\* A line of the ports file is by a process of its rank.
LinesInv ==
    \A i \in DOMAIN ports :
        /\ ports[i].addr[1] = ports[i].rank
        /\ ports[i].addr[2] <= starts[ports[i].rank]

\* What a client has cached for a rank is still the first line of that rank.
CacheInv ==
    \A c \in Clients, r \in Ranks :
        address_cache[c][r] # NoAddr => Lines(r) # {} /\ address_cache[c][r] = FirstLine(r)

\* A client that has not started has done nothing.
NewClient(c) ==
    status[c] = "new" =>
        /\ ~advance[c]
        /\ na_configs[c] = 0
        /\ call[c] = NoCall
        /\ \A p \in Paths : fd_redir_map[c][p] = NoAddr

\* The ranks whose address a client has.
Cached(c) == {r \in Ranks : address_cache[c][r] # NoAddr}

(***************************************************************************)
(* A client that was started after the servers finds a line for every rank *)
(* it can hash to.  Its requests and its remote descriptors are all of the *)
(* process that its cache names for the file; it has opened the ports file *)
(* once for every cached rank; and it lives, as long as the servers do.    *)
(***************************************************************************)
AdvanceClient(c) ==
    advance[c] =>
        /\ server_count[c] \in 1..NumRanks
        /\ ports_file
        /\ \A r \in Ranks : Lines(r) # {}
        /\ \A p \in Paths : fd_redir_map[c][p] # NoAddr =>
               address_cache[c][Host(c, p)] = fd_redir_map[c][p]
        /\ call[c] # NoCall =>
               /\ call[c].to = address_cache[c][Host(c, call[c].path)]
               /\ call[c].fd \in {NoAddr, call[c].to}
        /\ na_configs[c] <= Cardinality(Cached(c))
        /\ \A r \in Ranks \ lost : stage[r] = "serving"
        /\ Met(c) = {} /\ NumRanks <= MaxStreams => status[c] = "running"

ClientsInv == \A c \in Clients : NewClient(c) /\ AdvanceClient(c)

\* A close on its way is of a client that has started, and goes to the process
\* that has the descriptor.
ClosesInv ==
    \A m \in closes : status[m.client] # "new" /\ (advance[m.client] => m.fd = m.to)

\* The inductive invariant.
BookInv ==
    /\ TypeOK /\ ServersInv /\ LinesInv /\ CacheInv
    /\ ClientsInv /\ ClosesInv

-----------------------------------------------------------------------------
(***************************************************************************)
(* The first line of a rank.                                               *)
(***************************************************************************)
LeastOf(S) == CHOOSE i \in S : \A j \in S : i <= j

\* There is a first one, if there is one at all.
LEMMA LeastExists ==
    ASSUME NEW S \in SUBSET Nat, S # {}
    PROVE  LeastOf(S) \in S /\ \A j \in S : LeastOf(S) <= j
<1>1. PICK i \in S : \A j \in S : ~(<<j, i>> \in OpToRel(<, Nat))
  BY NatLessThanWellFounded, WFMin
<1>2. ASSUME NEW j \in S PROVE i <= j
  <2>1. i \in Nat /\ j \in Nat
    OBVIOUS
  <2>2. ~(j < i)
    BY <1>1, <2>1 DEF OpToRel
  <2> QED BY <2>1, <2>2
<1> QED BY <1>2 DEF LeastOf

\* A later line does not change which one is the first.
LEMMA LeastKept ==
    ASSUME NEW S \in SUBSET Nat, S # {}, NEW n \in Nat, \A j \in S : j < n
    PROVE  LeastOf(S \cup {n}) = LeastOf(S)
<1> DEFINE T == S \cup {n}
           l == LeastOf(S)
           m == LeastOf(T)
<1>1. m \in T /\ \A j \in T : m <= j
  <2>1. T \in SUBSET Nat /\ T # {}
    OBVIOUS
  <2> HIDE DEF T
  <2> QED BY <2>1, LeastExists
<1>2. l \in S /\ \A j \in S : l <= j
  BY LeastExists
<1> HIDE DEF l, m
<1>3. l \in Nat /\ m \in Nat /\ l < n /\ m <= l
  BY <1>1, <1>2
<1>4. m \in S
  BY <1>1, <1>3
<1>5. l <= m
  BY <1>2, <1>4
<1>6. m = l
  BY <1>3, <1>5
<1> QED BY <1>6 DEF l, m, T

LEMMA LeastOfOne ==
    ASSUME NEW n \in Nat
    PROVE  LeastOf({n}) = n
BY DEF LeastOf

\* The lines of a rank are numbers.
LEMMA LinesType ==
    ASSUME TypeOK, NEW rank
    PROVE  Lines(rank) \in SUBSET Nat
BY DEF TypeOK, Lines

\* A line has a rank of the job and an address.
LEMMA LineType ==
    ASSUME TypeOK, NEW i \in DOMAIN ports
    PROVE  /\ ports[i].rank \in Ranks
           /\ ports[i].addr \in Addresses
           /\ ports[i].addr[2] \in 1..MaxStarts
           /\ ports[i].addr[2] \in Nat
<1> DEFINE Line == [rank : Ranks, addr : Addresses]
<1>1. ports \in Seq(Line)
  BY DEF TypeOK
<1>2. ports[i] \in Line
  <2> HIDE DEF Line
  <2> QED BY <1>1
<1>3. ports[i].addr[2] \in 1..MaxStarts
  BY <1>2 DEF Addresses
<1> QED BY <1>2, <1>3, AddressAssumption

\* fscanf stops at a line of the rank.
LEMMA FirstLineIsALine ==
    ASSUME TypeOK, NEW rank, Lines(rank) # {}
    PROVE  \E i \in DOMAIN ports : ports[i].rank = rank /\ FirstLine(rank) = ports[i].addr
<1>1. LeastOf(Lines(rank)) \in Lines(rank)
  BY LinesType, LeastExists
<1>2. FirstLine(rank) = ports[LeastOf(Lines(rank))].addr
  BY DEF FirstLine, LeastOf
<1> QED BY <1>1, <1>2 DEF Lines

\* A line is appended for a rank.
LEMMA AppendedLines ==
    ASSUME TypeOK, NEW r \in Ranks, NEW a \in Addresses,
           ports' = Append(ports, [rank |-> r, addr |-> a]), NEW rank
    PROVE  /\ rank # r => Lines(rank)' = Lines(rank)
           /\ rank = r => Lines(rank)' = Lines(rank) \cup {Len(ports) + 1}
           /\ Lines(rank) # {} => Lines(rank)' # {} /\ FirstLine(rank)' = FirstLine(rank)
           /\ rank = r /\ Lines(rank) = {} => FirstLine(rank)' = a
<1> DEFINE n == Len(ports) + 1
           line == [rank |-> r, addr |-> a]
<1>1. /\ Len(ports) \in Nat
      /\ DOMAIN ports = 1..Len(ports)
      /\ DOMAIN ports' = (1..Len(ports)) \cup {n}
      /\ \A i \in 1..Len(ports) : ports'[i] = ports[i]
      /\ ports'[n] = line
  BY DEF TypeOK
<1>2. n \in Nat /\ n \notin Lines(rank) /\ \A j \in Lines(rank) : j < n
  BY <1>1 DEF Lines
<1>3. rank # r => Lines(rank)' = Lines(rank)
  BY <1>1 DEF Lines
<1>4. rank = r => Lines(rank)' = Lines(rank) \cup {n}
  BY <1>1 DEF Lines
<1>5. /\ FirstLine(rank) = ports[LeastOf(Lines(rank))].addr
      /\ FirstLine(rank)' = ports'[LeastOf(Lines(rank)')].addr
  BY DEF FirstLine, LeastOf
<1> HIDE DEF n, line
<1>6. ASSUME Lines(rank) # {}
      PROVE  Lines(rank)' # {} /\ FirstLine(rank)' = FirstLine(rank)
  <2>1. Lines(rank)' # {} /\ LeastOf(Lines(rank)') = LeastOf(Lines(rank))
    BY <1>2, <1>3, <1>4, <1>6, LinesType, LeastKept
  <2>2. LeastOf(Lines(rank)) \in 1..Len(ports)
    BY <1>1, <1>6, LinesType, LeastExists DEF Lines
  <2> QED BY <1>1, <1>5, <2>1, <2>2
<1>7. ASSUME rank = r, Lines(rank) = {}
      PROVE  FirstLine(rank)' = a
  <2>1. LeastOf(Lines(rank)') = n
    BY <1>2, <1>4, <1>7, LeastOfOne
  <2> QED BY <1>1, <1>5, <2>1 DEF line
<1> QED BY <1>3, <1>4, <1>6, <1>7 DEF n

-----------------------------------------------------------------------------
(***************************************************************************)
(* Addresses, hosts and lookups.                                           *)
(***************************************************************************)
\* The rank a client hashes to is the rank of a server, if it counts at most
\* as many servers as there are.
LEMMA HostIsARank ==
    ASSUME NEW c \in Clients, server_count[c] \in 1..NumRanks, NEW p \in Paths
    PROVE  Host(c, p) \in Ranks
<1>1. Hash[p] \in Nat /\ NumRanks \in Nat
  BY AddressAssumption
<1>2. Host(c, p) \in 0..(server_count[c] - 1)
  BY <1>1 DEF Host
<1> QED BY <1>1, <1>2 DEF Ranks

\* The first line of a rank is by a process of that rank that was started.
LEMMA FirstLineOwner ==
    ASSUME TypeOK, LinesInv, NEW r \in Ranks, Lines(r) # {}
    PROVE  /\ FirstLine(r) \in Addresses
           /\ FirstLine(r) # NoAddr
           /\ FirstLine(r)[1] = r
           /\ FirstLine(r)[2] \in 1..starts[r]
<1>1. PICK i \in DOMAIN ports : ports[i].rank = r /\ FirstLine(r) = ports[i].addr
  BY FirstLineIsALine
<1>2. ports[i].addr \in Addresses /\ ports[i].addr[2] \in 1..MaxStarts
  BY LineType
<1>3. ports[i].addr[1] = r /\ ports[i].addr[2] <= starts[r]
  BY <1>1 DEF LinesInv
<1>4. starts[r] \in Nat /\ MaxStarts \in Nat
  BY AddressAssumption DEF TypeOK
<1>5. ports[i].addr[2] \in 1..starts[r]
  BY <1>2, <1>3, <1>4
<1> QED BY <1>1, <1>2, <1>3, <1>5, AddressAssumption

\* The lines of a rank stay what they are where the ports file does.
LEMMA LinesUnchanged ==
    ASSUME UNCHANGED ports
    PROVE  \A rank : Lines(rank)' = Lines(rank) /\ FirstLine(rank)' = FirstLine(rank)
BY DEF Lines, FirstLine

\* Only servers of the job have lines.
LEMMA LinesAreOfRanks ==
    ASSUME TypeOK, NEW rank, Lines(rank) # {}
    PROVE  rank \in Ranks
BY LineType DEF Lines

\* The ranks whose address a client has are finite in number,
LEMMA CachedFinite ==
    ASSUME NEW c
    PROVE  IsFiniteSet(Cached(c)) /\ Cardinality(Cached(c)) \in Nat
<1>1. 0 \in Int /\ NumRanks - 1 \in Int
  BY AddressAssumption
<1>2. IsFiniteSet(Ranks)
  BY <1>1, FS_Interval DEF Ranks
<1>3. IsFiniteSet(Cached(c))
  BY <1>2, FS_Subset DEF Cached
<1> QED BY <1>3, FS_CardinalityType

\* and fewer than the servers as long as one is missing.
LEMMA CachedBound ==
    ASSUME NEW c, NEW r \in Ranks, r \notin Cached(c)
    PROVE  Cardinality(Cached(c)) < NumRanks
<1>0. NumRanks \in Nat /\ NumRanks > 0
  BY AddressAssumption DEF Ranks
<1>1. IsFiniteSet(Ranks) /\ Cardinality(Ranks) = NumRanks
  <2>1. 0 \in Int /\ NumRanks - 1 \in Int
    BY <1>0
  <2>2. /\ IsFiniteSet(0..(NumRanks - 1))
        /\ Cardinality(0..(NumRanks - 1)) =
               IF 0 > NumRanks - 1 THEN 0 ELSE NumRanks - 1 - 0 + 1
    BY <2>1, FS_Interval
  <2> QED BY <1>0, <2>2 DEF Ranks
<1>2. Cached(c) \in SUBSET (Ranks \ {r})
  BY DEF Cached
<1>3. IsFiniteSet(Ranks \ {r}) /\ Cardinality(Ranks \ {r}) = NumRanks - 1
  BY <1>1, FS_RemoveElement
<1>4. Cardinality(Cached(c)) <= NumRanks - 1
  BY <1>2, <1>3, FS_Subset
<1> QED BY <1>0, <1>4, CachedFinite

(***************************************************************************)
(* hvac_client_comm_lookup_addr: the address of a rank that has a line is  *)
(* that of its first line, now and in the cache, and the stream that it    *)
(* leaves open is paid for by the new entry.                               *)
(***************************************************************************)
LEMMA LookupStep ==
    ASSUME TypeOK, CacheInv, LinesInv, NEW c \in Clients, NEW rank, NEW addr \in Addresses,
           hvac_client_comm_lookup_addr(c, rank, addr), UNCHANGED ports
    PROVE  /\ address_cache' \in [Clients -> [Ranks -> Addresses \cup {NoAddr}]]
           /\ na_configs' \in [Clients -> 0..MaxStreams]
           /\ CacheInv'
           /\ \A d \in Clients \ {c} :
                  address_cache'[d] = address_cache[d] /\ na_configs'[d] = na_configs[d]
           /\ \A r \in Ranks : address_cache[c][r] # NoAddr =>
                  address_cache'[c][r] = address_cache[c][r]
           /\ Lines(rank) # {} => rank \in Ranks /\ addr = address_cache'[c][rank]
           /\ /\ Lines(rank) # {}
              /\ na_configs[c] <= Cardinality(Cached(c))
              => na_configs'[c] <= Cardinality(Cached(c)')
<1> USE DEF hvac_client_comm_lookup_addr
<1>0. MaxStreams \in Nat
  BY AddressAssumption
<1>1. CASE UNCHANGED <<address_cache, na_configs>>
  <2>1. CacheInv'
    BY <1>1, LinesUnchanged DEF CacheInv
  <2>2. Lines(rank) # {} => rank \in Ranks /\ addr = address_cache'[c][rank]
    <3> SUFFICES ASSUME Lines(rank) # {} PROVE rank \in Ranks /\ addr = address_cache'[c][rank]
      OBVIOUS
    <3>1. na_configs' # [na_configs EXCEPT ![c] = @ + 1] \/ ~(na_configs[c] < MaxStreams)
      BY <1>0, <1>1 DEF TypeOK
    <3> QED BY <1>1, <3>1, LinesAreOfRanks
  <2>3. Cached(c)' = Cached(c)
    BY <1>1 DEF Cached
  <2> QED BY <1>1, <2>1, <2>2, <2>3 DEF TypeOK
<1>2. CASE /\ rank \in Ranks => address_cache[c][rank] = NoAddr
           /\ na_configs[c] < MaxStreams
           /\ na_configs' = [na_configs EXCEPT ![c] = @ + 1]
           /\ IF Lines(rank) # {}
              THEN addr = FirstLine(rank) /\ Remember(c, rank, addr)
              ELSE UNCHANGED address_cache
  <2>1. /\ na_configs' \in [Clients -> 0..MaxStreams]
        /\ \A d \in Clients \ {c} : na_configs'[d] = na_configs[d]
        /\ na_configs'[c] = na_configs[c] + 1
        /\ na_configs[c] \in Nat
    BY <1>0, <1>2 DEF TypeOK
  <2>2. CASE Lines(rank) = {}
    <3>1. UNCHANGED address_cache
      BY <1>2, <2>2
    <3>2. CacheInv'
      BY <3>1, LinesUnchanged DEF CacheInv
    <3> QED BY <2>1, <2>2, <3>1, <3>2 DEF TypeOK
  <2>3. CASE Lines(rank) # {}
    <3>1. rank \in Ranks
      BY <2>3, LinesAreOfRanks
    <3>2. addr = FirstLine(rank) /\ address_cache' = [address_cache EXCEPT ![c][rank] = addr]
      BY <1>2, <2>3 DEF Remember
    <3>3. /\ address_cache' \in [Clients -> [Ranks -> Addresses \cup {NoAddr}]]
          /\ \A d \in Clients \ {c} : address_cache'[d] = address_cache[d]
          /\ address_cache'[c][rank] = addr
          /\ \A r \in Ranks \ {rank} : address_cache'[c][r] = address_cache[c][r]
      BY <3>1, <3>2 DEF TypeOK
    <3>4. CacheInv'
      BY <2>3, <3>1, <3>2, <3>3, LinesUnchanged DEF CacheInv
    <3>5. na_configs[c] <= Cardinality(Cached(c)) => na_configs'[c] <= Cardinality(Cached(c)')
      <4>1. rank \notin Cached(c)
        BY <1>2, <3>1 DEF Cached
      <4>2. Cached(c)' = Cached(c) \cup {rank}
        BY <3>1, <3>3, AddressAssumption DEF Cached
      <4>3. IsFiniteSet(Cached(c)) /\ Cardinality(Cached(c)) \in Nat
        BY CachedFinite
      <4>4. Cardinality(Cached(c)') = Cardinality(Cached(c)) + 1
        BY <4>1, <4>2, <4>3, FS_AddElement
      <4> QED BY <2>1, <4>3, <4>4
    <3> QED BY <1>2, <2>1, <3>1, <3>3, <3>4, <3>5
  <2> QED BY <2>2, <2>3
<1> QED BY <1>1, <1>2

-----------------------------------------------------------------------------
(***************************************************************************)
(* Steps of servers.                                                       *)
(***************************************************************************)
\* What a step of a server leaves alone of the clients.
LEMMA ClientsKept ==
    ASSUME BookInv, UNCHANGED <<bookVars, requestVars, advance>>,
           lost \subseteq lost',
           \A r \in Ranks \ lost' : stage[r] = "serving" => stage'[r] = "serving",
           ports_file => ports_file',
           \A r \in Ranks : Lines(r) # {} => Lines(r)' # {} /\ FirstLine(r)' = FirstLine(r)
    PROVE  CacheInv' /\ ClientsInv' /\ ClosesInv'
<1> USE DEF BookInv, bookVars, requestVars
<1>1. CacheInv'
  BY DEF CacheInv
<1>2. ClientsInv'
  BY DEF ClientsInv, NewClient, AdvanceClient, Host, Cached, Met
<1>3. ClosesInv'
  BY DEF ClosesInv
<1> QED BY <1>1, <1>2, <1>3

\* hvac_init_comm: a process that is down starts once more.
LEMMA InitCommStep ==
    ASSUME BookInv, NEW r \in Ranks, hvac_init_comm(r)
    PROVE  BookInv'
<1> USE DEF BookInv, hvac_init_comm, ServerStage
<1>1. /\ starts[r] \in Nat /\ MaxStarts \in Nat /\ starts'[r] = starts[r] + 1
      /\ \A q \in Ranks \ {r} : starts'[q] = starts[q] /\ stage'[q] = stage[q]
      /\ stage[r] = "down" /\ stage'[r] = "listening"
  BY AddressAssumption DEF TypeOK
<1>2. TypeOK'
  <2>1. starts' \in [Ranks -> 0..MaxStarts]
    BY <1>1 DEF TypeOK
  <2>2. stage' \in [Ranks -> Stages]
    BY DEF TypeOK, Stages
  <2> QED BY <2>1, <2>2 DEF TypeOK, bookVars, requestVars, ghostVars
<1>3. \A rank : Lines(rank)' = Lines(rank) /\ FirstLine(rank)' = FirstLine(rank)
  BY LinesUnchanged
<1>4. ServersInv'
  <2> SUFFICES ASSUME NEW q \in Ranks
               PROVE  /\ stage'[q] # "down" => starts'[q] > 0
                      /\ stage'[q] \in {"created", "posted", "serving"} => ports_file'
                      /\ stage'[q] \in {"posted", "serving"} => Lines(q)' # {}
                      /\ stage'[q] = "serving" => registered'[q] = Rpcs
                      /\ q \notin lost' => starts'[q] = IF stage'[q] = "down" THEN 0 ELSE 1
    BY DEF ServersInv
  <2>1. CASE q = r
    BY <1>1, <2>1 DEF ServersInv, ghostVars
  <2>2. CASE q # r
    BY <1>1, <1>3, <2>2 DEF ServersInv, ghostVars
  <2> QED BY <2>1, <2>2
<1>5. LinesInv'
  <2> SUFFICES ASSUME NEW i \in DOMAIN ports
               PROVE  /\ ports[i].addr[1] = ports[i].rank
                      /\ ports[i].addr[2] <= starts'[ports[i].rank]
    BY DEF LinesInv
  <2>1. ports[i].rank \in Ranks /\ ports[i].addr[2] \in Nat
    BY LineType DEF TypeOK
  <2> QED BY <1>1, <2>1 DEF LinesInv
<1>6. lost \subseteq lost' /\ \A q \in Ranks \ lost' : stage[q] = "serving" => stage'[q] = "serving"
  BY <1>1 DEF ghostVars
<1>7. CacheInv' /\ ClientsInv' /\ ClosesInv'
  BY <1>3, <1>6, ClientsKept DEF ghostVars
<1> QED BY <1>2, <1>4, <1>5, <1>7

\* hvac_comm_list_addr opens the file, which creates it.
LEMMA CreatePortsFileStep ==
    ASSUME BookInv, NEW r \in Ranks, CreatePortsFile(r)
    PROVE  BookInv'
<1> USE DEF BookInv, CreatePortsFile, ServerStage
<1>1. /\ \A q \in Ranks \ {r} : stage'[q] = stage[q]
      /\ stage[r] = "listening" /\ stage'[r] = "created"
  BY DEF TypeOK
<1>2. TypeOK'
  BY DEF TypeOK, Stages, bookVars, requestVars, ghostVars
<1>3. \A rank : Lines(rank)' = Lines(rank) /\ FirstLine(rank)' = FirstLine(rank)
  BY LinesUnchanged
<1>4. ServersInv' /\ LinesInv'
  BY <1>1, <1>3 DEF ServersInv, LinesInv, ghostVars
<1>5. lost \subseteq lost' /\ \A q \in Ranks \ lost' : stage[q] = "serving" => stage'[q] = "serving"
  BY <1>1 DEF ghostVars
<1>6. CacheInv' /\ ClientsInv' /\ ClosesInv'
  BY <1>3, <1>5, ClientsKept DEF ghostVars
<1> QED BY <1>2, <1>4, <1>6

\* hvac_comm_list_addr appends its line: at the end, so that a rank that has
\* one keeps its first.
LEMMA ListAddrStep ==
    ASSUME BookInv, NEW r \in Ranks, hvac_comm_list_addr(r)
    PROVE  BookInv'
<1> USE DEF BookInv, hvac_comm_list_addr, ServerStage
<1>1. /\ \A q \in Ranks \ {r} : stage'[q] = stage[q]
      /\ stage[r] = "created" /\ stage'[r] = "posted"
  BY DEF TypeOK
<1>2. SelfAddr(r) \in Addresses
  <2>1. starts[r] \in 1..MaxStarts
    <3>1. starts[r] \in 0..MaxStarts /\ starts[r] > 0 /\ MaxStarts \in Nat
      BY <1>1, AddressAssumption DEF TypeOK, ServersInv
    <3> QED BY <3>1
  <2> QED BY <2>1 DEF SelfAddr, Addresses
<1>3. TypeOK'
  <2>1. ports' \in Seq([rank : Ranks, addr : Addresses])
    BY <1>2 DEF TypeOK
  <2>2. stage' \in [Ranks -> Stages]
    BY DEF TypeOK, Stages
  <2> QED BY <2>1, <2>2 DEF TypeOK, bookVars, requestVars, ghostVars
<1>4. \A q \in Ranks :
          /\ Lines(q) # {} => Lines(q)' # {} /\ FirstLine(q)' = FirstLine(q)
          /\ q = r => Lines(q)' # {}
  BY <1>2, AppendedLines
<1>5. ServersInv'
  BY <1>1, <1>4 DEF ServersInv, ghostVars
<1>6. LinesInv'
  <2> SUFFICES ASSUME NEW i \in DOMAIN ports'
               PROVE  /\ ports'[i].addr[1] = ports'[i].rank
                      /\ ports'[i].addr[2] <= starts[ports'[i].rank]
    BY DEF LinesInv
  <2>1. CASE i \in DOMAIN ports
    BY <2>1 DEF LinesInv, TypeOK
  <2>2. CASE i \notin DOMAIN ports
    <3>0. /\ ports \in Seq([rank : Ranks, addr : Addresses])
          /\ ports' = Append(ports, [rank |-> r, addr |-> SelfAddr(r)])
      BY DEF TypeOK
    <3> HIDE DEF hvac_comm_list_addr, BookInv, ServerStage
    <3>1. ports'[i] = [rank |-> r, addr |-> SelfAddr(r)]
      BY <2>2, <3>0
    <3>2. starts[r] <= starts[r]
      BY AddressAssumption DEF TypeOK, BookInv
    <3> QED BY <3>1, <3>2 DEF SelfAddr
  <2> QED BY <2>1, <2>2
<1>7. lost \subseteq lost' /\ \A q \in Ranks \ lost' : stage[q] = "serving" => stage'[q] = "serving"
  BY <1>1 DEF ghostVars
<1>8. CacheInv' /\ ClientsInv' /\ ClosesInv'
  BY <1>4, <1>7, ClientsKept DEF ghostVars
<1> QED BY <1>3, <1>5, <1>6, <1>8

\* The RPCs are registered one after the other; a server serves once it has
\* all of them.
LEMMA RegisterRpcStep ==
    ASSUME BookInv, NEW r \in Ranks, RegisterRpc(r)
    PROVE  BookInv'
<1> USE DEF BookInv, RegisterRpc
<1>1. /\ \A q \in Ranks \ {r} : stage'[q] = stage[q] /\ registered'[q] = registered[q]
      /\ stage[r] = "posted"
      /\ stage'[r] \in {"posted", "serving"}
      /\ stage'[r] = "serving" => registered'[r] = Rpcs
  BY DEF TypeOK
<1>2. TypeOK'
  <2>1. stage' \in [Ranks -> Stages]
    BY DEF TypeOK, Stages
  <2>2. NextRpc(registered[r]) \in Rpcs
    BY DEF NextRpc, Rpcs
  <2>3. registered' \in [Ranks -> SUBSET Rpcs]
    BY <2>2 DEF TypeOK
  <2> QED BY <2>1, <2>3 DEF TypeOK, bookVars, requestVars, ghostVars
<1>3. \A rank : Lines(rank)' = Lines(rank) /\ FirstLine(rank)' = FirstLine(rank)
  BY LinesUnchanged
<1>4. ServersInv'
  BY <1>1, <1>3 DEF ServersInv, ghostVars
<1>5. LinesInv'
  BY DEF LinesInv
<1>6. lost \subseteq lost' /\ \A q \in Ranks \ lost' : stage[q] = "serving" => stage'[q] = "serving"
  BY <1>1 DEF ghostVars
<1>7. CacheInv' /\ ClientsInv' /\ ClosesInv'
  BY <1>3, <1>6, ClientsKept DEF ghostVars
<1> QED BY <1>2, <1>4, <1>5, <1>7

\* A server ends at any place; its lines stay.
LEMMA ServerEndsStep ==
    ASSUME BookInv, NEW r \in Ranks, ServerEnds(r)
    PROVE  BookInv'
<1> USE DEF BookInv, ServerEnds
<1>1. /\ \A q \in Ranks \ {r} : stage'[q] = stage[q] /\ registered'[q] = registered[q]
      /\ stage'[r] = "down"
      /\ lost' = lost \cup {r}
  BY DEF TypeOK
<1>2. TypeOK'
  BY DEF TypeOK, Stages, bookVars, requestVars
<1>3. \A rank : Lines(rank)' = Lines(rank) /\ FirstLine(rank)' = FirstLine(rank)
  BY LinesUnchanged
<1>4. ServersInv'
  BY <1>1, <1>3 DEF ServersInv
<1>5. LinesInv'
  BY DEF LinesInv
<1>6. CacheInv' /\ ClientsInv' /\ ClosesInv'
  BY <1>1, <1>3, ClientsKept
<1> QED BY <1>2, <1>4, <1>5, <1>6

-----------------------------------------------------------------------------
(***************************************************************************)
(* Steps of clients.                                                       *)
(***************************************************************************)
\* What a step of a client leaves alone of the servers.
LEMMA ServersKept ==
    ASSUME BookInv, UNCHANGED <<serverVars, lost>>
    PROVE  ServersInv' /\ LinesInv'
BY LinesUnchanged DEF BookInv, ServersInv, LinesInv, serverVars

\* Clients that a step of another one does not touch.
Untouched(d) ==
    /\ status'[d] = status[d]
    /\ server_count'[d] = server_count[d]
    /\ address_cache'[d] = address_cache[d]
    /\ na_configs'[d] = na_configs[d]
    /\ fd_redir_map'[d] = fd_redir_map[d]
    /\ call'[d] = call[d]
    /\ advance'[d] = advance[d]

\* A step of one client is nothing to another one.
LEMMA OthersKept ==
    ASSUME BookInv, NEW d \in Clients, Untouched(d), UNCHANGED <<serverVars, lost>>
    PROVE  NewClient(d)' /\ AdvanceClient(d)'
<1>1. \A rank : Lines(rank)' = Lines(rank)
  BY LinesUnchanged DEF serverVars
<1>2. NewClient(d)'
  BY DEF BookInv, ClientsInv, NewClient, Untouched
<1>3. AdvanceClient(d)'
  <2>1. Cached(d)' = Cached(d) /\ Met(d)' = Met(d) /\ \A p : Host(d, p)' = Host(d, p)
    BY DEF Untouched, Cached, Met, Host
  <2>2. AdvanceClient(d)
    BY DEF BookInv, ClientsInv
  <2> QED BY <1>1, <2>1, <2>2 DEF AdvanceClient, Untouched, serverVars
<1> QED BY <1>2, <1>3

\* A client's request, as single facts.
LEMMA CallType ==
    ASSUME TypeOK, NEW c \in Clients, call[c] # NoCall
    PROVE  /\ call[c].op \in {"open", "read", "seek"}
           /\ call[c].op \in Rpcs
           /\ call[c].path \in Paths
           /\ call[c].to \in Addresses
           /\ call[c].to # NoAddr
<1>1. call[c] \in Request({"open", "read", "seek"})
  BY DEF TypeOK
<1>2. /\ call[c].op \in {"open", "read", "seek"}
      /\ call[c].path \in Paths
      /\ call[c].to \in Addresses
  BY <1>1 DEF Request
<1> QED BY <1>2, AddressAssumption DEF Rpcs

(***************************************************************************)
(* What a client started in advance has cached for a rank is the process   *)
(* that runs there, as long as it has not ended: the process at the first  *)
(* line of the rank is the only one the rank ever had.                     *)
(***************************************************************************)
LEMMA AdvanceUp ==
    ASSUME BookInv, NEW c \in Clients, advance[c], NEW r \in Ranks \ lost,
           NEW addr \in Addresses, addr = address_cache[c][r]
    PROVE  Up(addr) /\ registered[addr[1]] = Rpcs
<1> USE DEF BookInv
<1>1. Lines(r) # {} /\ stage[r] = "serving"
  BY DEF ClientsInv, AdvanceClient
<1>2. addr = FirstLine(r)
  BY AddressAssumption DEF CacheInv
<1>3. addr[1] = r /\ addr[2] \in 1..starts[r]
  BY <1>1, <1>2, FirstLineOwner
<1>4. starts[r] = 1 /\ registered[r] = Rpcs
  BY <1>1 DEF ServersInv
<1>5. addr[2] = starts[r]
  BY <1>3, <1>4
<1> QED BY <1>1, <1>3, <1>4, <1>5 DEF Up

(***************************************************************************)
(* So a request of such a client is served: the process is there, and it   *)
(* has registered all RPCs.                                                *)
(***************************************************************************)
LEMMA AdvanceServes ==
    ASSUME BookInv, NEW c \in Clients, advance[c], Met(c) = {}, call[c] # NoCall
    PROVE  Serves(call[c].to, call[c].op)
<1> USE DEF BookInv
<1> DEFINE r == Host(c, call[c].path)
<1>1. server_count[c] \in 1..NumRanks /\ call[c].to = address_cache[c][r]
  BY DEF ClientsInv, AdvanceClient
<1>2. call[c].path \in Paths /\ call[c].to \in Addresses /\ call[c].op \in Rpcs
  BY CallType
<1>3. r \in Ranks
  BY <1>1, <1>2, HostIsARank
<1> HIDE DEF r
<1>5. r \notin lost
  BY <1>1, <1>2, <1>3, AddressAssumption DEF Met
<1>4. Up(call[c].to) /\ registered[call[c].to[1]] = Rpcs
  BY <1>1, <1>2, <1>3, <1>5, AdvanceUp
<1> QED BY <1>2, <1>4 DEF Serves

\* hvac_client_init: what the client may rely on if all servers serve.
LEMMA ClientInitStep ==
    ASSUME BookInv, NEW c \in Clients, hvac_client_init(c)
    PROVE  BookInv'
<1> USE DEF BookInv, hvac_client_init
<1>0. PICK n \in ServerCounts :
          /\ server_count' = [server_count EXCEPT ![c] = n]
          /\ advance' = [advance EXCEPT ![c] =
                            n \in 1..NumRanks /\ \A r \in Ranks : stage[r] = "serving"]
  OBVIOUS
<1>1. /\ status[c] = "new" /\ status'[c] = "running" /\ server_count'[c] = n
      /\ advance'[c] => n \in 1..NumRanks /\ \A r \in Ranks : stage[r] = "serving"
  BY <1>0 DEF TypeOK
<1>2. \A d \in Clients \ {c} : Untouched(d)
  BY <1>0 DEF TypeOK, Untouched, requestVars
<1>3. TypeOK'
  <2>1. server_count' \in [Clients -> Nat]
    BY <1>0, AddressAssumption DEF TypeOK
  <2>2. advance' \in [Clients -> BOOLEAN]
    BY <1>0 DEF TypeOK
  <2>3. status' \in [Clients -> {"new", "running", "dead"}]
    BY DEF TypeOK
  <2> QED BY <2>1, <2>2, <2>3 DEF TypeOK, serverVars, requestVars
<1>4. ServersInv' /\ LinesInv'
  BY ServersKept
<1>5. CacheInv'
  BY LinesUnchanged DEF CacheInv, serverVars
<1>6. NewClient(c)'
  BY <1>1 DEF NewClient
<1>7. AdvanceClient(c)'
  <2> SUFFICES ASSUME advance'[c] PROVE AdvanceClient(c)'
    BY DEF AdvanceClient
  <2>1. server_count'[c] \in 1..NumRanks /\ \A r \in Ranks : stage'[r] = "serving"
    BY <1>1 DEF serverVars
  <2>2. 0 \in Ranks
    BY <2>1, AddressAssumption DEF Ranks
  <2>3. ports_file' /\ \A r \in Ranks : Lines(r)' # {}
    BY <1>4, <2>1, <2>2 DEF ServersInv
  <2>4. call'[c] = NoCall /\ (\A p \in Paths : fd_redir_map'[c][p] = NoAddr) /\ na_configs'[c] = 0
    BY <1>1 DEF ClientsInv, NewClient, requestVars
  <2>5. 0 <= Cardinality(Cached(c)')
    <3>1. Cached(c)' = Cached(c)
      BY DEF Cached
    <3> QED BY <3>1, CachedFinite
  <2> QED BY <1>1, <2>1, <2>3, <2>4, <2>5 DEF AdvanceClient
<1>8. ClientsInv'
  BY <1>2, <1>6, <1>7, OthersKept DEF ClientsInv
<1>9. ClosesInv'
  <2> SUFFICES ASSUME NEW m \in closes
               PROVE  status'[m.client] # "new" /\ (advance'[m.client] => m.fd = m.to)
    BY DEF ClosesInv, requestVars
  <2>1. m.client \in Clients /\ m.client # c
    BY <1>1 DEF ClosesInv, TypeOK
  <2> QED BY <1>2, <2>1 DEF ClosesInv, Untouched
<1> QED BY <1>3, <1>4, <1>5, <1>8, <1>9

(***************************************************************************)
(* The lookup in an open, read, lseek or close of a client started in      *)
(* advance: the address is that of the host, and it is the owner of the    *)
(* file's remote descriptor, if there is one.                              *)
(***************************************************************************)
LEMMA AdvanceLookup ==
    ASSUME BookInv, NEW c \in Clients, NEW p \in Paths, NEW addr \in Addresses, advance[c],
           hvac_client_comm_lookup_addr(c, Host(c, p), addr), UNCHANGED <<serverVars, server_count>>
    PROVE  /\ addr = address_cache'[c][Host(c, p)]
           /\ fd_redir_map[c][p] \in {NoAddr, addr}
           /\ \A q \in Paths : Host(c, q) \in Ranks /\ Host(c, q)' = Host(c, q)
           /\ \A q \in Paths : fd_redir_map[c][q] # NoAddr =>
                  address_cache'[c][Host(c, q)] = fd_redir_map[c][q]
           /\ na_configs'[c] <= Cardinality(Cached(c)')
           /\ \A r \in Ranks : Lines(r)' # {}
           /\ lost' = lost => Met(c) \subseteq Met(c)'
<1> USE DEF BookInv
<1>1. AdvanceClient(c)
  BY DEF ClientsInv
<1>2. \A q \in Paths : Host(c, q) \in Ranks
  BY <1>1, HostIsARank DEF AdvanceClient
<1>3. \A q : Host(c, q)' = Host(c, q)
  BY DEF Host
<1>4. Lines(Host(c, p)) # {} /\ UNCHANGED ports
  BY <1>1, <1>2 DEF AdvanceClient, serverVars
<1>5. /\ addr = address_cache'[c][Host(c, p)]
      /\ \A r \in Ranks : address_cache[c][r] # NoAddr =>
             address_cache'[c][r] = address_cache[c][r]
      /\ na_configs[c] <= Cardinality(Cached(c)) => na_configs'[c] <= Cardinality(Cached(c)')
  BY <1>4, LookupStep
<1>6. \A q \in Paths : fd_redir_map[c][q] # NoAddr =>
          address_cache'[c][Host(c, q)] = fd_redir_map[c][q]
  BY <1>1, <1>2, <1>5 DEF AdvanceClient
<1>7. na_configs'[c] <= Cardinality(Cached(c)')
  BY <1>1, <1>5 DEF AdvanceClient
<1>8. \A r \in Ranks : Lines(r)' # {}
  BY <1>1, <1>4, LinesUnchanged DEF AdvanceClient
<1>9. lost' = lost => Met(c) \subseteq Met(c)'
  BY <1>5 DEF Met, TypeOK
<1> QED BY <1>2, <1>3, <1>5, <1>6, <1>7, <1>8, <1>9

\* open, read, pread and lseek: the request goes to the host of the file.
LEMMA CallSends ==
    ASSUME BookInv, NEW c \in Clients, NEW p \in Paths,
           NEW op \in {"open", "read", "seek"}, Call(c, p, op)
    PROVE  BookInv'
<1> USE DEF BookInv, Call, Idle
<1>0. PICK addr \in Addresses :
          hvac_client_comm_lookup_addr(c, Host(c, p), addr) /\ Send(c, p, op, addr)
  OBVIOUS
<1> DEFINE sent == [op |-> op, path |-> p, to |-> addr, fd |-> fd_redir_map[c][p]]
<1>1. /\ address_cache' \in [Clients -> [Ranks -> Addresses \cup {NoAddr}]]
      /\ na_configs' \in [Clients -> 0..MaxStreams]
      /\ CacheInv'
      /\ \A d \in Clients \ {c} :
             address_cache'[d] = address_cache[d] /\ na_configs'[d] = na_configs[d]
  BY <1>0, LookupStep DEF serverVars
<1>2. call'[c] = sent /\ \A d \in Clients \ {c} : call'[d] = call[d]
  BY <1>0 DEF Send, TypeOK
<1>3. sent \in Request({"open", "read", "seek"})
  BY DEF Request, TypeOK
<1>4. TypeOK'
  <2>1. call' \in [Clients -> Request({"open", "read", "seek"}) \cup {NoCall}]
    BY <1>0, <1>3 DEF Send, TypeOK
  <2> QED BY <1>1, <2>1 DEF TypeOK, serverVars, ghostVars
<1>5. ServersInv' /\ LinesInv'
  BY ServersKept DEF ghostVars
<1>6. NewClient(c)'
  BY DEF NewClient
<1>7. AdvanceClient(c)'
  <2> SUFFICES ASSUME advance'[c] PROVE AdvanceClient(c)'
    BY DEF AdvanceClient
  <2>1. advance[c] /\ AdvanceClient(c)
    BY DEF ghostVars, ClientsInv
  <2>2. /\ addr = address_cache'[c][Host(c, p)]
        /\ fd_redir_map[c][p] \in {NoAddr, addr}
        /\ \A q \in Paths : Host(c, q) \in Ranks /\ Host(c, q)' = Host(c, q)
        /\ \A q \in Paths : fd_redir_map[c][q] # NoAddr =>
               address_cache'[c][Host(c, q)] = fd_redir_map[c][q]
        /\ na_configs'[c] <= Cardinality(Cached(c)')
        /\ \A r \in Ranks : Lines(r)' # {}
        /\ Met(c) \subseteq Met(c)'
    BY <1>0, <2>1, AdvanceLookup DEF ghostVars
  <2>3. Host(c, call[c].path)' = Host(c, p)
    BY <1>2 DEF Host
  <2>4. call'[c].to = addr /\ call'[c].fd \in {NoAddr, addr}
    BY <1>2, <2>2
  <2> QED BY <2>1, <2>2, <2>3, <2>4 DEF AdvanceClient, serverVars, ghostVars
<1>8. ClientsInv'
  <2>1. \A d \in Clients \ {c} : Untouched(d)
    BY <1>1, <1>2 DEF Untouched, ghostVars
  <2> QED BY <1>6, <1>7, <2>1, OthersKept DEF ClientsInv, ghostVars
<1>9. ClosesInv'
  BY DEF ClosesInv, ghostVars
<1> QED BY <1>1, <1>4, <1>5, <1>8, <1>9

\* close: as above, and nobody waits.
LEMMA CloseSends ==
    ASSUME BookInv, NEW c \in Clients, NEW p \in Paths, hvac_client_comm_gen_close_rpc(c, p)
    PROVE  BookInv'
<1> USE DEF BookInv, hvac_client_comm_gen_close_rpc, Idle
<1>0. PICK addr \in Addresses :
          /\ hvac_client_comm_lookup_addr(c, Host(c, p), addr)
          /\ closes' = closes \cup {[client |-> c, to |-> addr, fd |-> fd_redir_map[c][p]]}
  OBVIOUS
<1>1. /\ address_cache' \in [Clients -> [Ranks -> Addresses \cup {NoAddr}]]
      /\ na_configs' \in [Clients -> 0..MaxStreams]
      /\ CacheInv'
      /\ \A d \in Clients \ {c} :
             address_cache'[d] = address_cache[d] /\ na_configs'[d] = na_configs[d]
  BY <1>0, LookupStep DEF serverVars
<1>2. /\ fd_redir_map'[c] = [fd_redir_map[c] EXCEPT ![p] = NoAddr]
      /\ \A d \in Clients \ {c} : fd_redir_map'[d] = fd_redir_map[d]
      /\ \A q \in Paths : fd_redir_map'[c][q] # NoAddr =>
             fd_redir_map'[c][q] = fd_redir_map[c][q]
  BY DEF TypeOK
<1>3. TypeOK'
  <2>1. fd_redir_map' \in [Clients -> [Paths -> Addresses \cup {NoAddr}]]
    BY DEF TypeOK
  <2>2. [client |-> c, to |-> addr, fd |-> fd_redir_map[c][p]]
            \in [client : Clients, to : Addresses, fd : Addresses]
    BY DEF TypeOK
  <2>3. closes' \subseteq [client : Clients, to : Addresses, fd : Addresses]
    BY <1>0, <2>2 DEF TypeOK
  <2> QED BY <1>1, <2>1, <2>3 DEF TypeOK, serverVars, ghostVars
<1>4. ServersInv' /\ LinesInv'
  BY ServersKept DEF ghostVars
<1>5. NewClient(c)'
  BY DEF NewClient
<1>6. advance[c] => fd_redir_map[c][p] = addr
  BY <1>0, AdvanceLookup
<1>7. AdvanceClient(c)'
  <2> SUFFICES ASSUME advance'[c] PROVE AdvanceClient(c)'
    BY DEF AdvanceClient
  <2>1. advance[c] /\ AdvanceClient(c)
    BY DEF ghostVars, ClientsInv
  <2>2. /\ \A q \in Paths : Host(c, q) \in Ranks /\ Host(c, q)' = Host(c, q)
        /\ \A q \in Paths : fd_redir_map[c][q] # NoAddr =>
               address_cache'[c][Host(c, q)] = fd_redir_map[c][q]
        /\ na_configs'[c] <= Cardinality(Cached(c)')
        /\ \A r \in Ranks : Lines(r)' # {}
        /\ Met(c) \subseteq Met(c)'
    BY <1>0, <2>1, AdvanceLookup DEF ghostVars
  <2> QED BY <1>2, <2>1, <2>2 DEF AdvanceClient, serverVars, ghostVars
<1>8. ClientsInv'
  <2>1. \A d \in Clients \ {c} : Untouched(d)
    BY <1>1, <1>2 DEF Untouched, ghostVars
  <2> QED BY <1>5, <1>7, <2>1, OthersKept DEF ClientsInv, ghostVars
<1>9. ClosesInv'
  BY <1>0, <1>6 DEF ClosesInv, ghostVars
<1> QED BY <1>1, <1>3, <1>4, <1>8, <1>9

\* A client dies.  The invariant asks only that a client started in advance
\* did not, as long as it has met no server that ended.
LEMMA DieStep ==
    ASSUME BookInv, NEW c \in Clients, Die(c),
           UNCHANGED <<serverVars, server_count, address_cache, na_configs,
                       fd_redir_map, closes, ghostVars>>,
           ~(advance[c] /\ Met(c) = {} /\ NumRanks <= MaxStreams)
    PROVE  BookInv'
<1> USE DEF BookInv, Die
<1>1. /\ status'[c] = "dead" /\ call'[c] = NoCall
      /\ \A d \in Clients \ {c} : status'[d] = status[d] /\ call'[d] = call[d]
  BY DEF TypeOK
<1>2. TypeOK'
  BY DEF TypeOK, serverVars, ghostVars
<1>3. ServersInv' /\ LinesInv'
  BY ServersKept DEF ghostVars
<1>4. \A rank : Lines(rank)' = Lines(rank) /\ FirstLine(rank)' = FirstLine(rank)
  BY LinesUnchanged DEF serverVars
<1>5. CacheInv'
  BY <1>4 DEF CacheInv
<1>6. NewClient(c)'
  BY <1>1 DEF NewClient
<1>7. AdvanceClient(c)'
  <2>1. Cached(c)' = Cached(c) /\ Met(c)' = Met(c) /\ \A p : Host(c, p)' = Host(c, p)
    BY DEF Cached, Met, Host, ghostVars
  <2>2. AdvanceClient(c)
    BY DEF ClientsInv
  <2> QED BY <1>1, <1>4, <2>1, <2>2 DEF AdvanceClient, serverVars, ghostVars
<1>8. ClientsInv'
  <2>1. \A d \in Clients \ {c} : Untouched(d)
    BY <1>1 DEF Untouched, ghostVars
  <2> QED BY <1>6, <1>7, <2>1, OthersKept DEF ClientsInv, ghostVars
<1>9. ClosesInv'
  BY <1>1 DEF ClosesInv, ghostVars, TypeOK
<1> QED BY <1>2, <1>3, <1>5, <1>8, <1>9

\* A close finds its server gone: the client dies with what the lookup has
\* left in its cache.
LEMMA CloseKillsStep ==
    ASSUME BookInv, NEW c \in Clients, NEW p \in Paths, CloseKills(c, p)
    PROVE  BookInv'
<1> USE DEF BookInv, CloseKills, Die, Idle
<1>0. PICK addr \in Addresses :
          hvac_client_comm_lookup_addr(c, Host(c, p), addr) /\ ~Up(addr)
  OBVIOUS
<1>1. /\ address_cache' \in [Clients -> [Ranks -> Addresses \cup {NoAddr}]]
      /\ na_configs' \in [Clients -> 0..MaxStreams]
      /\ CacheInv'
      /\ \A d \in Clients \ {c} :
             address_cache'[d] = address_cache[d] /\ na_configs'[d] = na_configs[d]
  BY <1>0, LookupStep DEF serverVars
<1>2. /\ status'[c] = "dead" /\ call'[c] = NoCall
      /\ \A d \in Clients \ {c} : status'[d] = status[d] /\ call'[d] = call[d]
  BY DEF TypeOK
<1>3. TypeOK'
  <2>1. /\ status' \in [Clients -> {"new", "running", "dead"}]
        /\ call' \in [Clients -> Request({"open", "read", "seek"}) \cup {NoCall}]
    BY DEF TypeOK
  <2> QED BY <1>1, <2>1 DEF TypeOK, serverVars, ghostVars
<1>4. ServersInv' /\ LinesInv'
  BY ServersKept DEF ghostVars
<1>5. NewClient(c)'
  BY <1>2 DEF NewClient
<1>6. advance[c] => Met(c) # {}
  <2> SUFFICES ASSUME advance[c], Met(c) = {} PROVE FALSE
    OBVIOUS
  <2>1. fd_redir_map[c][p] = addr
    BY <1>0, AdvanceLookup
  <2>2. Host(c, p) \in Ranks /\ address_cache[c][Host(c, p)] = addr
    BY <2>1, HostIsARank DEF ClientsInv, AdvanceClient
  <2>3. Host(c, p) \notin lost
    BY <2>2, AddressAssumption DEF Met
  <2> QED BY <1>0, <2>2, <2>3, AdvanceUp
<1>7. AdvanceClient(c)'
  <2> SUFFICES ASSUME advance'[c] PROVE AdvanceClient(c)'
    BY DEF AdvanceClient
  <2>1. advance[c] /\ AdvanceClient(c)
    BY DEF ghostVars, ClientsInv
  <2>2. /\ \A q \in Paths : Host(c, q) \in Ranks /\ Host(c, q)' = Host(c, q)
        /\ \A q \in Paths : fd_redir_map[c][q] # NoAddr =>
               address_cache'[c][Host(c, q)] = fd_redir_map[c][q]
        /\ na_configs'[c] <= Cardinality(Cached(c)')
        /\ \A r \in Ranks : Lines(r)' # {}
        /\ Met(c) \subseteq Met(c)'
    BY <1>0, <2>1, AdvanceLookup DEF ghostVars
  <2> QED BY <1>2, <1>6, <2>1, <2>2 DEF AdvanceClient, serverVars, ghostVars
<1>8. ClientsInv'
  <2>1. \A d \in Clients \ {c} : Untouched(d)
    BY <1>1, <1>2 DEF Untouched, ghostVars
  <2> QED BY <1>5, <1>7, <2>1, OthersKept DEF ClientsInv, ghostVars
<1>9. ClosesInv'
  BY <1>2 DEF ClosesInv, ghostVars, TypeOK
<1> QED BY <1>1, <1>3, <1>4, <1>8, <1>9

\* A call crashes: not in a client that was started in advance and can open a
\* stream for every server.
LEMMA CallCrashesStep ==
    ASSUME BookInv, NEW c \in Clients, NEW p \in Paths, CallCrashes(c, p)
    PROVE  BookInv'
<1> USE DEF CallCrashes
<1>1. ~(advance[c] /\ Met(c) = {} /\ NumRanks <= MaxStreams)
  <2> SUFFICES ASSUME advance[c], NumRanks <= MaxStreams PROVE FALSE
    OBVIOUS
  <2>1. AdvanceClient(c)
    BY DEF BookInv, ClientsInv
  <2>2. Host(c, p) \in Ranks
    BY <2>1, HostIsARank DEF AdvanceClient
  <2>3. server_count[c] # 0 /\ ports_file /\ Lines(Host(c, p)) # {}
    BY <2>1, <2>2 DEF AdvanceClient
  <2>4. address_cache[c][Host(c, p)] = NoAddr /\ na_configs[c] = MaxStreams
    BY <2>2, <2>3 DEF LookupCrashes
  <2>5. Cardinality(Cached(c)) < NumRanks
    BY <2>2, <2>4, CachedBound DEF Cached
  <2>6. na_configs[c] <= Cardinality(Cached(c)) /\ Cardinality(Cached(c)) \in Nat
    BY <2>1, CachedFinite DEF AdvanceClient
  <2> QED BY <2>4, <2>5, <2>6, AddressAssumption
<1> QED BY <1>1, DieStep

-----------------------------------------------------------------------------
(***************************************************************************)
(* Outcomes of requests.                                                   *)
(***************************************************************************)
\* An answer: after an open the file's descriptor is of the process that was
\* asked, which the cache names for the file.
LEMMA AnsweredStep ==
    ASSUME BookInv, NEW c \in Clients, Answered(c)
    PROVE  BookInv'
<1> USE DEF BookInv, Answered
<1>1. /\ call[c].path \in Paths /\ call[c].to \in Addresses
      /\ call'[c] = NoCall /\ \A d \in Clients \ {c} : call'[d] = call[d]
  BY CallType DEF TypeOK
<1>2. /\ fd_redir_map' \in [Clients -> [Paths -> Addresses \cup {NoAddr}]]
      /\ \A d \in Clients \ {c} : fd_redir_map'[d] = fd_redir_map[d]
      /\ \A q \in Paths :
             \/ fd_redir_map'[c][q] = fd_redir_map[c][q]
             \/ q = call[c].path /\ fd_redir_map'[c][q] = call[c].to
  BY <1>1 DEF TypeOK
<1>3. TypeOK'
  <2>1. call' \in [Clients -> Request({"open", "read", "seek"}) \cup {NoCall}]
    BY DEF TypeOK
  <2> QED BY <1>2, <2>1 DEF TypeOK, serverVars, bookVars, ghostVars
<1>4. ServersInv' /\ LinesInv'
  BY ServersKept DEF ghostVars
<1>5. \A rank : Lines(rank)' = Lines(rank) /\ FirstLine(rank)' = FirstLine(rank)
  BY LinesUnchanged DEF serverVars
<1>6. CacheInv'
  BY <1>5 DEF CacheInv, bookVars
<1>7. NewClient(c)'
  BY DEF NewClient, ClientsInv, bookVars
<1>8. AdvanceClient(c)'
  <2>1. Cached(c)' = Cached(c) /\ Met(c)' = Met(c) /\ \A p : Host(c, p)' = Host(c, p)
    BY DEF Cached, Met, Host, bookVars, ghostVars
  <2>2. AdvanceClient(c)
    BY DEF ClientsInv
  <2> QED BY <1>1, <1>2, <1>5, <2>1, <2>2 DEF AdvanceClient, serverVars, bookVars, ghostVars
<1>9. ClientsInv'
  <2>1. \A d \in Clients \ {c} : Untouched(d)
    BY <1>1, <1>2 DEF Untouched, bookVars, ghostVars
  <2> QED BY <1>7, <1>8, <2>1, OthersKept DEF ClientsInv, ghostVars
<1>10. ClosesInv'
  BY DEF ClosesInv, bookVars, ghostVars
<1> QED BY <1>3, <1>4, <1>6, <1>9, <1>10

\* A failure is asserted: not in a client started in advance.
LEMMA RequestKillsStep ==
    ASSUME BookInv, NEW c \in Clients, RequestKills(c)
    PROVE  BookInv'
<1>1. ~(advance[c] /\ Met(c) = {} /\ NumRanks <= MaxStreams)
  BY AdvanceServes DEF RequestKills, Fails
<1> QED BY <1>1, DieStep DEF RequestKills

\* hvac_seek_cb overlooks a failure.
LEMMA SeekReturnsGarbageStep ==
    ASSUME BookInv, NEW c \in Clients, SeekReturnsGarbage(c)
    PROVE  BookInv'
<1> USE DEF BookInv, SeekReturnsGarbage
<1>1. call'[c] = NoCall /\ \A d \in Clients \ {c} : call'[d] = call[d]
  BY DEF TypeOK
<1>2. TypeOK'
  BY DEF TypeOK, serverVars, bookVars, ghostVars
<1>3. ServersInv' /\ LinesInv'
  BY ServersKept DEF ghostVars
<1>4. \A rank : Lines(rank)' = Lines(rank) /\ FirstLine(rank)' = FirstLine(rank)
  BY LinesUnchanged DEF serverVars
<1>5. CacheInv'
  BY <1>4 DEF CacheInv, bookVars
<1>6. NewClient(c)'
  BY <1>1 DEF NewClient, ClientsInv, bookVars, ghostVars
<1>7. AdvanceClient(c)'
  <2>1. Cached(c)' = Cached(c) /\ Met(c)' = Met(c) /\ \A p : Host(c, p)' = Host(c, p)
    BY DEF Cached, Met, Host, bookVars, ghostVars
  <2>2. AdvanceClient(c)
    BY DEF ClientsInv
  <2> QED BY <1>1, <1>4, <2>1, <2>2 DEF AdvanceClient, serverVars, bookVars, ghostVars
<1>8. ClientsInv'
  <2>1. \A d \in Clients \ {c} : Untouched(d)
    BY <1>1 DEF Untouched, bookVars, ghostVars
  <2> QED BY <1>6, <1>7, <2>1, OthersKept DEF ClientsInv, ghostVars
<1>9. ClosesInv'
  BY DEF ClosesInv, bookVars, ghostVars
<1> QED BY <1>2, <1>3, <1>5, <1>8, <1>9

\* A close is handled or lost.
LEMMA CloseArrivesStep ==
    ASSUME BookInv, NEW m \in closes, CloseArrives(m)
    PROVE  BookInv'
<1> USE DEF BookInv, CloseArrives
<1>1. TypeOK'
  BY DEF TypeOK, serverVars, bookVars, ghostVars
<1>2. ServersInv' /\ LinesInv'
  BY ServersKept DEF ghostVars
<1>3. CacheInv'
  BY LinesUnchanged DEF CacheInv, serverVars, bookVars
<1>4. ClientsInv'
  <2>1. \A d \in Clients : Untouched(d)
    BY DEF Untouched, bookVars, ghostVars
  <2> QED BY <2>1, OthersKept DEF ClientsInv, ghostVars
<1>5. ClosesInv'
  BY DEF ClosesInv, bookVars, ghostVars
<1> QED BY <1>1, <1>2, <1>3, <1>4, <1>5

-----------------------------------------------------------------------------
\* The first state: no server, no ports file, no client.
LEMMA BookInit == Init => BookInv
<1> SUFFICES ASSUME Init PROVE BookInv
  OBVIOUS
<1> USE DEF Init
<1>1. TypeOK
  <2>1. 0 \in 0..MaxStarts /\ 0 \in 0..MaxStreams /\ 0 \in Nat
    BY AddressAssumption
  <2>2. stage \in [Ranks -> Stages] /\ starts \in [Ranks -> 0..MaxStarts]
    BY <2>1 DEF Stages
  <2>3. ports \in Seq([rank : Ranks, addr : Addresses])
    OBVIOUS
  <2>4. server_count \in [Clients -> Nat] /\ na_configs \in [Clients -> 0..MaxStreams]
    BY <2>1
  <2>5. /\ advance \in [Clients -> BOOLEAN]
        /\ ports_file \in BOOLEAN
        /\ lost \subseteq Ranks
    OBVIOUS
  <2>6. /\ registered \in [Ranks -> SUBSET Rpcs]
        /\ status \in [Clients -> {"new", "running", "dead"}]
        /\ address_cache \in [Clients -> [Ranks -> Addresses \cup {NoAddr}]]
        /\ fd_redir_map \in [Clients -> [Paths -> Addresses \cup {NoAddr}]]
        /\ call \in [Clients -> Request({"open", "read", "seek"}) \cup {NoCall}]
        /\ closes \subseteq [client : Clients, to : Addresses, fd : Addresses]
    OBVIOUS
  <2> HIDE DEF Init
  <2> QED BY <2>2, <2>3, <2>4, <2>5, <2>6 DEF TypeOK
<1>2. ServersInv /\ LinesInv /\ CacheInv
  BY DEF ServersInv, LinesInv, CacheInv
<1>3. ClientsInv /\ ClosesInv
  BY DEF ClientsInv, NewClient, AdvanceClient, ClosesInv
<1> QED BY <1>1, <1>2, <1>3 DEF BookInv

\* BookInv is an invariant: the first state, and one lemma per action.
LEMMA BookInvariant == Spec => []BookInv
<1>1. BookInv /\ [Next]_vars => BookInv'
  <2> SUFFICES ASSUME BookInv, [Next]_vars PROVE BookInv'
    OBVIOUS
  <2>1. CASE \E r \in Ranks : Server(r) \/ ServerEnds(r)
    BY <2>1, InitCommStep, CreatePortsFileStep, ListAddrStep, RegisterRpcStep, ServerEndsStep
    DEF Server
  <2>2. CASE \E c \in Clients : Client(c)
    BY <2>2, ClientInitStep, CallSends, CloseSends, CloseKillsStep, CallCrashesStep
    DEF Client
  <2>3. CASE \E c \in Clients : Outcome(c)
    BY <2>3, AnsweredStep, RequestKillsStep, SeekReturnsGarbageStep DEF Outcome
  <2>4. CASE \E m \in closes : CloseArrives(m)
    BY <2>4, CloseArrivesStep
  <2>5. CASE UNCHANGED vars
    <3> USE <2>5 DEF BookInv, vars
    <3>1. TypeOK'
      BY DEF TypeOK, serverVars, bookVars, requestVars, ghostVars
    <3>2. ServersInv' /\ LinesInv'
      BY ServersKept DEF ghostVars
    <3>3. \A r \in Ranks : Lines(r) # {} => Lines(r)' # {} /\ FirstLine(r)' = FirstLine(r)
      BY LinesUnchanged DEF serverVars
    <3>4. CacheInv' /\ ClientsInv' /\ ClosesInv'
      BY <3>3, ClientsKept DEF serverVars, ghostVars
    <3> QED BY <3>1, <3>2, <3>4
  <2> QED BY <2>1, <2>2, <2>3, <2>4, <2>5 DEF Next
<1> QED BY <1>1, BookInit, PTL DEF Spec

\* Servers and clients keep the types of the ports file, the caches and the
\* requests over every start, end and restart.
THEOREM TypeCorrect == Spec => []TypeOK
<1>1. BookInv => TypeOK
  BY DEF BookInv
<1> QED BY <1>1, BookInvariant, PTL

(***************************************************************************)
(* Every request and every close of a client that was started after the    *)
(* servers carries a descriptor of the very process it is sent to: the     *)
(* lookup of a rank never changes its answer, however often servers end    *)
(* and start again.                                                        *)
(***************************************************************************)
THEOREM RequestsReachTheOwner == Spec => []DescriptorsGoHome
<1>1. BookInv => DescriptorsGoHome
  BY DEF BookInv, ClientsInv, AdvanceClient, ClosesInv, DescriptorsGoHome
<1> QED BY <1>1, BookInvariant, PTL

(***************************************************************************)
(* "There is an expectation that the server will be started in advance of  *)
(* the clients" (hvac_comm.cpp:138-139): it is enough, for any number of   *)
(* servers and clients, as long as no server ends and a client can open as *)
(* many streams as there are servers.                                      *)
(***************************************************************************)
THEOREM ServersFirstIsEnough == Spec => []StartInAdvanceIsSafe
<1>1. BookInv => StartInAdvanceIsSafe
  BY DEF BookInv, ClientsInv, AdvanceClient, StartInAdvanceIsSafe
<1> QED BY <1>1, BookInvariant, PTL

\* lookup_addr never closes the ports file, but a client started after the
\* servers has it open at most once for each rank in its cache.
THEOREM OneStreamPerCachedRank == Spec => []StreamsBounded
<1>1. BookInv => StreamsBounded
  BY DEF BookInv, ClientsInv, AdvanceClient, StreamsBounded, Cached
<1> QED BY <1>1, BookInvariant, PTL

-----------------------------------------------------------------------------
(***************************************************************************)
(* The ports file and the caches implement AddressDirectory.               *)
(***************************************************************************)
\* What the ports file says of every rank: dir of the abstract specification.
Posted == [r \in Ranks |-> IF Lines(r) = {} THEN NoAddr ELSE FirstLine(r)]

\* A lookup either leaves the cache alone or learns what is posted.
LEMMA LookupLearns ==
    ASSUME BookInv, NEW c \in Clients, NEW rank, NEW addr \in Addresses,
           hvac_client_comm_lookup_addr(c, rank, addr), UNCHANGED ports
    PROVE  Directory!Next \/ UNCHANGED address_cache
<1> SUFFICES ASSUME address_cache' # address_cache PROVE Directory!Next
  OBVIOUS
<1>1. /\ rank \in Ranks => address_cache[c][rank] = NoAddr
      /\ Lines(rank) # {}
      /\ addr = FirstLine(rank)
      /\ address_cache' = [address_cache EXCEPT ![c][rank] = addr]
  BY DEF hvac_client_comm_lookup_addr, Remember
<1>2. rank \in Ranks
  BY <1>1, LinesAreOfRanks DEF BookInv
<1>3. FirstLine(rank) # NoAddr
  BY <1>1, <1>2, FirstLineOwner DEF BookInv
<1>4. Posted[rank] = addr /\ Posted[rank] # NoAddr
  BY <1>1, <1>2, <1>3 DEF Posted
<1>5. Posted' = Posted
  BY LinesUnchanged DEF Posted
<1>6. Directory!Learn(c, rank)
  BY <1>1, <1>2, <1>4, <1>5 DEF Directory!Learn, Posted
<1> QED BY <1>2, <1>6 DEF Directory!Next

\* The first line of a rank publishes it; a later one, of a server that was
\* started again, changes nothing.
LEMMA ListAddrPublishes ==
    ASSUME BookInv, BookInv', NEW r \in Ranks, hvac_comm_list_addr(r)
    PROVE  Directory!Next \/ UNCHANGED <<Posted, address_cache>>
<1> DEFINE a == SelfAddr(r)
<1>0. UNCHANGED address_cache /\ ports' = Append(ports, [rank |-> r, addr |-> a])
  BY DEF hvac_comm_list_addr, bookVars
<1>1. a \in Addresses
  <2>1. stage[r] = "created"
    BY DEF hvac_comm_list_addr, ServerStage
  <2>2. starts[r] \in 0..MaxStarts /\ starts[r] > 0 /\ MaxStarts \in Nat
    BY <2>1, AddressAssumption DEF BookInv, TypeOK, ServersInv
  <2>3. starts[r] \in 1..MaxStarts
    BY <2>2
  <2> QED BY <2>3 DEF SelfAddr, Addresses
<1> HIDE DEF a
<1>2. \A q \in Ranks :
          /\ q # r => Lines(q)' = Lines(q)
          /\ q = r => Lines(q)' # {}
          /\ Lines(q) # {} => Lines(q)' # {} /\ FirstLine(q)' = FirstLine(q)
          /\ q = r /\ Lines(q) = {} => FirstLine(q)' = a
  BY <1>0, <1>1, AppendedLines DEF BookInv
<1>3. CASE Lines(r) = {}
  <2>1. Posted[r] = NoAddr
    BY <1>3 DEF Posted
  <2>2. Posted' = [Posted EXCEPT ![r] = a]
    BY <1>2, <1>3 DEF Posted
  <2>3. Directory!Publish(r, a)
    BY <1>0, <2>1, <2>2 DEF Directory!Publish, Posted
  <2> QED BY <1>1, <2>3 DEF Directory!Next
<1>4. CASE Lines(r) # {}
  <2>1. Posted' = Posted
    BY <1>2, <1>4 DEF Posted
  <2> QED BY <1>0, <2>1
<1> QED BY <1>3, <1>4

\* Every step publishes, learns, or changes neither the directory nor what is
\* known of it.
LEMMA StepOfDirectory ==
    ASSUME BookInv, BookInv', [Next]_vars
    PROVE  [Directory!Next]_(Directory!vars)
<1> SUFFICES Directory!Next \/ UNCHANGED <<Posted, address_cache>>
  BY DEF Directory!vars, Posted
<1>1. ASSUME UNCHANGED <<ports, address_cache>> PROVE UNCHANGED <<Posted, address_cache>>
  BY <1>1, LinesUnchanged DEF Posted
<1>2. ASSUME NEW r \in Ranks, Server(r) \/ ServerEnds(r)
      PROVE  Directory!Next \/ UNCHANGED <<Posted, address_cache>>
  <2>1. CASE hvac_comm_list_addr(r)
    BY <2>1, ListAddrPublishes
  <2>2. CASE hvac_init_comm(r) \/ CreatePortsFile(r) \/ RegisterRpc(r) \/ ServerEnds(r)
    BY <1>1, <2>2 DEF hvac_init_comm, CreatePortsFile, RegisterRpc, ServerEnds, bookVars
  <2> QED BY <1>2, <2>1, <2>2 DEF Server
<1>3. ASSUME NEW c \in Clients, Client(c)
      PROVE  Directory!Next \/ UNCHANGED <<Posted, address_cache>>
  <2>1. CASE hvac_client_init(c)
    BY <1>1, <2>1 DEF hvac_client_init, serverVars
  <2>2. ASSUME NEW p \in Paths, NEW op \in {"open", "read", "seek"}, Call(c, p, op)
        PROVE  Directory!Next \/ UNCHANGED <<Posted, address_cache>>
    BY <1>1, <2>2, LookupLearns DEF Call, serverVars
  <2>3. ASSUME NEW p \in Paths, hvac_client_comm_gen_close_rpc(c, p)
        PROVE  Directory!Next \/ UNCHANGED <<Posted, address_cache>>
    BY <1>1, <2>3, LookupLearns DEF hvac_client_comm_gen_close_rpc, serverVars
  <2>5. ASSUME NEW p \in Paths, CloseKills(c, p)
        PROVE  Directory!Next \/ UNCHANGED <<Posted, address_cache>>
    BY <1>1, <2>5, LookupLearns DEF CloseKills, serverVars
  <2>4. ASSUME NEW p \in Paths, CallCrashes(c, p)
        PROVE  UNCHANGED <<Posted, address_cache>>
    BY <1>1, <2>4 DEF CallCrashes, serverVars
  <2> QED BY <1>3, <2>1, <2>2, <2>3, <2>4, <2>5 DEF Client
<1>4. ASSUME NEW c \in Clients, Outcome(c) PROVE UNCHANGED <<Posted, address_cache>>
  BY <1>1, <1>4 DEF Outcome, Answered, RequestKills, SeekReturnsGarbage, serverVars, bookVars
<1>5. ASSUME NEW m \in closes, CloseArrives(m) PROVE UNCHANGED <<Posted, address_cache>>
  BY <1>1, <1>5 DEF CloseArrives, serverVars, bookVars
<1>6. CASE UNCHANGED vars
  BY <1>1, <1>6 DEF vars, serverVars, bookVars
<1> QED BY <1>2, <1>3, <1>4, <1>5, <1>6 DEF Next

(***************************************************************************)
(* The ports file and the caches implement AddressDirectory: the address   *)
(* of a rank is published once, and every client that learns it learns     *)
(* that one, for any number of clients, servers and restarts.              *)
(***************************************************************************)
THEOREM BookImplementsDirectory == Spec => ImplementsDirectory
<1>1. Init => Directory!Init
  BY DEF Init, Directory!Init, Lines
<1>2. BookInv /\ BookInv' /\ [Next]_vars => [Directory!Next]_(Directory!vars)
  BY StepOfDirectory
<1> QED BY <1>1, <1>2, BookInvariant, PTL DEF Spec, ImplementsDirectory, Directory!Spec
=============================================================================
