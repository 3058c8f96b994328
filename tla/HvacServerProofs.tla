--------------------------- MODULE HvacServerProofs ---------------------------
(***************************************************************************)
(* The server's handlers and its data mover preserve the server's          *)
(* invariant: one lemma per handler, for use by the proofs of the system.  *)
(* Even the types depend on RedirectionIsTransparent, because the close    *)
(* handler queues whatever fd_to_path holds.                               *)
(***************************************************************************)
EXTENDS HvacServer, HvacDataMoverProofs

ServerInv == ServerTypeOK /\ RedirectionIsTransparent /\ MoverInv

LEMMA ServerInvInit == ServerInit /\ MoverInit => ServerInv
BY MoverInvInit DEF ServerInit, ServerInv, ServerTypeOK, RedirectionIsTransparent

\* What an open reaches is a file of the data set, or a whole copy of it.
LEMMA OpenedFileProperties ==
    ASSUME ServerInv, NEW p \in Paths, NEW found \in LookupOutcomes(p),
           NEW file \in OpenedFile(p, found)
    PROVE  /\ file \in OpenFile
           /\ file.src = p
           /\ file.copy # 0 => /\ file.copy \in DOMAIN nvme
                               /\ nvme[file.copy] = [src |-> p, whole |-> TRUE]
<1>1. CASE found = NoEntry
  BY <1>1, MoverAssumption DEF OpenedFile, OpenFile
<1>2. CASE found = Garbled
  BY <1>2 DEF OpenedFile
<1>3. CASE found # NoEntry /\ found # Garbled
  <2>1. found \in DOMAIN nvme /\ nvme[found] = [src |-> p, whole |-> TRUE]
    <3>1. CASE found = path_cache_map[p]
      BY <1>3, <3>1 DEF ServerInv, MoverInv, CachedCopyIsWhole
    <3>2. CASE found # path_cache_map[p]
      <4>1. mover_pc = "publishing" /\ p = Head(local_list) /\ found = Len(nvme)
        BY <1>3, <3>2 DEF LookupOutcomes
      <4>2. Len(nvme) \in DOMAIN nvme /\ nvme[Len(nvme)] \in Copy
        BY <4>1 DEF ServerInv, MoverInv, MoverTypeOK, CopyInProgress
      <4>3. nvme[Len(nvme)].src = p /\ nvme[Len(nvme)].whole = TRUE
        BY <4>1, <4>2 DEF ServerInv, MoverInv, CopyInProgress, Copy
      <4> QED BY <4>1, <4>2, <4>3 DEF Copy
    <3> QED BY <3>1, <3>2
  <2>2. found \in Nat
    BY <2>1 DEF ServerInv, MoverInv, MoverTypeOK
  <2>3. file = [src |-> nvme[found].src, copy |-> found, pos |-> 0]
    BY <1>3 DEF OpenedFile
  <2> QED BY <2>1, <2>2, <2>3 DEF OpenFile
<1> QED BY <1>1, <1>2, <1>3

LEMMA OpenHandlerInv ==
    ASSUME ServerInv, NEW p \in Paths, NEW ret \in RemoteFds \cup {BadFd},
           hvac_open_rpc_handler(p, ret)
    PROVE  ServerInv'
<1>1. MoverInv' /\ UNCHANGED moverVars /\ alive' = alive
  BY MoverInvStutter DEF hvac_open_rpc_handler, ServerInv
<1>2. PICK found \in LookupOutcomes(p) :
        OpenSucceeds(p, found, ret) \/ OpenFails(p, found, ret)
  BY DEF hvac_open_rpc_handler
<1>3. BadFd \notin RemoteFds
  BY ServerAssumption DEF BadFd
<1>4. fd_to_path' = [fd_to_path EXCEPT ![ret] = p]
  BY DEF hvac_open_rpc_handler
<1>5. CASE OpenSucceeds(p, found, ret)
  <2>1. PICK file \in OpenedFile(p, found) :
          ret \in FreeFds /\ open_fds' = [open_fds EXCEPT ![ret] = file]
    BY <1>5 DEF OpenSucceeds
  <2>2. ret \in RemoteFds /\ file \in OpenFile /\ file.src = p
        /\ (file.copy # 0 => /\ file.copy \in DOMAIN nvme
                             /\ nvme[file.copy] = [src |-> p, whole |-> TRUE])
    BY <1>2, <2>1, OpenedFileProperties DEF FreeFds
  <2>3. ServerTypeOK'
    BY <1>1, <1>4, <2>1, <2>2 DEF ServerInv, ServerTypeOK
  <2>4. RedirectionIsTransparent'
    BY <1>1, <1>4, <2>1, <2>2 DEF ServerInv, ServerTypeOK, RedirectionIsTransparent, moverVars
  <2> QED BY <1>1, <2>3, <2>4 DEF ServerInv
<1>6. CASE OpenFails(p, found, ret)
  <2>1. ret = BadFd /\ open_fds' = open_fds
    BY <1>6 DEF OpenFails
  <2>2. ServerTypeOK'
    BY <1>1, <1>4, <2>1 DEF ServerInv, ServerTypeOK
  <2>3. RedirectionIsTransparent'
    BY <1>1, <1>3, <1>4, <2>1 DEF ServerInv, ServerTypeOK, RedirectionIsTransparent, moverVars
  <2> QED BY <1>1, <2>2, <2>3 DEF ServerInv
<1> QED BY <1>2, <1>5, <1>6

\* Moving the position of an open file changes nothing else.
LEMMA MovePositionInv ==
    ASSUME ServerInv, NEW f \in RemoteFds, open_fds[f] # NoEntry, NEW pos \in Nat,
           open_fds' = [open_fds EXCEPT ![f] = MovedTo(open_fds[f], pos)],
           UNCHANGED <<alive, fd_to_path, moverVars>>
    PROVE  ServerInv'
<1>1. MoverInv'
  BY MoverInvStutter DEF ServerInv
<1>2. open_fds[f] \in OpenFile
  BY DEF ServerInv, ServerTypeOK
<1>3. /\ MovedTo(open_fds[f], pos) \in OpenFile
      /\ MovedTo(open_fds[f], pos).src = open_fds[f].src
      /\ MovedTo(open_fds[f], pos).copy = open_fds[f].copy
  BY <1>2 DEF OpenFile, MovedTo
<1>5. ServerTypeOK'
  BY <1>3 DEF ServerInv, ServerTypeOK
<1>6. RedirectionIsTransparent'
  BY <1>3 DEF ServerInv, ServerTypeOK, RedirectionIsTransparent, moverVars
<1> QED BY <1>1, <1>5, <1>6 DEF ServerInv

LEMMA ServerInvStutter ==
    ASSUME ServerInv, UNCHANGED <<serverVars, moverVars>>
    PROVE  ServerInv'
BY MoverInvStutter DEF ServerInv, serverVars, moverVars, ServerTypeOK, RedirectionIsTransparent

\* A read returns at most what was asked for.
LEMMA BytesReadType ==
    ASSUME ServerInv, NEW fd \in RemoteFds, open_fds[fd] # NoEntry,
           NEW count \in Nat, NEW offset \in Nat \cup {-1}
    PROVE  ReadStart(fd, offset) \in Nat /\ BytesRead(fd, count, offset) \in Nat
<1>1. open_fds[fd] \in OpenFile
  BY DEF ServerInv, ServerTypeOK
<1>2. ReadStart(fd, offset) \in Nat /\ Size[open_fds[fd].src] \in Nat
  BY <1>1, ServerAssumption DEF ReadStart, OpenFile
<1> QED BY <1>2 DEF BytesRead, AtMost

\* read(2) returns -1 or, on an open descriptor only, the bytes it read.
LEMMA ReadReturnsWhat ==
    ASSUME NEW fd, NEW count, NEW offset, NEW readbytes \in ReadReturns(fd, count, offset)
    PROVE  \/ /\ readbytes = -1
              /\ IsOpen(fd) => open_fds[fd].src \in Unreadable
           \/ /\ readbytes = BytesRead(fd, count, offset)
              /\ fd \in RemoteFds /\ open_fds[fd] # NoEntry
BY DEF ReadReturns, IsOpen

LEMMA ReadReturnsType ==
    ASSUME ServerInv, NEW fd, NEW count \in Nat, NEW offset \in Nat \cup {-1},
           NEW readbytes \in ReadReturns(fd, count, offset)
    PROVE  \/ readbytes = -1
           \/ /\ readbytes \in Nat /\ readbytes = BytesRead(fd, count, offset)
              /\ fd \in RemoteFds /\ open_fds[fd] # NoEntry /\ open_fds[fd] \in OpenFile
<1>1. CASE readbytes = -1
  BY <1>1
<1>2. CASE /\ readbytes = BytesRead(fd, count, offset)
           /\ fd \in RemoteFds /\ open_fds[fd] # NoEntry
  <2>1. BytesRead(fd, count, offset) \in Nat
    BY <1>2, BytesReadType
  <2>2. open_fds[fd] \in OpenFile
    BY <1>2 DEF ServerInv, ServerTypeOK
  <2> QED BY <1>2, <2>1, <2>2
<1> QED BY <1>1, <1>2, ReadReturnsWhat

LEMMA ReadHandlerInv ==
    ASSUME ServerInv, NEW fd, NEW count \in Nat, NEW offset \in Nat \cup {-1}, NEW readbytes,
           hvac_rpc_handler(fd, count, offset, readbytes)
    PROVE  ServerInv'
<1>1. readbytes \in ReadReturns(fd, count, offset)
  BY DEF hvac_rpc_handler
<1>2. CASE readbytes # -1 /\ offset = -1
  <2>1. /\ fd \in RemoteFds /\ open_fds[fd] # NoEntry /\ open_fds[fd] \in OpenFile
        /\ readbytes \in Nat
    BY <1>1, <1>2, ReadReturnsType
  <2>2. open_fds[fd].pos + readbytes \in Nat
    BY <2>1 DEF OpenFile
  <2> QED BY <1>2, <2>1, <2>2, MovePositionInv DEF hvac_rpc_handler
<1>3. CASE ~(readbytes # -1 /\ offset = -1)
  BY <1>3, ServerInvStutter DEF hvac_rpc_handler, serverVars
<1> QED BY <1>2, <1>3

LEMMA SeekHandlerInv ==
    ASSUME ServerInv, NEW fd, NEW offset \in Int, NEW whence,
           whence \in {"SEEK_SET", "SEEK_CUR", "SEEK_END"},
           hvac_seek_rpc_handler(fd, offset, whence)
    PROVE  ServerInv'
<1>1. CASE CanSeek(fd, offset, whence)
  <2>1. fd \in RemoteFds /\ open_fds[fd] # NoEntry /\ open_fds[fd] \in OpenFile
    BY <1>1 DEF CanSeek, IsOpen, ServerInv, ServerTypeOK
  <2>2. SeekTarget(fd, offset, whence) \in Int
    BY <2>1, ServerAssumption DEF SeekTarget, OpenFile
  <2>3. SeekTarget(fd, offset, whence) \in Nat
    BY <1>1, <2>2 DEF CanSeek
  <2> QED BY <1>1, <2>1, <2>3, MovePositionInv DEF hvac_seek_rpc_handler
<1>2. CASE ~CanSeek(fd, offset, whence)
  BY <1>2, ServerInvStutter DEF hvac_seek_rpc_handler, serverVars
<1> QED BY <1>1, <1>2

LEMMA CloseHandlerInv ==
    ASSUME ServerInv, NEW fd, hvac_close_rpc_handler(fd)
    PROVE  ServerInv'
<1>1. CASE CloseSucceeds(fd)
  <2>1. fd \in RemoteFds /\ open_fds[fd] \in OpenFile /\ fd_to_path[fd] = open_fds[fd].src
    BY <1>1 DEF CloseSucceeds, IsOpen, ServerInv, ServerTypeOK, RedirectionIsTransparent
  <2>2. fd_to_path[fd] \in Paths
    BY <2>1 DEF OpenFile
  <2>3. MoverInv' /\ nvme' = nvme
    BY <1>1, <2>2, RequestCachingInv DEF CloseSucceeds, ServerInv, RequestCaching
  <2>4. ServerTypeOK'
    BY <1>1, <2>1 DEF CloseSucceeds, ServerInv, ServerTypeOK
  <2>5. RedirectionIsTransparent'
    BY <1>1, <2>1, <2>3 DEF CloseSucceeds, ServerInv, ServerTypeOK, RedirectionIsTransparent
  <2> QED BY <2>3, <2>4, <2>5 DEF ServerInv
<1>2. CASE CloseAborts(fd)
  <2>1. MoverInv'
    BY <1>2, MoverInvStutter DEF CloseAborts, ServerInv
  <2> QED BY <1>2, <2>1 DEF CloseAborts, ServerInv, ServerTypeOK, RedirectionIsTransparent,
                        moverVars
<1> QED BY <1>1, <1>2 DEF hvac_close_rpc_handler

\* The mover never touches a copy that is whole.
LEMMA WholeCopiesStay ==
    ASSUME MoverInv, MoverNext, NEW k \in DOMAIN nvme, nvme[k].whole
    PROVE  k \in DOMAIN nvme' /\ nvme'[k] = nvme[k]
<1> USE DEF MoverInv
<1>0. nvme[k] \in Copy /\ nvme[k] = [src |-> nvme[k].src, whole |-> TRUE]
  <2>1. nvme[k] \in Copy
    BY DEF MoverTypeOK
  <2>2. nvme[k].whole = TRUE
    BY <2>1 DEF Copy
  <2> QED BY <2>1, <2>2 DEF Copy
<1>1. CASE BeginCopy
  <2>1. Head(local_list) \in Paths
    BY <1>1, HeadTailProperties DEF BeginCopy, MoverTypeOK
  <2>2. [src |-> Head(local_list), whole |-> FALSE] \in Copy
    BY <2>1 DEF Copy
  <2> QED BY <1>1, <2>2, AppendProperties DEF BeginCopy, MoverTypeOK
<1>2. CASE CopyDone
  <2>0. Len(nvme) \in DOMAIN nvme
    BY <1>2 DEF CopyDone, MoverTypeOK, CopyInProgress
  <2>1. /\ DOMAIN nvme' = DOMAIN nvme
        /\ nvme'[Len(nvme)] = [src |-> nvme[Len(nvme)].src, whole |-> TRUE]
        /\ k # Len(nvme) => nvme'[k] = nvme[k]
    BY <1>2, <2>0, ExceptSeq DEF CopyDone, MoverTypeOK
  <2> QED BY <1>0, <2>1
<1>3. CASE CondWait \/ SpuriousWakeup \/ TakeQueue \/ CopyFails \/ Publish
  BY <1>3 DEF CondWait, SpuriousWakeup, TakeQueue, CopyFails, Publish
<1> QED BY <1>1, <1>2, <1>3 DEF MoverNext, MoverStep

LEMMA ServerMoverInv ==
    ASSUME ServerInv, MoverNext, UNCHANGED serverVars
    PROVE  ServerInv'
<1>1. MoverInv'
  BY MoverNextInv DEF ServerInv
<1>2. ServerTypeOK'
  BY DEF ServerInv, ServerTypeOK, serverVars
<1>3. RedirectionIsTransparent'
  <2> SUFFICES ASSUME NEW f \in RemoteFds, open_fds[f] # NoEntry
               PROVE  /\ fd_to_path[f] = open_fds[f].src
                      /\ open_fds[f].copy # 0 =>
                           /\ open_fds[f].copy \in DOMAIN nvme'
                           /\ nvme'[open_fds[f].copy] = [src |-> open_fds[f].src, whole |-> TRUE]
    BY DEF RedirectionIsTransparent, serverVars
  <2>1. /\ fd_to_path[f] = open_fds[f].src
        /\ open_fds[f].copy # 0 =>
             /\ open_fds[f].copy \in DOMAIN nvme
             /\ nvme[open_fds[f].copy] = [src |-> open_fds[f].src, whole |-> TRUE]
    BY DEF ServerInv, RedirectionIsTransparent
  <2> QED BY <2>1, WholeCopiesStay DEF ServerInv
<1> QED BY <1>1, <1>2, <1>3 DEF ServerInv

-----------------------------------------------------------------------------
\* Reads and seeks neither open nor close a descriptor.
LEMMA MovedIsOpen ==
    ASSUME ServerInv, NEW f \in RemoteFds, open_fds[f] # NoEntry, NEW pos \in Nat,
           open_fds' = [open_fds EXCEPT ![f] = MovedTo(open_fds[f], pos)]
    PROVE  \A g \in RemoteFds : open_fds'[g] = NoEntry <=> open_fds[g] = NoEntry
<1>1. open_fds[f] \in OpenFile
  BY DEF ServerInv, ServerTypeOK
<1>2. MovedTo(open_fds[f], pos) \in OpenFile
  BY <1>1 DEF MovedTo, OpenFile
<1> QED BY <1>2, ServerAssumption DEF ServerInv, ServerTypeOK

LEMMA ReadKeepsOpen ==
    ASSUME ServerInv, NEW fd, NEW count \in Nat, NEW offset \in Nat \cup {-1}, NEW readbytes,
           hvac_rpc_handler(fd, count, offset, readbytes)
    PROVE  \A g \in RemoteFds : open_fds'[g] = NoEntry <=> open_fds[g] = NoEntry
<1>1. readbytes \in ReadReturns(fd, count, offset)
  BY DEF hvac_rpc_handler
<1>2. CASE readbytes # -1 /\ offset = -1
  <2>1. /\ fd \in RemoteFds /\ open_fds[fd] # NoEntry /\ open_fds[fd] \in OpenFile
        /\ readbytes \in Nat
    BY <1>1, <1>2, ReadReturnsType
  <2>2. open_fds[fd].pos + readbytes \in Nat
    BY <2>1 DEF OpenFile
  <2> QED BY <1>2, <2>1, <2>2, MovedIsOpen DEF hvac_rpc_handler
<1>3. CASE ~(readbytes # -1 /\ offset = -1)
  BY <1>3 DEF hvac_rpc_handler
<1> QED BY <1>2, <1>3

LEMMA SeekKeepsOpen ==
    ASSUME ServerInv, NEW fd, NEW offset \in Int, NEW whence,
           whence \in {"SEEK_SET", "SEEK_CUR", "SEEK_END"},
           hvac_seek_rpc_handler(fd, offset, whence)
    PROVE  \A g \in RemoteFds : open_fds'[g] = NoEntry <=> open_fds[g] = NoEntry
<1>1. CASE CanSeek(fd, offset, whence)
  <2>1. fd \in RemoteFds /\ open_fds[fd] # NoEntry /\ open_fds[fd] \in OpenFile
    BY <1>1 DEF CanSeek, IsOpen, ServerInv, ServerTypeOK
  <2>2. SeekTarget(fd, offset, whence) \in Int
    BY <2>1, ServerAssumption DEF SeekTarget, OpenFile
  <2>3. SeekTarget(fd, offset, whence) \in Nat
    BY <1>1, <2>2 DEF CanSeek
  <2> QED BY <1>1, <2>1, <2>3, MovedIsOpen DEF hvac_seek_rpc_handler
<1>2. CASE ~CanSeek(fd, offset, whence)
  BY <1>2 DEF hvac_seek_rpc_handler
<1> QED BY <1>1, <1>2
=============================================================================
