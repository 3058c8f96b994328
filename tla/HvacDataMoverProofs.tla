------------------------- MODULE HvacDataMoverProofs -------------------------
(***************************************************************************)
(* Proofs about the server's cache, for any set of files and any number of *)
(* caching requests.  The inductive invariant says what the mover is in    *)
(* the middle of (CopyInProgress) besides what its published entries name  *)
(* (CachedCopyIsWhole).  One lemma per kind of step, so that HvacServer's  *)
(* handlers can use them too.                                              *)
(***************************************************************************)
EXTENDS HvacDataMover, SequenceTheorems, TLAPS

MoverInv == MoverTypeOK /\ CachedCopyIsWhole /\ CopyInProgress

\* The cache starts empty.
LEMMA MoverInvInit == MoverInit => MoverInv
BY MoverAssumption DEF MoverInit, MoverInv, MoverTypeOK, MoverPc, CachedCopyIsWhole,
    CopyInProgress, Copy

\* The close handler's part: queueing a file changes only the queue and, if
\* the mover waits, wakes it.
LEMMA RequestCachingInv ==
    ASSUME MoverInv, NEW p \in Paths, RequestCaching(p)
    PROVE  MoverInv'
<1>1. /\ UNCHANGED <<local_list, path_cache_map, nvme>>
      /\ data_queue' = data_queue \/ data_queue' = Append(data_queue, p)
      /\ mover_pc' = mover_pc \/ (mover_pc = "wait" /\ mover_pc' = "woken")
  BY DEF RequestCaching, Signal
<1>2. MoverTypeOK'
  BY <1>1 DEF MoverInv, MoverTypeOK, MoverPc, Copy
<1>3. CachedCopyIsWhole'
  BY <1>1 DEF MoverInv, CachedCopyIsWhole
<1>4. CopyInProgress'
  BY <1>1 DEF MoverInv, CopyInProgress
<1> QED BY <1>2, <1>3, <1>4 DEF MoverInv

\* The mover's steps.
LEMMA MoverNextInv ==
    ASSUME MoverInv, MoverNext
    PROVE  MoverInv'
<1> USE DEF MoverInv
<1>1. CASE CondWait
  BY <1>1 DEF CondWait, MoverTypeOK, MoverPc, CachedCopyIsWhole, CopyInProgress
<1>2. CASE SpuriousWakeup
  BY <1>2 DEF SpuriousWakeup, MoverTypeOK, MoverPc, CachedCopyIsWhole, CopyInProgress
<1>3. CASE TakeQueue
  BY <1>3 DEF TakeQueue, MoverTypeOK, MoverPc, CachedCopyIsWhole, CopyInProgress
<1>4. CASE BeginCopy
  <2>1. Head(local_list) \in Paths
    BY <1>4, HeadTailProperties DEF BeginCopy, MoverTypeOK
  <2> DEFINE new == [src |-> Head(local_list), whole |-> FALSE]
  <2>2. new \in Copy
    BY <2>1 DEF Copy
  <2> HIDE DEF new
  <2>3. /\ nvme' = Append(nvme, new)
        /\ nvme' \in Seq(Copy)
        /\ Len(nvme') = Len(nvme) + 1
        /\ nvme'[Len(nvme')] = new
        /\ \A i \in DOMAIN nvme : i \in DOMAIN nvme' /\ nvme'[i] = nvme[i]
    BY <1>4, <2>2, AppendProperties DEF BeginCopy, MoverTypeOK, new
  <2>4. MoverTypeOK'
    BY <1>4, <2>3 DEF BeginCopy, MoverTypeOK, MoverPc
  <2>5. CachedCopyIsWhole'
    BY <1>4, <2>3 DEF BeginCopy, CachedCopyIsWhole, MoverTypeOK
  <2>6. CopyInProgress'
    BY <1>4, <2>3 DEF BeginCopy, CopyInProgress, MoverTypeOK, new
  <2> QED BY <2>4, <2>5, <2>6
<1>5. CASE CopyDone
  <2> DEFINE k == Len(nvme)
  <2>1. k \in DOMAIN nvme /\ nvme[k] \in Copy
    BY <1>5 DEF CopyDone, CopyInProgress, MoverTypeOK
  <2>2. /\ nvme' = [nvme EXCEPT ![k] = [src |-> nvme[k].src, whole |-> TRUE]]
        /\ [src |-> nvme[k].src, whole |-> TRUE] \in Copy
    BY <1>5, <2>1 DEF CopyDone, Copy
  <2>3. /\ nvme' \in Seq(Copy)
        /\ Len(nvme') = k
        /\ DOMAIN nvme' = DOMAIN nvme
        /\ nvme'[k] = [src |-> nvme[k].src, whole |-> TRUE]
        /\ \A i \in DOMAIN nvme : i # k => nvme'[i] = nvme[i]
    BY <2>1, <2>2, ExceptSeq DEF MoverTypeOK
  <2>4. MoverTypeOK'
    BY <1>5, <2>3 DEF CopyDone, MoverTypeOK, MoverPc
  <2>5. CachedCopyIsWhole'
    BY <1>5, <2>1, <2>3 DEF CopyDone, CachedCopyIsWhole
  <2>6. CopyInProgress'
    BY <1>5, <2>1, <2>3 DEF CopyDone, CopyInProgress, MoverTypeOK
  <2> QED BY <2>4, <2>5, <2>6
<1>6. CASE CopyFails
  BY <1>6 DEF CopyFails, MoverTypeOK, MoverPc, CachedCopyIsWhole, CopyInProgress
<1>7. CASE Publish
  <2>1. /\ Head(local_list) \in Paths
        /\ Len(nvme) \in DOMAIN nvme
        /\ nvme[Len(nvme)] = [src |-> Head(local_list), whole |-> TRUE]
    <3>1. Head(local_list) \in Paths /\ Len(nvme) \in DOMAIN nvme
      BY <1>7 DEF Publish, CopyInProgress, MoverTypeOK
    <3>2. nvme[Len(nvme)] \in Copy
      BY <3>1 DEF MoverTypeOK
    <3>3. nvme[Len(nvme)].src = Head(local_list) /\ nvme[Len(nvme)].whole = TRUE
      BY <1>7, <3>2 DEF Publish, CopyInProgress, Copy
    <3> QED BY <3>1, <3>2, <3>3 DEF Copy
  <2>2. MoverTypeOK'
    BY <1>7, <2>1 DEF Publish, MoverTypeOK, MoverPc, CopyInProgress
  <2>3. CachedCopyIsWhole'
    BY <1>7, <2>1 DEF Publish, MoverTypeOK, CachedCopyIsWhole
  <2>4. CopyInProgress'
    BY <1>7 DEF Publish, CopyInProgress
  <2> QED BY <2>2, <2>3, <2>4
<1> QED BY <1>1, <1>2, <1>3, <1>4, <1>5, <1>6, <1>7 DEF MoverNext, MoverStep

\* Stuttering.
LEMMA MoverInvStutter ==
    ASSUME MoverInv, UNCHANGED moverVars
    PROVE  MoverInv'
BY DEF MoverInv, moverVars, MoverTypeOK, MoverPc, CachedCopyIsWhole, CopyInProgress, Copy

LEMMA CacheInv == CacheSpec => []MoverInv
<1>1. MoverInit => MoverInv
  BY MoverInvInit
<1>2. MoverInv /\ [CacheNext]_moverVars => MoverInv'
  BY RequestCachingInv, MoverNextInv, MoverInvStutter DEF CacheNext, CloseRequest
<1> QED BY <1>1, <1>2, PTL DEF CacheSpec

(***************************************************************************)
(* The variables of queue, batch, cache and mover keep their types.        *)
(***************************************************************************)
THEOREM MoverTypeCorrect == CacheSpec => []MoverTypeOK
BY CacheInv, PTL DEF MoverInv

(***************************************************************************)
(* path_cache_map never names a partial copy or the copy of another file,  *)
(* for any number of files, requests and failed copies.                    *)
(***************************************************************************)
THEOREM CachedCopiesAreWhole == CacheSpec => []CachedCopyIsWhole
BY CacheInv, PTL DEF MoverInv

(***************************************************************************)
(* The copy in progress is that of the file at the front of the batch, and *)
(* it is whole before the assignment to path_cache_map begins.             *)
(***************************************************************************)
THEOREM CopyInProgressIsForHead == CacheSpec => []CopyInProgress
BY CacheInv, PTL DEF MoverInv

-----------------------------------------------------------------------------
(***************************************************************************)
(* HvacDataMover implements CacheFill.                                     *)
(***************************************************************************)

Pending == local_list \o data_queue
Cached == {p \in Paths : path_cache_map[p] # NoEntry}

\* Dropping the first file of the batch drops the first pending request.
LEMMA TailOfPending ==
    ASSUME MoverTypeOK, local_list # << >>
    PROVE  /\ Pending # << >>
           /\ Head(Pending) = Head(local_list)
           /\ Tail(Pending) = Tail(local_list) \o data_queue
BY ConcatProperties, HeadTailProperties DEF MoverTypeOK, Pending

\* Queueing a file appends it to the pending requests.
LEMMA AppendToPending ==
    ASSUME MoverTypeOK, NEW p \in Paths
    PROVE  local_list \o Append(data_queue, p) = Append(Pending, p)
BY DEF MoverTypeOK, Pending

LEMMA CacheStepFills ==
    ASSUME MoverInv, MoverInv', [CacheNext]_moverVars
    PROVE  [Fill!Next]_(Fill!vars)
<1> USE DEF MoverInv
<1> SUFFICES \/ Fill!Next
             \/ UNCHANGED <<Pending, Cached>>
  BY DEF Fill!vars, Pending, Cached
<1>1. CASE CloseRequest
  <2>1. PICK p \in Paths : RequestCaching(p)
    BY <1>1 DEF CloseRequest
  <2>2. /\ UNCHANGED <<local_list, path_cache_map, nvme>>
        /\ data_queue' = data_queue \/ data_queue' = Append(data_queue, p)
    BY <2>1 DEF RequestCaching
  <2>3. CASE data_queue' = Append(data_queue, p)
    <3>1. Pending' = Append(Pending, p) /\ Cached' = Cached
      BY <2>2, <2>3, AppendToPending DEF Pending, Cached
    <3> QED BY <3>1 DEF Fill!Next, Fill!Request, Pending, Cached
  <2>4. CASE data_queue' = data_queue
    BY <2>2, <2>4 DEF Pending, Cached
  <2> QED BY <2>2, <2>3, <2>4
<1>2. CASE CondWait \/ SpuriousWakeup \/ BeginCopy \/ CopyDone \/ UNCHANGED moverVars
  BY <1>2 DEF CondWait, SpuriousWakeup, BeginCopy, CopyDone, moverVars, Pending, Cached
<1>3. CASE TakeQueue
  <2>1. Pending' = Pending
    BY <1>3 DEF TakeQueue, MoverTypeOK, Pending
  <2> QED BY <1>3, <2>1 DEF TakeQueue, Cached
<1>4. CASE CopyFails
  <2>1. Pending # << >> /\ Pending' = Tail(Pending) /\ Cached' = Cached
    BY <1>4, TailOfPending DEF CopyFails, CopyInProgress, Pending, Cached
  <2> QED BY <2>1 DEF Fill!Next, Fill!Drop, Pending, Cached
<1>5. CASE Publish
  <2>1. Pending # << >> /\ Pending' = Tail(Pending) /\ Head(Pending) = Head(local_list)
    BY <1>5, TailOfPending DEF Publish, CopyInProgress, Pending
  <2>2. Cached' = Cached \cup {Head(local_list)}
    <3>1. Head(local_list) \in Paths /\ Len(nvme) \in Nat
      BY <1>5 DEF Publish, CopyInProgress, MoverTypeOK
    <3> QED BY <1>5, <3>1, MoverAssumption DEF Publish, MoverTypeOK, Cached
  <2> QED BY <2>1, <2>2 DEF Fill!Next, Fill!Fill, Pending, Cached
<1> QED BY <1>1, <1>2, <1>3, <1>4, <1>5 DEF CacheNext, MoverNext, MoverStep

(***************************************************************************)
(* Queue, batch and cache implement CacheFill: no queued file is lost,     *)
(* served twice or served out of order, and no file leaves the cache.      *)
(***************************************************************************)
THEOREM CacheImplementsCacheFill == CacheSpec => ImplementsCacheFill
<1>1. MoverInit => Fill!Init
  BY DEF MoverInit, Fill!Init
<1>2. MoverInv /\ MoverInv' /\ [CacheNext]_moverVars => [Fill!Next]_(Fill!vars)
  BY CacheStepFills
<1> QED BY <1>1, <1>2, CacheInv, PTL DEF CacheSpec, ImplementsCacheFill, Fill!Spec
=============================================================================
