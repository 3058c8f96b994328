---------------------------- MODULE HvacDataMover ----------------------------
(***************************************************************************)
(* The cache of one HVAC server: the queue that close requests feed, the   *)
(* data mover thread (hvac_data_mover_fn) that drains it and copies files  *)
(* to the node-local NVMe, and path_cache_map, through which open requests *)
(* are redirected to the copies.                                           *)
(*                                                                         *)
(* Two threads share this state.  The mover thread runs the actions of     *)
(* MoverStep.  The Mercury progress thread runs the RPC handlers; their    *)
(* part in the cache is LookupOutcomes (open, close) and RequestCaching    *)
(* (close).  data_mutex protects data_queue only: path_cache_map is read   *)
(* by the progress thread while the mover writes it.                       *)
(***************************************************************************)
EXTENDS Integers, Sequences

CONSTANTS
    Paths,          \* the files of the data set, as the clients name them
    NoEntry,        \* the absence of an entry in a std::map
    Garbled,        \* a string read while it is being assigned: names no file
    MaxCopies       \* bound: caching requests in the stand-alone specification

ASSUME MoverAssumption ==
    /\ MaxCopies \in Nat
    /\ NoEntry \notin Int
    /\ Garbled \notin Int
    /\ NoEntry # Garbled
    /\ NoEntry \notin Paths

VARIABLES
    data_queue,     \* files to cache, pushed by the close handler
    local_list,     \* the mover's private batch
    path_cache_map, \* file -> index in nvme of its copy, or NoEntry
    nvme,           \* every copy ever begun, each in a fresh mkdtemp directory
    mover_pc        \* where the mover thread is

moverVars == <<data_queue, local_list, path_cache_map, nvme, mover_pc>>

Copy == [src : Paths, whole : BOOLEAN]

(***************************************************************************)
(* "run"         outside the mutex, at the head of the copy loop           *)
(* "wait"        blocked in pthread_cond_wait                              *)
(* "woken"       signalled, about to own data_mutex again                  *)
(* "copying"     inside fs::copy: the new file exists but is not whole     *)
(* "publishing"  inside the assignment to path_cache_map                   *)
(***************************************************************************)
MoverPc == {"run", "wait", "woken", "copying", "publishing"}

MoverTypeOK ==
    /\ data_queue \in Seq(Paths)
    /\ local_list \in Seq(Paths)
    /\ path_cache_map \in [Paths -> Nat \cup {NoEntry}]
    /\ nvme \in Seq(Copy)
    /\ mover_pc \in MoverPc

MoverInit ==
    /\ data_queue = << >>
    /\ local_list = << >>
    /\ path_cache_map = [p \in Paths |-> NoEntry]
    /\ nvme = << >>
    /\ mover_pc = "run"

-----------------------------------------------------------------------------
(***************************************************************************)
(* The progress thread's side.                                             *)
(***************************************************************************)

(***************************************************************************)
(* What path_cache_map yields for p, without a lock.  While the mover is   *)
(* inside the assignment, the entry being assigned may appear as it was,   *)
(* as it will be, or with a string that is still empty or half written.    *)
(* If the assignment inserts an entry, it may rebalance the tree, and any  *)
(* other entry can be missed.                                              *)
(***************************************************************************)
LookupOutcomes(p) ==
    LET target    == Head(local_list)
        inserting == path_cache_map[target] = NoEntry
    IN  IF mover_pc # "publishing" THEN {path_cache_map[p]}
        ELSE {path_cache_map[p]}
                 \cup (IF p = target THEN {Len(nvme), Garbled} ELSE {})
                 \cup (IF inserting THEN {NoEntry} ELSE {})

\* pthread_cond_signal: it wakes the mover only if the mover is waiting now.
Signal == mover_pc' = IF mover_pc = "wait" THEN "woken" ELSE mover_pc

\* The end of the close handler: a file that is not cached is queued.
RequestCaching(p) ==
    \E found \in LookupOutcomes(p) :
        /\ IF found = NoEntry
           THEN /\ Signal
                /\ data_queue' = Append(data_queue, p)
           ELSE UNCHANGED <<mover_pc, data_queue>>
        /\ UNCHANGED <<local_list, path_cache_map, nvme>>

-----------------------------------------------------------------------------
(***************************************************************************)
(* The mover thread.                                                       *)
(***************************************************************************)

\* The batch is empty: lock data_mutex and wait.  There is no predicate: the
\* mover waits even if data_queue already holds files.
CondWait ==
    /\ mover_pc = "run"
    /\ local_list = << >>
    /\ mover_pc' = "wait"
    /\ UNCHANGED <<data_queue, local_list, path_cache_map, nvme>>

\* POSIX allows pthread_cond_wait to return without a signal.
SpuriousWakeup ==
    /\ mover_pc = "wait"
    /\ mover_pc' = "woken"
    /\ UNCHANGED <<data_queue, local_list, path_cache_map, nvme>>

\* Faulty variant of TakeQueue: the queue is read but not popped.
TakeQueueWithoutPop ==
    /\ mover_pc = "woken"
    /\ local_list' = local_list \o data_queue
    /\ mover_pc' = "run"
    /\ UNCHANGED <<data_queue, path_cache_map, nvme>>

\* Faulty variant of TakeQueue: it asks again as long as there is no work.
TakeQueueNeedsWork ==
    /\ mover_pc = "woken"
    /\ local_list' = local_list \o data_queue
    /\ data_queue' = << >>
    /\ mover_pc' = IF data_queue = << >> THEN "woken" ELSE "run"
    /\ UNCHANGED <<path_cache_map, nvme>>

\* Back under data_mutex: move the whole queue to the private batch.
TakeQueue ==
    /\ mover_pc = "woken"
    /\ local_list' = local_list \o data_queue
    /\ data_queue' = << >>
    /\ mover_pc' = "run"
    /\ UNCHANGED <<path_cache_map, nvme>>

\* Faulty variant of BeginCopy: the entry is assigned before the copy is made.
BeginCopyPublishesFirst ==
    /\ mover_pc = "run"
    /\ local_list # << >>
    /\ nvme' = Append(nvme, [src |-> Head(local_list), whole |-> FALSE])
    /\ path_cache_map' = [path_cache_map EXCEPT ![Head(local_list)] = Len(nvme) + 1]
    /\ mover_pc' = "copying"
    /\ UNCHANGED <<data_queue, local_list>>

\* mkdtemp makes a fresh directory and fs::copy starts writing into it.
BeginCopy ==
    /\ mover_pc = "run"
    /\ local_list # << >>
    /\ nvme' = Append(nvme, [src |-> Head(local_list), whole |-> FALSE])
    /\ mover_pc' = "copying"
    /\ UNCHANGED <<data_queue, local_list, path_cache_map>>

\* Faulty variant of CopyDone: the file is popped before it is published.
CopyDonePopsFirst ==
    /\ mover_pc = "copying"
    /\ nvme' = [nvme EXCEPT ![Len(nvme)] = [src |-> @.src, whole |-> TRUE]]
    /\ local_list' = Tail(local_list)
    /\ mover_pc' = "publishing"
    /\ UNCHANGED <<data_queue, path_cache_map>>

\* fs::copy returns; the assignment to path_cache_map begins.
CopyDone ==
    /\ mover_pc = "copying"
    /\ nvme' = [nvme EXCEPT ![Len(nvme)] = [src |-> @.src, whole |-> TRUE]]
    /\ mover_pc' = "publishing"
    /\ UNCHANGED <<data_queue, local_list, path_cache_map>>

\* fs::copy throws (no directory, no space, no source): logged and popped.
CopyFails ==
    /\ mover_pc = "copying"
    /\ local_list' = Tail(local_list)
    /\ mover_pc' = "run"
    /\ UNCHANGED <<data_queue, path_cache_map, nvme>>

\* Faulty variant of Publish: the file is mapped to itself, not to its copy.
PublishSourceName ==
    /\ mover_pc = "publishing"
    /\ path_cache_map' = [path_cache_map EXCEPT ![Head(local_list)] = Head(local_list)]
    /\ local_list' = Tail(local_list)
    /\ mover_pc' = "run"
    /\ UNCHANGED <<data_queue, nvme>>

\* The assignment ends and the file leaves the batch.
Publish ==
    /\ mover_pc = "publishing"
    /\ path_cache_map' = [path_cache_map EXCEPT ![Head(local_list)] = Len(nvme)]
    /\ local_list' = Tail(local_list)
    /\ mover_pc' = "run"
    /\ UNCHANGED <<data_queue, nvme>>

MoverStep == CondWait \/ TakeQueue \/ BeginCopy \/ CopyDone \/ CopyFails \/ Publish

MoverNext == MoverStep \/ SpuriousWakeup

-----------------------------------------------------------------------------
(***************************************************************************)
(* The cache alone, with any sequence of closes as its environment.        *)
(***************************************************************************)

CloseRequest ==
    /\ Len(data_queue) + Len(local_list) + Len(nvme) < MaxCopies
    /\ \E p \in Paths : RequestCaching(p)

CacheNext == CloseRequest \/ MoverNext

CacheSpec == MoverInit /\ [][CacheNext]_moverVars

\* The mover is an ordinary thread: it is scheduled whenever it can run.  No
\* fairness on closes (clients may stop) nor on spurious wake-ups.
CacheFairSpec == CacheSpec /\ WF_moverVars(MoverStep)

-----------------------------------------------------------------------------
(***************************************************************************)
(* Properties.                                                             *)
(***************************************************************************)

(***************************************************************************)
(* An entry of path_cache_map names a copy of that very file and the copy  *)
(* is whole: an open that is redirected never reaches the partial file of  *)
(* a copy in progress, nor the remains of one that failed                  *)
(* (hvac_data_mover.cpp publishes only after fs::copy returned, and the    *)
(* catch block publishes nothing).                                         *)
(***************************************************************************)
CachedCopyIsWhole ==
    \A p \in Paths : path_cache_map[p] # NoEntry =>
        /\ path_cache_map[p] \in DOMAIN nvme
        /\ nvme[path_cache_map[p]] = [src |-> p, whole |-> TRUE]

(***************************************************************************)
(* From the start of fs::copy to the end of the assignment the last copy   *)
(* begun is the one of the file at the front of the batch, and it is whole *)
(* before the assignment starts: what the open handler may read in the     *)
(* middle of the assignment is the name of a copy that can be used, or no  *)
(* name at all.  (With the previous property this is inductive.)           *)
(***************************************************************************)
CopyInProgress ==
    mover_pc \in {"copying", "publishing"} =>
        /\ local_list # << >>
        /\ nvme # << >>
        /\ nvme[Len(nvme)].src = Head(local_list)
        /\ mover_pc = "publishing" => nvme[Len(nvme)].whole

(***************************************************************************)
(* Queue, batch and cache together implement CacheFill: every file queued  *)
(* by a close handler is worked off exactly once and in order, a file      *)
(* enters the cache only when a request for it is served, and it never     *)
(* leaves.  Draining the queue into the batch is invisible.                *)
(***************************************************************************)
Fill == INSTANCE CacheFill WITH
            pending <- local_list \o data_queue,
            cached  <- {p \in Paths : path_cache_map[p] # NoEntry}

ImplementsCacheFill == Fill!Spec

(***************************************************************************)
(* A copy that fails does not hold up the mover: whatever it is doing, it  *)
(* comes back to pthread_cond_wait, ready for the next signal.             *)
(***************************************************************************)
MoverReturnsToWait == []<>(mover_pc = "wait")

(***************************************************************************)
(* What hvac_comm.cpp:319 says of the close handler, "Signal to the data   *)
(* mover to copy the file": a queued file is taken by the mover.  It does  *)
(* not hold.  A signal sent while the mover is copying is lost, and the    *)
(* mover then waits with the file in the queue until some later close.     *)
(***************************************************************************)
QueuedFileIsTaken == (data_queue # << >>) ~> (data_queue = << >>)
=============================================================================
