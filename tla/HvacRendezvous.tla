---------------------------- MODULE HvacRendezvous ----------------------------
(***************************************************************************)
(* How the threads of an application wait for their RPCs                   *)
(* (hvac_comm_client.cpp).  All calls of a process share one flag, done,   *)
(* one result, read_ret, and one condition variable, done_cond.  A call    *)
(* resets the flag without a lock, forwards its request, and waits under   *)
(* done_mutex until the flag is HG_TRUE.  The progress thread runs the     *)
(* callbacks, which increment the flag, store the result and signal.       *)
(*                                                                         *)
(* HvacSystem has one application thread per process.  Here the number of  *)
(* threads is a parameter.  As long as their calls do not overlap, the     *)
(* rendezvous is a plain call and return; when they do, calls return       *)
(* early, return the result of another call, or do not return at all.      *)
(*                                                                         *)
(* Everything done while holding done_mutex is one step.                   *)
(***************************************************************************)
EXTENDS Integers, Sequences

CONSTANTS
    Threads,        \* the application threads of one process
    MaxCalls,       \* bound: calls per thread
    NoResult        \* the -1 that read_ret is reset to

Ops == {"open", "read", "seek"}

\* A request: its thread, its number there, and its kind.
Requests == Threads \X Nat \X Ops

ASSUME RendezvousAssumption ==
    /\ MaxCalls \in Nat
    /\ NoResult \notin Requests

VARIABLES
    done,           \* hg_bool_t, an unsigned byte
    read_ret,       \* the request whose result was stored last, or NoResult
    in_flight,      \* requests forwarded whose callback has not run
    pc,             \* thread -> where it is
    todo,           \* thread -> the stores left before it forwards
    op,             \* thread -> the kind of its last call
    calls,          \* thread -> how many calls it has made
    result,         \* thread -> what its last call returned
    overlap         \* observed: a call began while another was under way

vars == <<done, read_ret, in_flight, pc, todo, op, calls, result, overlap>>

\* The last request of a thread.  Its result goes by the same name.
Request(t) == <<t, calls[t], op[t]>>

HG_TRUE == 1

(***************************************************************************)
(* "idle"   outside HVAC                                                   *)
(* "send"   in hvac_client_comm_gen_*_rpc                                  *)
(* "test"   about to own done_mutex and test done                          *)
(* "wait"   blocked in pthread_cond_wait                                   *)
(***************************************************************************)
TypeOK ==
    /\ done \in 0..255
    /\ read_ret \in Requests \cup {NoResult}
    /\ in_flight \subseteq Requests
    /\ pc \in [Threads -> {"idle", "send", "test", "wait"}]
    /\ todo \in [Threads -> Seq({"done", "read_ret"})]
    /\ op \in [Threads -> Ops]
    /\ calls \in [Threads -> 0..MaxCalls]
    /\ result \in [Threads -> Requests \cup {NoResult}]
    /\ overlap \in BOOLEAN

Init ==
    /\ done = 0
    /\ read_ret = NoResult
    /\ in_flight = {}
    /\ pc = [t \in Threads |-> "idle"]
    /\ todo = [t \in Threads |-> << >>]
    /\ op = [t \in Threads |-> "open"]
    /\ calls = [t \in Threads |-> 0]
    /\ result = [t \in Threads |-> NoResult]
    /\ overlap = FALSE

-----------------------------------------------------------------------------
\* Faulty variant of Stores: a seek does not reset done.
StoresWithoutReset(kind) ==
    CASE kind = "open" -> <<"done">>
      [] kind = "read" -> <<"done", "read_ret">>
      [] kind = "seek" -> <<"read_ret">>

\* The unlocked stores at the head of the three gen functions, in order.
Stores(kind) ==
    CASE kind = "open" -> <<"done">>
      [] kind = "read" -> <<"done", "read_ret">>
      [] kind = "seek" -> <<"read_ret", "done">>

\* The call begins.  Another is under way if its thread has not returned or
\* its callback has not run.
Begin(t, kind) ==
    /\ pc[t] = "idle"
    /\ calls[t] < MaxCalls
    /\ calls' = [calls EXCEPT ![t] = @ + 1]
    /\ op' = [op EXCEPT ![t] = kind]
    /\ todo' = [todo EXCEPT ![t] = Stores(kind)]
    /\ pc' = [pc EXCEPT ![t] = "send"]
    /\ overlap' = (overlap \/ in_flight # {} \/ \E u \in Threads : pc[u] # "idle")
    /\ UNCHANGED <<done, read_ret, in_flight, result>>

StoreDone(t) ==
    /\ pc[t] = "send"
    /\ todo[t] # << >>
    /\ Head(todo[t]) = "done"
    /\ done' = 0
    /\ todo' = [todo EXCEPT ![t] = Tail(@)]
    /\ UNCHANGED <<read_ret, in_flight, pc, op, calls, result, overlap>>

\* Faulty variant of StoreReadRet: the result is reset to 0, a legal
\* count, and not to -1.
StoreReadRetZero(t) ==
    /\ pc[t] = "send"
    /\ todo[t] # << >>
    /\ Head(todo[t]) = "read_ret"
    /\ read_ret' = <<0, 0>>
    /\ todo' = [todo EXCEPT ![t] = Tail(@)]
    /\ UNCHANGED <<done, in_flight, pc, op, calls, result, overlap>>

StoreReadRet(t) ==
    /\ pc[t] = "send"
    /\ todo[t] # << >>
    /\ Head(todo[t]) = "read_ret"
    /\ read_ret' = NoResult
    /\ todo' = [todo EXCEPT ![t] = Tail(@)]
    /\ UNCHANGED <<done, in_flight, pc, op, calls, result, overlap>>

\* HG_Forward.
Forward(t) ==
    /\ pc[t] = "send"
    /\ todo[t] = << >>
    /\ in_flight' = in_flight \cup {Request(t)}
    /\ pc' = [pc EXCEPT ![t] = "test"]
    /\ UNCHANGED <<done, read_ret, todo, op, calls, result, overlap>>

\* hvac_client_block, hvac_read_block, hvac_seek_block: the test failed, the
\* thread releases done_mutex and waits in one step.
Wait(t) ==
    /\ pc[t] = "test"
    /\ done # HG_TRUE
    /\ pc' = [pc EXCEPT ![t] = "wait"]
    /\ UNCHANGED <<done, read_ret, in_flight, todo, op, calls, result, overlap>>

SpuriousWakeup(t) ==
    /\ pc[t] = "wait"
    /\ pc' = [pc EXCEPT ![t] = "test"]
    /\ UNCHANGED <<done, read_ret, in_flight, todo, op, calls, result, overlap>>

\* The test succeeded: a read or seek returns read_ret, read under the mutex.
Return(t) ==
    /\ pc[t] = "test"
    /\ done = HG_TRUE
    /\ pc' = [pc EXCEPT ![t] = "idle"]
    /\ result' = [result EXCEPT ![t] = IF op[t] = "open" THEN NoResult ELSE read_ret]
    /\ UNCHANGED <<done, read_ret, in_flight, todo, op, calls, overlap>>

\* pthread_cond_signal wakes one of the waiting threads, if there is one.
Signal ==
    \/ /\ \A t \in Threads : pc[t] # "wait"
       /\ UNCHANGED pc
    \/ \E t \in Threads : pc[t] = "wait" /\ pc' = [pc EXCEPT ![t] = "test"]

\* Faulty variant of Callback: the callback does not signal.
CallbackWithoutSignal(r) ==
    /\ r \in in_flight
    /\ in_flight' = in_flight \ {r}
    /\ done' = (done + 1) % 256
    /\ read_ret' = IF r[3] = "open" THEN read_ret ELSE r
    /\ UNCHANGED <<pc, todo, op, calls, result, overlap>>

\* Faulty variant of Callback: the callback of a read forgets the result.
CallbackWithoutResult(r) ==
    /\ r \in in_flight
    /\ in_flight' = in_flight \ {r}
    /\ done' = (done + 1) % 256
    /\ Signal
    /\ UNCHANGED <<read_ret, todo, op, calls, result, overlap>>

\* hvac_open_cb, hvac_read_cb, hvac_seek_cb, in the progress thread.
Callback(r) ==
    /\ r \in in_flight
    /\ in_flight' = in_flight \ {r}
    /\ done' = (done + 1) % 256
    /\ read_ret' = IF r[3] = "open" THEN read_ret ELSE r
    /\ Signal
    /\ UNCHANGED <<todo, op, calls, result, overlap>>

-----------------------------------------------------------------------------
CallbackOf(t) == \E r \in in_flight : r[1] = t /\ Callback(r)

ThreadStep(t) == StoreDone(t) \/ StoreReadRet(t) \/ Forward(t) \/ Wait(t) \/ Return(t)

Next ==
    \E t \in Threads :
        \/ \E kind \in Ops : Begin(t, kind)
        \/ ThreadStep(t)
        \/ SpuriousWakeup(t)
        \/ CallbackOf(t)

Spec == Init /\ [][Next]_vars

\* Threads are scheduled, and the server answers every request.  A thread
\* blocked in pthread_cond_wait needs a signal: nothing is assumed of
\* spurious wake-ups.
FairSpec ==
    /\ Spec
    /\ \A t \in Threads : WF_vars(ThreadStep(t)) /\ WF_vars(CallbackOf(t))

-----------------------------------------------------------------------------
(***************************************************************************)
(* "wait for callbacks to finish" (hvac_comm_client.cpp:138): a call       *)
(* returns only when the callback of its own request has run.  Otherwise   *)
(* the caller of open has no remote descriptor yet, and the caller of read *)
(* gets a buffer that the server is still going to fill.  It does not hold *)
(* if calls of two threads overlap.                                        *)
(***************************************************************************)
CallbackBeforeReturn ==
    \A t \in Threads : pc[t] = "idle" => Request(t) \notin in_flight

(***************************************************************************)
(* But it does for any number of threads whose calls have not overlapped,  *)
(* over the flag that the calls before have left up.                       *)
(***************************************************************************)
SerialCallsWait == ~overlap => CallbackBeforeReturn

(***************************************************************************)
(* Then a read or an lseek returns the result of its own request, which is *)
(* what hvac_read_block and hvac_seek_block wait for: not the result of an *)
(* earlier call of some thread, nor the -1 that read_ret was reset to.     *)
(***************************************************************************)
OwnResult ==
    ~overlap =>
        \A t \in Threads :
            pc[t] = "idle" /\ calls[t] > 0 /\ op[t] # "open" => result[t] = Request(t)

(***************************************************************************)
(* No wake-up is lost: the thread that waits is not blocked in             *)
(* pthread_cond_wait while done is HG_TRUE (the loop tests done and waits  *)
(* under the mutex that the callbacks hold while they increment and        *)
(* signal).  Of two threads that wait, the one signal wakes only one.      *)
(***************************************************************************)
NoLostWakeup == ~overlap => \A t \in Threads : pc[t] = "wait" => done # HG_TRUE

(***************************************************************************)
(* Every call returns, or calls overlap: callbacks increment done, block   *)
(* functions wait for exactly HG_TRUE (hvac_comm_client.cpp:140), and      *)
(* nothing but a reset by the next call takes it away.                     *)
(***************************************************************************)
CallReturns == \A t \in Threads : pc[t] # "idle" ~> pc[t] = "idle" \/ overlap
=============================================================================
