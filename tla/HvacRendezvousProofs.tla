------------------------- MODULE HvacRendezvousProofs -------------------------
(***************************************************************************)
(* Proofs about the rendezvous of the threads of a process, for any number *)
(* of threads and calls.  The invariant holds until two calls overlap,     *)
(* which one thread alone cannot bring about.  (After it the properties    *)
(* fail: run RendezvousEarlyReturn.)                                       *)
(***************************************************************************)
EXTENDS HvacRendezvous, TLAPS

\* The stores left in a gen function once it has begun.
Remaining == {<< >>, <<"done">>, <<"read_ret">>, <<"done", "read_ret">>,
              <<"read_ret", "done">>}

\* The request is on its way and the flag is down, or its callback has run,
\* the flag is up and the result is there.
OutstandingCall(t) ==
    \/ in_flight = {Request(t)} /\ done = 0
    \/ /\ in_flight = {}
       /\ done = HG_TRUE
       /\ op[t] # "open" => read_ret = Request(t)

\* At most one thread is in a call, and nothing is in flight without one.
Alone(t) == \A u \in Threads \ {t} : pc[u] = "idle"

Serial ==
    /\ \A t \in Threads : pc[t] # "idle" => Alone(t)
    /\ (\A t \in Threads : pc[t] = "idle") => in_flight = {}

CallInv(t) ==
    /\ todo[t] \in Remaining
    /\ pc[t] = "send" => in_flight = {}
    /\ pc[t] = "idle" /\ calls[t] > 0 /\ op[t] # "open" => result[t] = Request(t)
    /\ pc[t] = "send" /\ todo[t] \in {<< >>, <<"read_ret">>} => done = 0
    /\ pc[t] \in {"test", "wait"} => OutstandingCall(t)
    /\ pc[t] = "wait" => done # HG_TRUE

RendezvousInv == ~overlap => Serial /\ \A t \in Threads : CallInv(t)

LEMMA TypeInit == Init => TypeOK
<1> SUFFICES ASSUME Init PROVE TypeOK
  OBVIOUS
<1>1. overlap \in BOOLEAN
  BY Zenon DEF Init
<1>2. pc \in [Threads -> {"idle", "send", "test", "wait"}] /\ op \in [Threads -> Ops]
  BY DEF Init, Ops
<1>3. /\ todo \in [Threads -> Seq({"done", "read_ret"})]
      /\ calls \in [Threads -> 0..MaxCalls]
      /\ result \in [Threads -> Requests \cup {NoResult}]
  BY RendezvousAssumption DEF Init
<1>4. done \in 0..255 /\ read_ret \in Requests \cup {NoResult} /\ in_flight \subseteq Requests
  BY DEF Init
<1> QED BY <1>1, <1>2, <1>3, <1>4 DEF TypeOK

LEMMA RequestType ==
    ASSUME TypeOK, NEW t \in Threads
    PROVE  Request(t) \in Requests
BY RendezvousAssumption DEF TypeOK, Request, Requests

LEMMA StoresType ==
    ASSUME NEW kind \in Ops
    PROVE  Stores(kind) \in Seq({"done", "read_ret"}) /\ Stores(kind) \in Remaining
           /\ Stores(kind) \notin {<< >>, <<"read_ret">>}
<1>1. CASE kind = "open"
  <2>1. Stores(kind) = <<"done">>
    BY <1>1 DEF Stores
  <2> QED BY <2>1 DEF Remaining
<1>2. CASE kind = "read"
  <2>1. Stores(kind) = <<"done", "read_ret">>
    BY <1>2 DEF Stores
  <2>2. Len(Stores(kind)) = 2 /\ Len(<<"read_ret">>) = 1
    BY <2>1
  <2> QED BY <2>1, <2>2 DEF Remaining
<1>3. CASE kind = "seek"
  <2>1. Stores(kind) = <<"read_ret", "done">>
    BY <1>3 DEF Stores
  <2>2. Len(Stores(kind)) = 2 /\ Len(<<"read_ret">>) = 1
    BY <2>1
  <2> QED BY <2>1, <2>2 DEF Remaining
<1> QED BY <1>1, <1>2, <1>3 DEF Ops

\* What is left after a store.
LEMMA RemainingTail ==
    ASSUME NEW s \in Remaining, s # << >>
    PROVE  /\ Tail(s) \in Remaining
           /\ Head(s) = "read_ret" /\ Tail(s) \in {<< >>, <<"read_ret">>} => s = <<"read_ret">>
<1>1. CASE s = <<"done">>
  <2>1. Tail(s) = << >> /\ Head(s) = "done"
    BY <1>1
  <2> QED BY <2>1 DEF Remaining
<1>2. CASE s = <<"done", "read_ret">>
  <2>1. Tail(s) = <<"read_ret">> /\ Head(s) = "done"
    BY <1>2
  <2> QED BY <2>1 DEF Remaining
<1>3. CASE s = <<"read_ret", "done">>
  <2>1. Tail(s) = <<"done">>
    BY <1>3
  <2>2. <<"done">> \notin {<< >>, <<"read_ret">>}
    OBVIOUS
  <2> QED BY <2>1, <2>2 DEF Remaining
<1>4. CASE s = <<"read_ret">>
  <2>1. Tail(s) = << >>
    BY <1>4
  <2> QED BY <1>4, <2>1 DEF Remaining
<1> QED BY <1>1, <1>2, <1>3, <1>4 DEF Remaining

LEMMA TypeStep ==
    ASSUME TypeOK, [Next]_vars
    PROVE  TypeOK'
<1> USE RendezvousAssumption DEF TypeOK
<1>1. CASE UNCHANGED vars
  BY <1>1 DEF vars
<1>2. ASSUME NEW t \in Threads, NEW kind \in Ops, Begin(t, kind)
      PROVE  TypeOK'
  BY <1>2, StoresType DEF Begin
<1>3. ASSUME NEW t \in Threads, ThreadStep(t)
      PROVE  TypeOK'
  <2>1. CASE StoreDone(t) \/ StoreReadRet(t)
    <3>1. todo[t] # << >> => Tail(todo[t]) \in Seq({"done", "read_ret"})
      OBVIOUS
    <3>2. CASE StoreDone(t)
      BY <3>1, <3>2 DEF StoreDone
    <3>3. CASE StoreReadRet(t)
      BY <3>1, <3>3 DEF StoreReadRet
    <3> QED BY <2>1, <3>2, <3>3
  <2>2. CASE Forward(t)
    BY <2>2, RequestType DEF Forward
  <2>3. CASE Wait(t)
    BY <2>3 DEF Wait
  <2>4. CASE Return(t)
    BY <2>4 DEF Return
  <2> QED BY <1>3, <2>1, <2>2, <2>3, <2>4 DEF ThreadStep
<1>4. ASSUME NEW t \in Threads, SpuriousWakeup(t)
      PROVE  TypeOK'
  BY <1>4 DEF SpuriousWakeup
<1>5. ASSUME NEW r \in in_flight, Callback(r)
      PROVE  TypeOK'
  <2>1. pc' \in [Threads -> {"idle", "send", "test", "wait"}]
    BY <1>5 DEF Callback, Signal
  <2>2. (done + 1) % 256 \in 0..255
    OBVIOUS
  <2> QED BY <1>5, <2>1, <2>2 DEF Callback
<1> QED BY <1>1, <1>2, <1>3, <1>4, <1>5 DEF Next, CallbackOf

(***************************************************************************)
(* The flag, the result and the threads' places keep their types, for any  *)
(* number of threads: in particular done stays an unsigned byte.           *)
(***************************************************************************)
THEOREM TypeCorrect == Spec => []TypeOK
<1>1. Init => TypeOK
  BY TypeInit
<1>2. TypeOK /\ [Next]_vars => TypeOK'
  BY TypeStep
<1> QED BY <1>1, <1>2, PTL DEF Spec

LEMMA InvInit == Init => RendezvousInv
BY DEF Init, RendezvousInv, Serial, CallInv, Remaining

(***************************************************************************)
(* A step of the thread that is in a call: what the others know is about   *)
(* themselves, as they are idle.                                           *)
(***************************************************************************)
LEMMA ActiveStep ==
    ASSUME TypeOK, RendezvousInv, ~overlap, NEW t \in Threads, pc[t] # "idle",
           ThreadStep(t) \/ SpuriousWakeup(t)
    PROVE  RendezvousInv'
<1> USE DEF TypeOK, HG_TRUE
<1>1. Alone(t) /\ \A u \in Threads : CallInv(u)
  BY DEF RendezvousInv, Serial
<1>2. \A u \in Threads \ {t} : /\ pc'[u] = pc[u] /\ todo'[u] = todo[u] /\ op'[u] = op[u]
                               /\ calls'[u] = calls[u] /\ result'[u] = result[u]
  BY DEF ThreadStep, StoreDone, StoreReadRet, Forward, Wait, Return, SpuriousWakeup
<1>3. \A u \in Threads \ {t} : CallInv(u)'
  BY <1>1, <1>2 DEF Alone, CallInv, Request
<1>4. CallInv(t)' /\ (pc'[t] = "idle" => in_flight' = {})
  <2> USE <1>1 DEF CallInv, OutstandingCall, Request
  <2>1. CASE StoreDone(t)
    BY <2>1, RemainingTail DEF StoreDone
  <2>2. CASE StoreReadRet(t)
    BY <2>2, RemainingTail DEF StoreReadRet
  <2>3. CASE Forward(t)
    BY <2>3 DEF Forward
  <2>4. CASE Wait(t)
    BY <2>4 DEF Wait
  <2>5. CASE Return(t)
    BY <2>5 DEF Return
  <2>6. CASE SpuriousWakeup(t)
    BY <2>6 DEF SpuriousWakeup
  <2> QED BY <2>1, <2>2, <2>3, <2>4, <2>5, <2>6 DEF ThreadStep
<1>5. Serial'
  BY <1>1, <1>2, <1>4 DEF Serial, Alone
<1> QED BY <1>3, <1>4, <1>5 DEF RendezvousInv

\* A call that begins while no other is under way.
LEMMA BeginStep ==
    ASSUME TypeOK, RendezvousInv, NEW t \in Threads, NEW kind \in Ops, Begin(t, kind)
    PROVE  RendezvousInv'
<1> SUFFICES ASSUME ~overlap' PROVE Serial' /\ \A u \in Threads : CallInv(u)'
  BY DEF RendezvousInv
<1> USE DEF TypeOK
<1>1. ~overlap /\ in_flight = {} /\ \A u \in Threads : pc[u] = "idle"
  BY DEF Begin
<1>2. \A u \in Threads : CallInv(u)
  BY <1>1 DEF RendezvousInv
<1>3. \A u \in Threads \ {t} : /\ pc'[u] = "idle" /\ todo'[u] = todo[u] /\ op'[u] = op[u]
                               /\ calls'[u] = calls[u] /\ result'[u] = result[u]
  BY <1>1 DEF Begin
<1>4. pc'[t] = "send" /\ todo'[t] = Stores(kind) /\ in_flight' = {}
  BY <1>1 DEF Begin
<1>5. CallInv(t)'
  BY <1>4, StoresType DEF CallInv
<1>6. \A u \in Threads \ {t} : CallInv(u)'
  BY <1>2, <1>3, <1>1 DEF CallInv, Request
<1>7. Serial'
  BY <1>3, <1>4 DEF Serial, Alone
<1> QED BY <1>5, <1>6, <1>7

\* A callback: it is that of the one thread in a call.
LEMMA CallbackStep ==
    ASSUME TypeOK, RendezvousInv, ~overlap, NEW r \in in_flight, Callback(r)
    PROVE  RendezvousInv'
<1> USE DEF TypeOK, HG_TRUE
<1>1. PICK t \in Threads : pc[t] # "idle"
  BY DEF RendezvousInv, Serial
<1>2. Alone(t) /\ \A u \in Threads : CallInv(u)
  BY <1>1 DEF RendezvousInv, Serial
<1>3. pc[t] \in {"test", "wait"} /\ in_flight = {Request(t)} /\ done = 0 /\ r = Request(t)
  BY <1>1, <1>2 DEF CallInv, OutstandingCall
<1>4. done' = 1 /\ in_flight' = {}
  BY <1>3 DEF Callback
<1>5. pc'[t] = "test" /\ \A u \in Threads \ {t} : pc'[u] = pc[u]
  BY <1>2, <1>3 DEF Callback, Signal, Alone
<1>6. op[t] # "open" => read_ret' = Request(t)'
  BY <1>3 DEF Callback, Request
<1>7. UNCHANGED <<todo, op, calls, result>>
  BY DEF Callback
<1>8. CallInv(t)'
  BY <1>2, <1>4, <1>5, <1>6, <1>7 DEF CallInv, OutstandingCall
<1>9. \A u \in Threads \ {t} : CallInv(u)'
  BY <1>2, <1>5, <1>7 DEF CallInv, Alone, Request
<1>10. Serial'
  BY <1>2, <1>4, <1>5 DEF Serial, Alone
<1> QED BY <1>8, <1>9, <1>10 DEF RendezvousInv

LEMMA InvStep ==
    ASSUME TypeOK, RendezvousInv, [Next]_vars
    PROVE  RendezvousInv'
<1>1. CASE UNCHANGED vars
  BY <1>1 DEF vars, RendezvousInv, Serial, Alone, CallInv, OutstandingCall, Request
<1>2. CASE Next /\ overlap
  BY <1>2 DEF Next, Begin, ThreadStep, StoreDone, StoreReadRet, Forward, Wait, Return,
              SpuriousWakeup, CallbackOf, Callback, RendezvousInv
<1>3. CASE Next /\ ~overlap
  <2>1. ASSUME NEW t \in Threads, NEW kind \in Ops, Begin(t, kind) PROVE RendezvousInv'
    BY <2>1, BeginStep
  <2>2. ASSUME NEW t \in Threads, ThreadStep(t) \/ SpuriousWakeup(t) PROVE RendezvousInv'
    <3>1. pc[t] # "idle"
      BY <2>2 DEF ThreadStep, StoreDone, StoreReadRet, Forward, Wait, Return, SpuriousWakeup
    <3> QED BY <1>3, <2>2, <3>1, ActiveStep
  <2>3. ASSUME NEW r \in in_flight, Callback(r) PROVE RendezvousInv'
    BY <1>3, <2>3, CallbackStep
  <2> QED BY <1>3, <2>1, <2>2, <2>3 DEF Next, CallbackOf
<1> QED BY <1>1, <1>2, <1>3

LEMMA SerialInv == Spec => []RendezvousInv
<1>1. Init => RendezvousInv
  BY InvInit
<1>2. TypeOK /\ RendezvousInv /\ [Next]_vars => RendezvousInv'
  BY InvStep
<1> QED BY <1>1, <1>2, TypeCorrect, PTL DEF Spec

(***************************************************************************)
(* Any number of threads whose calls have not overlapped: a call returns   *)
(* only when its own callback has run.                                     *)
(***************************************************************************)
THEOREM SerialCallsWaitForTheirCallback == Spec => []SerialCallsWait
<1>1. TypeOK /\ RendezvousInv => SerialCallsWait
  <2> SUFFICES ASSUME TypeOK, RendezvousInv, ~overlap, NEW t \in Threads, pc[t] = "idle",
                      Request(t) \in in_flight
               PROVE  FALSE
    BY DEF SerialCallsWait, CallbackBeforeReturn
  <2>1. PICK u \in Threads : pc[u] # "idle"
    BY DEF RendezvousInv, Serial
  <2>2. in_flight = {Request(u)}
    BY <2>1 DEF TypeOK, RendezvousInv, CallInv, OutstandingCall
  <2> QED BY <2>1, <2>2 DEF Request
<1> QED BY <1>1, SerialInv, TypeCorrect, PTL

(***************************************************************************)
(* The same: a read or an lseek returns its own result.                    *)
(***************************************************************************)
THEOREM SerialCallsGetTheirResult == Spec => []OwnResult
<1>1. RendezvousInv => OwnResult
  BY DEF RendezvousInv, CallInv, OwnResult
<1> QED BY <1>1, SerialInv, PTL

(***************************************************************************)
(* The same: a thread is never blocked while done is HG_TRUE.              *)
(***************************************************************************)
THEOREM SerialCallsAreWoken == Spec => []NoLostWakeup
<1>1. RendezvousInv => NoLostWakeup
  BY DEF RendezvousInv, CallInv, NoLostWakeup
<1> QED BY <1>1, SerialInv, PTL

(***************************************************************************)
(* The calls of one application thread never overlap: HvacSystem may take  *)
(* its rendezvous as call and return.                                      *)
(***************************************************************************)
THEOREM OneThreadIsSerial ==
    ASSUME NEW t, Threads = {t}
    PROVE  Spec => []~overlap
<1>1. Init => ~overlap
  BY DEF Init
<1>2. RendezvousInv /\ ~overlap /\ [Next]_vars => ~overlap'
  BY DEF RendezvousInv, Serial, vars, Next, Begin, ThreadStep, StoreDone, StoreReadRet,
         Forward, Wait, Return, SpuriousWakeup, CallbackOf, Callback
<1> QED BY <1>1, <1>2, SerialInv, PTL DEF Spec
=============================================================================
