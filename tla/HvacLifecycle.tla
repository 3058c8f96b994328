----------------------------- MODULE HvacLifecycle -----------------------------
(***************************************************************************)
(* The life of a process with the preloaded client: the constructor, the   *)
(* initialisation of Mercury at the first tracked open, the progress       *)
(* thread, fork, and the destructor.  All of it communicates by process-   *)
(* wide variables that are read and written without a lock.                *)
(*                                                                         *)
(* A call is followed from the wrapper's test of g_disable_redirect to its *)
(* return.  Only the steps that touch these variables are told apart; what *)
(* the server does with a request is in HvacSystem, how the caller waits   *)
(* is in HvacRendezvous.                                                   *)
(***************************************************************************)
EXTENDS Integers, FiniteSets

CONSTANTS
    Threads,        \* application threads of the process
    Main,           \* the one that runs main: it forks and exits
    ServerCounts,   \* what atoi may make of HVAC_SERVER_COUNT
    MaxContexts     \* bound: contexts created by the process

ASSUME LifecycleAssumption ==
    /\ IsFiniteSet(Threads)
    /\ Main \in Threads
    /\ ServerCounts \subseteq Nat
    /\ MaxContexts \in Nat

Variables == {"HVAC_SERVER_COUNT", "PMI_RANK"}

\* hg_class and hg_context are named by when they were made; 0 is NULL.
Handles == 0..MaxContexts

VARIABLES
    life,           \* the phase of the process
    exiter,         \* the thread that called exit
    env,            \* the environment variables that are set
    server_count,   \* atoi of HVAC_SERVER_COUNT: 0 if it is no number
    ports,          \* the ports file exists
    g_disable_redirect,
    g_hvac_server_count,
    g_mercury_init,
    hg_class,
    hg_context,
    made,           \* how many contexts were made
    registered,     \* classes in which the RPCs are registered
    shutdown_flag,  \* hvac_progress_thread_shutdown_flags
    destroyed,      \* contexts that were destroyed
    progress,       \* the progress threads: the context that each one's
                    \* HG_Progress is inside of, 0, or -1: no such thread
    pc,             \* thread -> where it is
    addr_class,     \* thread -> the class of the address it uses
    request,        \* thread -> the context of its request
    unwaited,       \* contexts with requests that nobody waits for
    inherited       \* observed: the process was forked after HG_Init

outside == <<env, server_count, ports>>
flagVars == <<outside, g_disable_redirect, g_hvac_server_count, g_mercury_init, shutdown_flag>>
mercuryVars == <<hg_class, hg_context, made, registered, destroyed, progress>>
threadVars == <<pc, addr_class, request, unwaited>>
vars == <<life, exiter, flagVars, mercuryVars, threadVars, inherited>>

(***************************************************************************)
(* life: "loading", the constructor has not run; "running"; "exiting",     *)
(* after exit, before the destructor; "destroying", inside                 *)
(* hvac_shutdown_comm; "ending", after it; "gone"; "crashed".              *)
(***************************************************************************)
Phases == {"loading", "running", "exiting", "destroying", "ending", "gone", "crashed"}

(***************************************************************************)
(* pc, in the order of an open: "idle", in the application; "test", before *)
(* the test of g_mercury_init; "class", "context", "thread", in            *)
(* hvac_init_comm; "register"; "set"; "lookup", before the address is      *)
(* looked up; "create", before the handle is created; "wait".  A close is  *)
(* at "close" before the lookup, at "shut" before the handle, and does not *)
(* wait.  A thread that the process does not have is "none".               *)
(***************************************************************************)
PCs == {"none", "idle", "test", "class", "context", "thread", "register", "set",
        "lookup", "create", "wait", "close", "shut"}

TypeOK ==
    /\ life \in Phases
    /\ exiter \in Threads
    /\ env \subseteq Variables
    /\ server_count \in ServerCounts
    /\ g_hvac_server_count \in {0, server_count}
    /\ {ports, g_disable_redirect, g_mercury_init, shutdown_flag, inherited} \subseteq BOOLEAN
    /\ {hg_class, hg_context, made} \subseteq Handles
    /\ registered \cup destroyed \cup unwaited \subseteq Handles \ {0}
    /\ progress \in [1..MaxContexts -> Handles \cup {-1}]
    /\ pc \in [Threads -> PCs]
    /\ {addr_class, request} \subseteq [Threads -> Handles]

\* A process has its main thread to begin with, and no progress thread.
Alone == [t \in Threads |-> IF t = Main THEN "idle" ELSE "none"]
NoProgress == [i \in 1..MaxContexts |-> -1]

Init ==
    /\ life = "loading"
    /\ exiter = Main
    /\ env \in SUBSET Variables
    /\ server_count \in ServerCounts
    /\ ports \in BOOLEAN
    /\ g_disable_redirect = TRUE
    /\ g_hvac_server_count = 0
    /\ g_mercury_init = FALSE
    /\ hg_class = 0
    /\ hg_context = 0
    /\ made = 0
    /\ registered = {}
    /\ shutdown_flag = FALSE
    /\ destroyed = {}
    /\ progress = NoProgress
    /\ pc = Alone
    /\ addr_class = [t \in Threads |-> 0]
    /\ request = [t \in Threads |-> 0]
    /\ unwaited = {}
    /\ inherited = FALSE

-----------------------------------------------------------------------------
Alive == life \in {"loading", "running", "exiting", "destroying", "ending"}

At(t, label) == Alive /\ pc[t] = label

Goto(t, label) == pc' = [pc EXCEPT ![t] = label]

InDestructor(t) == life = "destroying" /\ t = exiter

Crash ==
    /\ life' = "crashed"
    /\ UNCHANGED <<exiter, flagVars, mercuryVars, threadVars, inherited>>

\* hvac_comm_list_addr of a server: the file is made at some time.
PostPorts ==
    /\ Alive
    /\ ~ports
    /\ ports' = TRUE
    /\ UNCHANGED <<life, exiter, env, server_count, g_disable_redirect, g_hvac_server_count,
                   g_mercury_init, shutdown_flag, mercuryVars, threadVars, inherited>>

\* The constructor.  It runs once, before main; without HVAC_SERVER_COUNT it
\* ends the process.  The number is taken as it is, 0 too.
hvac_client_init ==
    /\ life = "loading"
    /\ \/ /\ "HVAC_SERVER_COUNT" \notin env
          /\ life' = "exiting"
          /\ UNCHANGED <<g_hvac_server_count, g_disable_redirect>>
       \/ /\ "HVAC_SERVER_COUNT" \in env
          /\ g_hvac_server_count' = server_count
          /\ g_disable_redirect' = FALSE
          /\ life' = "running"
    /\ UNCHANGED <<exiter, outside, g_mercury_init, shutdown_flag, mercuryVars, threadVars,
                   inherited>>

\* pthread_create in the application.
NewThread(t) ==
    /\ life = "running"
    /\ pc[t] = "none"
    /\ Goto(t, "idle")
    /\ UNCHANGED <<life, exiter, flagVars, mercuryVars, addr_class, request, unwaited, inherited>>

-----------------------------------------------------------------------------
(***************************************************************************)
(* An intercepted call.  Where redirection is off the wrapper calls libc,  *)
(* which changes nothing here.                                             *)
(***************************************************************************)

\* An open of a file of the data set enters hvac_track_file.  Constructors
\* and destructors of other libraries call open as well.
Open(t) ==
    /\ At(t, "idle")
    /\ ~InDestructor(t)
    /\ ~g_disable_redirect
    /\ Goto(t, "test")
    /\ UNCHANGED <<life, exiter, flagVars, mercuryVars, addr_class, request, unwaited, inherited>>

\* A read or pread of a tracked descriptor: there has been an open.  These two
\* do not look at g_disable_redirect.
Read(t) ==
    /\ At(t, "idle")
    /\ ~InDestructor(t)
    /\ g_mercury_init
    /\ Goto(t, "lookup")
    /\ UNCHANGED <<life, exiter, flagVars, mercuryVars, addr_class, request, unwaited, inherited>>

\* An lseek or lseek64 of a tracked descriptor.
Seek(t) ==
    /\ At(t, "idle")
    /\ ~InDestructor(t)
    /\ ~g_disable_redirect
    /\ g_mercury_init
    /\ Goto(t, "lookup")
    /\ UNCHANGED <<life, exiter, flagVars, mercuryVars, addr_class, request, unwaited, inherited>>

\* A close of a tracked descriptor.
Close(t) ==
    /\ At(t, "idle")
    /\ ~InDestructor(t)
    /\ ~g_disable_redirect
    /\ g_mercury_init
    /\ Goto(t, "close")
    /\ UNCHANGED <<life, exiter, flagVars, mercuryVars, addr_class, request, unwaited, inherited>>

\* Faulty variant of TestInit: the flag is raised at the test, so that the
\* initialisation is not done twice.
TestInitRaisesFlag(t) ==
    /\ At(t, "test")
    /\ Goto(t, IF g_mercury_init THEN "lookup" ELSE "class")
    /\ g_mercury_init' = TRUE
    /\ UNCHANGED <<life, exiter, outside, g_disable_redirect, g_hvac_server_count,
                   shutdown_flag, mercuryVars, addr_class, request, unwaited, inherited>>

\* if (!g_mercury_init)
TestInit(t) ==
    /\ At(t, "test")
    /\ Goto(t, IF g_mercury_init THEN "lookup" ELSE "class")
    /\ UNCHANGED <<life, exiter, flagVars, mercuryVars, addr_class, request, unwaited, inherited>>

\* hvac_init_comm without PMI_RANK: exit(EXIT_FAILURE).
InitCommExits(t) ==
    /\ At(t, "class")
    /\ "PMI_RANK" \notin env
    /\ life' = IF life = "running" THEN "exiting" ELSE life
    /\ exiter' = t
    /\ Goto(t, "idle")
    /\ UNCHANGED <<flagVars, mercuryVars, addr_class, request, unwaited, inherited>>

\* hg_class = HG_Init(...)
InitClass(t) ==
    /\ At(t, "class")
    /\ "PMI_RANK" \in env
    /\ made < MaxContexts
    /\ made' = made + 1
    /\ hg_class' = made + 1
    /\ Goto(t, "context")
    /\ UNCHANGED <<life, exiter, flagVars, hg_context, registered, destroyed, progress,
                   addr_class, request, unwaited, inherited>>

\* hg_context = HG_Context_create(hg_class): a context of the class that
\* hg_class names now.
InitContext(t) ==
    /\ At(t, "context")
    /\ hg_context' = hg_class
    /\ Goto(t, "thread")
    /\ UNCHANGED <<life, exiter, flagVars, hg_class, made, registered, destroyed, progress,
                   addr_class, request, unwaited, inherited>>

FreeSlot == CHOOSE i \in 1..MaxContexts : progress[i] = -1

\* Faulty variant of StartProgress: only a process that listens, a server,
\* gets a progress thread.
StartProgressIfListening(t) ==
    /\ At(t, "thread")
    /\ Goto(t, "register")
    /\ UNCHANGED <<life, exiter, flagVars, mercuryVars, addr_class, request, unwaited, inherited>>

\* pthread_create(&hvac_progress_tid, NULL, hvac_progress_fn, NULL)
StartProgress(t) ==
    /\ At(t, "thread")
    /\ progress' = [progress EXCEPT ![FreeSlot] = 0]
    /\ Goto(t, "register")
    /\ UNCHANGED <<life, exiter, flagVars, hg_class, hg_context, made, registered, destroyed,
                   addr_class, request, unwaited, inherited>>

hvac_client_comm_register_rpc(t) ==
    /\ At(t, "register")
    /\ registered' = registered \cup {hg_class}
    /\ Goto(t, "set")
    /\ UNCHANGED <<life, exiter, flagVars, hg_class, hg_context, made, destroyed, progress,
                   addr_class, request, unwaited, inherited>>

\* Faulty variant of SetInit: the flag stays down.
SetInitForgotten(t) ==
    /\ At(t, "set")
    /\ Goto(t, "lookup")
    /\ UNCHANGED <<life, exiter, flagVars, mercuryVars, addr_class, request, unwaited, inherited>>

\* g_mercury_init = true
SetInit(t) ==
    /\ At(t, "set")
    /\ g_mercury_init' = TRUE
    /\ Goto(t, "lookup")
    /\ UNCHANGED <<life, exiter, outside, g_disable_redirect, g_hvac_server_count,
                   shutdown_flag, mercuryVars, addr_class, request, unwaited, inherited>>

\* The hash modulo the number of servers, the ports file, whose fopen is not
\* checked, and HG_Addr_lookup2 in hg_class.  HG_Finalize has freed the class
\* once its context is destroyed.
Lookup(t) ==
    /\ At(t, "lookup") \/ At(t, "close")
    /\ IF g_hvac_server_count # 0 /\ ports /\ hg_class \notin destroyed
       THEN /\ addr_class' = [addr_class EXCEPT ![t] = hg_class]
            /\ Goto(t, IF pc[t] = "lookup" THEN "create" ELSE "shut")
            /\ UNCHANGED <<life, exiter, flagVars, mercuryVars, request, unwaited, inherited>>
       ELSE Crash

\* hvac_comm_create_handle in hg_context.  HG_Create fails, and its result is
\* asserted, if the address is of another class or the RPC is not registered
\* in this one.
CanCreate(t) ==
    /\ addr_class[t] = hg_context
    /\ hg_context \in registered \ destroyed

\* An open, read or lseek: HG_Forward, and the caller waits.
Forward(t) ==
    /\ At(t, "create")
    /\ IF CanCreate(t)
       THEN /\ request' = [request EXCEPT ![t] = hg_context]
            /\ Goto(t, "wait")
            /\ UNCHANGED <<life, exiter, flagVars, mercuryVars, addr_class, unwaited, inherited>>
       ELSE Crash

\* A close: HG_Forward, and the caller goes on.
ForwardClose(t) ==
    /\ At(t, "shut")
    /\ IF CanCreate(t)
       THEN /\ unwaited' = unwaited \cup {hg_context}
            /\ Goto(t, "idle")
            /\ UNCHANGED <<life, exiter, flagVars, mercuryVars, addr_class, request, inherited>>
       ELSE Crash

-----------------------------------------------------------------------------
(***************************************************************************)
(* hvac_progress_fn.  Every progress thread works on the context that      *)
(* hg_context names at the time.                                           *)
(***************************************************************************)
Running(i) == Alive /\ progress[i] # -1

\* HG_Progress(hg_context, 100) is entered,
EnterProgress(i) ==
    /\ Running(i)
    /\ progress[i] = 0
    /\ ~shutdown_flag
    /\ progress' = [progress EXCEPT ![i] = hg_context]
    /\ UNCHANGED <<life, exiter, flagVars, hg_class, hg_context, made, registered, destroyed,
                   threadVars, inherited>>

\* and returns, on its own time.
LeaveProgress(i) ==
    /\ Running(i)
    /\ progress[i] # 0
    /\ IF progress[i] \in destroyed
       THEN Crash
       ELSE /\ progress' = [progress EXCEPT ![i] = 0]
            /\ UNCHANGED <<life, exiter, flagVars, hg_class, hg_context, made, registered,
                           destroyed, threadVars, inherited>>

\* HG_Trigger(hg_context, 0, 1, ...): the callback of a request of this
\* context runs, and the caller returns.
Trigger(i, t) ==
    /\ Running(i)
    /\ progress[i] = 0
    /\ ~shutdown_flag
    /\ pc[t] = "wait"
    /\ request[t] = hg_context
    /\ hg_context \notin destroyed
    /\ Goto(t, "idle")
    /\ request' = [request EXCEPT ![t] = 0]
    /\ UNCHANGED <<life, exiter, flagVars, mercuryVars, addr_class, unwaited, inherited>>

\* The same for the requests of this context that nobody waits for.
TriggerUnwaited(i) ==
    /\ Running(i)
    /\ progress[i] = 0
    /\ ~shutdown_flag
    /\ hg_context \in unwaited \ destroyed
    /\ unwaited' = unwaited \ {hg_context}
    /\ UNCHANGED <<life, exiter, flagVars, mercuryVars, pc, addr_class, request, inherited>>

\* while (!hvac_progress_thread_shutdown_flags)
ProgressEnds(i) ==
    /\ Running(i)
    /\ progress[i] = 0
    /\ shutdown_flag
    /\ progress' = [progress EXCEPT ![i] = -1]
    /\ UNCHANGED <<life, exiter, flagVars, hg_class, hg_context, made, registered, destroyed,
                   threadVars, inherited>>

-----------------------------------------------------------------------------
\* fork.  The two processes share nothing, so it is enough to follow either:
\* the parent goes on as before, the child (here) has only the calling thread,
\* and a copy of the handles of all requests that were under way.
Fork ==
    /\ life = "running"
    /\ pc[Main] = "idle"
    /\ pc' = Alone
    /\ progress' = NoProgress
    /\ addr_class' = [t \in Threads |-> 0]
    /\ request' = [t \in Threads |-> 0]
    /\ unwaited' = unwaited \cup {request[t] : t \in {u \in Threads : pc[u] = "wait"}}
    /\ inherited' = (hg_class # 0)
    /\ UNCHANGED <<life, exiter, flagVars, hg_class, hg_context, made, registered, destroyed>>

-----------------------------------------------------------------------------
\* exit, or return from main.  Other threads keep running, and the thread
\* that exits runs the destructors of other libraries, too.
Exit ==
    /\ life = "running"
    /\ pc[Main] = "idle"
    /\ life' = "exiting"
    /\ exiter' = Main
    /\ UNCHANGED <<flagVars, mercuryVars, threadVars, inherited>>

ExiterIdle == pc[exiter] = "idle"

\* Faulty variant of RaiseFlag: hg_context is not compared with NULL.
RaiseFlagUnchecked ==
    /\ life = "exiting"
    /\ ExiterIdle
    /\ shutdown_flag' = TRUE
    /\ life' = "destroying"
    /\ UNCHANGED <<exiter, outside, g_disable_redirect, g_hvac_server_count, g_mercury_init,
                   mercuryVars, threadVars, inherited>>

\* The destructor, hvac_shutdown_comm: the flag first; the progress threads
\* are not waited for.
RaiseFlag ==
    /\ life = "exiting"
    /\ ExiterIdle
    /\ shutdown_flag' = TRUE
    /\ life' = IF hg_context = 0 THEN "ending" ELSE "destroying"
    /\ UNCHANGED <<exiter, outside, g_disable_redirect, g_hvac_server_count, g_mercury_init,
                   mercuryVars, threadVars, inherited>>

\* HG_Context_destroy and HG_Finalize; with requests under way the first
\* fails, which is asserted.
DestroyContext ==
    /\ life = "destroying"
    /\ IF \/ hg_context \in unwaited
          \/ \E t \in Threads : pc[t] = "wait" /\ request[t] = hg_context
       THEN Crash
       ELSE /\ destroyed' = destroyed \cup {hg_context}
            /\ life' = "ending"
            /\ UNCHANGED <<exiter, flagVars, hg_class, hg_context, made, registered,
                           progress, threadVars, inherited>>

\* The process is gone.
ExitDone ==
    /\ life = "ending"
    /\ ExiterIdle
    /\ life' = "gone"
    /\ UNCHANGED <<exiter, flagVars, mercuryVars, threadVars, inherited>>

-----------------------------------------------------------------------------
CallStep(t) ==
    \/ TestInit(t)
    \/ InitCommExits(t)
    \/ InitClass(t)
    \/ InitContext(t)
    \/ StartProgress(t)
    \/ hvac_client_comm_register_rpc(t)
    \/ SetInit(t)
    \/ Lookup(t)
    \/ Forward(t)
    \/ ForwardClose(t)

ProgressThread(i) ==
    \/ EnterProgress(i)
    \/ LeaveProgress(i)
    \/ \E t \in Threads : Trigger(i, t)
    \/ TriggerUnwaited(i)
    \/ ProgressEnds(i)

Destructor == RaiseFlag \/ DestroyContext \/ ExitDone

Next ==
    \/ PostPorts
    \/ hvac_client_init
    \/ \E t \in Threads : NewThread(t) \/ Open(t) \/ Read(t) \/ Seek(t) \/ Close(t) \/ CallStep(t)
    \/ \E i \in 1..MaxContexts : ProgressThread(i)
    \/ Fork
    \/ Exit
    \/ Destructor

Spec == Init /\ [][Next]_vars

\* Threads are scheduled, the server answers, and a thread that calls
\* HG_Trigger again and again meets every completion that is there.
FairSpec ==
    /\ Spec
    /\ \A t \in Threads :
           /\ WF_vars(CallStep(t))
           /\ SF_vars(\E i \in 1..MaxContexts : Trigger(i, t))
    /\ \A i \in 1..MaxContexts : WF_vars(EnterProgress(i) \/ LeaveProgress(i))
    /\ WF_vars(Destructor)

-----------------------------------------------------------------------------
(***************************************************************************)
(* "I think I only need to do this once" (hvac_client.cpp:123).  A process *)
(* with two threads may do it twice: the test and the assignment of        *)
(* g_mercury_init are 5 steps apart and not locked.  But a thread does it  *)
(* at most once, over every interleaving, so a process with one thread     *)
(* does it once.                                                           *)
(***************************************************************************)
OneInitPerThread ==
    ~inherited => made <= Cardinality({t \in Threads : pc[t] # "none"})

(***************************************************************************)
(* In a process that has initialised Mercury once and was not forked after *)
(* it, with any number of threads, a request that a caller waits for is on *)
(* the context that the progress threads work on, and there is such a      *)
(* thread.  Otherwise its callback never runs and the caller hangs.  Both  *)
(* conditions are needed: a second initialisation replaces the context     *)
(* that the request was forwarded on, and a child has the flag and the     *)
(* context of its parent, but not the progress thread.                     *)
(***************************************************************************)
RequestsAreServed ==
    Alive /\ made <= 1 /\ ~inherited /\ ~shutdown_flag =>
        \A t \in Threads : pc[t] = "wait" =>
            /\ request[t] = hg_context
            /\ \E i \in 1..MaxContexts : progress[i] # -1

(***************************************************************************)
(* Why a process crashes.  Two reasons are outside it: HVAC_SERVER_COUNT   *)
(* is 0 or no number, and the hash is divided by it; or the ports file is  *)
(* not there, and the result of its fopen is not checked.  One is two      *)
(* initialisations of Mercury.  The last one is the exit: the progress     *)
(* thread may be inside the context that is destroyed, and calls may still *)
(* be under way or come later, because g_disable_redirect is not set       *)
(* again.  There is no other, whatever the threads do: no call is          *)
(* redirected before the constructor has read the server count, none is    *)
(* made in a class without its RPCs or with an address of another class.   *)
(***************************************************************************)
CrashCauses ==
    life = "crashed" => server_count = 0 \/ ~ports \/ made > 1 \/ shutdown_flag

(***************************************************************************)
(* Every call returns, unless the process exits, was forked with a context *)
(* it cannot progress, or has initialised Mercury twice.                   *)
(***************************************************************************)
RedirectedCallsReturn ==
    \A t \in Threads :
        pc[t] \notin {"idle", "none"} ~>
            \/ pc[t] \in {"idle", "none"}
            \/ life # "running" \/ inherited \/ made > 1
=============================================================================
