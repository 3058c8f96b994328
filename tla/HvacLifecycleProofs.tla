-------------------------- MODULE HvacLifecycleProofs --------------------------
(***************************************************************************)
(* Proofs about the life of a process with the preloaded client, for any   *)
(* number of threads and of contexts.  The types, the order of the         *)
(* initialisation, the number of contexts, and the reasons for a crash are *)
(* one inductive invariant.                                                *)
(***************************************************************************)
EXTENDS HvacLifecycle, FiniteSetTheorems, TLAPS

\* Where a thread is that has called HG_Init and not yet set the flag.
Initialising == {"context", "thread", "register", "set"}

\* The number of threads at one of some labels.
Count(labels) == Cardinality({t \in Threads : pc[t] \in labels})

\* hg_class names the class that was made last; registrations, addresses and
\* requests are of classes that were made.
HandlesInv ==
    /\ hg_class = made
    /\ hg_context <= made
    /\ registered \subseteq 1..made
    /\ \A t \in Threads :
           /\ pc[t] \in {"create", "shut"} => addr_class[t] \in 1..made
           /\ pc[t] = "wait" => request[t] \in 1..made

\* The constructor has read the server count.
Counted == g_hvac_server_count = server_count

(***************************************************************************)
(* What is behind a thread at its place, and behind g_mercury_init: the    *)
(* server count, a class, a context, the RPCs, and a progress thread,      *)
(* which only fork and the shutdown flag take away again.                  *)
(***************************************************************************)
OrderInv ==
    /\ ~g_disable_redirect \/ g_mercury_init => Counted
    /\ \A t \in Threads :
           /\ pc[t] \notin {"none", "idle"} => Counted
           /\ pc[t] \in {"lookup", "create", "wait", "close", "shut"} => g_mercury_init
           /\ g_mercury_init \/ pc[t] \in Initialising => made > 0
           /\ g_mercury_init \/ pc[t] \in {"thread", "register", "set"} => hg_context > 0
           /\ g_mercury_init \/ pc[t] = "set" => registered # {}
           /\ /\ g_mercury_init \/ pc[t] \in {"register", "set"}
              /\ ~inherited
              /\ ~shutdown_flag
              => \E i \in 1..MaxContexts : progress[i] # -1

\* The destructor raises the flag before anything else, and destroys a context
\* only if there is one.
ExitInv ==
    /\ life = "destroying" => hg_context > 0
    /\ life \in {"destroying", "ending", "gone"} => shutdown_flag
    /\ destroyed # {} => shutdown_flag

(***************************************************************************)
(* How often Mercury is initialised.  Before the flag is up, every context *)
(* has its thread on the way from HG_Init to the flag.  After it no thread *)
(* enters hvac_init_comm, and those that are in front of HG_Init have not  *)
(* made theirs yet.                                                        *)
(***************************************************************************)
OnceInv ==
    ~inherited =>
        IF g_mercury_init
        THEN made + Count({"class"}) <= Count(PCs \ {"none"})
        ELSE made <= Count(Initialising)

\* The inductive invariant.
LifecycleInv ==
    TypeOK /\ HandlesInv /\ OrderInv /\ ExitInv /\ OnceInv /\ CrashCauses

-----------------------------------------------------------------------------
\* The types of the handles, as single facts.
LEMMA HandleTypes ==
  ASSUME TypeOK
  PROVE  /\ MaxContexts \in Nat
         /\ made \in 0..MaxContexts
         /\ hg_class \in 0..MaxContexts
         /\ hg_context \in 0..MaxContexts
  BY LifecycleAssumption DEF TypeOK, Handles

\* A count is a natural number, now and after a step: threads are finite.
LEMMA CountTypes ==
  ASSUME NEW labels
  PROVE  /\ Count(labels) \in Nat
         /\ Count(labels)' \in Nat
<1>1. IsFiniteSet({t \in Threads : pc[t] \in labels})
  BY FS_Subset, LifecycleAssumption
<1>2. IsFiniteSet({t \in Threads : pc'[t] \in labels})
  BY FS_Subset, LifecycleAssumption
<1> QED BY <1>1, <1>2, FS_CardinalityType DEF Count

\* A step on which no thread leaves some labels does not lower their count.
LEMMA CountGrows ==
  ASSUME NEW labels, \A t \in Threads : pc[t] \in labels => pc'[t] \in labels
  PROVE  Count(labels) <= Count(labels)'
<1> DEFINE S == {t \in Threads : pc'[t] \in labels}
<1>1. IsFiniteSet(S)
  BY FS_Subset, LifecycleAssumption
<1>2. {t \in Threads : pc[t] \in labels} \in SUBSET S
  OBVIOUS
<1> QED BY <1>1, <1>2, FS_Subset DEF Count

\* A step on which no thread enters some labels does not raise their count.
LEMMA CountShrinks ==
  ASSUME NEW labels, \A t \in Threads : pc'[t] \in labels => pc[t] \in labels
  PROVE  Count(labels)' <= Count(labels)
<1> DEFINE S == {t \in Threads : pc[t] \in labels}
<1>1. IsFiniteSet(S)
  BY FS_Subset, LifecycleAssumption
<1>2. {t \in Threads : pc'[t] \in labels} \in SUBSET S
  OBVIOUS
<1> QED BY <1>1, <1>2, FS_Subset DEF Count

\* A thread that enters a set of labels is counted there.
LEMMA CountEnters ==
  ASSUME NEW labels, NEW t \in Threads, NEW label \in labels,
         pc \in [Threads -> PCs], pc[t] \notin labels,
         pc' = [pc EXCEPT ![t] = label]
  PROVE  Count(labels)' = Count(labels) + 1
<1> DEFINE S == {u \in Threads : pc[u] \in labels}
<1>1. IsFiniteSet(S) /\ t \notin S
  BY FS_Subset, LifecycleAssumption
<1>2. {u \in Threads : pc'[u] \in labels} = S \cup {t}
  OBVIOUS
<1> QED BY <1>1, <1>2, FS_AddElement DEF Count

\* A thread that leaves a set of labels is no longer counted there.
LEMMA CountLeaves ==
  ASSUME NEW labels, NEW t \in Threads, NEW label, label \notin labels,
         pc \in [Threads -> PCs], pc[t] \in labels,
         pc' = [pc EXCEPT ![t] = label]
  PROVE  Count(labels)' = Count(labels) - 1
<1> DEFINE S == {u \in Threads : pc[u] \in labels}
<1>1. IsFiniteSet(S) /\ t \in S
  BY FS_Subset, LifecycleAssumption
<1>2. {u \in Threads : pc'[u] \in labels} = S \ {t}
  OBVIOUS
<1> QED BY <1>1, <1>2, FS_RemoveElement DEF Count

\* Threads before and after HG_Init are different threads of the process.
LEMMA ClassAndInitialising ==
  Count({"class"}) + Count(Initialising) <= Count(PCs \ {"none"})
<1> DEFINE S == {t \in Threads : pc[t] \in {"class"}}
           T == {t \in Threads : pc[t] \in Initialising}
           U == {t \in Threads : pc[t] \in PCs \ {"none"}}
<1>1. IsFiniteSet(S) /\ IsFiniteSet(T) /\ IsFiniteSet(U)
  BY FS_Subset, LifecycleAssumption
<1>2. S \cap T = {} /\ S \cup T \in SUBSET U
  BY DEF Initialising, PCs
<1>3. Cardinality(S \cup T) <= Cardinality(U)
  BY <1>1, <1>2, FS_Subset
<1>4. Cardinality(S \cup T) = Cardinality(S) + Cardinality(T)
  <2> HIDE DEF S, T, U
  <2>1. Cardinality(S \cap T) = 0
    BY <1>2, FS_EmptySet
  <2>2. Cardinality(S) \in Nat /\ Cardinality(T) \in Nat
    BY <1>1, FS_CardinalityType
  <2>3. Cardinality(S \cup T) = Cardinality(S) + Cardinality(T) - Cardinality(S \cap T)
    BY <1>1, FS_Union
  <2> QED BY <2>1, <2>2, <2>3
<1> QED BY <1>3, <1>4 DEF Count

\* A step that neither calls HG_Init nor sets the flag keeps OnceInv, if no
\* thread leaves the initialisation before the flag, and none enters it after.
LEMMA OnceKept ==
  ASSUME TypeOK, OnceInv, UNCHANGED <<made, g_mercury_init, inherited>>,
         ~g_mercury_init =>
             \A t \in Threads : pc[t] \in Initialising => pc'[t] \in Initialising,
         g_mercury_init =>
             \A t \in Threads :
                 /\ pc'[t] \in {"class"} => pc[t] \in {"class"}
                 /\ pc[t] \in PCs \ {"none"} => pc'[t] \in PCs \ {"none"}
  PROVE  OnceInv'
<1>0. made \in Nat
  BY LifecycleAssumption DEF TypeOK, Handles
<1>1. CASE g_mercury_init
  <2>1. Count({"class"})' <= Count({"class"})
    BY <1>1, CountShrinks
  <2>2. Count(PCs \ {"none"}) <= Count(PCs \ {"none"})'
    BY <1>1, CountGrows
  <2> QED BY <1>0, <1>1, <2>1, <2>2, CountTypes DEF OnceInv
<1>2. CASE ~g_mercury_init
  <2>1. Count(Initialising) <= Count(Initialising)'
    BY <1>2, CountGrows
  <2> QED BY <1>0, <1>2, <2>1, CountTypes DEF OnceInv
<1> QED BY <1>1, <1>2

\* The first state: a process before its constructor, with one thread.
LEMMA LifecycleInit == Init => LifecycleInv
<1> SUFFICES ASSUME Init PROVE LifecycleInv
  OBVIOUS
<1>1. TypeOK
  <2>1. 0 \in Handles
    BY LifecycleAssumption DEF Handles
  <2>2. pc \in [Threads -> PCs]
    BY DEF Init, Alone, PCs
  <2>3. progress \in [1..MaxContexts -> Handles \cup {-1}]
    BY DEF Init, NoProgress
  <2> QED BY <2>1, <2>2, <2>3, LifecycleAssumption DEF Init, TypeOK, Phases
<1>2. HandlesInv
  BY DEF Init, HandlesInv, Alone
<1>3. OrderInv
  BY DEF Init, OrderInv, Counted, Alone, Initialising
<1>4. ExitInv /\ CrashCauses
  BY DEF Init, ExitInv, CrashCauses
<1>5. OnceInv
  <2>1. Count(Initialising) \in Nat
    BY CountTypes
  <2> QED BY <2>1 DEF Init, OnceInv
<1> QED BY <1>1, <1>2, <1>3, <1>4, <1>5 DEF LifecycleInv

-----------------------------------------------------------------------------
\* Every step keeps the types.  The bound on contexts is what InitClass
\* tests before it calls HG_Init.
LEMMA TypeOKStep ==
  ASSUME LifecycleInv, Next
  PROVE  TypeOK'
<1> USE LifecycleAssumption DEF LifecycleInv, TypeOK, Handles, At, Alive, Goto, Crash,
           Running, InDestructor, ExiterIdle, outside, flagVars, mercuryVars, threadVars
<1>0. /\ MaxContexts \in Nat
      /\ made \in 0..MaxContexts
      /\ hg_class \in 0..MaxContexts
      /\ hg_context \in 0..MaxContexts
  BY HandleTypes
<1>1. CASE hvac_client_init
  BY <1>1 DEF hvac_client_init, Phases
<1>2. CASE Fork
  <2>1. unwaited' \subseteq Handles \ {0}
    BY <1>2 DEF Fork, HandlesInv
  <2>2. inherited' \in BOOLEAN
    BY <1>2 DEF Fork
  <2>3. /\ pc' \in [Threads -> PCs]
        /\ progress' \in [1..MaxContexts -> Handles \cup {-1}]
        /\ addr_class' \in [Threads -> Handles] /\ request' \in [Threads -> Handles]
    BY <1>0, <1>2 DEF Fork, PCs, Alone, NoProgress
  <2> QED BY <1>2, <2>1, <2>2, <2>3 DEF Fork
<1>3. CASE Exit
  BY <1>3 DEF Exit, Phases
<1>4. CASE RaiseFlag
  BY <1>4 DEF RaiseFlag, Phases
<1>5. CASE DestroyContext
  <2>1. hg_context \in Handles \ {0}
    BY <1>0, <1>5 DEF DestroyContext, ExitInv
  <2>2. destroyed' \subseteq Handles \ {0}
    BY <1>5, <2>1 DEF DestroyContext
  <2> QED BY <1>5, <2>2 DEF DestroyContext, Phases
<1>6. CASE ExitDone
  BY <1>6 DEF ExitDone, Phases
<1>7. ASSUME NEW t \in Threads, NewThread(t) PROVE  TypeOK'
  BY <1>7 DEF NewThread, PCs
<1>8. ASSUME NEW t \in Threads, Open(t) PROVE  TypeOK'
  BY <1>8 DEF Open, PCs
<1>9. ASSUME NEW t \in Threads, Read(t) PROVE  TypeOK'
  BY <1>9 DEF Read, PCs
<1>23. ASSUME NEW t \in Threads, Seek(t) PROVE  TypeOK'
  BY <1>23 DEF Seek, PCs
<1>24. ASSUME NEW t \in Threads, Close(t) PROVE  TypeOK'
  BY <1>24 DEF Close, PCs
<1>10. ASSUME NEW t \in Threads, TestInit(t) PROVE  TypeOK'
  BY <1>10 DEF TestInit, PCs
<1>11. ASSUME NEW t \in Threads, InitCommExits(t) PROVE  TypeOK'
  BY <1>11 DEF InitCommExits, Phases, PCs
<1>12. ASSUME NEW t \in Threads, InitClass(t) PROVE  TypeOK'
  <2>1. made + 1 \in Handles
    BY <1>0, <1>12 DEF InitClass
  <2>2. pc' \in [Threads -> PCs]
    BY <1>12 DEF InitClass, PCs
  <2> QED BY <1>12, <2>1, <2>2 DEF InitClass
<1>13. ASSUME NEW t \in Threads, InitContext(t) PROVE  TypeOK'
  BY <1>13 DEF InitContext, PCs
<1>14. ASSUME NEW t \in Threads, StartProgress(t) PROVE  TypeOK'
  <2>0. 0 \in Handles
    BY <1>0
  <2>1. progress' \in [1..MaxContexts -> Handles \cup {-1}]
    BY <1>14, <2>0 DEF StartProgress
  <2>2. pc' \in [Threads -> PCs]
    BY <1>14 DEF StartProgress, PCs
  <2> QED BY <1>14, <2>1, <2>2 DEF StartProgress
<1>15. ASSUME NEW t \in Threads, hvac_client_comm_register_rpc(t) PROVE  TypeOK'
  <2>1. hg_class # 0
    BY <1>0, <1>15 DEF hvac_client_comm_register_rpc, HandlesInv, OrderInv, Initialising
  <2> QED BY <1>15, <2>1 DEF hvac_client_comm_register_rpc, PCs
<1>16. ASSUME NEW t \in Threads, SetInit(t) PROVE  TypeOK'
  BY <1>16 DEF SetInit, PCs
<1>17. ASSUME NEW t \in Threads, Lookup(t) PROVE  TypeOK'
  <2>1. CASE g_hvac_server_count # 0 /\ ports /\ hg_class \notin destroyed
    <3>1. addr_class' \in [Threads -> Handles]
      BY <1>17, <2>1 DEF Lookup
    <3>2. pc' \in [Threads -> PCs]
      BY <1>17, <2>1 DEF Lookup, PCs
    <3> QED BY <1>17, <2>1, <3>1, <3>2 DEF Lookup
  <2>2. CASE ~(g_hvac_server_count # 0 /\ ports /\ hg_class \notin destroyed)
    BY <1>17, <2>2 DEF Lookup, Phases
  <2> QED BY <2>1, <2>2
<1>18. ASSUME NEW t \in Threads, Forward(t) PROVE  TypeOK'
  <2>1. CASE CanCreate(t)
    <3>1. request' \in [Threads -> Handles]
      BY <1>0, <1>18, <2>1 DEF Forward
    <3>2. pc' \in [Threads -> PCs]
      BY <1>18, <2>1 DEF Forward, PCs
    <3> QED BY <1>18, <2>1, <3>1, <3>2 DEF Forward
  <2>2. CASE ~CanCreate(t)
    BY <1>18, <2>2 DEF Forward, Phases
  <2> QED BY <2>1, <2>2
<1>19. ASSUME NEW i \in 1..MaxContexts, EnterProgress(i) PROVE  TypeOK'
  BY <1>19 DEF EnterProgress
<1>20. ASSUME NEW i \in 1..MaxContexts, LeaveProgress(i) PROVE  TypeOK'
  <2>1. CASE progress[i] \in destroyed
    BY <1>20, <2>1 DEF LeaveProgress, Phases
  <2>2. CASE progress[i] \notin destroyed
    <3>0. progress' = [progress EXCEPT ![i] = 0] /\ 0 \in Handles
      BY <1>0, <1>20, <2>2 DEF LeaveProgress
    <3>1. progress' \in [1..MaxContexts -> Handles \cup {-1}]
      BY <3>0
    <3> QED BY <1>20, <2>2, <3>1 DEF LeaveProgress
  <2> QED BY <2>1, <2>2
<1>21. ASSUME NEW i \in 1..MaxContexts, ProgressEnds(i) PROVE  TypeOK'
  BY <1>21 DEF ProgressEnds
<1>22. ASSUME NEW i \in 1..MaxContexts, NEW t \in Threads, Trigger(i, t) PROVE  TypeOK'
  BY <1>22 DEF Trigger, PCs
<1>25. ASSUME NEW t \in Threads, ForwardClose(t) PROVE  TypeOK'
  <2>1. CASE CanCreate(t)
    <3>1. unwaited' \subseteq Handles \ {0}
      BY <1>25, <2>1 DEF ForwardClose, CanCreate
    <3>2. pc' \in [Threads -> PCs]
      BY <1>25, <2>1 DEF ForwardClose, PCs
    <3> QED BY <1>25, <2>1, <3>1, <3>2 DEF ForwardClose
  <2>2. CASE ~CanCreate(t)
    BY <1>25, <2>2 DEF ForwardClose, Phases
  <2> QED BY <2>1, <2>2
<1>26. ASSUME NEW i \in 1..MaxContexts, TriggerUnwaited(i) PROVE  TypeOK'
  BY <1>26 DEF TriggerUnwaited, PCs
<1>27. CASE PostPorts
  BY <1>27 DEF PostPorts, PCs
<1> QED BY <1>1, <1>2, <1>3, <1>4, <1>5, <1>6, <1>7, <1>8, <1>9, <1>10, <1>11,
           <1>12, <1>13, <1>14, <1>15, <1>16, <1>17, <1>18, <1>19, <1>20, <1>21, <1>22,
           <1>23, <1>24, <1>25, <1>26, <1>27, Next
        DEF Next, CallStep, ProgressThread, Destructor

-----------------------------------------------------------------------------
\* Every step keeps the handles apart: a class is named only after it was
\* made (InitClass), an address only after its class.
LEMMA HandlesStep ==
  ASSUME LifecycleInv, Next
  PROVE  HandlesInv'
<1> USE LifecycleAssumption DEF LifecycleInv, TypeOK, Handles, At, Alive, Goto, Crash,
           Running, InDestructor, ExiterIdle, outside, flagVars, mercuryVars, threadVars
<1>1. CASE hvac_client_init
  BY <1>1 DEF hvac_client_init, HandlesInv
<1>2. CASE Fork
  BY <1>2 DEF Fork, HandlesInv, Alone
<1>3. CASE Exit
  BY <1>3 DEF Exit, HandlesInv
<1>4. CASE RaiseFlag
  BY <1>4 DEF RaiseFlag, HandlesInv
<1>5. CASE DestroyContext
  BY <1>5 DEF DestroyContext, HandlesInv
<1>6. CASE ExitDone
  BY <1>6 DEF ExitDone, HandlesInv
<1>7. ASSUME NEW t \in Threads, NewThread(t) PROVE  HandlesInv'
  BY <1>7 DEF NewThread, HandlesInv
<1>8. ASSUME NEW t \in Threads, Open(t) PROVE  HandlesInv'
  BY <1>8 DEF Open, HandlesInv
<1>9. ASSUME NEW t \in Threads, Read(t) PROVE  HandlesInv'
  BY <1>9 DEF Read, HandlesInv
<1>23. ASSUME NEW t \in Threads, Seek(t) PROVE  HandlesInv'
  BY <1>23 DEF Seek, HandlesInv
<1>24. ASSUME NEW t \in Threads, Close(t) PROVE  HandlesInv'
  BY <1>24 DEF Close, HandlesInv
<1>10. ASSUME NEW t \in Threads, TestInit(t) PROVE  HandlesInv'
  BY <1>10 DEF TestInit, HandlesInv
<1>11. ASSUME NEW t \in Threads, InitCommExits(t) PROVE  HandlesInv'
  BY <1>11 DEF InitCommExits, HandlesInv
<1>12. ASSUME NEW t \in Threads, InitClass(t) PROVE  HandlesInv'
  <2>1. made \in Nat /\ made' = made + 1 /\ hg_class' = made'
    BY <1>12 DEF InitClass
  <2>2. 1..made \subseteq 1..made'
    BY <2>1
  <2>3. hg_context' <= made' /\ registered' \subseteq 1..made'
    <3>1. hg_context' = hg_context /\ registered' = registered
      BY <1>12 DEF InitClass
    <3>2. hg_context \in Int /\ hg_context <= made /\ registered \subseteq 1..made
      BY DEF HandlesInv
    <3> HIDE DEF LifecycleInv, TypeOK
    <3> QED BY <2>1, <2>2, <3>1, <3>2
  <2>4. ASSUME NEW s \in Threads
        PROVE  /\ pc'[s] \in {"create", "shut"} => addr_class'[s] \in 1..made'
               /\ pc'[s] = "wait" => request'[s] \in 1..made'
    <3>1. /\ pc'[s] \in {"create", "shut", "wait"} => pc[s] = pc'[s]
          /\ UNCHANGED <<addr_class, request>>
      BY <1>12 DEF InitClass
    <3> QED BY <2>2, <3>1 DEF HandlesInv
  <2> QED BY <2>1, <2>3, <2>4 DEF HandlesInv
<1>13. ASSUME NEW t \in Threads, InitContext(t) PROVE  HandlesInv'
  BY <1>13 DEF InitContext, HandlesInv
<1>14. ASSUME NEW t \in Threads, StartProgress(t) PROVE  HandlesInv'
  BY <1>14 DEF StartProgress, HandlesInv
<1>15. ASSUME NEW t \in Threads, hvac_client_comm_register_rpc(t) PROVE  HandlesInv'
  <2>1. hg_class \in 1..made
    BY <1>15 DEF hvac_client_comm_register_rpc, HandlesInv, OrderInv, Initialising, Counted
  <2> QED BY <1>15, <2>1 DEF hvac_client_comm_register_rpc, HandlesInv
<1>16. ASSUME NEW t \in Threads, SetInit(t) PROVE  HandlesInv'
  BY <1>16 DEF SetInit, HandlesInv
<1>17. ASSUME NEW t \in Threads, Lookup(t) PROVE  HandlesInv'
  <2>1. hg_class \in 1..made
    BY <1>17 DEF Lookup, HandlesInv, OrderInv, Initialising, Counted
  <2>2. CASE g_hvac_server_count # 0 /\ ports /\ hg_class \notin destroyed
    BY <1>17, <2>1, <2>2 DEF Lookup, HandlesInv
  <2>3. CASE ~(g_hvac_server_count # 0 /\ ports /\ hg_class \notin destroyed)
    BY <1>17, <2>3 DEF Lookup, HandlesInv
  <2> QED BY <2>2, <2>3
<1>18. ASSUME NEW t \in Threads, Forward(t) PROVE  HandlesInv'
  <2>1. CASE CanCreate(t)
    <3>1. hg_context \in 1..made
      BY <2>1 DEF CanCreate, HandlesInv
    <3> QED BY <1>18, <2>1, <3>1 DEF Forward, HandlesInv
  <2>2. CASE ~CanCreate(t)
    BY <1>18, <2>2 DEF Forward, HandlesInv
  <2> QED BY <2>1, <2>2
<1>19. ASSUME NEW i \in 1..MaxContexts, EnterProgress(i) PROVE  HandlesInv'
  BY <1>19 DEF EnterProgress, HandlesInv
<1>20. ASSUME NEW i \in 1..MaxContexts, LeaveProgress(i) PROVE  HandlesInv'
  BY <1>20 DEF LeaveProgress, HandlesInv
<1>21. ASSUME NEW i \in 1..MaxContexts, ProgressEnds(i) PROVE  HandlesInv'
  BY <1>21 DEF ProgressEnds, HandlesInv
<1>22. ASSUME NEW i \in 1..MaxContexts, NEW t \in Threads, Trigger(i, t) PROVE  HandlesInv'
  BY <1>22 DEF Trigger, HandlesInv
<1>25. ASSUME NEW t \in Threads, ForwardClose(t) PROVE  HandlesInv'
  BY <1>25 DEF ForwardClose, HandlesInv
<1>26. ASSUME NEW i \in 1..MaxContexts, TriggerUnwaited(i) PROVE  HandlesInv'
  BY <1>26 DEF TriggerUnwaited, HandlesInv
<1>27. CASE PostPorts
  BY <1>27 DEF PostPorts, HandlesInv
<1> QED BY <1>1, <1>2, <1>3, <1>4, <1>5, <1>6, <1>7, <1>8, <1>9, <1>10, <1>11,
           <1>12, <1>13, <1>14, <1>15, <1>16, <1>17, <1>18, <1>19, <1>20, <1>21, <1>22,
           <1>23, <1>24, <1>25, <1>26, <1>27, Next
        DEF Next, CallStep, ProgressThread, Destructor

-----------------------------------------------------------------------------
\* Every step keeps the order of the initialisation: no thread is ahead of
\* the assignments that its place in the code comes after.
LEMMA OrderStep ==
  ASSUME LifecycleInv, Next
  PROVE  OrderInv'
<1> USE LifecycleAssumption DEF LifecycleInv, TypeOK, Handles, At, Alive, Goto, Crash,
           Running, InDestructor, ExiterIdle, outside, flagVars, mercuryVars, threadVars
<1>0. /\ MaxContexts \in Nat
      /\ made \in 0..MaxContexts
      /\ hg_class \in 0..MaxContexts
      /\ hg_context \in 0..MaxContexts
  BY HandleTypes
<1>1. CASE hvac_client_init
  BY <1>1 DEF hvac_client_init, OrderInv, Initialising, Counted
<1>2. CASE Fork
  BY <1>2 DEF Fork, OrderInv, Initialising, Alone, NoProgress, HandlesInv, Counted
<1>3. CASE Exit
  BY <1>3 DEF Exit, OrderInv, Counted
<1>4. CASE RaiseFlag
  BY <1>4 DEF RaiseFlag, OrderInv, Counted
<1>5. CASE DestroyContext
  BY <1>5 DEF DestroyContext, OrderInv, Counted
<1>6. CASE ExitDone
  BY <1>6 DEF ExitDone, OrderInv, Counted
<1>7. ASSUME NEW t \in Threads, NewThread(t) PROVE  OrderInv'
  BY <1>7 DEF NewThread, OrderInv, Initialising, Counted
<1>8. ASSUME NEW t \in Threads, Open(t) PROVE  OrderInv'
  BY <1>8 DEF Open, OrderInv, Initialising, Counted
<1>9. ASSUME NEW t \in Threads, Read(t) PROVE  OrderInv'
  BY <1>9 DEF Read, OrderInv, Initialising, Counted
<1>23. ASSUME NEW t \in Threads, Seek(t) PROVE  OrderInv'
  BY <1>23 DEF Seek, OrderInv, Initialising, Counted
<1>24. ASSUME NEW t \in Threads, Close(t) PROVE  OrderInv'
  BY <1>24 DEF Close, OrderInv, Initialising, Counted
<1>10. ASSUME NEW t \in Threads, TestInit(t) PROVE  OrderInv'
  BY <1>10 DEF TestInit, OrderInv, Initialising, Counted
<1>11. ASSUME NEW t \in Threads, InitCommExits(t) PROVE  OrderInv'
  BY <1>11 DEF InitCommExits, OrderInv, Initialising, Counted
<1>12. ASSUME NEW t \in Threads, InitClass(t) PROVE  OrderInv'
  <2>1. made \in Nat /\ made' > 0
    BY <1>0, <1>12 DEF InitClass
  <2> QED BY <1>12, <2>1 DEF InitClass, OrderInv, Initialising, Counted
<1>13. ASSUME NEW t \in Threads, InitContext(t) PROVE  OrderInv'
  <2>1. hg_context' > 0
    BY <1>13 DEF InitContext, HandlesInv, OrderInv, Initialising, Counted
  <2> QED BY <1>13, <2>1 DEF InitContext, OrderInv, Initialising, Counted
<1>14. ASSUME NEW t \in Threads, StartProgress(t) PROVE  OrderInv'
  <2>1. \E i \in 1..MaxContexts : progress'[i] # -1
    <3>1. 1 \in 1..MaxContexts
      BY <1>0, <1>14 DEF StartProgress, OrderInv, Initialising, Counted
    <3>2. CASE progress[1] = -1
      <4>1. FreeSlot \in 1..MaxContexts
        BY <3>1, <3>2 DEF FreeSlot
      <4> QED BY <1>14, <4>1 DEF StartProgress
    <3>3. CASE progress[1] # -1
      BY <1>14, <3>1, <3>3 DEF StartProgress
    <3> QED BY <3>2, <3>3
  <2> QED BY <1>14, <2>1 DEF StartProgress, OrderInv, Initialising, Counted
<1>15. ASSUME NEW t \in Threads, hvac_client_comm_register_rpc(t) PROVE  OrderInv'
  BY <1>15 DEF hvac_client_comm_register_rpc, OrderInv, Initialising, Counted
<1>16. ASSUME NEW t \in Threads, SetInit(t) PROVE  OrderInv'
  BY <1>16 DEF SetInit, OrderInv, Initialising, Counted
<1>17. ASSUME NEW t \in Threads, Lookup(t) PROVE  OrderInv'
  BY <1>17 DEF Lookup, OrderInv, Initialising, Counted
<1>18. ASSUME NEW t \in Threads, Forward(t) PROVE  OrderInv'
  BY <1>18 DEF Forward, OrderInv, Initialising, Counted
<1>19. ASSUME NEW i \in 1..MaxContexts, EnterProgress(i) PROVE  OrderInv'
  BY <1>19 DEF EnterProgress, OrderInv, Initialising, Counted
<1>20. ASSUME NEW i \in 1..MaxContexts, LeaveProgress(i) PROVE  OrderInv'
  <2>1. CASE progress[i] \in destroyed
    BY <1>20, <2>1 DEF LeaveProgress, OrderInv, Initialising, Counted
  <2>2. CASE progress[i] \notin destroyed
    <3>1. /\ progress'[i] # -1
          /\ UNCHANGED <<server_count, g_disable_redirect, g_hvac_server_count, g_mercury_init,
                         shutdown_flag, inherited, made, hg_context, registered, pc>>
      BY <1>20, <2>2 DEF LeaveProgress
    <3> HIDE DEF LifecycleInv, TypeOK
    <3> QED BY <3>1 DEF LifecycleInv, OrderInv, Initialising, Counted
  <2> QED BY <2>1, <2>2
<1>21. ASSUME NEW i \in 1..MaxContexts, ProgressEnds(i) PROVE  OrderInv'
  BY <1>21 DEF ProgressEnds, OrderInv, Initialising, Counted
<1>22. ASSUME NEW i \in 1..MaxContexts, NEW t \in Threads, Trigger(i, t) PROVE  OrderInv'
  BY <1>22 DEF Trigger, OrderInv, Initialising, Counted
<1>25. ASSUME NEW t \in Threads, ForwardClose(t) PROVE  OrderInv'
  BY <1>25 DEF ForwardClose, OrderInv, Initialising, Counted
<1>26. ASSUME NEW i \in 1..MaxContexts, TriggerUnwaited(i) PROVE  OrderInv'
  BY <1>26 DEF TriggerUnwaited, OrderInv, Initialising, Counted
<1>27. CASE PostPorts
  BY <1>27 DEF PostPorts, OrderInv, Initialising, Counted
<1> QED BY <1>1, <1>2, <1>3, <1>4, <1>5, <1>6, <1>7, <1>8, <1>9, <1>10, <1>11,
           <1>12, <1>13, <1>14, <1>15, <1>16, <1>17, <1>18, <1>19, <1>20, <1>21, <1>22,
           <1>23, <1>24, <1>25, <1>26, <1>27, Next
        DEF Next, CallStep, ProgressThread, Destructor

-----------------------------------------------------------------------------
\* Every step keeps: nothing is destroyed before the shutdown flag is up.
LEMMA ExitStep ==
  ASSUME LifecycleInv, Next
  PROVE  ExitInv'
<1> USE LifecycleAssumption DEF LifecycleInv, TypeOK, Handles, At, Alive, Goto, Crash,
           Running, InDestructor, ExiterIdle, outside, flagVars, mercuryVars, threadVars
<1>1. CASE hvac_client_init
  BY <1>1 DEF hvac_client_init, ExitInv
<1>2. CASE Fork
  BY <1>2 DEF Fork, ExitInv
<1>3. CASE Exit
  BY <1>3 DEF Exit, ExitInv
<1>4. CASE RaiseFlag
  BY <1>4 DEF RaiseFlag, ExitInv
<1>5. CASE DestroyContext
  BY <1>5 DEF DestroyContext, ExitInv
<1>6. CASE ExitDone
  BY <1>6 DEF ExitDone, ExitInv
<1>7. ASSUME NEW t \in Threads, NewThread(t) PROVE  ExitInv'
  BY <1>7 DEF NewThread, ExitInv
<1>8. ASSUME NEW t \in Threads, Open(t) PROVE  ExitInv'
  BY <1>8 DEF Open, ExitInv
<1>9. ASSUME NEW t \in Threads, Read(t) PROVE  ExitInv'
  BY <1>9 DEF Read, ExitInv
<1>23. ASSUME NEW t \in Threads, Seek(t) PROVE  ExitInv'
  BY <1>23 DEF Seek, ExitInv
<1>24. ASSUME NEW t \in Threads, Close(t) PROVE  ExitInv'
  BY <1>24 DEF Close, ExitInv
<1>10. ASSUME NEW t \in Threads, TestInit(t) PROVE  ExitInv'
  BY <1>10 DEF TestInit, ExitInv
<1>11. ASSUME NEW t \in Threads, InitCommExits(t) PROVE  ExitInv'
  BY <1>11 DEF InitCommExits, ExitInv
<1>12. ASSUME NEW t \in Threads, InitClass(t) PROVE  ExitInv'
  BY <1>12 DEF InitClass, ExitInv
<1>13. ASSUME NEW t \in Threads, InitContext(t) PROVE  ExitInv'
  <2>1. hg_context' > 0
    BY <1>13 DEF InitContext, HandlesInv, OrderInv, Initialising
  <2> QED BY <1>13, <2>1 DEF InitContext, ExitInv
<1>14. ASSUME NEW t \in Threads, StartProgress(t) PROVE  ExitInv'
  BY <1>14 DEF StartProgress, ExitInv
<1>15. ASSUME NEW t \in Threads, hvac_client_comm_register_rpc(t) PROVE  ExitInv'
  BY <1>15 DEF hvac_client_comm_register_rpc, ExitInv
<1>16. ASSUME NEW t \in Threads, SetInit(t) PROVE  ExitInv'
  BY <1>16 DEF SetInit, ExitInv
<1>17. ASSUME NEW t \in Threads, Lookup(t) PROVE  ExitInv'
  BY <1>17 DEF Lookup, ExitInv
<1>18. ASSUME NEW t \in Threads, Forward(t) PROVE  ExitInv'
  BY <1>18 DEF Forward, ExitInv
<1>19. ASSUME NEW i \in 1..MaxContexts, EnterProgress(i) PROVE  ExitInv'
  BY <1>19 DEF EnterProgress, ExitInv
<1>20. ASSUME NEW i \in 1..MaxContexts, LeaveProgress(i) PROVE  ExitInv'
  BY <1>20 DEF LeaveProgress, ExitInv
<1>21. ASSUME NEW i \in 1..MaxContexts, ProgressEnds(i) PROVE  ExitInv'
  BY <1>21 DEF ProgressEnds, ExitInv
<1>22. ASSUME NEW i \in 1..MaxContexts, NEW t \in Threads, Trigger(i, t) PROVE  ExitInv'
  BY <1>22 DEF Trigger, ExitInv
<1>25. ASSUME NEW t \in Threads, ForwardClose(t) PROVE  ExitInv'
  BY <1>25 DEF ForwardClose, ExitInv
<1>26. ASSUME NEW i \in 1..MaxContexts, TriggerUnwaited(i) PROVE  ExitInv'
  BY <1>26 DEF TriggerUnwaited, ExitInv
<1>27. CASE PostPorts
  BY <1>27 DEF PostPorts, ExitInv
<1> QED BY <1>1, <1>2, <1>3, <1>4, <1>5, <1>6, <1>7, <1>8, <1>9, <1>10, <1>11,
           <1>12, <1>13, <1>14, <1>15, <1>16, <1>17, <1>18, <1>19, <1>20, <1>21, <1>22,
           <1>23, <1>24, <1>25, <1>26, <1>27, Next
        DEF Next, CallStep, ProgressThread, Destructor

-----------------------------------------------------------------------------
\* A step crashes a process with one context, a server count and a ports file
\* only once the shutdown flag is up: Lookup finds a live class, Forward and
\* ForwardClose their own class.
LEMMA CrashStep ==
  ASSUME LifecycleInv, Next
  PROVE  CrashCauses'
<1> USE LifecycleAssumption DEF LifecycleInv, TypeOK, Handles, At, Alive, Goto, Crash,
           Running, InDestructor, ExiterIdle, outside, flagVars, mercuryVars, threadVars
<1>0. /\ MaxContexts \in Nat
      /\ made \in 0..MaxContexts
      /\ hg_class \in 0..MaxContexts
      /\ hg_context \in 0..MaxContexts
  BY HandleTypes
<1>1. CASE hvac_client_init
  BY <1>1 DEF hvac_client_init, CrashCauses
<1>2. CASE Fork
  BY <1>2 DEF Fork, CrashCauses
<1>3. CASE Exit
  BY <1>3 DEF Exit, CrashCauses
<1>4. CASE RaiseFlag
  BY <1>4 DEF RaiseFlag, CrashCauses
<1>5. CASE DestroyContext
  BY <1>5 DEF DestroyContext, CrashCauses, ExitInv
<1>6. CASE ExitDone
  BY <1>6 DEF ExitDone, CrashCauses
<1>7. ASSUME NEW t \in Threads, NewThread(t) PROVE  CrashCauses'
  BY <1>7 DEF NewThread, CrashCauses
<1>8. ASSUME NEW t \in Threads, Open(t) PROVE  CrashCauses'
  BY <1>8 DEF Open, CrashCauses
<1>9. ASSUME NEW t \in Threads, Read(t) PROVE  CrashCauses'
  BY <1>9 DEF Read, CrashCauses
<1>23. ASSUME NEW t \in Threads, Seek(t) PROVE  CrashCauses'
  BY <1>23 DEF Seek, CrashCauses
<1>24. ASSUME NEW t \in Threads, Close(t) PROVE  CrashCauses'
  BY <1>24 DEF Close, CrashCauses
<1>10. ASSUME NEW t \in Threads, TestInit(t) PROVE  CrashCauses'
  BY <1>10 DEF TestInit, CrashCauses
<1>11. ASSUME NEW t \in Threads, InitCommExits(t) PROVE  CrashCauses'
  BY <1>11 DEF InitCommExits, CrashCauses
<1>12. ASSUME NEW t \in Threads, InitClass(t) PROVE  CrashCauses'
  BY <1>12 DEF InitClass, CrashCauses
<1>13. ASSUME NEW t \in Threads, InitContext(t) PROVE  CrashCauses'
  BY <1>13 DEF InitContext, CrashCauses
<1>14. ASSUME NEW t \in Threads, StartProgress(t) PROVE  CrashCauses'
  BY <1>14 DEF StartProgress, CrashCauses
<1>15. ASSUME NEW t \in Threads, hvac_client_comm_register_rpc(t) PROVE  CrashCauses'
  BY <1>15 DEF hvac_client_comm_register_rpc, CrashCauses
<1>16. ASSUME NEW t \in Threads, SetInit(t) PROVE  CrashCauses'
  BY <1>16 DEF SetInit, CrashCauses
<1>17. ASSUME NEW t \in Threads, Lookup(t) PROVE  CrashCauses'
  BY <1>0, <1>17 DEF Lookup, CrashCauses, HandlesInv, OrderInv, ExitInv, Counted
<1>18. ASSUME NEW t \in Threads, Forward(t) PROVE  CrashCauses'
  <2>1. SUFFICES ASSUME made <= 1, life' = "crashed", ~shutdown_flag PROVE FALSE
    BY <1>0, <1>18 DEF Forward, CrashCauses
  <2>2. addr_class[t] = 1 /\ hg_context = 1
    BY <1>0, <1>18, <2>1 DEF Forward, HandlesInv, OrderInv
  <2>3. 1 \in registered /\ destroyed = {}
    BY <1>0, <1>18, <2>1 DEF Forward, HandlesInv, OrderInv, ExitInv
  <2> QED BY <1>18, <2>1, <2>2, <2>3 DEF Forward, CanCreate
<1>19. ASSUME NEW i \in 1..MaxContexts, EnterProgress(i) PROVE  CrashCauses'
  BY <1>19 DEF EnterProgress, CrashCauses
<1>20. ASSUME NEW i \in 1..MaxContexts, LeaveProgress(i) PROVE  CrashCauses'
  BY <1>20 DEF LeaveProgress, CrashCauses, ExitInv
<1>21. ASSUME NEW i \in 1..MaxContexts, ProgressEnds(i) PROVE  CrashCauses'
  BY <1>21 DEF ProgressEnds, CrashCauses
<1>22. ASSUME NEW i \in 1..MaxContexts, NEW t \in Threads, Trigger(i, t) PROVE  CrashCauses'
  BY <1>22 DEF Trigger, CrashCauses
<1>25. ASSUME NEW t \in Threads, ForwardClose(t) PROVE  CrashCauses'
  <2>1. SUFFICES ASSUME made <= 1, life' = "crashed", ~shutdown_flag PROVE FALSE
    BY <1>0, <1>25 DEF ForwardClose, CrashCauses
  <2>2. addr_class[t] = 1 /\ hg_context = 1
    BY <1>0, <1>25, <2>1 DEF ForwardClose, HandlesInv, OrderInv
  <2>3. 1 \in registered /\ destroyed = {}
    BY <1>0, <1>25, <2>1 DEF ForwardClose, HandlesInv, OrderInv, ExitInv
  <2> QED BY <1>25, <2>1, <2>2, <2>3 DEF ForwardClose, CanCreate
<1>26. ASSUME NEW i \in 1..MaxContexts, TriggerUnwaited(i) PROVE  CrashCauses'
  BY <1>26 DEF TriggerUnwaited, CrashCauses
<1>27. CASE PostPorts
  BY <1>27 DEF PostPorts, CrashCauses
<1> QED BY <1>1, <1>2, <1>3, <1>4, <1>5, <1>6, <1>7, <1>8, <1>9, <1>10, <1>11,
           <1>12, <1>13, <1>14, <1>15, <1>16, <1>17, <1>18, <1>19, <1>20, <1>21, <1>22,
           <1>23, <1>24, <1>25, <1>26, <1>27, Next
        DEF Next, CallStep, ProgressThread, Destructor

-----------------------------------------------------------------------------
\* Every step keeps the account of contexts.  InitClass adds one context and
\* moves its thread into Initialising; SetInit changes sides.
LEMMA OnceStep ==
  ASSUME LifecycleInv, Next
  PROVE  OnceInv'
<1> USE DEF LifecycleInv, At, Alive, Goto, Crash,
           Running, InDestructor, ExiterIdle, outside, flagVars, mercuryVars, threadVars
<1>0. made \in Nat /\ pc \in [Threads -> PCs]
  BY LifecycleAssumption DEF TypeOK, Handles
<1>1. CASE hvac_client_init
  BY <1>0, <1>1, OnceKept DEF hvac_client_init
<1>2. CASE Fork
  <2>1. SUFFICES ASSUME ~inherited' PROVE  OnceInv'
    BY DEF OnceInv
  <2>2. made = 0
    BY <1>2, <2>1 DEF Fork, HandlesInv
  <2>3. ~g_mercury_init
    BY <2>2, LifecycleAssumption DEF OrderInv
  <2>4. made' = 0 /\ ~g_mercury_init'
    BY <1>2, <2>2, <2>3 DEF Fork
  <2>5. Count(Initialising)' \in Nat
    BY CountTypes
  <2> QED BY <2>4, <2>5 DEF OnceInv
<1>3. CASE Exit
  BY <1>0, <1>3, OnceKept DEF Exit
<1>4. CASE RaiseFlag
  BY <1>0, <1>4, OnceKept DEF RaiseFlag
<1>5. CASE DestroyContext
  BY <1>0, <1>5, OnceKept DEF DestroyContext
<1>6. CASE ExitDone
  BY <1>0, <1>6, OnceKept DEF ExitDone
<1>7. ASSUME NEW t \in Threads, NewThread(t) PROVE  OnceInv'
  BY <1>0, <1>7, OnceKept DEF NewThread, PCs, Initialising
<1>8. ASSUME NEW t \in Threads, Open(t) PROVE  OnceInv'
  BY <1>0, <1>8, OnceKept DEF Open, PCs, Initialising
<1>9. ASSUME NEW t \in Threads, Read(t) PROVE  OnceInv'
  BY <1>0, <1>9, OnceKept DEF Read, PCs, Initialising
<1>10. ASSUME NEW t \in Threads, TestInit(t) PROVE  OnceInv'
  BY <1>0, <1>10, OnceKept DEF TestInit, PCs, Initialising
<1>11. ASSUME NEW t \in Threads, InitCommExits(t) PROVE  OnceInv'
  BY <1>0, <1>11, OnceKept DEF InitCommExits, PCs, Initialising
<1>12. ASSUME NEW t \in Threads, InitClass(t) PROVE  OnceInv'
  <2>0. /\ pc[t] = "class" /\ pc' = [pc EXCEPT ![t] = "context"]
        /\ made' = made + 1 /\ UNCHANGED <<g_mercury_init, inherited>>
    BY <1>12 DEF InitClass
  <2>1. Count(Initialising)' = Count(Initialising) + 1
    BY <1>0, <2>0, CountEnters DEF Initialising
  <2>2. Count({"class"})' = Count({"class"}) - 1
    <3>1. pc[t] \in {"class"} /\ "context" \notin {"class"}
      BY <2>0
    <3> QED BY <1>0, <2>0, <3>1, CountLeaves
  <2>3. Count(PCs \ {"none"}) <= Count(PCs \ {"none"})'
    BY <1>0, <2>0, CountGrows DEF PCs
  <2> QED BY <1>0, <2>0, <2>1, <2>2, <2>3, CountTypes DEF OnceInv
<1>13. ASSUME NEW t \in Threads, InitContext(t) PROVE  OnceInv'
  BY <1>0, <1>13, OnceKept DEF InitContext, PCs, Initialising
<1>14. ASSUME NEW t \in Threads, StartProgress(t) PROVE  OnceInv'
  BY <1>0, <1>14, OnceKept DEF StartProgress, PCs, Initialising
<1>15. ASSUME NEW t \in Threads, hvac_client_comm_register_rpc(t) PROVE  OnceInv'
  BY <1>0, <1>15, OnceKept DEF hvac_client_comm_register_rpc, PCs, Initialising
<1>16. ASSUME NEW t \in Threads, SetInit(t) PROVE  OnceInv'
  <2>0. /\ pc[t] = "set" /\ pc' = [pc EXCEPT ![t] = "lookup"]
        /\ g_mercury_init' /\ UNCHANGED <<made, inherited>>
    BY <1>16 DEF SetInit
  <2>1. Count({"class"})' <= Count({"class"})
    BY <1>0, <2>0, CountShrinks
  <2>2. Count(PCs \ {"none"}) <= Count(PCs \ {"none"})'
    BY <1>0, <2>0, CountGrows DEF PCs
  <2> QED BY <1>0, <2>0, <2>1, <2>2, CountTypes, ClassAndInitialising DEF OnceInv
<1>17. ASSUME NEW t \in Threads, Lookup(t) PROVE  OnceInv'
  BY <1>0, <1>17, OnceKept DEF Lookup, PCs, Initialising
<1>18. ASSUME NEW t \in Threads, Forward(t) PROVE  OnceInv'
  BY <1>0, <1>18, OnceKept DEF Forward, PCs, Initialising
<1>19. ASSUME NEW i \in 1..MaxContexts, ProgressThread(i) PROVE  OnceInv'
  BY <1>0, <1>19, OnceKept DEF ProgressThread, EnterProgress, LeaveProgress, Trigger,
                              TriggerUnwaited, ProgressEnds, PCs, Initialising
<1>20. ASSUME NEW t \in Threads, Seek(t) PROVE  OnceInv'
  BY <1>0, <1>20, OnceKept DEF Seek, PCs, Initialising
<1>21. ASSUME NEW t \in Threads, Close(t) PROVE  OnceInv'
  BY <1>0, <1>21, OnceKept DEF Close, PCs, Initialising
<1>22. ASSUME NEW t \in Threads, ForwardClose(t) PROVE  OnceInv'
  BY <1>0, <1>22, OnceKept DEF ForwardClose, PCs, Initialising
<1>23. CASE PostPorts
  BY <1>0, <1>23, OnceKept DEF PostPorts
<1> QED BY <1>1, <1>2, <1>3, <1>4, <1>5, <1>6, <1>7, <1>8, <1>9, <1>10, <1>11, <1>12,
           <1>13, <1>14, <1>15, <1>16, <1>17, <1>18, <1>19, <1>20, <1>21, <1>22, <1>23, Next
        DEF Next, CallStep, Destructor

-----------------------------------------------------------------------------
\* LifecycleInv is an invariant: the first state, and one lemma per conjunct.
LEMMA LifecycleInvariant == Spec => []LifecycleInv
<1>1. LifecycleInv /\ [Next]_vars => LifecycleInv'
  <2> SUFFICES ASSUME LifecycleInv, [Next]_vars PROVE LifecycleInv'
    OBVIOUS
  <2>1. CASE Next
    BY <2>1, TypeOKStep, HandlesStep, OrderStep, ExitStep, CrashStep, OnceStep
    DEF LifecycleInv
  <2>2. CASE UNCHANGED vars
    <3> USE <2>2 DEF LifecycleInv, vars, outside, flagVars, mercuryVars, threadVars
    <3>1. TypeOK'
      BY DEF TypeOK
    <3>2. HandlesInv' /\ OrderInv' /\ ExitInv' /\ CrashCauses'
      BY DEF HandlesInv, OrderInv, ExitInv, CrashCauses, Counted
    <3>3. OnceInv'
      BY DEF OnceInv, Count
    <3> QED BY <3>1, <3>2, <3>3
  <2> QED BY <2>1, <2>2
<1> QED BY <1>1, LifecycleInit, PTL DEF Spec

\* The variables that the constructor, the wrappers, the progress threads and
\* the destructor share without a lock keep their types in every interleaving.
THEOREM TypeCorrect == Spec => []TypeOK
<1>1. LifecycleInv => TypeOK
  BY DEF LifecycleInv
<1> QED BY <1>1, LifecycleInvariant, PTL

(***************************************************************************)
(* "I think I only need to do this once" (hvac_client.cpp:123) holds for   *)
(* each thread: a process that was not forked after HG_Init has made at    *)
(* most as many contexts as it has threads, however they interleave        *)
(* between the test and the assignment of g_mercury_init.                  *)
(***************************************************************************)
THEOREM InitialisedAtMostOncePerThread == Spec => []OneInitPerThread
<1>1. LifecycleInv => OneInitPerThread
  <2> SUFFICES ASSUME LifecycleInv, ~inherited
               PROVE  made <= Cardinality({t \in Threads : pc[t] # "none"})
    BY DEF OneInitPerThread
  <2>1. {t \in Threads : pc[t] # "none"} = {t \in Threads : pc[t] \in PCs \ {"none"}}
    BY DEF LifecycleInv, TypeOK
  <2>2. Cardinality({t \in Threads : pc[t] # "none"}) = Count(PCs \ {"none"})
    BY <2>1 DEF Count
  <2>3. made \in Nat
    BY HandleTypes DEF LifecycleInv
  <2>4. /\ Count(PCs \ {"none"}) \in Nat
        /\ Count({"class"}) \in Nat
        /\ Count(Initialising) \in Nat
    BY CountTypes
  <2>5. made <= Count(PCs \ {"none"})
    BY <2>3, <2>4, ClassAndInitialising DEF LifecycleInv, OnceInv
  <2> QED BY <2>2, <2>5
<1> QED BY <1>1, LifecycleInvariant, PTL

(***************************************************************************)
(* A caller of a process with one context, not forked after HG_Init and    *)
(* not exiting, waits on the context that a progress thread works on, for  *)
(* any number of threads.                                                  *)
(***************************************************************************)
THEOREM WaitingCallersHaveAProgressThread == Spec => []RequestsAreServed
<1>1. LifecycleInv => RequestsAreServed
  <2> SUFFICES ASSUME LifecycleInv, made <= 1, ~inherited, ~shutdown_flag,
                      NEW t \in Threads, pc[t] = "wait"
               PROVE  /\ request[t] = hg_context
                      /\ \E i \in 1..MaxContexts : progress[i] # -1
    BY DEF RequestsAreServed
  <2>1. /\ made \in Nat
        /\ hg_context \in Nat
    BY HandleTypes DEF LifecycleInv
  <2>2. g_mercury_init
    BY DEF LifecycleInv, OrderInv
  <2>3. request[t] = 1 /\ hg_context = 1
    BY <2>1, <2>2 DEF LifecycleInv, HandlesInv, OrderInv
  <2>4. \E i \in 1..MaxContexts : progress[i] # -1
    BY <2>2 DEF LifecycleInv, OrderInv
  <2> QED BY <2>3, <2>4
<1> QED BY <1>1, LifecycleInvariant, PTL

\* A process crashes only for a server count of 0, for want of a ports file,
\* after a second initialisation of Mercury, or after the destructor has raised
\* the shutdown flag, whatever its threads do.
THEOREM CrashesHaveACause == Spec => []CrashCauses
<1>1. LifecycleInv => CrashCauses
  BY DEF LifecycleInv
<1> QED BY <1>1, LifecycleInvariant, PTL
=============================================================================
