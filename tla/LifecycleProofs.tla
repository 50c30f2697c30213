-------------------------- MODULE LifecycleProofs --------------------------
(***************************************************************************)
(* Proofs about Lifecycle, for any processes, retries and requests.  The   *)
(* invariant says which stages go with the flock and which with the        *)
(* database: the overlap of the two is what keeps servers apart, and the   *)
(* stages in which a process may still have the database after giving its  *)
(* flock back are the ones a starting process can collide with.            *)
(***************************************************************************)
EXTENDS Lifecycle, TLAPS

\* The lemmas about the locks of the process that has the database.
LockProofs == INSTANCE ServerLocksProofs

\* From try_lock to the end of main.
FlockStages ==
  {"locked", "opening", "last_try", "warming", "serving", "draining",
   "giving_up", "cleanup", "leaving"}

\* From LadybugStore::new to the end of run_server.
StoreStages == {"warming", "serving", "draining"}

\* Where an uptime limit leaves a process that still has connections.
LimitStages == {"cleanup", "leaving", "unwinding"}

LocksMatchStages ==
  /\ \A p \in Processes : stage[p] \in FlockStages => flock = p
  /\ flock \in Processes => stage[flock] \in FlockStages \cup {"dying"}
  /\ \A p \in Processes : stage[p] \in StoreStages => dbLock = p
  /\ dbLock \in Processes =>
       \/ stage[dbLock] \in StoreStages \cup {"dying"}
       \/ UptimeLimit /\ stage[dbLock] \in LimitStages

RequestsAreLive == ~Idle \/ stalled => HandlersLive

IInv == ProcessesTypeOK /\ LocksMatchStages /\ RequestsAreLive /\ stalled \in BOOLEAN

LEMMA InitIInv == Init => IInv
<1> SUFFICES ASSUME Init PROVE IInv
  OBVIOUS
<1>1. ProcessesTypeOK /\ LocksMatchStages
  BY ProcessAssumption
     DEF Init, ProcessesTypeOK, LocksMatchStages, Stages, Starting, Ending, FlockStages,
         StoreStages
<1>2. Idle /\ stalled = FALSE
  BY DEF Init, Idle, Server!Init, Server!Running
<1> QED
  BY <1>1, <1>2 DEF IInv, RequestsAreLive

\* What a step of a process does to the types and to the locks' stages.
LEMMA ProcessesTypeStep == ProcessesTypeOK /\ [Next]_vars => ProcessesTypeOK'
<1> SUFFICES ASSUME ProcessesTypeOK, [Next]_vars PROVE ProcessesTypeOK'
  OBVIOUS
<1> USE ProcessAssumption DEF ProcessesTypeOK, GoTo, Stages, Starting, Ending, ReleaseBy
<1>1. ASSUME NEW p \in Processes, Start(p) PROVE ProcessesTypeOK'
  BY <1>1 DEF Start
<1>2. ASSUME NEW p \in Processes, WritePid(p) PROVE ProcessesTypeOK'
  BY <1>2 DEF WritePid
<1>3. ASSUME NEW p \in Processes, OpenDatabase(p) PROVE ProcessesTypeOK'
  BY <1>3 DEF OpenDatabase
<1>4. ASSUME NEW p \in Processes, RetryOpen(p) PROVE ProcessesTypeOK'
  BY <1>4 DEF RetryOpen
<1>5. ASSUME NEW p \in Processes, GiveUpRetrying(p) PROVE ProcessesTypeOK'
  BY <1>5 DEF GiveUpRetrying
<1>6. ASSUME NEW p \in Processes, LastTryFails(p) PROVE ProcessesTypeOK'
  BY <1>6 DEF LastTryFails
<1>7. ASSUME NEW p \in Processes, BeginServing(p) \/ BindFails(p) PROVE ProcessesTypeOK'
  BY <1>7 DEF BeginServing, BindFails
<1>8. ASSUME NEW p \in Processes, Signal(p) \/ ReachLimit(p) \/ Drained(p)
      PROVE ProcessesTypeOK'
  BY <1>8 DEF Signal, ReachLimit, Drained
<1>9. ASSUME NEW p \in Processes, RemovePid(p) PROVE ProcessesTypeOK'
  BY <1>9 DEF RemovePid
<1>10. ASSUME NEW p \in Processes, DropLockFile(p) \/ DropRuntime(p) PROVE ProcessesTypeOK'
  BY <1>10 DEF DropLockFile, DropRuntime
<1>11. ASSUME NEW p \in Processes, Kill(p) PROVE ProcessesTypeOK'
  BY <1>11 DEF Kill
<1>12. ASSUME NEW p \in Processes, CloseLockFile(p) \/ CloseDatabase(p) \/ Reap(p)
       PROVE ProcessesTypeOK'
  BY <1>12 DEF CloseLockFile, CloseDatabase, Reap
<1>13. ASSUME UNCHANGED processVars PROVE ProcessesTypeOK'
  BY <1>13 DEF processVars
<1>14. CASE UNCHANGED vars
  BY <1>14, <1>13 DEF vars, processVars
<1> QED
  BY <1>1, <1>2, <1>3, <1>4, <1>5, <1>6, <1>7, <1>8, <1>9, <1>10, <1>11, <1>12, <1>13, <1>14
     DEF Next, Proceed, Accept, Handle, GiveUp, GrantLock, Stall, Unstall

LEMMA LocksMatchStep ==
  ProcessesTypeOK /\ LocksMatchStages /\ [Next]_vars => LocksMatchStages'
<1> SUFFICES ASSUME ProcessesTypeOK, LocksMatchStages, [Next]_vars PROVE LocksMatchStages'
  OBVIOUS
<1> USE ProcessAssumption
    DEF ProcessesTypeOK, LocksMatchStages, FlockStages, StoreStages, LimitStages, GoTo,
        ReleaseBy
<1>1. ASSUME NEW p \in Processes, Start(p) PROVE LocksMatchStages'
  BY <1>1 DEF Start
<1>2. ASSUME NEW p \in Processes, WritePid(p) PROVE LocksMatchStages'
  BY <1>2 DEF WritePid
<1>3. ASSUME NEW p \in Processes, OpenDatabase(p) PROVE LocksMatchStages'
  BY <1>3 DEF OpenDatabase
<1>4. ASSUME NEW p \in Processes, RetryOpen(p) PROVE LocksMatchStages'
  BY <1>4 DEF RetryOpen
<1>5. ASSUME NEW p \in Processes, GiveUpRetrying(p) PROVE LocksMatchStages'
  BY <1>5 DEF GiveUpRetrying
<1>6. ASSUME NEW p \in Processes, LastTryFails(p) PROVE LocksMatchStages'
  BY <1>6 DEF LastTryFails
<1>7. ASSUME NEW p \in Processes, BeginServing(p) PROVE LocksMatchStages'
  BY <1>7 DEF BeginServing
<1>8. ASSUME NEW p \in Processes, BindFails(p) PROVE LocksMatchStages'
  BY <1>8 DEF BindFails
<1>9. ASSUME NEW p \in Processes, Signal(p) PROVE LocksMatchStages'
  BY <1>9 DEF Signal
<1>10. ASSUME NEW p \in Processes, ReachLimit(p) PROVE LocksMatchStages'
  BY <1>10 DEF ReachLimit
<1>11. ASSUME NEW p \in Processes, Drained(p) PROVE LocksMatchStages'
  BY <1>11 DEF Drained
<1>12. ASSUME NEW p \in Processes, RemovePid(p) PROVE LocksMatchStages'
  BY <1>12 DEF RemovePid
<1>13. ASSUME NEW p \in Processes, DropLockFile(p) PROVE LocksMatchStages'
  BY <1>13 DEF DropLockFile
<1>14. ASSUME NEW p \in Processes, DropRuntime(p) PROVE LocksMatchStages'
  BY <1>14 DEF DropRuntime
<1>15. ASSUME NEW p \in Processes, Kill(p) PROVE LocksMatchStages'
  BY <1>15 DEF Kill
<1>16. ASSUME NEW p \in Processes, CloseLockFile(p) \/ CloseDatabase(p) \/ Reap(p)
       PROVE LocksMatchStages'
  BY <1>16 DEF CloseLockFile, CloseDatabase, Reap
<1>17. ASSUME UNCHANGED processVars PROVE LocksMatchStages'
  BY <1>17 DEF processVars
<1>18. CASE UNCHANGED vars
  BY <1>18, <1>17 DEF vars, processVars
<1> QED
  BY <1>1, <1>2, <1>3, <1>4, <1>5, <1>6, <1>7, <1>8, <1>9, <1>10, <1>11, <1>12, <1>13,
     <1>14, <1>15, <1>16, <1>17, <1>18
     DEF Next, Proceed, Accept, Handle, GiveUp, GrantLock, Stall, Unstall

LEMMA RequestsAreLiveStep == IInv /\ [Next]_vars => RequestsAreLive'
<1> SUFFICES ASSUME IInv, [Next]_vars PROVE RequestsAreLive'
  OBVIOUS
<1> USE ProcessAssumption
    DEF IInv, ProcessesTypeOK, LocksMatchStages, RequestsAreLive, FlockStages, StoreStages,
        LimitStages, HandlersLive, GoTo, ReleaseBy
<1>0. UNCHANGED requestVars => Idle' = Idle /\ stalled' = stalled
  BY DEF requestVars, Idle, Server!Running
<1>1. ASSUME NEW p \in Processes, DropRequests(p), dbLock = p
      PROVE  Idle' /\ ~stalled'
  BY <1>1 DEF DropRequests, Idle, Server!Running
<1>2. ASSUME NEW p \in Processes, Start(p) \/ WritePid(p) \/ RetryOpen(p)
      PROVE RequestsAreLive'
  BY <1>0, <1>2 DEF Start, WritePid, RetryOpen
<1>3. ASSUME NEW p \in Processes, OpenDatabase(p) \/ GiveUpRetrying(p) \/ LastTryFails(p)
      PROVE RequestsAreLive'
  BY <1>0, <1>3 DEF OpenDatabase, GiveUpRetrying, LastTryFails
<1>4. ASSUME NEW p \in Processes, BeginServing(p) \/ BindFails(p) PROVE RequestsAreLive'
  BY <1>0, <1>4 DEF BeginServing, BindFails
<1>5. ASSUME NEW p \in Processes, Signal(p) PROVE RequestsAreLive'
  BY <1>0, <1>5 DEF Signal
<1>6. ASSUME NEW p \in Processes, ReachLimit(p) \/ Drained(p) PROVE RequestsAreLive'
  BY <1>0, <1>6 DEF ReachLimit, Drained
<1>7. ASSUME NEW p \in Processes, RemovePid(p) \/ DropLockFile(p) PROVE RequestsAreLive'
  BY <1>0, <1>7 DEF RemovePid, DropLockFile
<1>8. ASSUME NEW p \in Processes, DropRuntime(p) PROVE RequestsAreLive'
  <2>1. CASE dbLock = p
    BY <1>1, <1>8, <2>1 DEF DropRuntime
  <2>2. CASE dbLock # p
    BY <1>0, <1>8, <2>2 DEF DropRuntime, DropRequests
  <2> QED
    BY <2>1, <2>2
<1>9. ASSUME NEW p \in Processes, Kill(p) PROVE RequestsAreLive'
  <2>1. CASE dbLock = p
    BY <1>1, <1>9, <2>1 DEF Kill
  <2>2. CASE dbLock # p
    BY <1>0, <1>9, <2>2 DEF Kill, DropRequests
  <2> QED
    BY <2>1, <2>2
<1>10. ASSUME NEW p \in Processes, CloseLockFile(p) \/ CloseDatabase(p) \/ Reap(p)
       PROVE RequestsAreLive'
  BY <1>0, <1>10 DEF CloseLockFile, CloseDatabase, Reap
<1>11. ASSUME HandlersLive, UNCHANGED processVars PROVE RequestsAreLive'
  BY <1>11 DEF processVars
<1>13. CASE Stall
  BY <1>11, <1>13 DEF Stall
<1>14. CASE Unstall
  BY <1>14 DEF Unstall, processVars, Idle, Server!Running
<1>12. CASE UNCHANGED vars
  BY <1>0, <1>12 DEF vars, requestVars
<1> QED
  BY <1>2, <1>3, <1>4, <1>5, <1>6, <1>7, <1>8, <1>9, <1>10, <1>11, <1>12, <1>13, <1>14
     DEF Next, Proceed, Accept, Handle, GiveUp, GrantLock

\* A client stalls or does not.
LEMMA StalledStep == stalled \in BOOLEAN /\ [Next]_vars => (stalled \in BOOLEAN)'
<1> SUFFICES ASSUME stalled \in BOOLEAN, [Next]_vars PROVE stalled' \in BOOLEAN
  OBVIOUS
<1>1. ASSUME NEW p \in Processes, DropRequests(p) PROVE stalled' \in BOOLEAN
  BY <1>1 DEF DropRequests, requestVars
<1>2. ASSUME NEW p \in Processes, DropRuntime(p) \/ Kill(p) PROVE stalled' \in BOOLEAN
  BY <1>1, <1>2 DEF DropRuntime, Kill
<1>3. CASE Stall \/ Unstall \/ UNCHANGED vars
  BY <1>3 DEF Stall, Unstall, vars
<1>4. ASSUME NEW p \in Processes,
             \/ Start(p) \/ WritePid(p) \/ OpenDatabase(p) \/ RetryOpen(p)
             \/ GiveUpRetrying(p) \/ LastTryFails(p) \/ BeginServing(p) \/ BindFails(p)
             \/ Signal(p) \/ Drained(p) \/ ReachLimit(p) \/ RemovePid(p) \/ DropLockFile(p)
             \/ CloseLockFile(p) \/ CloseDatabase(p) \/ Reap(p)
      PROVE stalled' = stalled
  BY <1>4 DEF Start, WritePid, OpenDatabase, RetryOpen, GiveUpRetrying, LastTryFails,
     BeginServing, BindFails, Signal, Drained, ReachLimit, RemovePid, DropLockFile,
     CloseLockFile, CloseDatabase, Reap, requestVars
<1> QED
  BY <1>2, <1>3, <1>4 DEF Next, Proceed, Accept, Handle, GiveUp, GrantLock

\* The types of the processes, the stages that go with each lock and the place of
\* the requests, in every reachable state.
THEOREM LifecycleInvariant == Spec => []IInv
<1>1. IInv /\ [Next]_vars => IInv'
  BY ProcessesTypeStep, LocksMatchStep, RequestsAreLiveStep, StalledStep DEF IInv
<1> QED
  BY InitIInv, <1>1, PTL DEF Spec

\* A serving process is alone with the flock and the database, and requests run
\* nowhere else, however processes start, end and die (main.rs, run_server).
THEOREM ServesAloneAlways == Spec => []ServesAlone
<1>1. IInv => ServesAlone
  BY ProcessAssumption
     DEF IInv, ProcessesTypeOK, LocksMatchStages, RequestsAreLive, ServesAlone, FlockStages,
         StoreStages, Stages, Starting, Ending
<1> QED
  BY LifecycleInvariant, <1>1, PTL

\* Only a dead process, or one past its uptime limit, can keep the database from a
\* process that has the flock (the retry loop of main).
THEOREM ContentionAlwaysExplained == Spec => []ContentionExplained
<1>1. IInv => ContentionExplained
  BY ProcessAssumption
     DEF IInv, ProcessesTypeOK, LocksMatchStages, ContentionExplained, FlockStages,
         StoreStages, LimitStages
<1> QED
  BY LifecycleInvariant, <1>1, PTL

\* Nobody touches the PID file of a process that holds the flock (write_pid_file,
\* remove_pid_file).
THEOREM PidFileIsOwn == Spec => OwnPidFile
<1>1. ASSUME IInv, [Next]_vars, NEW p \in Processes, flock = p, pidfile = p, pidfile' # p
      PROVE stage[p] \in {"locked", "cleanup", "giving_up"} /\ stage'[p] # stage[p]
  <2> USE <1>1 DEF IInv, ProcessesTypeOK, LocksMatchStages, FlockStages, GoTo
  <2>1. \E q \in Processes : WritePid(q) \/ RemovePid(q)
    BY DEF Next, vars, Proceed, Start, OpenDatabase, RetryOpen, GiveUpRetrying, LastTryFails,
       BeginServing, BindFails, Signal, ReachLimit, Drained, DropLockFile, DropRuntime, Kill,
       CloseLockFile, CloseDatabase, Reap, Accept, Handle, GiveUp, GrantLock, Stall, Unstall,
       processVars
  <2>2. PICK q \in Processes : WritePid(q) \/ RemovePid(q)
    BY <2>1
  <2>3. q = p
    BY <2>2 DEF WritePid, RemovePid
  <2> QED
    BY <2>2, <2>3 DEF WritePid, RemovePid
<1>2. IInv /\ [Next]_vars =>
        [\A p \in Processes :
           flock = p /\ pidfile = p /\ pidfile' # p
             => stage[p] \in {"locked", "cleanup", "giving_up"} /\ stage'[p] # stage[p]]_vars
  BY <1>1
<1> QED
  BY LifecycleInvariant, <1>2, PTL DEF Spec, OwnPidFile
-----------------------------------------------------------------------------
(* The requests' types *)

\* The steps of requests are steps of ServerLocks, a process that ends leaves its
\* slots as they were at first, and nothing else touches them: what ServerLocksProofs
\* shows of one process is true of all that follow one another.

LEMMA SameLocks ==
  /\ Server!TypeOK <=> LockProofs!TypeOK
  /\ Server!Init <=> LockProofs!Init
  /\ \A r \in Requests :
       /\ Server!Step(r) => LockProofs!Step(r)
       /\ Server!Disconnect(r) => LockProofs!Disconnect(r)
  /\ \A l \in Server!Locks : l \in LockProofs!Locks /\ (Server!Grant(l) => LockProofs!Grant(l))
<1>1. Server!TypeOK <=> LockProofs!TypeOK
  BY Zenon DEF Server!TypeOK, Server!Locks, Server!Operations, Server!Running, Server!At,
     LockProofs!TypeOK, LockProofs!Locks, LockProofs!Operations, LockProofs!Running,
     LockProofs!At
<1>2. Server!Init <=> LockProofs!Init
  BY Zenon DEF Server!Init, Server!Locks, LockProofs!Init, LockProofs!Locks
<1>3. ASSUME NEW r \in Requests
      PROVE  /\ Server!Step(r) => LockProofs!Step(r)
             /\ Server!Disconnect(r) => LockProofs!Disconnect(r)
  BY Zenon DEF Server!Step, Server!Ask, Server!Release, Server!Respond, Server!Disconnect,
     Server!Without, Server!Running, Server!At, Server!Queued, Server!Locks,
     LockProofs!Step, LockProofs!Ask, LockProofs!Release, LockProofs!Respond,
     LockProofs!Disconnect, LockProofs!Without, LockProofs!Running, LockProofs!At,
     LockProofs!Queued, LockProofs!Locks
<1>4. ASSUME NEW l \in Server!Locks
      PROVE  l \in LockProofs!Locks /\ (Server!Grant(l) => LockProofs!Grant(l))
  BY Zenon DEF Server!Grant, Server!Compatible, Server!Locks, LockProofs!Grant,
     LockProofs!Compatible, LockProofs!Locks
<1> QED
  BY <1>1, <1>2, <1>3, <1>4

LEMMA SameArrival ==
  \A r \in Requests : Server!Arrive(r) => LockProofs!Arrive(r)
<1>1. \A ps, qs : Server!Then(ps, qs) = LockProofs!Then(ps, qs)
  BY SMT DEF Server!Then, LockProofs!Then
<1>2. \A ps : Server!Maybe(ps) = LockProofs!Maybe(ps)
  BY DEF Server!Maybe, LockProofs!Maybe
<1>3. /\ Server!StoreRead = LockProofs!StoreRead
      /\ Server!StoreWrite = LockProofs!StoreWrite
      /\ Server!MergeIndex = LockProofs!MergeIndex
      /\ Server!RecallPaths = LockProofs!RecallPaths
      /\ Server!SearchPaths = LockProofs!SearchPaths
  BY <1>2, Zenon
     DEF Server!StoreRead, Server!StoreWrite, Server!MergeIndex, Server!RecallPaths,
         Server!SearchPaths, Server!Brief, Server!Read, Server!Write, Server!Drop,
         LockProofs!StoreRead, LockProofs!StoreWrite, LockProofs!MergeIndex,
         LockProofs!RecallPaths, LockProofs!SearchPaths, LockProofs!Brief, LockProofs!Read,
         LockProofs!Write, LockProofs!Drop
<1>4. \A e : Server!Paths(e) = LockProofs!Paths(e)
  BY <1>1, <1>2, <1>3, Zenon
     DEF Server!Paths, Server!RememberPaths, Server!IngestPaths, Server!ConnectPaths,
         Server!ResolveWritePaths, Server!WritePaths, Server!LookupPaths,
         Server!CreateEntitiesPaths, Server!BatchPaths, Server!LearnPaths,
         LockProofs!Paths, LockProofs!RememberPaths, LockProofs!IngestPaths,
         LockProofs!ConnectPaths, LockProofs!ResolveWritePaths, LockProofs!WritePaths,
         LockProofs!LookupPaths, LockProofs!CreateEntitiesPaths, LockProofs!BatchPaths,
         LockProofs!LearnPaths
<1> QED
  BY <1>4, Zenon DEF Server!Arrive, Server!Running, LockProofs!Arrive, LockProofs!Running

LEMMA AssumedOfServers == LockProofs!EndpointsAssumption
BY RequestAssumption, Zenon
   DEF LockProofs!EndpointsAssumption, Server!AllEndpoints, LockProofs!AllEndpoints

LEMMA EmptySlots == LockProofs!Init' => LockProofs!IInv'
<1>1. LockProofs!Init => LockProofs!IInv
  BY AssumedOfServers, LockProofs!InitIInv
<1> QED
  BY <1>1, PTL

LEMMA RequestTypesStep == LockProofs!IInv /\ [Next]_vars => LockProofs!IInv'
<1> SUFFICES ASSUME LockProofs!IInv, [Next]_vars PROVE LockProofs!IInv'
  OBVIOUS
<1>1. ASSUME UNCHANGED requestVars PROVE LockProofs!IInv'
  <2>1. LockProofs!vars' = LockProofs!vars
    BY <1>1 DEF requestVars, LockProofs!vars
  <2> QED
    BY <2>1, AssumedOfServers, LockProofs!NextIInv
<1>2. ASSUME NEW p \in Processes, DropRequests(p) PROVE LockProofs!IInv'
  <2>1. CASE dbLock = p
    <3>1. LockProofs!Init'
      BY <1>2, <2>1, Zenon
         DEF DropRequests, LockProofs!Init, Server!Locks, LockProofs!Locks
    <3> QED
      BY <3>1, EmptySlots
  <2>2. CASE dbLock # p
    BY <1>1, <1>2, <2>2 DEF DropRequests
  <2> QED
    BY <2>1, <2>2
<1>3. ASSUME NEW r \in Requests, Accept(r) PROVE LockProofs!IInv'
  BY <1>3, AssumedOfServers, SameArrival, LockProofs!ArriveIInv DEF Accept
<1>4. ASSUME NEW r \in Requests, Handle(r) PROVE LockProofs!IInv'
  <2>1. LockProofs!Next
    BY <1>4, SameLocks DEF Handle, LockProofs!Next
  <2> QED
    BY <2>1, AssumedOfServers, LockProofs!NextIInv
<1>5. ASSUME NEW r \in Requests, GiveUp(r) PROVE LockProofs!IInv'
  BY <1>5, AssumedOfServers, SameLocks, LockProofs!DisconnectIInv DEF GiveUp
<1>6. ASSUME NEW l \in Server!Locks, GrantLock(l) PROVE LockProofs!IInv'
  BY <1>6, AssumedOfServers, SameLocks, LockProofs!GrantIInv DEF GrantLock
<1>7. ASSUME NEW p \in Processes, DropRuntime(p) \/ Kill(p) PROVE LockProofs!IInv'
  BY <1>2, <1>7 DEF DropRuntime, Kill
<1>8. ASSUME NEW p \in Processes,
             \/ Start(p) \/ WritePid(p) \/ OpenDatabase(p) \/ RetryOpen(p)
             \/ GiveUpRetrying(p) \/ LastTryFails(p) \/ BeginServing(p) \/ BindFails(p)
             \/ Signal(p) \/ Drained(p) \/ ReachLimit(p) \/ RemovePid(p) \/ DropLockFile(p)
             \/ CloseLockFile(p) \/ CloseDatabase(p) \/ Reap(p)
      PROVE UNCHANGED requestVars
  BY <1>8 DEF Start, WritePid, OpenDatabase, RetryOpen, GiveUpRetrying, LastTryFails,
     BeginServing, BindFails, Signal, Drained, ReachLimit, RemovePid, DropLockFile,
     CloseLockFile, CloseDatabase, Reap
<1>9. CASE UNCHANGED <<serving, todo, held, queue>>
  <2>1. LockProofs!vars' = LockProofs!vars
    BY <1>9 DEF LockProofs!vars
  <2> QED
    BY <2>1, AssumedOfServers, LockProofs!NextIInv
<1> QED
  BY <1>3, <1>4, <1>5, <1>6, <1>7, <1>8, <1>9
     DEF Next, Proceed, Stall, Unstall, vars, requestVars

\* The types of the processes and of the requests of whichever process has the
\* database, however often it changes hands.
THEOREM LifecycleTypes == Spec => []TypeOK
<1>1. Init => LockProofs!IInv
  BY SameLocks, AssumedOfServers, LockProofs!InitIInv DEF Init
<1>2. IInv /\ LockProofs!IInv => TypeOK
  BY SameLocks DEF IInv, TypeOK, LockProofs!IInv
<1> QED
  BY <1>1, <1>2, RequestTypesStep, LifecycleInvariant, PTL DEF Spec
=============================================================================
