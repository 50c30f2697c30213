----------------------------- MODULE Lifecycle -----------------------------
(***************************************************************************)
(* The life of server processes over one database directory               *)
(* (ilo/src/main.rs, ilo/src/server/router.rs), composed with the request  *)
(* handling of ServerLocks.                                                *)
(*                                                                         *)
(* Three things on disk tell the processes of each other: the flock on     *)
(* ilo.lock, ilo.pid, and the lock LadybugDB takes on an open database.    *)
(* main takes them in that order.  How it gives them back depends on the   *)
(* way it ends: after a signal run_server returns, and drops the store,    *)
(* before the PID file is removed; at the uptime limit select! drops       *)
(* run_server, but the connections it spawned keep the store until the     *)
(* runtime is dropped, after the flock.  exit(1) and a kill leave it to    *)
(* the kernel, which closes a dead process's files in no promised order.   *)
(*                                                                         *)
(* Whoever has the database is the one process with requests: serving,     *)
(* todo, held and queue are its request slots and locks.  A request runs   *)
(* from when it is read to when it is answered.  Before and after, a       *)
(* connection may be stalled by its client, who does not send the rest of  *)
(* the request, or does not read the answer; nothing limits the time.      *)
(***************************************************************************)
EXTENDS Naturals, Sequences

CONSTANTS
  Processes,    \* the server processes that are started, again and again
  NoProcess,    \* nobody
  MaxRetries,   \* how often a locked database is tried again (5)
  UptimeLimit,  \* whether ILO_MAX_UPTIME is set
  Requests, Endpoints, NoRequest

VARIABLES
  stage,        \* stage[p]: where process p is in main
  retries,      \* retries[p]: its `retries`, while opening
  flock,        \* the process that holds the flock on ilo.lock
  pidfile,      \* the process ilo.pid names
  dbLock,       \* the process that has the database open
  serving, todo, held, queue, \* of ServerLocks
  stalled       \* whether a client of that process stalls its connection

Server == INSTANCE ServerLocks

processVars == <<stage, retries, flock, pidfile, dbLock>>
requestVars == <<serving, todo, held, queue, stalled>>
vars == <<stage, retries, flock, pidfile, dbLock, serving, todo, held, queue, stalled>>

ASSUME ProcessAssumption ==
  NoProcess \notin Processes /\ MaxRetries \in Nat /\ UptimeLimit \in BOOLEAN

ASSUME RequestAssumption ==
  Endpoints \subseteq Server!AllEndpoints /\ NoRequest \notin Server!AllEndpoints

\* main up to the first request, the server, and the ways out.
Starting == {"locked", "opening", "last_try", "warming"}
Ending == {"giving_up", "cleanup", "leaving", "unwinding", "dying"}
Stages == {"down", "serving", "draining"} \cup Starting \cup Ending

Init ==
  /\ stage = [p \in Processes |-> "down"]
  /\ retries = [p \in Processes |-> 0]
  /\ flock = NoProcess /\ pidfile = NoProcess /\ dbLock = NoProcess
  /\ Server!Init /\ stalled = FALSE

GoTo(p, s) == stage' = [stage EXCEPT ![p] = s]
ReleaseBy(p, lock) == IF lock = p THEN NoProcess ELSE lock

-----------------------------------------------------------------------------
(* Starting *)

\* Mutant: the PID file written before try_lock.
StartNamed(p) ==
  /\ stage[p] = "down"
  /\ pidfile' = p
  /\ IF flock = NoProcess THEN GoTo(p, "locked") /\ flock' = p ELSE UNCHANGED <<stage, flock>>
  /\ UNCHANGED <<retries, dbLock, requestVars>>

\* try_lock.  A process that does not get the flock exits and leaves no trace.
Start(p) ==
  /\ stage[p] = "down" /\ flock = NoProcess
  /\ flock' = p
  /\ GoTo(p, "locked")
  /\ UNCHANGED <<retries, pidfile, dbLock, requestVars>>

\* write_pid_file.  A failure is logged and leaves the old file or an empty one.
WritePid(p) ==
  /\ stage[p] = "locked"
  /\ pidfile' \in {p, pidfile, NoProcess}
  /\ GoTo(p, "opening")
  /\ UNCHANGED <<retries, flock, dbLock, requestVars>>

OpenDatabase(p) ==
  /\ stage[p] \in {"opening", "last_try"} /\ dbLock = NoProcess
  /\ dbLock' = p
  /\ retries' = [retries EXCEPT ![p] = 0]
  /\ GoTo(p, "warming")
  /\ UNCHANGED <<flock, pidfile, requestVars>>

\* "Lock is held": once more after a second, up to MaxRetries times.
RetryOpen(p) ==
  /\ stage[p] = "opening" /\ dbLock # NoProcess
  /\ retries[p] < MaxRetries
  /\ retries' = [retries EXCEPT ![p] = @ + 1]
  /\ UNCHANGED <<stage, flock, pidfile, dbLock, requestVars>>

\* Still locked, or any other error: one last try, three seconds later.
GiveUpRetrying(p) ==
  /\ stage[p] = "opening"
  /\ dbLock # NoProcess => retries[p] = MaxRetries
  /\ retries' = [retries EXCEPT ![p] = 0]
  /\ GoTo(p, "last_try")
  /\ UNCHANGED <<flock, pidfile, dbLock, requestVars>>

\* Mutant: the loop is entered again after the last try.
LastTryAgain(p) ==
  /\ stage[p] = "last_try"
  /\ GoTo(p, "opening")
  /\ UNCHANGED <<retries, flock, pidfile, dbLock, requestVars>>

LastTryFails(p) ==
  /\ stage[p] = "last_try"
  /\ GoTo(p, "giving_up")
  /\ UNCHANGED <<retries, flock, pidfile, dbLock, requestVars>>

\* The embedding server's warm-up, warm_cache, the index, and the port.
BeginServing(p) ==
  /\ stage[p] = "warming"
  /\ GoTo(p, "serving")
  /\ UNCHANGED <<retries, flock, pidfile, dbLock, requestVars>>

\* The port is taken: exit(1) from inside run_server, past main's clean-up.
BindFails(p) ==
  /\ stage[p] = "warming"
  /\ GoTo(p, "dying")
  /\ UNCHANGED <<retries, flock, pidfile, dbLock, requestVars>>

-----------------------------------------------------------------------------
(* Serving and ending *)

Idle == \A r \in Requests : ~Server!Running(r)

\* Ctrl+C or SIGTERM: no new requests.
Signal(p) ==
  /\ stage[p] = "serving"
  /\ GoTo(p, "draining")
  /\ UNCHANGED <<retries, flock, pidfile, dbLock, requestVars>>

\* Mutant: run_server returns without waiting for the requests in flight.
DrainedAtOnce(p) ==
  /\ stage[p] = "draining"
  /\ dbLock' = NoProcess
  /\ GoTo(p, "cleanup")
  /\ UNCHANGED <<retries, flock, pidfile, requestVars>>

\* The requests in flight have ended and the last connection is closed: run_server
\* returns, and with it goes the store.
Drained(p) ==
  /\ stage[p] = "draining" /\ Idle /\ ~stalled
  /\ dbLock' = NoProcess
  /\ GoTo(p, "cleanup")
  /\ UNCHANGED <<retries, flock, pidfile, requestVars>>

\* Mutant: the lock file is dropped with run_server.
ReachLimitUnlocked(p) ==
  /\ UptimeLimit /\ stage[p] \in {"serving", "draining"}
  /\ flock' = NoProcess
  /\ GoTo(p, "cleanup")
  /\ UNCHANGED <<retries, pidfile, dbLock, requestVars>>

\* select! drops run_server.  Its connections live on, and idle ones may be among
\* them; the store is dropped now only if there are none.
ReachLimit(p) ==
  /\ UptimeLimit /\ stage[p] \in {"serving", "draining"}
  /\ \/ UNCHANGED dbLock
     \/ Idle /\ ~stalled /\ dbLock' = NoProcess
  /\ GoTo(p, "cleanup")
  /\ UNCHANGED <<retries, flock, pidfile, requestVars>>

\* remove_pid_file, whose failure is ignored; then the end of main, or exit(1).
RemovePid(p) ==
  /\ stage[p] \in {"cleanup", "giving_up"}
  /\ pidfile' \in {NoProcess, pidfile}
  /\ GoTo(p, IF stage[p] = "cleanup" THEN "leaving" ELSE "dying")
  /\ UNCHANGED <<retries, flock, dbLock, requestVars>>

\* main's future ends, and with it _lock_file.
DropLockFile(p) ==
  /\ stage[p] = "leaving"
  /\ flock' = NoProcess
  /\ GoTo(p, "unwinding")
  /\ UNCHANGED <<retries, pidfile, dbLock, requestVars>>

\* The requests of p are dropped where they are, if there are any, and its
\* connections with them.
DropRequests(p) ==
  \/ /\ dbLock = p
     /\ stalled' = FALSE
     /\ serving' = [r \in Requests |-> NoRequest]
     /\ todo' = [r \in Requests |-> << >>]
     /\ held' = [l \in Server!Locks |-> [r \in Requests |-> "none"]]
     /\ queue' = [l \in Server!Locks |-> << >>]
  \/ dbLock # p /\ UNCHANGED requestVars

\* The runtime drops the tasks that are left, the last of them the store.
DropRuntime(p) ==
  /\ stage[p] = "unwinding"
  /\ DropRequests(p)
  /\ dbLock' = ReleaseBy(p, dbLock)
  /\ GoTo(p, "down")
  /\ UNCHANGED <<retries, flock, pidfile>>

\* A crash, a kill, or a signal that no handler awaits yet.
Kill(p) ==
  /\ stage[p] \notin {"down", "dying"}
  /\ DropRequests(p)
  /\ retries' = [retries EXCEPT ![p] = 0]
  /\ GoTo(p, "dying")
  /\ UNCHANGED <<flock, pidfile, dbLock>>

\* The kernel closes the files of a dead process, and its locks go with them.
CloseLockFile(p) ==
  /\ stage[p] = "dying" /\ flock = p
  /\ flock' = NoProcess
  /\ UNCHANGED <<stage, retries, pidfile, dbLock, requestVars>>

CloseDatabase(p) ==
  /\ stage[p] = "dying" /\ dbLock = p
  /\ dbLock' = NoProcess
  /\ UNCHANGED <<stage, retries, flock, pidfile, requestVars>>

Reap(p) ==
  /\ stage[p] = "dying" /\ flock # p /\ dbLock # p
  /\ GoTo(p, "down")
  /\ UNCHANGED <<retries, flock, pidfile, dbLock, requestVars>>

-----------------------------------------------------------------------------
(* Requests *)

\* Handlers run while their process lives and has the store.
HandlersLive ==
  dbLock # NoProcess
    /\ stage[dbLock] \in {"serving", "draining", "cleanup", "leaving", "unwinding"}

\* A draining server reads on only where a request had begun to come; one past its
\* limit still reads the requests of the connections it has.
Accept(r) ==
  /\ HandlersLive /\ (stage[dbLock] # "draining" \/ stalled)
  /\ Server!Arrive(r)
  /\ UNCHANGED <<processVars, stalled>>

Handle(r) == HandlersLive /\ Server!Step(r) /\ UNCHANGED <<processVars, stalled>>
GiveUp(r) == HandlersLive /\ Server!Disconnect(r) /\ UNCHANGED <<processVars, stalled>>
GrantLock(l) == HandlersLive /\ Server!Grant(l) /\ UNCHANGED <<processVars, stalled>>

\* A client stops halfway.  Connections that a draining server has left are those it
\* had, so that whoever stalls them may as well have done so before the signal.
Stall ==
  /\ HandlersLive /\ stage[dbLock] # "draining" /\ ~stalled
  /\ stalled' = TRUE
  /\ UNCHANGED <<processVars, serving, todo, held, queue>>

\* The last of them goes on, or away.
Unstall ==
  /\ stalled
  /\ stalled' = FALSE
  /\ UNCHANGED <<processVars, serving, todo, held, queue>>

-----------------------------------------------------------------------------
\* What a process does without being asked to.
Proceed(p) ==
  \/ WritePid(p)
  \/ OpenDatabase(p) \/ RetryOpen(p) \/ GiveUpRetrying(p) \/ LastTryFails(p)
  \/ BeginServing(p) \/ BindFails(p)
  \/ Drained(p) \/ RemovePid(p) \/ DropLockFile(p) \/ DropRuntime(p)
  \/ CloseLockFile(p) \/ CloseDatabase(p) \/ Reap(p)

Next ==
  \/ \E p \in Processes :
       Start(p) \/ Proceed(p) \/ Signal(p) \/ ReachLimit(p) \/ Kill(p)
  \/ \E r \in Requests : Accept(r) \/ Handle(r) \/ GiveUp(r)
  \/ \E l \in Server!Locks : GrantLock(l)
  \/ Stall \/ Unstall

\* main is sequential code with bounded sleeps, the kernel closes files, and the
\* runtime polls its tasks.  Nothing makes anybody start a process, send it a
\* signal or a request, or kill it, the limit need not be reached, and a client that
\* stalls need never go on.
Fairness ==
  /\ \A p \in Processes : WF_vars(Proceed(p))
  /\ \A r \in Requests : WF_vars(Handle(r))
  /\ \A l \in Server!Locks : WF_vars(GrantLock(l))

Spec == Init /\ [][Next]_vars /\ Fairness

-----------------------------------------------------------------------------
(* Properties *)

Alive(p) == stage[p] \notin {"down", "dying"}

\* The types; a process retries only while it opens the database.
ProcessesTypeOK ==
  /\ stage \in [Processes -> Stages]
  /\ retries \in [Processes -> 0..MaxRetries]
  /\ \A p \in Processes : retries[p] > 0 => stage[p] = "opening"
  /\ {flock, pidfile, dbLock} \subseteq Processes \cup {NoProcess}

TypeOK == ProcessesTypeOK /\ stalled \in BOOLEAN /\ Server!TypeOK

\* A process that serves has the flock and the database, and any other process is
\* stopped at try_lock, or about to be gone; requests and stalled connections are
\* only there, and after an uptime limit, never beyond the store they use.
ServesAlone ==
  /\ \A p \in Processes : stage[p] \in {"serving", "draining"} =>
       /\ flock = p /\ dbLock = p
       /\ \A q \in Processes \ {p} : stage[q] \in {"down", "unwinding", "dying"}
  /\ ~Idle \/ stalled => HandlersLive

\* main.rs says that with the flock in place the database should not be found
\* locked.  Whoever finds it locked meets a process that is past giving its flock
\* back: dead, or at its uptime limit with a connection left.
ContentionExplained ==
  \A p \in Processes :
    stage[p] \in {"opening", "last_try"} /\ dbLock # NoProcess
      => stage[dbLock] = "dying" \/ (UptimeLimit /\ stage[dbLock] = "unwinding")

\* While a process holds the flock and ilo.pid names it, nobody else touches the
\* file: no start of another process, failed or not, and no late ending of one
\* takes the name away.
OwnPidFile ==
  [][\A p \in Processes :
       flock = p /\ pidfile = p /\ pidfile' # p
         => stage[p] \in {"locked", "cleanup", "giving_up"} /\ stage'[p] # stage[p]]_vars

\* A process that starts gets to serve or ends, and one that is told to stop ends,
\* with two exceptions: its handlers have blocked one another in the way
\* RetrievalDeadlock says, or, while it drains, a client stalls for ever.
EveryProcessSettles ==
  \A p \in Processes :
    stage[p] \notin {"down", "serving"}
      ~> \/ stage[p] \in {"down", "serving"} \/ Server!RetrievalDeadlock
         \/ [](stage[p] = "draining" /\ stalled)

\* Every request that was read is answered, given up by its client or dropped with its
\* process, with the first of these exceptions.
EveryRequestEnds ==
  \A r \in Requests : Server!Running(r) ~> (~Server!Running(r) \/ Server!RetrievalDeadlock)
=============================================================================
