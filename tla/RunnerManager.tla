--------------------------- MODULE RunnerManager ---------------------------
(***************************************************************************)
(* RunnerManager (src/src/core/runner_mgr.cpp) with the child processes it *)
(* spawns through the platform layer.                                      *)
(*                                                                         *)
(* Request threads of the server call start, start_runner, stop, stop_all, *)
(* health and the inference calls.  Each call holds the mutex mtx_ from    *)
(* its first to its last step, but its steps interleave with those of the  *)
(* children, which load a model, listen, crash and exit on their own, and  *)
(* with those of unrelated processes, which take ports and recycle pids.   *)
(***************************************************************************)
EXTENDS Naturals

CONSTANTS
    Threads,       \* request threads of the server
    Names,         \* runner names; the same names denote model files
    OnDisk,        \* the names whose resolved .gguf path exists
    Pids,          \* process ids
    Ports,         \* loopback ports
    ForeignPorts,  \* ports that unrelated processes may listen on
    HealthTries,   \* polls of /health before giving up (100 in the code)
    TermTries,     \* liveness polls between SIGTERM and SIGKILL (50)
    Posix,         \* TRUE: linux.cpp and macos.cpp; FALSE: windows.cpp
    Crashes,       \* may a runner that serves die by itself?
    None           \* no thread, no runner, no operation, no process, no port

VARIABLES
    lock,      \* holder of mtx_, or None
    pc,        \* pc[t]: where thread t is
    op,        \* op[t]: the call thread t is executing, or None
    frame,     \* frame[t]: the local variables of that call
    runners,   \* runners_: the entry registered under each name, or None
    pstate,    \* pstate[c]: state of the process with id c
    pport,     \* pport[c]: port the child c was told to listen on
    foreignOn  \* ports on which an unrelated process is listening

procVars == <<pstate, pport, foreignOn>>
vars == <<lock, pc, op, frame, runners, procVars>>

-----------------------------------------------------------------------------

Kinds == {"start", "start_runner", "infer", "health", "stop", "stop_all"}

\* Only start_runner names the model file independently of the runner.
Ops == {o \in [kind : Kinds, name : Names, file : Names] :
            o.kind = "start_runner" \/ o.file = o.name}

Runner == [pid : Pids, port : Ports]

MaxTries == IF HealthTries >= TermTries THEN HealthTries ELSE TermTries

Results == {"none", "ok", "error", "already_exists", "not_found"}

Frame == [child  : Pids \cup {None},    \* the process being spawned
          port   : Ports \cup {None},   \* its port
          target : Names \cup {None},   \* the runner being stopped
          todo   : SUBSET Names,        \* runners whose child is not reaped yet
          tries  : 0 .. MaxTries,       \* iterations of the polling loop
          res    : Results,
          by     : Pids \cup {None}]    \* the child that gave the last answer

NoFrame == [child |-> None, port |-> None, target |-> None, todo |-> {},
            tries |-> 0, res |-> "none", by |-> None]

(***************************************************************************)
(* The states of a process id: "free" when no process has it; "loading"    *)
(* from fork to the installation of the signal handlers; "armed" from      *)
(* there until the HTTP server runs; "serving"; "draining" once the server *)
(* was told to stop; "zombie" when the child has exited and was not waited *)
(* for; "foreign" when the id belongs to an unrelated process, and "shot"  *)
(* when such a process received a signal from the manager.                 *)
(***************************************************************************)
LiveStates == {"loading", "armed", "serving", "draining"}
ChildStates == LiveStates \cup {"zombie"}
ProcStates == ChildStates \cup {"free", "foreign", "shot"}

ASSUME SetsAssumption ==
    /\ OnDisk \subseteq Names
    /\ ForeignPorts \subseteq Ports
    /\ HealthTries \in Nat
    /\ TermTries \in Nat
    /\ Posix \in BOOLEAN
    /\ Crashes \in BOOLEAN

ASSUME NoneAssumption ==
    None \notin Threads \cup Names \cup Pids \cup Ports \cup Ops \cup Runner

Critical == {"enter", "fork", "poll", "register", "unspawn", "post", "sweep",
             "grace", "reap", "return"}

TypeOK == /\ lock \in Threads \cup {None}
          /\ pc \in [Threads -> Critical \cup {"idle", "wait"}]
          /\ op \in [Threads -> Ops \cup {None}]
          /\ frame \in [Threads -> Frame]
          /\ runners \in [Names -> Runner \cup {None}]
          /\ pstate \in [Pids -> ProcStates]
          /\ pport \in [Pids -> Ports \cup {None}]
          /\ foreignOn \subseteq ForeignPorts

Init == /\ lock = None
        /\ pc = [t \in Threads |-> "idle"]
        /\ op = [t \in Threads |-> None]
        /\ frame = [t \in Threads |-> NoFrame]
        /\ runners = [n \in Names |-> None]
        /\ pstate = [c \in Pids |-> "free"]
        /\ pport = [c \in Pids |-> None]
        /\ foreignOn = {}

-----------------------------------------------------------------------------
(* The platform layer. *)

\* What kill(pid, SIGTERM) does to a process in state s.  The default action
\* kills a child without handlers; the handler of an armed child only clears
\* a flag that nothing reads, for no HTTP server runs yet.
PosixTerm(s) == IF s = "foreign" THEN "shot"
                ELSE IF s = "armed" THEN "armed"
                ELSE IF s \in {"serving", "draining"} THEN "draining"
                ELSE IF s \in LiveStates THEN "zombie"
                ELSE s

\* TerminateProcess, whatever the signal.
WindowsTerm(s) == IF s = "foreign" THEN "shot"
                  ELSE IF s \in LiveStates THEN "zombie"
                  ELSE s

\* Faulty variant: Windows, too, leaves the signal to a handler.
SigTermHandled(s) == PosixTerm(s)

SigTerm(s) == IF Posix THEN PosixTerm(s) ELSE WindowsTerm(s)

SigKill(s) == IF s = "foreign" THEN "shot"
              ELSE IF s \in LiveStates THEN "zombie"
              ELSE s

\* kill(pid, 0) succeeds for a zombie too, whereas GetExitCodeProcess tells a
\* process that has exited from one that runs.
PosixAlive(c) == pstate[c] # "free"
WindowsAlive(c) == pstate[c] \in LiveStates \cup {"foreign", "shot"}

IsAlive(c) == IF Posix THEN PosixAlive(c) ELSE WindowsAlive(c)

\* The children that accept connections on a port.
Listeners(p) == {c \in Pids : pstate[c] = "serving" /\ pport[c] = p}

\* Faulty variant: a port that only unrelated processes are known not to use.
FreeOfForeigners(p) == p \notin foreignOn

\* find_free_port binds to port 0 and closes the socket again.
IsFreePort(p) == Listeners(p) = {} /\ p \notin foreignOn

-----------------------------------------------------------------------------
(* Calls, the mutex, and how a call ends. *)

Registered(n) == runners[n] # None
Goto(t, l) == pc' = [pc EXCEPT ![t] = l]

\* Thread t leaves the critical section with result r.
Return(t, r) == /\ Goto(t, "return")
                /\ frame' = [frame EXCEPT ![t].res = r]

\* The process that a stop call waits for.
Victim(t) == runners[frame[t].target].pid

(***************************************************************************)
(* Faulty variants of the operations below: plausible bugs, none of them   *)
(* part of the specification, that show that the properties can fail.      *)
(***************************************************************************)

\* The call goes on without waiting for the mutex.
AcquireUnlocked(t) == /\ pc[t] = "wait"
                      /\ lock' = t
                      /\ Goto(t, "enter")
                      /\ UNCHANGED <<op, frame, runners, procVars>>

\* start_runner does not look the name up first.
PickPortAgain(t) ==
    /\ pc[t] = "enter"
    /\ op[t].kind \in {"start", "start_runner", "infer"}
    /\ op[t].file \in OnDisk
    /\ \E p \in Ports : frame' = [frame EXCEPT ![t].port = p]
    /\ Goto(t, "fork")
    /\ UNCHANGED <<lock, op, runners, procVars>>

\* The runner that failed its health check is signalled, not waited for.
GiveUpWithoutWait(t) ==
    /\ pc[t] = "poll"
    /\ frame[t].tries = HealthTries
    /\ pstate' = [pstate EXCEPT ![frame[t].child] = SigTerm(@)]
    /\ Return(t, "error")
    /\ UNCHANGED <<lock, op, runners, pport, foreignOn>>

\* The SIGKILL is missing ...
GraceOverNoKill(t) ==
    /\ pc[t] = "grace"
    /\ frame[t].tries = TermTries
    /\ Goto(t, "reap")
    /\ UNCHANGED <<lock, op, frame, runners, procVars>>

\* ... or the wait after it is.
GraceOverNoWait(t) ==
    /\ pc[t] = "grace"
    /\ frame[t].tries = TermTries
    /\ pstate' = [pstate EXCEPT ![Victim(t)] = SigKill(@)]
    /\ frame' = [frame EXCEPT ![t].todo = @ \ {frame[t].target}]
    /\ Goto(t, "sweep")
    /\ UNCHANGED <<lock, op, runners, pport, foreignOn>>

\* stop forgets to erase the entry of the runner it reaped.
EraseOnlyAll(t) ==
    /\ pc[t] = "sweep"
    /\ frame[t].todo = {}
    /\ runners' = [n \in Names |-> IF op[t].kind = "stop_all" THEN None
                                                           ELSE runners[n]]
    /\ Return(t, "ok")
    /\ UNCHANGED <<lock, op, procVars>>

Call(t) == /\ pc[t] = "idle"
           /\ \E o \in Ops : op' = [op EXCEPT ![t] = o]
           /\ Goto(t, "wait")
           /\ UNCHANGED <<lock, frame, runners, procVars>>

Acquire(t) == /\ pc[t] = "wait"
              /\ lock = None
              /\ lock' = t
              /\ Goto(t, "enter")
              /\ UNCHANGED <<op, frame, runners, procVars>>

Release(t) == /\ pc[t] = "return"
              /\ lock' = None
              /\ Goto(t, "idle")
              /\ op' = [op EXCEPT ![t] = None]
              /\ frame' = [frame EXCEPT ![t] = NoFrame]
              /\ UNCHANGED <<runners, procVars>>

-----------------------------------------------------------------------------
(* Lookup, and the start of a runner. *)

Starts(o) == o.kind \in {"start", "start_runner", "infer"}

\* get_or_start reuses an entry as it is; start_runner refuses the name.
LookupHit(t) ==
    /\ pc[t] = "enter"
    /\ Registered(op[t].name)
    /\ \/ op[t].kind = "start" /\ Return(t, "ok")
       \/ op[t].kind = "start_runner" /\ Return(t, "already_exists")
       \/ op[t].kind \in {"infer", "health"} /\ Goto(t, "post") /\ UNCHANGED frame
    /\ UNCHANGED <<lock, op, runners, procVars>>

\* The early returns: the model file is missing, or no port could be bound;
\* health and stop of a name that is not registered.
LookupFails(t) ==
    /\ pc[t] = "enter"
    /\ op[t].kind # "stop_all"
    /\ ~Registered(op[t].name)
    /\ Return(t, IF Starts(op[t]) THEN "error" ELSE "not_found")
    /\ UNCHANGED <<lock, op, runners, procVars>>

PickPort(t) ==
    /\ pc[t] = "enter"
    /\ Starts(op[t])
    /\ ~Registered(op[t].name)
    /\ op[t].file \in OnDisk
    /\ \E p \in Ports :
         /\ IsFreePort(p)
         /\ frame' = [frame EXCEPT ![t].port = p]
    /\ Goto(t, "fork")
    /\ UNCHANGED <<lock, op, runners, procVars>>

ForkFails(t) == /\ pc[t] = "fork"
                /\ Return(t, "error")
                /\ UNCHANGED <<lock, op, runners, procVars>>

\* spawn_process: the kernel hands out any id that no process has.
Fork(t) ==
    /\ pc[t] = "fork"
    /\ \E c \in Pids :
         /\ pstate[c] = "free"
         /\ pstate' = [pstate EXCEPT ![c] = "loading"]
         /\ pport' = [pport EXCEPT ![c] = frame[t].port]
         /\ frame' = [frame EXCEPT ![t].child = c, ![t].tries = 0]
    /\ Goto(t, "poll")
    /\ UNCHANGED <<lock, op, runners, foreignOn>>

\* Who may answer a request to port p; None is an unrelated process.
Answerers(p) == Listeners(p) \cup (IF p \in foreignOn THEN {None} ELSE {})

\* GET /health is answered 200 by whoever listens on the port.
PollHealthy(t) ==
    /\ pc[t] = "poll"
    /\ frame[t].tries < HealthTries
    /\ \E q \in Answerers(frame[t].port) : frame' = [frame EXCEPT ![t].by = q]
    /\ Goto(t, "register")
    /\ UNCHANGED <<lock, op, runners, procVars>>

\* The child is registered, whatever has become of it since that answer.
Register(t) ==
    /\ pc[t] = "register"
    /\ runners' = [runners EXCEPT ![op[t].name] =
                      [pid |-> frame[t].child, port |-> frame[t].port]]
    /\ IF op[t].kind = "infer" THEN Goto(t, "post") /\ UNCHANGED frame
                               ELSE Return(t, "ok")
    /\ UNCHANGED <<lock, op, procVars>>

\* No answer within the timeout of the poll, or not 200.
PollMiss(t) ==
    /\ pc[t] = "poll"
    /\ frame[t].tries < HealthTries
    /\ frame' = [frame EXCEPT ![t].tries = @ + 1]
    /\ UNCHANGED <<lock, pc, op, runners, procVars>>

\* The health check timed out: SIGTERM, without a SIGKILL to follow it ...
GiveUp(t) ==
    /\ pc[t] = "poll"
    /\ frame[t].tries = HealthTries
    /\ pstate' = [pstate EXCEPT ![frame[t].child] = SigTerm(@)]
    /\ Goto(t, "unspawn")
    /\ UNCHANGED <<lock, op, frame, runners, pport, foreignOn>>

\* ... and a wait without a timeout.
ReapFailed(t) ==
    /\ pc[t] = "unspawn"
    /\ pstate[frame[t].child] = "zombie"
    /\ pstate' = [pstate EXCEPT ![frame[t].child] = "free"]
    /\ pport' = [pport EXCEPT ![frame[t].child] = None]
    /\ Return(t, "error")
    /\ UNCHANGED <<lock, op, runners, foreignOn>>

-----------------------------------------------------------------------------
(* The HTTP request to the entry's port (inference and health). *)

PostAnswered(t) ==
    /\ pc[t] = "post"
    /\ \E q \in Answerers(runners[op[t].name].port) :
         frame' = [frame EXCEPT ![t].res = "ok", ![t].by = q]
    /\ Goto(t, "return")
    /\ UNCHANGED <<lock, op, runners, procVars>>

\* Refused, cut short, timed out, or not answered 200.
PostFails(t) == /\ pc[t] = "post"
                /\ Return(t, "error")
                /\ UNCHANGED <<lock, op, runners, procVars>>

-----------------------------------------------------------------------------
(* stop and stop_all. *)

StopOne(t) ==
    /\ pc[t] = "enter"
    /\ op[t].kind = "stop"
    /\ Registered(op[t].name)
    /\ frame' = [frame EXCEPT ![t].todo = {op[t].name}]
    /\ Goto(t, "sweep")
    /\ UNCHANGED <<lock, op, runners, procVars>>

\* The first pass of stop_all: SIGTERM to every runner.
TermAll(t) ==
    /\ pc[t] = "enter"
    /\ op[t].kind = "stop_all"
    /\ LET all == {n \in Names : Registered(n)}
           hit == {runners[n].pid : n \in all}
       IN  /\ pstate' = [c \in Pids |-> IF c \in hit THEN SigTerm(pstate[c])
                                                     ELSE pstate[c]]
           /\ frame' = [frame EXCEPT ![t].todo = all]
    /\ Goto(t, "sweep")
    /\ UNCHANGED <<lock, op, runners, pport, foreignOn>>

\* stop_with_timeout begins: SIGTERM.
StopBegin(t) ==
    /\ pc[t] = "sweep"
    /\ \E n \in frame[t].todo :
         /\ frame' = [frame EXCEPT ![t].target = n, ![t].tries = 0]
         /\ pstate' = [pstate EXCEPT ![runners[n].pid] = SigTerm(@)]
    /\ Goto(t, "grace")
    /\ UNCHANGED <<lock, op, runners, pport, foreignOn>>

GraceTick(t) ==
    /\ pc[t] = "grace"
    /\ frame[t].tries < TermTries
    /\ IsAlive(Victim(t))
    /\ frame' = [frame EXCEPT ![t].tries = @ + 1]
    /\ UNCHANGED <<lock, pc, op, runners, procVars>>

GraceDead(t) ==
    /\ pc[t] = "grace"
    /\ frame[t].tries < TermTries
    /\ ~IsAlive(Victim(t))
    /\ Goto(t, "reap")
    /\ UNCHANGED <<lock, op, frame, runners, procVars>>

GraceOver(t) ==
    /\ pc[t] = "grace"
    /\ frame[t].tries = TermTries
    /\ pstate' = [pstate EXCEPT ![Victim(t)] = SigKill(@)]
    /\ Goto(t, "reap")
    /\ UNCHANGED <<lock, op, frame, runners, pport, foreignOn>>

\* wait_process blocks until the child has exited.
Reap(t) ==
    /\ pc[t] = "reap"
    /\ pstate[Victim(t)] = "zombie"
    /\ pstate' = [pstate EXCEPT ![Victim(t)] = "free"]
    /\ pport' = [pport EXCEPT ![Victim(t)] = None]
    /\ frame' = [frame EXCEPT ![t].todo = @ \ {frame[t].target}]
    /\ Goto(t, "sweep")
    /\ UNCHANGED <<lock, op, runners, foreignOn>>

\* Everything was reaped: erase the entry, or clear the map.
Erase(t) ==
    /\ pc[t] = "sweep"
    /\ frame[t].todo = {}
    /\ runners' = [n \in Names |->
                     IF op[t].kind = "stop_all" \/ n = op[t].name THEN None
                     ELSE runners[n]]
    /\ Return(t, "ok")
    /\ UNCHANGED <<lock, op, procVars>>

-----------------------------------------------------------------------------
(* The children and the rest of the system. *)

managerVars == <<lock, pc, op, frame, runners>>
Becomes(c, s) == pstate' = [pstate EXCEPT ![c] = s]

\* The model is loaded and the signal handlers are installed.
Arm(c) == /\ pstate[c] = "loading"
          /\ Becomes(c, "armed")
          /\ UNCHANGED <<managerVars, pport, foreignOn>>

\* The HTTP server of the child binds the port and runs; cpp-httplib asks for
\* a port that can be shared (SO_REUSEPORT).
Listen(c) == /\ pstate[c] = "armed"
             /\ Becomes(c, "serving")
             /\ UNCHANGED <<managerVars, pport, foreignOn>>

\* execvp, the model or the bind fails.
ExitEarly(c) == /\ pstate[c] \in {"loading", "armed"}
                /\ Becomes(c, "zombie")
                /\ UNCHANGED <<managerVars, pport, foreignOn>>

\* A stopped HTTP server waits for its workers, then main returns.
Drained(c) == /\ pstate[c] = "draining"
              /\ Becomes(c, "zombie")
              /\ UNCHANGED <<managerVars, pport, foreignOn>>

Crash(c) == /\ Crashes
            /\ pstate[c] = "serving"
            /\ Becomes(c, "zombie")
            /\ UNCHANGED <<managerVars, pport, foreignOn>>

\* Unrelated processes come and go under ids that no child has ...
Recycle(c) == /\ \/ pstate[c] = "free" /\ Becomes(c, "foreign")
                 \/ pstate[c] = "foreign" /\ Becomes(c, "free")
              /\ UNCHANGED <<managerVars, pport, foreignOn>>

\* ... and take and leave ports that nobody listens on.
ForeignPort(p) == /\ \/ IsFreePort(p) /\ foreignOn' = foreignOn \cup {p}
                     \/ p \in foreignOn /\ foreignOn' = foreignOn \ {p}
                  /\ UNCHANGED <<managerVars, pstate, pport>>

-----------------------------------------------------------------------------

\* A step of a thread inside the critical section.
InCall(t) ==
    \/ LookupHit(t) \/ LookupFails(t)
    \/ PickPort(t) \/ ForkFails(t) \/ Fork(t)
    \/ PollHealthy(t) \/ Register(t)
    \/ PollMiss(t) \/ GiveUp(t) \/ ReapFailed(t)
    \/ PostAnswered(t) \/ PostFails(t)
    \/ StopOne(t) \/ TermAll(t) \/ StopBegin(t)
    \/ GraceTick(t) \/ GraceDead(t) \/ GraceOver(t) \/ Reap(t) \/ Erase(t)
    \/ Release(t)

ThreadStep(t) == Call(t) \/ Acquire(t) \/ InCall(t)

Startup(c) == Arm(c) \/ Listen(c) \/ ExitEarly(c)
ProcessStep(c) == Startup(c) \/ Drained(c) \/ Crash(c) \/ Recycle(c)

Next == \/ \E t \in Threads : ThreadStep(t)
        \/ \E c \in Pids : ProcessStep(c)
        \/ \E p \in ForeignPorts : ForeignPort(p)

Spec == Init /\ [][Next]_vars

(***************************************************************************)
(* The thread that holds the mutex is scheduled: no step of a call waits   *)
(* for ever except wait_process, because the HTTP client has timeouts.  A  *)
(* child that starts up goes on to listen or exits.  Nothing is assumed    *)
(* of the order in which the mutex is granted, nor of a draining child,    *)
(* whose workers may hang.                                                 *)
(***************************************************************************)
FairSpec == /\ Spec
            /\ \A t \in Threads : WF_vars(InCall(t))
            /\ \A c \in Pids : WF_vars(Startup(c))

\* The same with the assumption that a draining child does exit.
FairDrainSpec == FairSpec /\ \A c \in Pids : WF_vars(Drained(c))

-----------------------------------------------------------------------------
(* Properties. *)

Unreaped(c) == pstate[c] \in ChildStates
Children == {c \in Pids : Unreaped(c)}

\* No process that is not a child of the server is ever signalled, although
\* pids are recycled as soon as they are waited for (kill_process in
\* spawn_runner, stop_with_timeout and stop_all).
NoBystander == \A c \in Pids : pstate[c] # "shot"

\* Whenever no call is in progress, the children that were not waited for
\* are exactly the registered ones: no runner process and no zombie is
\* leaked, and no entry has lost its process.
NoLeak == lock = None =>
            Children = {runners[n].pid : n \in {m \in Names : Registered(m)}}

\* Two entries never denote the same process.
DistinctPids == \A m, n \in Names :
    Registered(m) /\ Registered(n) /\ m # n => runners[m].pid # runners[n].pid

\* An entry of runners_ is never overwritten, and it is erased only when its
\* child was waited for.
RegistryDiscipline ==
    [][\A n \in Names : Registered(n) =>
          \/ runners'[n] = runners[n]
          \/ runners'[n] = None /\ ~Unreaped(runners[n].pid)]_vars

\* The last answer to thread t, which registers name n, was that of the process
\* that it registers.
Vouched(t, n) == frame[t].by = runners'[n].pid

\* A runner is registered on the word of its own process, which served its port
\* when it was polled and at most has crashed since, unless unrelated processes
\* can take the port between find_free_port and the bind of the child.
RegisteredServing ==
    [][\A n \in Names : ~Registered(n) /\ Registered(n)' =>
          \/ runners'[n].port \in ForeignPorts
          \/ /\ \E t \in Threads : lock = t /\ Vouched(t, n)
             /\ pstate[runners'[n].pid] \in {"serving", "zombie"}]_vars

\* A request was answered.
Answered(t) == /\ pc[t] = "return"
               /\ op[t].kind \in {"infer", "health"}
               /\ frame[t].res = "ok"

\* A request for a runner is answered by that runner's own process.
AnsweredByOwnRunner == \A t \in Threads :
    Answered(t) => frame[t].by = runners[op[t].name].pid

\* Only a runner that does not listen any more, because it crashed, has its
\* requests answered by another process (the port recorded in the entry is
\* then free to be given away); a runner that serves never does, although
\* others start, crash and stop meanwhile, unless unrelated processes can take
\* its port.
ServingAnswersItself == \A t \in Threads : Answered(t) =>
    LET r == runners[op[t].name]
    IN  frame[t].by = r.pid \/ r.pid \notin Listeners(r.port) \/ r.port \in ForeignPorts

\* A call of stop or stop_all that has begun to stop runners returns, even
\* if a runner never reacts to SIGTERM.
StopCompletes == \A t \in Threads : pc[t] = "sweep" ~> pc[t] = "idle"

\* Every call that got the mutex gives it back.
LockReleased == \A t \in Threads : lock = t ~> lock # t

\* A runner that failed its health check is killed.
FailedSpawnKilled == \A t \in Threads :
    pc[t] = "unspawn" ~> pc[t] = "return"

\* The manager implements the pool of children.
PoolReg == [n \in Names |-> IF Registered(n) /\ Unreaped(runners[n].pid)
                            THEN runners[n].pid ELSE None]

Pool == INSTANCE RunnerPool WITH reg <- PoolReg, kids <- Children
ImplementsPool == Pool!Spec

-----------------------------------------------------------------------------
(***************************************************************************)
(* The inductive invariant.  NoLeak speaks of the states in which nobody   *)
(* holds the mutex; it holds there because, at any step of a call, every   *)
(* child that was not waited for is either registered or the one that the  *)
(* holder is spawning, and every entry but the ones the holder has reaped  *)
(* and not yet erased has such a child.                                    *)
(***************************************************************************)
Spawning(t) == pc[t] \in {"poll", "register", "unspawn"}
Stopping(t) == pc[t] \in {"sweep", "grace", "reap"}

\* The names that the stop call of thread t is about.
Scope(t) == IF op[t].kind = "stop_all" THEN Names ELSE {op[t].name}

\* The child of name n was waited for, and its entry will be erased.
Buried(n) == \E t \in Threads : Stopping(t) /\ n \in Scope(t) \ frame[t].todo

\* Exactly the holder of the mutex is in the critical section.
LockInv == \A t \in Threads : pc[t] \in Critical <=> lock = t

OpInv == \A t \in Threads : pc[t] # "idle" => op[t] \in Ops

\* The child being spawned is nobody else's and its name is not taken.
SpawnInv == \A t \in Threads :
    /\ pc[t] = "fork" \/ Spawning(t) =>
          ~Registered(op[t].name) /\ frame[t].port \in Ports
    /\ Spawning(t) => /\ frame[t].child \in Pids
                      /\ Unreaped(frame[t].child)
                      /\ \A n \in Names : Registered(n) =>
                            runners[n].pid # frame[t].child

\* What is still to be stopped is registered.
StopInv == \A t \in Threads :
    /\ Stopping(t) => \A n \in frame[t].todo : Registered(n) /\ n \in Scope(t)
    /\ pc[t] \in {"grace", "reap"} => frame[t].target \in frame[t].todo

EntryInv == \A n \in Names :
    Registered(n) => (Unreaped(runners[n].pid) <=> ~Buried(n))

OwnerInv == \A c \in Pids : Unreaped(c) =>
    \/ \E n \in Names : Registered(n) /\ runners[n].pid = c
    \/ \E t \in Threads : Spawning(t) /\ frame[t].child = c

\* TypeOK and what makes NoBystander, NoLeak, DistinctPids, RegistryDiscipline
\* and ImplementsPool inductive.
IInv == /\ TypeOK
        /\ LockInv
        /\ OpInv
        /\ SpawnInv
        /\ StopInv
        /\ EntryInv
        /\ OwnerInv
        /\ DistinctPids
        /\ NoBystander

=============================================================================
