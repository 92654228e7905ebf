------------------------ MODULE RunnerManagerProofs ------------------------
(***************************************************************************)
(* Proofs about RunnerManager, for every value of its constants.           *)
(*                                                                         *)
(* The invariant IInv says who owns each child at any step of a call.  One *)
(* lemma per action shows that it is inductive; the safety properties and  *)
(* the refinement of RunnerPool follow from it.  The invariant ServingInv, *)
(* which rests on it, says who serves each port: so requests are answered  *)
(* by the right runner.                                                    *)
(***************************************************************************)
EXTENDS RunnerManager, TLAPS

-----------------------------------------------------------------------------
(* Lemmas about the operators. *)

\* kill(pid, SIGTERM) neither makes a process a child of the server nor reaps one,
\* and only an unrelated process can be hit as a bystander.
LEMMA SigTermLemma ==
    ASSUME NEW s \in ProcStates
    PROVE  /\ SigTerm(s) \in ProcStates
           /\ SigTerm(s) \in ChildStates <=> s \in ChildStates
           /\ SigTerm(s) = "shot" => s \in {"foreign", "shot"}
  BY SMT, SetsAssumption DEF SigTerm, PosixTerm, WindowsTerm, ProcStates, ChildStates, LiveStates

\* The same of kill(pid, SIGKILL).
LEMMA SigKillLemma ==
    ASSUME NEW s \in ProcStates
    PROVE  /\ SigKill(s) \in ProcStates
           /\ SigKill(s) \in ChildStates <=> s \in ChildStates
           /\ SigKill(s) = "shot" => s \in {"foreign", "shot"}
  BY SMT DEF SigKill, ProcStates, ChildStates, LiveStates

\* The arguments of a call.
LEMMA OpsLemma ==
    ASSUME NEW o \in Ops
    PROVE  o.name \in Names /\ o.file \in Names /\ o.kind \in Kinds /\ o # None
  BY NoneAssumption DEF Ops

\* A registered entry (RunnerManager::Runner) has a pid and a port.
LEMMA RunnerLemma ==
    ASSUME NEW r \in Runner
    PROVE  r.pid \in Pids /\ r.port \in Ports /\ r # None
  BY NoneAssumption DEF Runner

\* The assignments that the calls make to their local variables keep the type of
\* the frames.
LEMMA FrameUpdate ==
    ASSUME NEW f \in [Threads -> Frame], NEW t \in Threads
    PROVE  /\ \A c \in Pids, k \in 0 .. MaxTries :
                [f EXCEPT ![t].child = c, ![t].tries = k] \in [Threads -> Frame]
           /\ \A p \in Ports : [f EXCEPT ![t].port = p] \in [Threads -> Frame]
           /\ \A n \in Names, k \in 0 .. MaxTries :
                [f EXCEPT ![t].target = n, ![t].tries = k] \in [Threads -> Frame]
           /\ \A s \in SUBSET Names : [f EXCEPT ![t].todo = s] \in [Threads -> Frame]
           /\ \A k \in 0 .. MaxTries : [f EXCEPT ![t].tries = k] \in [Threads -> Frame]
           /\ \A r \in Results : [f EXCEPT ![t].res = r] \in [Threads -> Frame]
           /\ \A r \in Results, c \in Pids \cup {None} :
                [f EXCEPT ![t].res = r, ![t].by = c] \in [Threads -> Frame]
           /\ \A c \in Pids \cup {None} : [f EXCEPT ![t].by = c] \in [Threads -> Frame]
<1>1. ASSUME NEW c \in Pids, NEW k \in 0 .. MaxTries
      PROVE  [f EXCEPT ![t].child = c, ![t].tries = k] \in [Threads -> Frame]
  BY DEF Frame
<1>2. ASSUME NEW p \in Ports
      PROVE  [f EXCEPT ![t].port = p] \in [Threads -> Frame]
  BY DEF Frame
<1>3. ASSUME NEW n \in Names, NEW k \in 0 .. MaxTries
      PROVE  [f EXCEPT ![t].target = n, ![t].tries = k] \in [Threads -> Frame]
  BY DEF Frame
<1>4. ASSUME NEW s \in SUBSET Names
      PROVE  [f EXCEPT ![t].todo = s] \in [Threads -> Frame]
  BY DEF Frame
<1>5. ASSUME NEW k \in 0 .. MaxTries
      PROVE  [f EXCEPT ![t].tries = k] \in [Threads -> Frame]
  BY DEF Frame
<1>6. ASSUME NEW r \in Results
      PROVE  [f EXCEPT ![t].res = r] \in [Threads -> Frame]
  BY DEF Frame
<1>7. ASSUME NEW r \in Results, NEW c \in Pids \cup {None}
      PROVE  [f EXCEPT ![t].res = r, ![t].by = c] \in [Threads -> Frame]
  BY DEF Frame
<1>8. ASSUME NEW c \in Pids \cup {None}
      PROVE  [f EXCEPT ![t].by = c] \in [Threads -> Frame]
  BY DEF Frame
<1> QED
  BY <1>1, <1>2, <1>3, <1>4, <1>5, <1>6, <1>7, <1>8

-----------------------------------------------------------------------------
(* Every step of a thread keeps the invariant. *)

\* A request thread calls the manager and waits for mtx_.
LEMMA CallKeeps ==
    ASSUME IInv, NEW t \in Threads, Call(t)
    PROVE  IInv'
<1> USE DEF IInv
<1>1. TypeOK'
  BY SetsAssumption DEF TypeOK, Critical, Call, Goto, procVars
<1>2. LockInv' /\ OpInv'
  BY NoneAssumption DEF TypeOK, LockInv, OpInv, Critical, Call, Goto
<1>3. SpawnInv' /\ StopInv'
  BY OpsLemma
     DEF TypeOK, LockInv, OpInv, SpawnInv, StopInv, Critical, Spawning, Stopping,
         Scope, Registered, Unreaped, procVars, Call, Goto
<1>4. EntryInv'
  BY
     DEF TypeOK, LockInv, OpInv, EntryInv, Critical, Stopping, Buried, Scope,
         Registered, Unreaped, procVars, Call, Goto
<1>5. OwnerInv'
  BY DEF TypeOK, OwnerInv, Spawning, Registered, Unreaped, procVars, Call, Goto
<1>6. DistinctPids' /\ NoBystander'
  BY DEF DistinctPids, NoBystander, Registered, procVars, Call, Goto
<1> QED
  BY <1>1, <1>2, <1>3, <1>4, <1>5, <1>6

\* A thread gets mtx_: no other thread is in its critical section.
LEMMA AcquireKeeps ==
    ASSUME IInv, NEW t \in Threads, Acquire(t)
    PROVE  IInv'
<1> USE DEF IInv
<1>1. TypeOK'
  BY SetsAssumption DEF TypeOK, Critical, Acquire, Goto, procVars
<1>2. LockInv' /\ OpInv'
  BY NoneAssumption DEF TypeOK, LockInv, OpInv, Critical, Acquire, Goto
<1>3. SpawnInv' /\ StopInv'
  BY OpsLemma
     DEF TypeOK, LockInv, OpInv, SpawnInv, StopInv, Critical, Spawning, Stopping,
         Scope, Registered, Unreaped, procVars, Acquire, Goto
<1>4. EntryInv'
  BY
     DEF TypeOK, LockInv, OpInv, EntryInv, Critical, Stopping, Buried, Scope,
         Registered, Unreaped, procVars, Acquire, Goto
<1>5. OwnerInv'
  BY DEF TypeOK, OwnerInv, Spawning, Registered, Unreaped, procVars, Acquire, Goto
<1>6. DistinctPids' /\ NoBystander'
  BY DEF DistinctPids, NoBystander, Registered, procVars, Acquire, Goto
<1> QED
  BY <1>1, <1>2, <1>3, <1>4, <1>5, <1>6

\* A call ends and its lock_guard releases mtx_.
LEMMA ReleaseKeeps ==
    ASSUME IInv, NEW t \in Threads, Release(t)
    PROVE  IInv'
<1> USE DEF IInv
<1>1. TypeOK'
  BY SetsAssumption
     DEF TypeOK, Critical, Release, Goto, NoFrame, Frame, Results, MaxTries, procVars
<1>2. LockInv' /\ OpInv'
  BY NoneAssumption DEF TypeOK, LockInv, OpInv, Critical, Release, Goto
<1>3. SpawnInv' /\ StopInv'
  BY OpsLemma
     DEF TypeOK, LockInv, OpInv, SpawnInv, StopInv, Critical, Spawning, Stopping,
         Scope, Registered, Unreaped, procVars, Release, Goto
<1>4. EntryInv'
  BY
     DEF TypeOK, LockInv, OpInv, EntryInv, Critical, Stopping, Buried, Scope,
         Registered, Unreaped, procVars, Release, Goto
<1>5. OwnerInv'
  BY DEF TypeOK, OwnerInv, Spawning, Registered, Unreaped, procVars, Release, Goto
<1>6. DistinctPids' /\ NoBystander'
  BY DEF DistinctPids, NoBystander, Registered, procVars, Release, Goto
<1> QED
  BY <1>1, <1>2, <1>3, <1>4, <1>5, <1>6

\* get_or_start, find and start_runner meet an existing entry.
LEMMA LookupHitKeeps ==
    ASSUME IInv, NEW t \in Threads, LookupHit(t)
    PROVE  IInv'
<1> USE DEF IInv
<1>1. TypeOK'
  <2>1. \/ frame' = frame
        \/ \E r \in Results : frame' = [frame EXCEPT ![t].res = r]
    BY DEF LookupHit, Return, Results
  <2>2. frame' \in [Threads -> Frame]
    BY <2>1, FrameUpdate DEF TypeOK
  <2> QED
    BY <2>2 DEF TypeOK, Critical, LookupHit, Return, Goto, procVars
<1>2. LockInv' /\ OpInv'
  BY NoneAssumption DEF TypeOK, LockInv, OpInv, Critical, LookupHit, Return, Goto
<1>3. SpawnInv' /\ StopInv'
  BY OpsLemma
     DEF TypeOK, LockInv, OpInv, SpawnInv, StopInv, Critical, Spawning, Stopping,
         Scope, Registered, Unreaped, procVars, LookupHit, Return, Goto
<1>4. EntryInv'
  BY
     DEF TypeOK, LockInv, OpInv, EntryInv, Critical, Stopping, Buried, Scope,
         Registered, Unreaped, procVars, LookupHit, Return, Goto
<1>5. OwnerInv'
  BY
     DEF TypeOK, OwnerInv, Spawning, Registered, Unreaped, procVars, LookupHit, Return,
         Goto
<1>6. DistinctPids' /\ NoBystander'
  BY DEF DistinctPids, NoBystander, Registered, procVars, LookupHit, Return, Goto
<1> QED
  BY <1>1, <1>2, <1>3, <1>4, <1>5, <1>6

\* The early returns of start, start_runner, stop and health.
LEMMA LookupFailsKeeps ==
    ASSUME IInv, NEW t \in Threads, LookupFails(t)
    PROVE  IInv'
<1> USE DEF IInv
<1>1. TypeOK'
  <2>1. PICK r \in Results : frame' = [frame EXCEPT ![t].res = r]
    BY DEF LookupFails, Return, Results
  <2>2. frame' \in [Threads -> Frame]
    BY <2>1, FrameUpdate DEF TypeOK
  <2> QED
    BY <2>2 DEF TypeOK, Critical, LookupFails, Return, Goto, procVars
<1>2. LockInv' /\ OpInv'
  BY NoneAssumption DEF TypeOK, LockInv, OpInv, Critical, LookupFails, Return, Goto
<1>3. SpawnInv' /\ StopInv'
  BY OpsLemma
     DEF TypeOK, LockInv, OpInv, SpawnInv, StopInv, Critical, Spawning, Stopping,
         Scope, Registered, Unreaped, procVars, LookupFails, Return, Goto, Starts
<1>4. EntryInv'
  BY
     DEF TypeOK, LockInv, OpInv, EntryInv, Critical, Stopping, Buried, Scope,
         Registered, Unreaped, procVars, LookupFails, Return, Goto
<1>5. OwnerInv'
  BY
     DEF TypeOK, OwnerInv, Spawning, Registered, Unreaped, procVars, LookupFails,
         Return, Goto
<1>6. DistinctPids' /\ NoBystander'
  BY DEF DistinctPids, NoBystander, Registered, procVars, LookupFails, Return, Goto
<1> QED
  BY <1>1, <1>2, <1>3, <1>4, <1>5, <1>6

\* find_free_port, for a name that has no entry.
LEMMA PickPortKeeps ==
    ASSUME IInv, NEW t \in Threads, PickPort(t)
    PROVE  IInv'
<1> USE DEF IInv
<1>1. TypeOK'
  <2>1. PICK p \in Ports : frame' = [frame EXCEPT ![t].port = p]
    BY DEF PickPort
  <2>2. frame' \in [Threads -> Frame]
    BY <2>1, FrameUpdate DEF TypeOK
  <2> QED
    BY <2>2 DEF TypeOK, Critical, PickPort, Goto, procVars
<1>2. LockInv' /\ OpInv'
  BY NoneAssumption DEF TypeOK, LockInv, OpInv, Critical, PickPort, Goto
<1>3. SpawnInv' /\ StopInv'
  BY OpsLemma
     DEF TypeOK, LockInv, OpInv, SpawnInv, StopInv, Critical, Spawning, Stopping,
         Scope, Registered, Unreaped, procVars, PickPort, Goto, Starts
<1>4. EntryInv'
  BY
     DEF TypeOK, LockInv, OpInv, EntryInv, Critical, Stopping, Buried, Scope,
         Registered, Unreaped, procVars, PickPort, Goto
<1>5. OwnerInv'
  BY DEF TypeOK, OwnerInv, Spawning, Registered, Unreaped, procVars, PickPort, Goto
<1>6. DistinctPids' /\ NoBystander'
  BY DEF DistinctPids, NoBystander, Registered, procVars, PickPort, Goto
<1> QED
  BY <1>1, <1>2, <1>3, <1>4, <1>5, <1>6

\* spawn_process fails and start returns an error.
LEMMA ForkFailsKeeps ==
    ASSUME IInv, NEW t \in Threads, ForkFails(t)
    PROVE  IInv'
<1> USE DEF IInv
<1>1. TypeOK'
  <2>1. PICK r \in Results : frame' = [frame EXCEPT ![t].res = r]
    BY DEF ForkFails, Return, Results
  <2>2. frame' \in [Threads -> Frame]
    BY <2>1, FrameUpdate DEF TypeOK
  <2> QED
    BY <2>2 DEF TypeOK, Critical, ForkFails, Return, Goto, procVars
<1>2. LockInv' /\ OpInv'
  BY NoneAssumption DEF TypeOK, LockInv, OpInv, Critical, ForkFails, Return, Goto
<1>3. SpawnInv' /\ StopInv'
  BY OpsLemma
     DEF TypeOK, LockInv, OpInv, SpawnInv, StopInv, Critical, Spawning, Stopping,
         Scope, Registered, Unreaped, procVars, ForkFails, Return, Goto
<1>4. EntryInv'
  BY
     DEF TypeOK, LockInv, OpInv, EntryInv, Critical, Stopping, Buried, Scope,
         Registered, Unreaped, procVars, ForkFails, Return, Goto
<1>5. OwnerInv'
  BY
     DEF TypeOK, OwnerInv, Spawning, Registered, Unreaped, procVars, ForkFails, Return,
         Goto
<1>6. DistinctPids' /\ NoBystander'
  BY DEF DistinctPids, NoBystander, Registered, procVars, ForkFails, Return, Goto
<1> QED
  BY <1>1, <1>2, <1>3, <1>4, <1>5, <1>6

\* spawn_process: the new child is the one this call is spawning, and its id
\* belonged to no process, hence to no entry.
LEMMA ForkKeeps ==
    ASSUME IInv, NEW t \in Threads, Fork(t)
    PROVE  IInv'
<1> USE DEF IInv
<1>0. PICK c \in Pids :
        /\ pstate[c] = "free"
        /\ pstate' = [pstate EXCEPT ![c] = "loading"]
        /\ pport' = [pport EXCEPT ![c] = frame[t].port]
        /\ frame' = [frame EXCEPT ![t].child = c, ![t].tries = 0]
  BY DEF Fork
<1>1. TypeOK'
  <2>1. 0 \in 0 .. MaxTries
    BY SetsAssumption DEF MaxTries
  <2>2. frame' \in [Threads -> Frame]
    BY <1>0, <2>1, FrameUpdate DEF TypeOK
  <2>3. pstate' \in [Pids -> ProcStates] /\ pport' \in [Pids -> Ports \cup {None}]
    BY <1>0 DEF TypeOK, SpawnInv, Fork, ProcStates, ChildStates, LiveStates
  <2> QED
    BY <2>2, <2>3, <1>0 DEF TypeOK, Critical, Fork, Goto, procVars
<1>2. LockInv' /\ OpInv'
  BY NoneAssumption DEF TypeOK, LockInv, OpInv, Critical, Fork, Goto
<1>3. SpawnInv' /\ StopInv'
  BY <1>0, OpsLemma, RunnerLemma
     DEF TypeOK, LockInv, OpInv, SpawnInv, StopInv, EntryInv, Critical, Spawning,
         Stopping, Buried, Scope, Registered, Unreaped, procVars, ChildStates,
         LiveStates, Fork, Goto
<1>4. EntryInv'
  BY <1>0, OpsLemma, RunnerLemma
     DEF TypeOK, LockInv, OpInv, SpawnInv, StopInv, EntryInv, DistinctPids, Critical,
         Spawning, Stopping, Buried, Scope, Registered, Unreaped, procVars,
         ChildStates, LiveStates, Fork, Goto
<1>5. OwnerInv'
  BY <1>0, OpsLemma, RunnerLemma
     DEF TypeOK, LockInv, OpInv, SpawnInv, StopInv, EntryInv, OwnerInv, Critical,
         Spawning, Stopping, Buried, Scope, Registered, Unreaped, procVars,
         ChildStates, LiveStates, Fork, Goto
<1>6. DistinctPids' /\ NoBystander'
  BY <1>0, OpsLemma, RunnerLemma
     DEF TypeOK, OpInv, SpawnInv, DistinctPids, NoBystander, Spawning, Registered,
         Unreaped, ChildStates, LiveStates, procVars, Fork, Goto
<1> QED
  BY <1>1, <1>2, <1>3, <1>4, <1>5, <1>6

\* GET /health is answered 200.
LEMMA PollHealthyKeeps ==
    ASSUME IInv, NEW t \in Threads, PollHealthy(t)
    PROVE  IInv'
<1> USE DEF IInv
<1>0. PICK q \in Pids \cup {None} : frame' = [frame EXCEPT ![t].by = q]
  BY DEF PollHealthy, Answerers, Listeners
<1>1. TypeOK'
  <2>1. frame' \in [Threads -> Frame]
    BY <1>0, FrameUpdate DEF TypeOK
  <2> QED
    BY <2>1 DEF TypeOK, Critical, PollHealthy, Goto, procVars
<1>2. LockInv' /\ OpInv'
  BY NoneAssumption DEF TypeOK, LockInv, OpInv, Critical, PollHealthy, Goto
<1>3. SpawnInv' /\ StopInv'
  BY <1>0, OpsLemma
     DEF TypeOK, LockInv, OpInv, SpawnInv, StopInv, Critical, Spawning, Stopping,
         Scope, Registered, Unreaped, procVars, PollHealthy, Goto
<1>4. EntryInv'
  BY <1>0
     DEF TypeOK, LockInv, OpInv, EntryInv, Critical, Stopping, Buried, Scope,
         Registered, Unreaped, procVars, PollHealthy, Goto
<1>5. OwnerInv'
  BY <1>0
     DEF TypeOK, OwnerInv, Spawning, Registered, Unreaped, procVars, PollHealthy, Goto
<1>6. DistinctPids' /\ NoBystander'
  BY DEF DistinctPids, NoBystander, Registered, procVars, PollHealthy, Goto
<1> QED
  BY <1>1, <1>2, <1>3, <1>4, <1>5, <1>6

\* spawn_runner registers the child it has been spawning.
LEMMA RegisterKeeps ==
    ASSUME IInv, NEW t \in Threads, Register(t)
    PROVE  IInv'
<1> USE DEF IInv
<1>1. TypeOK'
  <2>1. \/ frame' = frame
        \/ \E r \in Results : frame' = [frame EXCEPT ![t].res = r]
    BY DEF Register, Return, Results
  <2>2. frame' \in [Threads -> Frame]
    BY <2>1, FrameUpdate DEF TypeOK
  <2>3. runners' \in [Names -> Runner \cup {None}]
    BY OpsLemma DEF Register, TypeOK, OpInv, SpawnInv, Spawning, Runner
  <2> QED
    BY <2>2, <2>3 DEF TypeOK, Critical, Register, Return, Goto, procVars
<1>2. LockInv' /\ OpInv'
  BY NoneAssumption DEF TypeOK, LockInv, OpInv, Critical, Register, Return, Goto
<1>3. SpawnInv' /\ StopInv'
  BY OpsLemma, RunnerLemma
     DEF TypeOK, LockInv, OpInv, SpawnInv, StopInv, EntryInv, Critical, Spawning,
         Stopping, Buried, Scope, Registered, Unreaped, procVars, ChildStates,
         LiveStates, Register, Return, Goto
<1>4. EntryInv'
  BY OpsLemma, RunnerLemma
     DEF TypeOK, LockInv, OpInv, SpawnInv, StopInv, EntryInv, DistinctPids, Critical,
         Spawning, Stopping, Buried, Scope, Registered, Unreaped, procVars,
         ChildStates, LiveStates, Register, Return, Goto
<1>5. OwnerInv'
  <2> SUFFICES ASSUME NEW c \in Pids, Unreaped(c)
               PROVE  \/ \E n \in Names : Registered(n)' /\ runners'[n].pid = c
                      \/ \E u \in Threads : Spawning(u)' /\ frame'[u].child = c
    BY DEF OwnerInv, Unreaped, Register, procVars
  <2>1. /\ op[t].name \in Names
        /\ ~Registered(op[t].name)
        /\ runners' = [runners EXCEPT ![op[t].name] =
                          [pid |-> frame[t].child, port |-> frame[t].port]]
    BY OpsLemma DEF Register, OpInv, SpawnInv, Spawning
  <2>2. CASE \E n \in Names : Registered(n) /\ runners[n].pid = c
    BY <2>1, <2>2 DEF TypeOK, Registered
  <2>3. CASE \E u \in Threads : Spawning(u) /\ frame[u].child = c
    <3>1. frame[t].child = c
      BY <2>3 DEF Register, LockInv, Spawning, Critical
    <3>2. runners'[op[t].name] = [pid |-> c, port |-> frame[t].port]
      BY <2>1, <3>1 DEF TypeOK
    <3>3. [pid |-> c, port |-> frame[t].port] \in Runner
      BY DEF Register, SpawnInv, Spawning, Runner
    <3> QED
      BY <2>1, <3>2, <3>3, NoneAssumption DEF Registered
  <2> QED
    BY <2>2, <2>3 DEF OwnerInv
<1>6. DistinctPids' /\ NoBystander'
  BY OpsLemma, RunnerLemma
     DEF TypeOK, OpInv, SpawnInv, DistinctPids, NoBystander, Spawning, Registered,
         Unreaped, ChildStates, LiveStates, procVars, Register, Return, Goto
<1> QED
  BY <1>1, <1>2, <1>3, <1>4, <1>5, <1>6

\* One iteration of the health loop without an answer.
LEMMA PollMissKeeps ==
    ASSUME IInv, NEW t \in Threads, PollMiss(t)
    PROVE  IInv'
<1> USE DEF IInv
<1>1. TypeOK'
  <2>1. frame[t].tries + 1 \in 0 .. MaxTries
    BY SetsAssumption DEF PollMiss, TypeOK, Frame, MaxTries
  <2>2. frame' \in [Threads -> Frame]
    BY <2>1, FrameUpdate DEF PollMiss, TypeOK
  <2> QED
    BY <2>2 DEF TypeOK, Critical, PollMiss, procVars
<1>2. LockInv' /\ OpInv'
  BY NoneAssumption DEF TypeOK, LockInv, OpInv, Critical, PollMiss
<1>3. SpawnInv' /\ StopInv'
  BY OpsLemma
     DEF TypeOK, LockInv, OpInv, SpawnInv, StopInv, Critical, Spawning, Stopping,
         Scope, Registered, Unreaped, procVars, PollMiss
<1>4. EntryInv'
  BY
     DEF TypeOK, LockInv, OpInv, EntryInv, Critical, Stopping, Buried, Scope,
         Registered, Unreaped, procVars, PollMiss
<1>5. OwnerInv'
  BY DEF TypeOK, OwnerInv, Spawning, Registered, Unreaped, procVars, PollMiss
<1>6. DistinctPids' /\ NoBystander'
  BY DEF DistinctPids, NoBystander, Registered, procVars, PollMiss
<1> QED
  BY <1>1, <1>2, <1>3, <1>4, <1>5, <1>6

\* spawn_runner gives up: the process it signals is its own unreaped child.
LEMMA GiveUpKeeps ==
    ASSUME IInv, NEW t \in Threads, GiveUp(t)
    PROVE  IInv'
<1> USE DEF IInv
<1>a. frame[t].child \in Pids /\ Unreaped(frame[t].child)
  BY DEF GiveUp, SpawnInv, Spawning
<1>1. TypeOK'
  <2>3. pstate' \in [Pids -> ProcStates]
    BY <1>a, SigTermLemma DEF GiveUp, TypeOK
  <2> QED
    BY <2>3 DEF TypeOK, Critical, GiveUp, Goto, procVars
<1>2. LockInv' /\ OpInv'
  BY NoneAssumption DEF TypeOK, LockInv, OpInv, Critical, GiveUp, Goto
<1>3. SpawnInv' /\ StopInv'
  BY <1>a, SigTermLemma, OpsLemma, RunnerLemma
     DEF TypeOK, LockInv, OpInv, SpawnInv, StopInv, EntryInv, Critical, Spawning,
         Stopping, Buried, Scope, Registered, Unreaped, GiveUp, Goto
<1>4. EntryInv'
  BY <1>a, SigTermLemma, OpsLemma, RunnerLemma
     DEF TypeOK, LockInv, OpInv, SpawnInv, StopInv, EntryInv, DistinctPids, Critical,
         Spawning, Stopping, Buried, Scope, Registered, Unreaped, GiveUp, Goto
<1>5. OwnerInv'
  BY <1>a, SigTermLemma, OpsLemma, RunnerLemma
     DEF TypeOK, LockInv, OpInv, SpawnInv, StopInv, EntryInv, OwnerInv, Critical,
         Spawning, Stopping, Buried, Scope, Registered, Unreaped, GiveUp, Goto
<1>6. DistinctPids' /\ NoBystander'
  BY <1>a, SigTermLemma, OpsLemma, RunnerLemma
     DEF TypeOK, OpInv, SpawnInv, DistinctPids, NoBystander, Spawning, Registered,
         Unreaped, ChildStates, LiveStates, procVars, GiveUp, Goto
<1> QED
  BY <1>1, <1>2, <1>3, <1>4, <1>5, <1>6

\* spawn_runner waits for the child it gave up; no entry denotes that child.
LEMMA ReapFailedKeeps ==
    ASSUME IInv, NEW t \in Threads, ReapFailed(t)
    PROVE  IInv'
<1> USE DEF IInv
<1>a. frame[t].child \in Pids
  BY DEF ReapFailed, SpawnInv, Spawning
<1>1. TypeOK'
  <2>1. PICK r \in Results : frame' = [frame EXCEPT ![t].res = r]
    BY DEF ReapFailed, Return, Results
  <2>2. frame' \in [Threads -> Frame]
    BY <2>1, FrameUpdate DEF TypeOK
  <2>3. pstate' \in [Pids -> ProcStates]
    BY DEF ReapFailed, TypeOK, ProcStates
  <2> QED
    BY <2>2, <2>3 DEF TypeOK, Critical, ReapFailed, Return, Goto, procVars
<1>2. LockInv' /\ OpInv'
  BY NoneAssumption DEF TypeOK, LockInv, OpInv, Critical, ReapFailed, Return, Goto
<1>3. SpawnInv' /\ StopInv'
  BY <1>a, OpsLemma, RunnerLemma
     DEF TypeOK, LockInv, OpInv, SpawnInv, StopInv, EntryInv, Critical, Spawning,
         Stopping, Buried, Scope, Registered, Unreaped, procVars, ChildStates,
         LiveStates, ReapFailed, Return, Goto
<1>4. EntryInv'
  BY <1>a, OpsLemma, RunnerLemma
     DEF TypeOK, LockInv, OpInv, SpawnInv, StopInv, EntryInv, DistinctPids, Critical,
         Spawning, Stopping, Buried, Scope, Registered, Unreaped, procVars,
         ChildStates, LiveStates, ReapFailed, Return, Goto
<1>5. OwnerInv'
  BY <1>a, OpsLemma, RunnerLemma
     DEF TypeOK, LockInv, OpInv, SpawnInv, StopInv, EntryInv, OwnerInv, Critical,
         Spawning, Stopping, Buried, Scope, Registered, Unreaped, procVars,
         ChildStates, LiveStates, ReapFailed, Return, Goto
<1>6. DistinctPids' /\ NoBystander'
  BY <1>a, OpsLemma, RunnerLemma
     DEF TypeOK, OpInv, SpawnInv, DistinctPids, NoBystander, Spawning, Registered,
         Unreaped, ChildStates, LiveStates, procVars, ReapFailed, Return, Goto
<1> QED
  BY <1>1, <1>2, <1>3, <1>4, <1>5, <1>6

\* The proxied request is answered.
LEMMA PostAnsweredKeeps ==
    ASSUME IInv, NEW t \in Threads, PostAnswered(t)
    PROVE  IInv'
<1> USE DEF IInv
<1>1. TypeOK'
  <2>1. PICK q \in Pids \cup {None} :
             frame' = [frame EXCEPT ![t].res = "ok", ![t].by = q]
    BY DEF PostAnswered, Answerers, Listeners
  <2>2. frame' \in [Threads -> Frame]
    BY <2>1, FrameUpdate DEF TypeOK, Results
  <2> QED
    BY <2>2 DEF TypeOK, Critical, PostAnswered, Goto, procVars
<1>2. LockInv' /\ OpInv'
  BY NoneAssumption DEF TypeOK, LockInv, OpInv, Critical, PostAnswered, Goto
<1>3. SpawnInv' /\ StopInv'
  BY OpsLemma
     DEF TypeOK, LockInv, OpInv, SpawnInv, StopInv, Critical, Spawning, Stopping,
         Scope, Registered, Unreaped, procVars, PostAnswered, Goto
<1>4. EntryInv'
  BY
     DEF TypeOK, LockInv, OpInv, EntryInv, Critical, Stopping, Buried, Scope,
         Registered, Unreaped, procVars, PostAnswered, Goto
<1>5. OwnerInv'
  BY DEF TypeOK, OwnerInv, Spawning, Registered, Unreaped, procVars, PostAnswered, Goto
<1>6. DistinctPids' /\ NoBystander'
  BY DEF DistinctPids, NoBystander, Registered, procVars, PostAnswered, Goto
<1> QED
  BY <1>1, <1>2, <1>3, <1>4, <1>5, <1>6

\* The proxied request fails.
LEMMA PostFailsKeeps ==
    ASSUME IInv, NEW t \in Threads, PostFails(t)
    PROVE  IInv'
<1> USE DEF IInv
<1>1. TypeOK'
  <2>1. PICK r \in Results : frame' = [frame EXCEPT ![t].res = r]
    BY DEF PostFails, Return, Results
  <2>2. frame' \in [Threads -> Frame]
    BY <2>1, FrameUpdate DEF TypeOK
  <2> QED
    BY <2>2 DEF TypeOK, Critical, PostFails, Return, Goto, procVars
<1>2. LockInv' /\ OpInv'
  BY NoneAssumption DEF TypeOK, LockInv, OpInv, Critical, PostFails, Return, Goto
<1>3. SpawnInv' /\ StopInv'
  BY OpsLemma
     DEF TypeOK, LockInv, OpInv, SpawnInv, StopInv, Critical, Spawning, Stopping,
         Scope, Registered, Unreaped, procVars, PostFails, Return, Goto
<1>4. EntryInv'
  BY
     DEF TypeOK, LockInv, OpInv, EntryInv, Critical, Stopping, Buried, Scope,
         Registered, Unreaped, procVars, PostFails, Return, Goto
<1>5. OwnerInv'
  BY
     DEF TypeOK, OwnerInv, Spawning, Registered, Unreaped, procVars, PostFails, Return,
         Goto
<1>6. DistinctPids' /\ NoBystander'
  BY DEF DistinctPids, NoBystander, Registered, procVars, PostFails, Return, Goto
<1> QED
  BY <1>1, <1>2, <1>3, <1>4, <1>5, <1>6

\* stop finds the entry it is to stop.
LEMMA StopOneKeeps ==
    ASSUME IInv, NEW t \in Threads, StopOne(t)
    PROVE  IInv'
<1> USE DEF IInv
<1>1. TypeOK'
  <2>1. {op[t].name} \in SUBSET Names
    BY OpsLemma DEF StopOne, OpInv
  <2>2. frame' \in [Threads -> Frame]
    BY <2>1, FrameUpdate DEF StopOne, TypeOK
  <2> QED
    BY <2>2 DEF TypeOK, Critical, StopOne, Goto, procVars
<1>2. LockInv' /\ OpInv'
  BY NoneAssumption DEF TypeOK, LockInv, OpInv, Critical, StopOne, Goto
<1>3. SpawnInv' /\ StopInv'
  BY OpsLemma
     DEF TypeOK, LockInv, OpInv, SpawnInv, StopInv, Critical, Spawning, Stopping,
         Scope, Registered, Unreaped, procVars, StopOne, Goto
<1>4. EntryInv'
  BY
     DEF TypeOK, LockInv, OpInv, EntryInv, Critical, Stopping, Buried, Scope,
         Registered, Unreaped, procVars, StopOne, Goto
<1>5. OwnerInv'
  BY DEF TypeOK, OwnerInv, Spawning, Registered, Unreaped, procVars, StopOne, Goto
<1>6. DistinctPids' /\ NoBystander'
  BY DEF DistinctPids, NoBystander, Registered, procVars, StopOne, Goto
<1> QED
  BY <1>1, <1>2, <1>3, <1>4, <1>5, <1>6

\* The first pass of stop_all: every process it signals is a child that was not
\* waited for.
LEMMA TermAllKeeps ==
    ASSUME IInv, NEW t \in Threads, TermAll(t)
    PROVE  IInv'
<1> USE DEF IInv
<1>a. \A n \in Names : Registered(n) =>
        runners[n].pid \in Pids /\ Unreaped(runners[n].pid)
  BY RunnerLemma
     DEF TermAll, TypeOK, LockInv, EntryInv, Critical, Stopping, Buried, Registered
<1>1. TypeOK'
  <2>1. {n \in Names : Registered(n)} \in SUBSET Names
    OBVIOUS
  <2>2. frame' \in [Threads -> Frame]
    BY <2>1, FrameUpdate DEF TermAll, TypeOK
  <2>3. pstate' \in [Pids -> ProcStates]
    BY SigTermLemma DEF TermAll, TypeOK
  <2> QED
    BY <2>2, <2>3 DEF TypeOK, Critical, TermAll, Goto, procVars
<1>2. LockInv' /\ OpInv'
  BY NoneAssumption DEF TypeOK, LockInv, OpInv, Critical, TermAll, Goto
<1>3. SpawnInv' /\ StopInv'
  BY <1>a, SigTermLemma, OpsLemma, RunnerLemma
     DEF TypeOK, LockInv, OpInv, SpawnInv, StopInv, EntryInv, Critical, Spawning,
         Stopping, Buried, Scope, Registered, Unreaped, TermAll, Goto
<1>4. EntryInv'
  BY <1>a, SigTermLemma, OpsLemma, RunnerLemma
     DEF TypeOK, LockInv, OpInv, SpawnInv, StopInv, EntryInv, DistinctPids, Critical,
         Spawning, Stopping, Buried, Scope, Registered, Unreaped, TermAll, Goto
<1>5. OwnerInv'
  BY <1>a, SigTermLemma, OpsLemma, RunnerLemma
     DEF TypeOK, LockInv, OpInv, SpawnInv, StopInv, EntryInv, OwnerInv, Critical,
         Spawning, Stopping, Buried, Scope, Registered, Unreaped, TermAll, Goto
<1>6. DistinctPids' /\ NoBystander'
  BY <1>a, SigTermLemma, OpsLemma, RunnerLemma
     DEF TypeOK, OpInv, SpawnInv, DistinctPids, NoBystander, Spawning, Registered,
         Unreaped, ChildStates, LiveStates, procVars, TermAll, Goto
<1> QED
  BY <1>1, <1>2, <1>3, <1>4, <1>5, <1>6

\* stop_with_timeout signals the child of an entry, which was not waited for.
LEMMA StopBeginKeeps ==
    ASSUME IInv, NEW t \in Threads, StopBegin(t)
    PROVE  IInv'
<1> USE DEF IInv
<1>0. PICK n \in frame[t].todo :
        /\ frame' = [frame EXCEPT ![t].target = n, ![t].tries = 0]
        /\ pstate' = [pstate EXCEPT ![runners[n].pid] = SigTerm(@)]
  BY DEF StopBegin
<1>a. n \in Names /\ Registered(n) /\ runners[n].pid \in Pids /\ Unreaped(runners[n].pid)
  BY <1>0, RunnerLemma
     DEF StopBegin, TypeOK, LockInv, StopInv, EntryInv, Critical, Stopping, Buried, Scope, Registered, Frame
<1>1. TypeOK'
  <2>1. 0 \in 0 .. MaxTries
    BY SetsAssumption DEF MaxTries
  <2>2. frame' \in [Threads -> Frame]
    BY <1>0, <1>a, <2>1, FrameUpdate DEF TypeOK
  <2>3. pstate' \in [Pids -> ProcStates]
    BY <1>0, SigTermLemma DEF TypeOK, ProcStates
  <2> QED
    BY <2>2, <2>3 DEF TypeOK, Critical, StopBegin, Goto, procVars
<1>2. LockInv' /\ OpInv'
  BY NoneAssumption DEF TypeOK, LockInv, OpInv, Critical, StopBegin, Goto
<1>3. SpawnInv' /\ StopInv'
  BY <1>0, <1>a, SigTermLemma, OpsLemma, RunnerLemma
     DEF TypeOK, LockInv, OpInv, SpawnInv, StopInv, EntryInv, Critical, Spawning,
         Stopping, Buried, Scope, Registered, Unreaped, StopBegin, Goto
<1>4. EntryInv'
  BY <1>0, <1>a, SigTermLemma, OpsLemma, RunnerLemma
     DEF TypeOK, LockInv, OpInv, SpawnInv, StopInv, EntryInv, DistinctPids, Critical,
         Spawning, Stopping, Buried, Scope, Registered, Unreaped, StopBegin, Goto
<1>5. OwnerInv'
  BY <1>0, <1>a, SigTermLemma, OpsLemma, RunnerLemma
     DEF TypeOK, LockInv, OpInv, SpawnInv, StopInv, EntryInv, OwnerInv, Critical,
         Spawning, Stopping, Buried, Scope, Registered, Unreaped, StopBegin, Goto
<1>6. DistinctPids' /\ NoBystander'
  BY <1>0, <1>a, SigTermLemma, OpsLemma, RunnerLemma
     DEF TypeOK, OpInv, SpawnInv, DistinctPids, NoBystander, Spawning, Registered,
         Unreaped, ChildStates, LiveStates, procVars, StopBegin, Goto
<1> QED
  BY <1>1, <1>2, <1>3, <1>4, <1>5, <1>6

\* One iteration of the polling loop of stop_with_timeout.
LEMMA GraceTickKeeps ==
    ASSUME IInv, NEW t \in Threads, GraceTick(t)
    PROVE  IInv'
<1> USE DEF IInv
<1>1. TypeOK'
  <2>1. frame[t].tries + 1 \in 0 .. MaxTries
    BY SetsAssumption DEF GraceTick, TypeOK, Frame, MaxTries
  <2>2. frame' \in [Threads -> Frame]
    BY <2>1, FrameUpdate DEF GraceTick, TypeOK
  <2> QED
    BY <2>2 DEF TypeOK, Critical, GraceTick, procVars
<1>2. LockInv' /\ OpInv'
  BY NoneAssumption DEF TypeOK, LockInv, OpInv, Critical, GraceTick
<1>3. SpawnInv' /\ StopInv'
  BY OpsLemma
     DEF TypeOK, LockInv, OpInv, SpawnInv, StopInv, Critical, Spawning, Stopping,
         Scope, Registered, Unreaped, procVars, GraceTick
<1>4. EntryInv'
  BY
     DEF TypeOK, LockInv, OpInv, EntryInv, Critical, Stopping, Buried, Scope,
         Registered, Unreaped, procVars, GraceTick
<1>5. OwnerInv'
  BY DEF TypeOK, OwnerInv, Spawning, Registered, Unreaped, procVars, GraceTick
<1>6. DistinctPids' /\ NoBystander'
  BY DEF DistinctPids, NoBystander, Registered, procVars, GraceTick
<1> QED
  BY <1>1, <1>2, <1>3, <1>4, <1>5, <1>6

\* The polling loop finds the process dead.
LEMMA GraceDeadKeeps ==
    ASSUME IInv, NEW t \in Threads, GraceDead(t)
    PROVE  IInv'
<1> USE DEF IInv
<1>1. TypeOK'
  BY SetsAssumption DEF TypeOK, Critical, GraceDead, Goto, procVars
<1>2. LockInv' /\ OpInv'
  BY NoneAssumption DEF TypeOK, LockInv, OpInv, Critical, GraceDead, Goto
<1>3. SpawnInv' /\ StopInv'
  BY OpsLemma
     DEF TypeOK, LockInv, OpInv, SpawnInv, StopInv, Critical, Spawning, Stopping,
         Scope, Registered, Unreaped, procVars, GraceDead, Goto
<1>4. EntryInv'
  BY
     DEF TypeOK, LockInv, OpInv, EntryInv, Critical, Stopping, Buried, Scope,
         Registered, Unreaped, procVars, GraceDead, Goto
<1>5. OwnerInv'
  BY DEF TypeOK, OwnerInv, Spawning, Registered, Unreaped, procVars, GraceDead, Goto
<1>6. DistinctPids' /\ NoBystander'
  BY DEF DistinctPids, NoBystander, Registered, procVars, GraceDead, Goto
<1> QED
  BY <1>1, <1>2, <1>3, <1>4, <1>5, <1>6

\* The SIGKILL at the end of the grace period hits the child of the entry.
LEMMA GraceOverKeeps ==
    ASSUME IInv, NEW t \in Threads, GraceOver(t)
    PROVE  IInv'
<1> USE DEF IInv
<1>a. Victim(t) \in Pids /\ Unreaped(Victim(t))
  BY RunnerLemma
     DEF GraceOver, TypeOK, LockInv, StopInv, EntryInv, Critical, Stopping, Buried, Scope, Registered, Victim, Frame
<1>1. TypeOK'
  <2>3. pstate' \in [Pids -> ProcStates]
    BY SigKillLemma, <1>a DEF GraceOver, TypeOK
  <2> QED
    BY <2>3 DEF TypeOK, Critical, GraceOver, Goto, Victim, procVars
<1>2. LockInv' /\ OpInv'
  BY NoneAssumption DEF TypeOK, LockInv, OpInv, Critical, GraceOver, Goto, Victim
<1>3. SpawnInv' /\ StopInv'
  BY <1>a, SigKillLemma, OpsLemma, RunnerLemma
     DEF TypeOK, LockInv, OpInv, SpawnInv, StopInv, EntryInv, Critical, Spawning,
         Stopping, Buried, Scope, Registered, Unreaped, GraceOver, Goto, Victim
<1>4. EntryInv'
  BY <1>a, SigKillLemma, OpsLemma, RunnerLemma
     DEF TypeOK, LockInv, OpInv, SpawnInv, StopInv, EntryInv, DistinctPids, Critical,
         Spawning, Stopping, Buried, Scope, Registered, Unreaped, GraceOver, Goto,
         Victim
<1>5. OwnerInv'
  BY <1>a, SigKillLemma, OpsLemma, RunnerLemma
     DEF TypeOK, LockInv, OpInv, SpawnInv, StopInv, EntryInv, OwnerInv, Critical,
         Spawning, Stopping, Buried, Scope, Registered, Unreaped, GraceOver, Goto,
         Victim
<1>6. DistinctPids' /\ NoBystander'
  BY <1>a, SigKillLemma, OpsLemma, RunnerLemma
     DEF TypeOK, OpInv, SpawnInv, DistinctPids, NoBystander, Spawning, Registered,
         Unreaped, ChildStates, LiveStates, procVars, GraceOver, Goto, Victim
<1> QED
  BY <1>1, <1>2, <1>3, <1>4, <1>5, <1>6

\* wait_process: the entry is from now on one that the call will erase.
LEMMA ReapKeeps ==
    ASSUME IInv, NEW t \in Threads, Reap(t)
    PROVE  IInv'
<1> USE DEF IInv
<1>a. /\ frame[t].target \in Names
      /\ Registered(frame[t].target)
      /\ Victim(t) \in Pids
  BY RunnerLemma
     DEF Reap, TypeOK, StopInv, Stopping, Registered, Victim, Frame
<1>1. TypeOK'
  <2>1. frame[t].todo \ {frame[t].target} \in SUBSET Names
    BY DEF TypeOK, Frame
  <2>2. frame' \in [Threads -> Frame]
    BY <2>1, FrameUpdate DEF Reap, TypeOK
  <2>3. pstate' \in [Pids -> ProcStates]
    BY DEF Reap, TypeOK, ProcStates
  <2> QED
    BY <2>2, <2>3 DEF TypeOK, Critical, Reap, Goto, Victim, procVars
<1>2. LockInv' /\ OpInv'
  BY NoneAssumption DEF TypeOK, LockInv, OpInv, Critical, Reap, Goto, Victim
<1>3. SpawnInv' /\ StopInv'
  BY <1>a, OpsLemma, RunnerLemma
     DEF TypeOK, LockInv, OpInv, SpawnInv, StopInv, EntryInv, Critical, Spawning,
         Stopping, Buried, Scope, Registered, Unreaped, procVars, ChildStates,
         LiveStates, Reap, Goto, Victim
<1>4. EntryInv'
  BY <1>a, OpsLemma, RunnerLemma
     DEF TypeOK, LockInv, OpInv, SpawnInv, StopInv, EntryInv, DistinctPids, Critical,
         Spawning, Stopping, Buried, Scope, Registered, Unreaped, procVars,
         ChildStates, LiveStates, Reap, Goto, Victim
<1>5. OwnerInv'
  BY <1>a, OpsLemma, RunnerLemma
     DEF TypeOK, LockInv, OpInv, SpawnInv, StopInv, EntryInv, OwnerInv, Critical,
         Spawning, Stopping, Buried, Scope, Registered, Unreaped, procVars,
         ChildStates, LiveStates, Reap, Goto, Victim
<1>6. DistinctPids' /\ NoBystander'
  BY <1>a, OpsLemma, RunnerLemma
     DEF TypeOK, OpInv, SpawnInv, DistinctPids, NoBystander, Spawning, Registered,
         Unreaped, ChildStates, LiveStates, procVars, Reap, Goto, Victim
<1> QED
  BY <1>1, <1>2, <1>3, <1>4, <1>5, <1>6

\* stop erases its entry and stop_all clears the map: all of them were reaped.
LEMMA EraseKeeps ==
    ASSUME IInv, NEW t \in Threads, Erase(t)
    PROVE  IInv'
<1> USE DEF IInv
<1>1. TypeOK'
  <2>1. PICK r \in Results : frame' = [frame EXCEPT ![t].res = r]
    BY DEF Erase, Return, Results
  <2>2. frame' \in [Threads -> Frame]
    BY <2>1, FrameUpdate DEF TypeOK
  <2>3. runners' \in [Names -> Runner \cup {None}]
    BY DEF Erase, TypeOK
  <2> QED
    BY <2>2, <2>3 DEF TypeOK, Critical, Erase, Return, Goto, procVars
<1>2. LockInv' /\ OpInv'
  BY NoneAssumption DEF TypeOK, LockInv, OpInv, Critical, Erase, Return, Goto
<1>3. SpawnInv' /\ StopInv'
  BY OpsLemma, RunnerLemma
     DEF TypeOK, LockInv, OpInv, SpawnInv, StopInv, EntryInv, Critical, Spawning,
         Stopping, Buried, Scope, Registered, Unreaped, procVars, ChildStates,
         LiveStates, Erase, Return, Goto
<1>4. EntryInv'
  BY OpsLemma, RunnerLemma
     DEF TypeOK, LockInv, OpInv, SpawnInv, StopInv, EntryInv, DistinctPids, Critical,
         Spawning, Stopping, Buried, Scope, Registered, Unreaped, procVars,
         ChildStates, LiveStates, Erase, Return, Goto
<1>5. OwnerInv'
  BY OpsLemma, RunnerLemma
     DEF TypeOK, LockInv, OpInv, SpawnInv, StopInv, EntryInv, OwnerInv, Critical,
         Spawning, Stopping, Buried, Scope, Registered, Unreaped, procVars,
         ChildStates, LiveStates, Erase, Return, Goto
<1>6. DistinctPids' /\ NoBystander'
  BY OpsLemma, RunnerLemma
     DEF TypeOK, OpInv, SpawnInv, DistinctPids, NoBystander, Spawning, Registered,
         Unreaped, ChildStates, LiveStates, procVars, Erase, Return, Goto
<1> QED
  BY <1>1, <1>2, <1>3, <1>4, <1>5, <1>6

-----------------------------------------------------------------------------
(* The initial state, and the steps of the other processes. *)

\* The manager starts without runners.
LEMMA InitIInv == Init => IInv
  BY SetsAssumption, NoneAssumption
     DEF Init, IInv, TypeOK, LockInv, OpInv, SpawnInv, StopInv, EntryInv,
         OwnerInv, DistinctPids, NoBystander, NoFrame, Frame, Results, Critical,
         Spawning, Stopping, Unreaped, ChildStates, LiveStates, ProcStates,
         Registered, MaxTries

\* The steps of the children and of unrelated processes: no manager variable
\* changes, and a process neither becomes nor stops being a child of the server.
LEMMA ProcessKeeps ==
    ASSUME IInv, UNCHANGED managerVars,
           pstate' \in [Pids -> ProcStates],
           pport' \in [Pids -> Ports \cup {None}],
           foreignOn' \subseteq ForeignPorts,
           \A c \in Pids : Unreaped(c)' <=> Unreaped(c),
           \A c \in Pids : pstate'[c] = "shot" => pstate[c] = "shot"
    PROVE  IInv'
<1> USE DEF IInv, managerVars
<1>1. TypeOK'
  BY DEF TypeOK
<1>2. LockInv' /\ OpInv' /\ DistinctPids' /\ NoBystander'
  BY DEF LockInv, OpInv, DistinctPids, NoBystander, Registered
<1>3. SpawnInv' /\ StopInv'
  BY DEF SpawnInv, StopInv, Spawning, Stopping, Scope, Registered
<1>4. EntryInv'
  BY RunnerLemma DEF TypeOK, EntryInv, Buried, Stopping, Scope, Registered
<1>5. OwnerInv'
  BY DEF OwnerInv, Spawning, Registered
<1> QED
  BY <1>1, <1>2, <1>3, <1>4, <1>5

\* A child loads its model, listens, drains, crashes or exits, or an unrelated
\* process takes or leaves a process id.
LEMMA ProcessStepKeeps ==
    ASSUME IInv, NEW c \in Pids, ProcessStep(c)
    PROVE  IInv'
<1>1. /\ UNCHANGED <<managerVars, pport, foreignOn>>
      /\ \E s \in ProcStates :
            /\ s # "shot"
            /\ s \in ChildStates <=> pstate[c] \in ChildStates
            /\ Becomes(c, s)
  <2> USE DEF ProcStates, ChildStates, LiveStates
  <2>1. CASE Startup(c)
    BY <2>1 DEF Startup, Arm, Listen, ExitEarly
  <2>2. CASE Drained(c) \/ Crash(c)
    BY <2>2 DEF Drained, Crash
  <2>3. CASE Recycle(c)
    BY <2>3 DEF Recycle
  <2> QED
    BY <2>1, <2>2, <2>3 DEF ProcessStep
<1>2. PICK s \in ProcStates :
        /\ s # "shot"
        /\ s \in ChildStates <=> pstate[c] \in ChildStates
        /\ pstate' = [pstate EXCEPT ![c] = s]
  BY <1>1 DEF Becomes
<1>3. /\ pstate' \in [Pids -> ProcStates]
      /\ \A d \in Pids : Unreaped(d)' <=> Unreaped(d)
      /\ \A d \in Pids : pstate'[d] = "shot" => pstate[d] = "shot"
  BY <1>2 DEF IInv, TypeOK, Unreaped
<1> QED
  BY <1>1, <1>3, ProcessKeeps DEF IInv, TypeOK

\* An unrelated process takes or leaves a port.
LEMMA ForeignPortKeeps ==
    ASSUME IInv, NEW p \in ForeignPorts, ForeignPort(p)
    PROVE  IInv'
<1>1. UNCHANGED <<managerVars, pstate, pport>> /\ foreignOn' \subseteq ForeignPorts
  BY DEF ForeignPort, IInv, TypeOK
<1> QED
  BY <1>1, ProcessKeeps DEF IInv, TypeOK, Unreaped

\* Every step of the server, of its children and of the rest of the system keeps
\* the inductive invariant.
LEMMA NextIInv == IInv /\ [Next]_vars => IInv'
<1> SUFFICES ASSUME IInv, [Next]_vars
             PROVE  IInv'
  OBVIOUS
<1>1. ASSUME NEW t \in Threads, ThreadStep(t)
      PROVE  IInv'
  BY <1>1, CallKeeps, AcquireKeeps, ReleaseKeeps, LookupHitKeeps, LookupFailsKeeps,
     PickPortKeeps, ForkFailsKeeps, ForkKeeps, PollHealthyKeeps, RegisterKeeps, PollMissKeeps,
     GiveUpKeeps, ReapFailedKeeps, PostAnsweredKeeps, PostFailsKeeps, StopOneKeeps,
     TermAllKeeps, StopBeginKeeps, GraceTickKeeps, GraceDeadKeeps, GraceOverKeeps,
     ReapKeeps, EraseKeeps
     DEF ThreadStep, InCall
<1>2. ASSUME NEW c \in Pids, ProcessStep(c)
      PROVE  IInv'
  BY <1>2, ProcessStepKeeps
<1>3. ASSUME NEW p \in ForeignPorts, ForeignPort(p)
      PROVE  IInv'
  BY <1>3, ForeignPortKeeps
<1>4. CASE UNCHANGED vars
  BY <1>4, ProcessKeeps DEF vars, procVars, managerVars, IInv, TypeOK, Unreaped
<1> QED
  BY <1>1, <1>2, <1>3, <1>4 DEF Next

-----------------------------------------------------------------------------
(* The theorems of the manager. *)

\* The strengthened invariant holds in every state of the manager, for any number
\* of threads, names, processes and ports.
THEOREM Invariance == Spec => []IInv
  BY InitIInv, NextIInv, PTL DEF Spec

\* Every variable of the manager, and every local of a call, keeps its type; the
\* polling loops of spawn_runner and stop_with_timeout stay within their bounds.
THEOREM TypeCorrect == Spec => []TypeOK
<1>1. IInv => TypeOK
  BY DEF IInv
<1> QED
  BY <1>1, Invariance, PTL

\* spawn_runner, stop_with_timeout and stop_all never signal a process that is not
\* a child of the server, although process ids are recycled once waited for.
THEOREM BystandersSafe == Spec => []NoBystander
<1>1. IInv => NoBystander
  BY DEF IInv
<1> QED
  BY <1>1, Invariance, PTL

\* Two entries of runners_ never denote the same process.
THEOREM PidsDistinct == Spec => []DistinctPids
<1>1. IInv => DistinctPids
  BY DEF IInv
<1> QED
  BY <1>1, Invariance, PTL

\* Whenever mtx_ is free, the children that were not waited for are exactly those
\* of the entries of runners_: spawn_runner, stop and stop_all leak no process.
THEOREM ChildrenAccounted == Spec => []NoLeak
<1>1. ASSUME IInv, lock = None
      PROVE  Children = {runners[n].pid : n \in {m \in Names : Registered(m)}}
  <2>1. \A t \in Threads : pc[t] \notin Critical
    BY <1>1, NoneAssumption DEF IInv, LockInv
  <2>2. \A n \in Names : ~Buried(n)
    BY <2>1 DEF Buried, Stopping, Critical
  <2>3. \A n \in Names : Registered(n) =>
          runners[n].pid \in Pids /\ Unreaped(runners[n].pid)
    BY <1>1, <2>2, RunnerLemma DEF IInv, TypeOK, EntryInv, Registered
  <2>4. \A c \in Pids : Unreaped(c) =>
          \E n \in Names : Registered(n) /\ runners[n].pid = c
    BY <1>1, <2>1 DEF IInv, OwnerInv, Spawning, Critical
  <2> QED
    BY <2>3, <2>4 DEF Children
<1>2. IInv => NoLeak
  BY <1>1 DEF NoLeak
<1> QED
  BY <1>2, Invariance, PTL

\* No call overwrites an entry of runners_ or erases one whose child was not
\* waited for.
THEOREM EntriesDisciplined == Spec => RegistryDiscipline
<1> DEFINE Discipline == \A n \in Names : Registered(n) =>
               \/ runners'[n] = runners[n]
               \/ runners'[n] = None /\ ~Unreaped(runners[n].pid)
<1>1. ASSUME IInv, NEW t \in Threads, Register(t)
      PROVE  Discipline
  BY <1>1 DEF Register, IInv, TypeOK, SpawnInv, Spawning, Registered
<1>2. ASSUME IInv, NEW t \in Threads, Erase(t)
      PROVE  Discipline
  <2>1. \A n \in Names : n \in Scope(t) => Buried(n)
    BY <1>2 DEF Erase, Buried, Stopping
  <2> QED
    BY <1>2, <2>1 DEF Erase, Scope, IInv, EntryInv
<1>3. ASSUME IInv, [Next]_vars, ~\E t \in Threads : Register(t) \/ Erase(t)
      PROVE  UNCHANGED runners
  <2>1. ASSUME NEW t \in Threads, ThreadStep(t), ~Register(t), ~Erase(t)
        PROVE  UNCHANGED runners
    BY <2>1
       DEF ThreadStep, InCall, Call, Acquire, Release, LookupHit, LookupFails,
           PickPort, ForkFails, Fork, PollHealthy, PollMiss, GiveUp, ReapFailed,
           PostAnswered, PostFails, StopOne, TermAll, StopBegin, GraceTick, GraceDead,
           GraceOver, Reap
  <2>2. ASSUME NEW c \in Pids, ProcessStep(c)
        PROVE  UNCHANGED runners
    BY <2>2 DEF ProcessStep, Startup, Arm, Listen, ExitEarly, Drained, Crash,
                Recycle, managerVars
  <2>3. ASSUME NEW p \in ForeignPorts, ForeignPort(p)
        PROVE  UNCHANGED runners
    BY <2>3 DEF ForeignPort, managerVars
  <2> QED
    BY <1>3, <2>1, <2>2, <2>3 DEF Next, vars
<1>4. IInv /\ [Next]_vars => Discipline
  BY <1>1, <1>2, <1>3
<1> QED
  BY <1>4, Invariance, PTL DEF Spec, RegistryDiscipline

-----------------------------------------------------------------------------
(* The manager implements the pool. *)

\* The adopted children of the pool are the children of the entries that are
\* not buried.
LEMMA PoolRegLemma ==
    ASSUME IInv, NEW n \in Names
    PROVE  /\ PoolReg[n] = IF Registered(n) /\ ~Buried(n) THEN runners[n].pid ELSE None
           /\ Registered(n) => runners[n].pid \in Pids /\ runners[n].pid # None
  BY RunnerLemma, NoneAssumption DEF PoolReg, IInv, TypeOK, EntryInv, Registered

\* A step that changes neither the entries nor who is a child stutters.
LEMMA PoolStutter ==
    ASSUME IInv, UNCHANGED runners,
           \A c \in Pids : Unreaped(c)' <=> Unreaped(c)
    PROVE  UNCHANGED <<PoolReg, Children>>
<1>1. \A n \in Names : Registered(n) => runners[n].pid \in Pids
  BY PoolRegLemma
<1> QED
  BY <1>1 DEF PoolReg, Children, Registered

\* spawn_process is the birth of a child of the pool.
LEMMA ForkRefines ==
    ASSUME IInv, NEW t \in Threads, Fork(t)
    PROVE  Pool!Next
<1>1. PICK c \in Pids :
        pstate[c] = "free" /\ pstate' = [pstate EXCEPT ![c] = "loading"]
  BY DEF Fork
<1>2. \A d \in Pids : Unreaped(d)' <=> Unreaped(d) \/ d = c
  BY <1>1 DEF IInv, TypeOK, Unreaped, ChildStates, LiveStates
<1>3. ~Unreaped(c)
  BY <1>1 DEF Unreaped, ChildStates, LiveStates
<1>4. \A u \in Threads : ~Spawning(u) /\ ~Stopping(u)
  BY DEF Fork, IInv, LockInv, Critical, Spawning, Stopping
<1>5. \A d \in Pids : Unreaped(d) => \E n \in Names : PoolReg[n] = d
  BY <1>4, PoolRegLemma DEF IInv, OwnerInv, Buried
<1>6. Pool!Unadopted = {}
  BY <1>5, NoneAssumption DEF Pool!Unadopted, Pool!Adopted, Children
<1>7. \A n \in Names : Registered(n) =>
        runners[n].pid \in Pids /\ Unreaped(runners[n].pid)
  BY <1>4, PoolRegLemma DEF IInv, EntryInv, Buried
<1>8. UNCHANGED PoolReg
  BY <1>2, <1>7 DEF PoolReg, Fork, Registered
<1>9. c \notin Children /\ Children' = Children \cup {c}
  BY <1>2, <1>3 DEF Children
<1> QED
  BY <1>6, <1>8, <1>9 DEF Pool!Next, Pool!Birth

\* Registering a healthy child adopts it.
LEMMA RegisterRefines ==
    ASSUME IInv, NEW t \in Threads, Register(t)
    PROVE  Pool!Next
<1> DEFINE m == op[t].name
           c == frame[t].child
<1>1. /\ m \in Names /\ ~Registered(m)
      /\ c \in Pids /\ Unreaped(c)
      /\ \A n \in Names : Registered(n) => runners[n].pid # c
      /\ frame[t].port \in Ports
  BY OpsLemma DEF Register, IInv, OpInv, SpawnInv, Spawning
<1>2. [pid |-> c, port |-> frame[t].port] \in Runner
  BY <1>1 DEF Runner
<1>3. /\ runners' = [runners EXCEPT ![m] = [pid |-> c, port |-> frame[t].port]]
      /\ \A d \in Pids : Unreaped(d)' <=> Unreaped(d)
  BY DEF Register, procVars, Unreaped
<1>4. PoolReg[m] = None /\ c \in Pool!Unadopted
  BY <1>1, PoolRegLemma, NoneAssumption
     DEF PoolReg, Pool!Unadopted, Pool!Adopted, Children
<1>5. PoolReg' = [PoolReg EXCEPT ![m] = c]
  <2>1. ASSUME NEW n \in Names, n # m
        PROVE  PoolReg'[n] = PoolReg[n]
    <3>1. runners'[n] = runners[n]
      BY <1>3, <2>1 DEF IInv, TypeOK
    <3> QED
      BY <1>3, <3>1, PoolRegLemma DEF PoolReg, Registered
  <2>2. PoolReg'[m] = c
    <3>1. runners'[m] = [pid |-> c, port |-> frame[t].port]
      BY <1>1, <1>3 DEF IInv, TypeOK
    <3> QED
      BY <1>1, <1>2, <1>3, <3>1, RunnerLemma DEF PoolReg, Registered
  <2> QED
    BY <1>1, <2>1, <2>2 DEF PoolReg
<1>6. UNCHANGED Children
  BY <1>3 DEF Children
<1> QED
  BY <1>1, <1>4, <1>5, <1>6 DEF Pool!Next, Pool!Adopt

\* Waiting for a child that was given up buries it.
LEMMA ReapFailedRefines ==
    ASSUME IInv, NEW t \in Threads, ReapFailed(t)
    PROVE  Pool!Next
<1> DEFINE c == frame[t].child
<1>1. /\ c \in Pids /\ Unreaped(c)
      /\ \A n \in Names : Registered(n) => runners[n].pid # c
  BY DEF ReapFailed, IInv, SpawnInv, Spawning
<1>2. \A d \in Pids : Unreaped(d)' <=> Unreaped(d) /\ d # c
  BY <1>1 DEF ReapFailed, IInv, TypeOK, Unreaped, ChildStates, LiveStates
<1>3. c \in Pool!Unadopted
  BY <1>1, NoneAssumption DEF PoolReg, Pool!Unadopted, Pool!Adopted, Children
<1>4. UNCHANGED PoolReg
  BY <1>1, <1>2, PoolRegLemma DEF PoolReg, ReapFailed, Registered
<1>5. Children' = Children \ {c}
  BY <1>2 DEF Children
<1> QED
  BY <1>1, <1>3, <1>4, <1>5 DEF Pool!Next, Pool!Bury

\* Waiting for the child of an entry retires the entry, which the code erases
\* later, before it releases mtx_.
LEMMA ReapRefines ==
    ASSUME IInv, NEW t \in Threads, Reap(t)
    PROVE  Pool!Next
<1> DEFINE m == frame[t].target
<1>1. m \in Names /\ Registered(m) /\ ~Buried(m)
  BY DEF Reap, IInv, TypeOK, Frame, LockInv, Critical, StopInv, Stopping, Buried
<1>2. /\ Victim(t) = runners[m].pid /\ Victim(t) \in Pids /\ Victim(t) # None
      /\ PoolReg[m] = Victim(t)
  BY <1>1, PoolRegLemma DEF Victim
<1>3. \A d \in Pids : Unreaped(d)' <=> Unreaped(d) /\ d # Victim(t)
  BY <1>2 DEF Reap, IInv, TypeOK, Unreaped, ChildStates, LiveStates
<1>4. \A n \in Names : Registered(n) /\ n # m => runners[n].pid # Victim(t)
  BY <1>1, <1>2 DEF IInv, DistinctPids
<1>5. PoolReg' = [PoolReg EXCEPT ![m] = None]
  <2>1. \A n \in Names : Registered(n) => runners[n].pid \in Pids
    BY PoolRegLemma
  <2> QED
    BY <1>1, <1>2, <1>3, <1>4, <2>1 DEF PoolReg, Reap, Registered
<1>6. Children' = Children \ {PoolReg[m]}
  BY <1>2, <1>3 DEF Children
<1> QED
  BY <1>1, <1>2, <1>5, <1>6 DEF Pool!Next, Pool!Retire

\* Erasing the entries of reaped children is invisible in the pool.
LEMMA EraseRefines ==
    ASSUME IInv, NEW t \in Threads, Erase(t)
    PROVE  UNCHANGED <<PoolReg, Children>>
<1>1. \A n \in Names : n \in Scope(t) => Buried(n)
  BY DEF Erase, Buried, Stopping
<1>2. \A n \in Names : n \in Scope(t) /\ Registered(n) => ~Unreaped(runners[n].pid)
  BY <1>1 DEF IInv, EntryInv
<1>3. /\ runners' = [n \in Names |-> IF n \in Scope(t) THEN None ELSE runners[n]]
      /\ UNCHANGED pstate
  BY DEF Erase, Scope, procVars
<1> QED
  BY <1>2, <1>3 DEF PoolReg, Children, Unreaped, Registered

\* RunnerManager, with its mutex, polling, signals and ports, implements the pool
\* of children of RunnerPool.
THEOREM Refinement == Spec => ImplementsPool
<1>1. Init => Pool!Init
  BY NoneAssumption
     DEF Init, Pool!Init, PoolReg, Children, Registered, Unreaped, ChildStates, LiveStates
<1>2. ASSUME IInv, NEW t \in Threads, ThreadStep(t)
      PROVE  [Pool!Next]_(Pool!vars)
  <2>1. CASE Fork(t) \/ Register(t) \/ ReapFailed(t) \/ Reap(t)
    BY <1>2, <2>1, ForkRefines, RegisterRefines, ReapFailedRefines, ReapRefines
  <2>2. CASE Erase(t)
    BY <1>2, <2>2, EraseRefines DEF Pool!vars
  <2>3. CASE GiveUp(t) \/ TermAll(t) \/ StopBegin(t) \/ GraceOver(t)
    <3>1. UNCHANGED runners
      BY <2>3 DEF GiveUp, TermAll, StopBegin, GraceOver
    <3>2. \A c \in Pids : \/ pstate'[c] = pstate[c]
                          \/ pstate'[c] = SigTerm(pstate[c])
                          \/ pstate'[c] = SigKill(pstate[c])
      <4> USE DEF IInv, TypeOK
      <4>1. CASE GiveUp(t)
        BY <1>2, <4>1 DEF GiveUp
      <4>2. CASE TermAll(t)
        BY <1>2, <4>2 DEF TermAll
      <4>3. CASE StopBegin(t)
        BY <1>2, <4>3 DEF StopBegin
      <4>4. CASE GraceOver(t)
        BY <1>2, <4>4 DEF GraceOver
      <4> QED
        BY <2>3, <4>1, <4>2, <4>3, <4>4
    <3>3. \A c \in Pids : Unreaped(c)' <=> Unreaped(c)
      BY <1>2, <3>2, SigTermLemma, SigKillLemma DEF IInv, TypeOK, Unreaped
    <3> QED
      BY <1>2, <3>1, <3>3, PoolStutter DEF Pool!vars
  <2>4. CASE \/ Call(t) \/ Acquire(t) \/ Release(t) \/ LookupHit(t) \/ LookupFails(t)
             \/ PickPort(t) \/ ForkFails(t) \/ PollHealthy(t) \/ PollMiss(t)
             \/ PostAnswered(t) \/ PostFails(t) \/ StopOne(t) \/ GraceTick(t) \/ GraceDead(t)
    <3>1. UNCHANGED <<runners, pstate>>
      BY <2>4 DEF Call, Acquire, Release, LookupHit, LookupFails, PickPort, ForkFails,
                  PollHealthy, PollMiss, PostAnswered, PostFails, StopOne, GraceTick, GraceDead,
                  procVars
    <3> QED
      BY <1>2, <3>1, PoolStutter DEF Pool!vars, Unreaped
  <2> QED
    BY <1>2, <2>1, <2>2, <2>3, <2>4 DEF ThreadStep, InCall
<1>3. ASSUME IInv, NEW c \in Pids, ProcessStep(c)
      PROVE  UNCHANGED Pool!vars
  <2>1. UNCHANGED runners /\ \A d \in Pids : Unreaped(d)' <=> Unreaped(d)
    BY <1>3 DEF ProcessStep, Startup, Arm, Listen, ExitEarly, Drained, Crash, Recycle,
                Becomes, managerVars, IInv, TypeOK, Unreaped, ChildStates, LiveStates
  <2> QED
    BY <1>3, <2>1, PoolStutter DEF Pool!vars
<1>4. ASSUME IInv, (\E p \in ForeignPorts : ForeignPort(p)) \/ UNCHANGED vars
      PROVE  UNCHANGED Pool!vars
  <2>1. UNCHANGED <<runners, pstate>>
    BY <1>4 DEF ForeignPort, managerVars, vars, procVars
  <2> QED
    BY <1>4, <2>1, PoolStutter DEF Pool!vars, Unreaped
<1>5. IInv /\ [Next]_vars => [Pool!Next]_(Pool!vars)
  BY <1>2, <1>3, <1>4 DEF Next
<1> QED
  BY <1>1, <1>5, Invariance, PTL DEF Spec, ImplementsPool, Pool!Spec

-----------------------------------------------------------------------------
(* Who serves the port of a runner.  A port that unrelated processes do not *)
(* take is given to a child while nobody listens on it, and until that      *)
(* child is registered nobody else can start to.                            *)

Own(p) == p \notin ForeignPorts

\* The port of the runner to be spawned is still free, and then its child is
\* the only one that may listen on it.
ForkInv == \A t \in Threads :
    pc[t] = "fork" /\ Own(frame[t].port) => Listeners(frame[t].port) = {}

ChildInv == \A t \in Threads : Spawning(t) =>
    /\ pport[frame[t].child] = frame[t].port
    /\ Own(frame[t].port) => Listeners(frame[t].port) \subseteq {frame[t].child}

\* The port of an entry is that of its child, which has begun to serve it.
EntryPortInv == \A n \in Names : Registered(n) /\ Unreaped(runners[n].pid) =>
    /\ pport[runners[n].pid] = runners[n].port
    /\ Own(runners[n].port) => pstate[runners[n].pid] \notin {"loading", "armed"}

\* No two children serve the same port.
UniqueInv == \A c, d \in Pids :
    /\ pstate[c] = "serving" /\ pstate[d] = "serving"
    /\ pport[c] = pport[d] /\ Own(pport[c])
    => c = d

PortsInv == ForkInv /\ ChildInv /\ EntryPortInv /\ UniqueInv

\* A child about to be registered is the process that answered on its port, which
\* at most has died since: nobody signals it while the mutex is held.
VouchInv == \A t \in Threads : pc[t] = "register" /\ Own(frame[t].port) =>
    /\ frame[t].by = frame[t].child
    /\ pstate[frame[t].child] \in {"serving", "zombie"}

\* What kind of call is where.
KindInv == \A t \in Threads :
    /\ pc[t] = "fork" \/ Spawning(t) => Starts(op[t])
    /\ Stopping(t) => op[t].kind \in {"stop", "stop_all"}
    /\ pc[t] = "post" => op[t].kind \in {"infer", "health"} /\ Registered(op[t].name)

\* ServingAnswersItself, and that the entry is still there.
AnswerInv == \A t \in Threads : Answered(t) =>
    /\ Registered(op[t].name)
    /\ LET r == runners[op[t].name]
       IN  frame[t].by = r.pid \/ r.pid \notin Listeners(r.port) \/ r.port \in ForeignPorts

ServingInv == PortsInv /\ VouchInv /\ KindInv /\ AnswerInv

\* A signal neither arms a child nor makes it serve.
LEMMA SignalsFade ==
    ASSUME NEW s \in ProcStates
    PROVE  /\ SigTerm(s) \in {"loading", "armed", "serving"} => SigTerm(s) = s
           /\ SigKill(s) \in {"loading", "armed", "serving"} => SigKill(s) = s
  BY SetsAssumption DEF SigTerm, PosixTerm, WindowsTerm, SigKill, ProcStates, ChildStates,
     LiveStates

\* No process loads, arms or serves that has not done so before.
Fades == \A c \in Pids :
    /\ pstate'[c] \in {"loading", "armed", "serving"} => pstate'[c] = pstate[c]
    /\ Unreaped(c)' => Unreaped(c) /\ pport'[c] = pport[c]

\* No thread begins to spawn, and those that spawn go on with the same child.
SameSpawns == \A t \in Threads :
    /\ pc'[t] = "fork" => pc[t] = "fork" /\ frame'[t].port = frame[t].port
    /\ Spawning(t)' => Spawning(t) /\ frame'[t].port = frame[t].port
                                   /\ frame'[t].child = frame[t].child

LEMMA FadeKeepsPorts ==
    ASSUME IInv, IInv', PortsInv, Fades, SameSpawns, UNCHANGED runners
    PROVE  PortsInv'
<1>1. /\ \A p : Listeners(p)' \subseteq Listeners(p)
      /\ \A c \in Pids : pstate'[c] = "serving" => pstate[c] = "serving" /\ pport'[c] = pport[c]
  BY DEF Fades, Listeners, Unreaped, ChildStates, LiveStates
<1>2. ForkInv'
  BY <1>1 DEF PortsInv, ForkInv, SameSpawns, Own
<1>3. ChildInv'
  <2> SUFFICES ASSUME NEW t \in Threads, Spawning(t)'
               PROVE  (/\ pport[frame[t].child] = frame[t].port
                       /\ Own(frame[t].port) =>
                            Listeners(frame[t].port) \subseteq {frame[t].child})'
    BY DEF ChildInv
  <2>1. Spawning(t) /\ frame'[t].port = frame[t].port /\ frame'[t].child = frame[t].child
    BY DEF SameSpawns
  <2>2. frame[t].child \in Pids
    BY <2>1 DEF IInv, SpawnInv
  <2>3. Unreaped(frame[t].child)'
    BY DEF IInv, SpawnInv
  <2>4. pport'[frame[t].child] = pport[frame[t].child]
    BY <2>1, <2>2, <2>3 DEF Fades, Unreaped
  <2>5. /\ pport[frame[t].child] = frame[t].port
        /\ Own(frame[t].port) => Listeners(frame[t].port) \subseteq {frame[t].child}
    BY <2>1 DEF PortsInv, ChildInv
  <2> QED
    BY <1>1, <2>1, <2>4, <2>5 DEF Own, Listeners
<1>4. EntryPortInv'
  <2> SUFFICES ASSUME NEW n \in Names, Registered(n), Unreaped(runners[n].pid)'
               PROVE  (/\ pport[runners[n].pid] = runners[n].port
                       /\ Own(runners[n].port) =>
                            pstate[runners[n].pid] \notin {"loading", "armed"})'
    BY DEF EntryPortInv, Registered
  <2>1. runners[n].pid \in Pids
    BY RunnerLemma DEF IInv, TypeOK, Registered
  <2>2. Unreaped(runners[n].pid) /\ pport'[runners[n].pid] = pport[runners[n].pid]
    BY <2>1 DEF Fades, Unreaped
  <2> QED
    BY <2>1, <2>2 DEF Fades, PortsInv, EntryPortInv, Own
<1>5. UniqueInv'
  BY <1>1 DEF PortsInv, UniqueInv, Own
<1> QED
  BY <1>2, <1>3, <1>4, <1>5 DEF PortsInv

\* A call that does not spawn, register or erase a runner.
LEMMA CallsFade ==
    ASSUME IInv, NEW t \in Threads,
           \/ Call(t) \/ Acquire(t) \/ Release(t) \/ LookupHit(t) \/ LookupFails(t)
           \/ ForkFails(t) \/ PollHealthy(t) \/ PollMiss(t) \/ GiveUp(t) \/ ReapFailed(t)
           \/ PostAnswered(t) \/ PostFails(t) \/ StopOne(t) \/ TermAll(t) \/ StopBegin(t)
           \/ GraceTick(t) \/ GraceDead(t) \/ GraceOver(t) \/ Reap(t)
    PROVE  Fades /\ SameSpawns /\ UNCHANGED runners
<1>1. TypeOK /\ SpawnInv
  BY DEF IInv
<1>2. CASE \/ Call(t) \/ Acquire(t) \/ Release(t) \/ LookupHit(t) \/ LookupFails(t)
           \/ ForkFails(t) \/ PostFails(t) \/ StopOne(t) \/ GraceTick(t) \/ GraceDead(t)
  BY <1>1, <1>2 DEF TypeOK, Call, Acquire, Release, LookupHit, LookupFails, ForkFails,
     PostFails, StopOne, GraceTick, GraceDead, Return, Goto, procVars, Fades, SameSpawns,
     Spawning, Unreaped
<1>3. CASE PollMiss(t)
  <2>1. /\ frame' = [frame EXCEPT ![t].tries = @ + 1]
        /\ UNCHANGED <<pc, runners, pstate, pport>>
    BY <1>3 DEF PollMiss, procVars
  <2>2. \A u \in Threads : frame'[u].port = frame[u].port /\ frame'[u].child = frame[u].child
    BY <1>1, <2>1 DEF TypeOK, Frame
  <2> QED
    BY <2>1, <2>2 DEF Fades, SameSpawns, Spawning, Unreaped
<1>4. CASE PostAnswered(t)
  BY <1>1, <1>4 DEF TypeOK, PostAnswered, Goto, procVars, Fades, SameSpawns, Spawning, Unreaped
<1>10. CASE PollHealthy(t)
  <2>1. PICK q \in Pids \cup {None} : frame' = [frame EXCEPT ![t].by = q]
    BY <1>10 DEF PollHealthy, Answerers, Listeners
  <2>2. /\ UNCHANGED <<runners, pstate, pport>>
        /\ pc[t] = "poll" /\ pc' = [pc EXCEPT ![t] = "register"]
    BY <1>10 DEF PollHealthy, Goto, procVars
  <2>3. \A u \in Threads : frame'[u].port = frame[u].port /\ frame'[u].child = frame[u].child
    BY <1>1, <2>1 DEF TypeOK, Frame
  <2> QED
    BY <1>1, <2>2, <2>3 DEF TypeOK, Fades, SameSpawns, Spawning, Unreaped
<1>5. CASE GiveUp(t)
  <2>1. /\ pstate' = [pstate EXCEPT ![frame[t].child] = SigTerm(@)]
        /\ UNCHANGED <<frame, runners, pport>> /\ pc[t] = "poll"
        /\ pc' = [pc EXCEPT ![t] = "unspawn"]
    BY <1>5 DEF GiveUp, Goto
  <2>2. \A c \in Pids : pstate'[c] = pstate[c] \/ pstate'[c] = SigTerm(pstate[c])
    BY <1>1, <2>1 DEF TypeOK
  <2>3. Fades
    BY <1>1, <2>1, <2>2, SignalsFade, SigTermLemma DEF TypeOK, Fades, Unreaped
  <2> QED
    BY <1>1, <2>1, <2>3 DEF TypeOK, SameSpawns, Spawning
<1>6. CASE ReapFailed(t)
  <2>1. /\ pstate' = [pstate EXCEPT ![frame[t].child] = "free"]
        /\ pport' = [pport EXCEPT ![frame[t].child] = None]
        /\ UNCHANGED runners /\ pc' = [pc EXCEPT ![t] = "return"]
        /\ frame' = [frame EXCEPT ![t].res = "error"]
    BY <1>6 DEF ReapFailed, Return, Goto
  <2>2. Fades
    BY <1>1, <2>1 DEF TypeOK, Fades, Unreaped, ChildStates, LiveStates
  <2> QED
    BY <1>1, <2>1, <2>2 DEF TypeOK, SameSpawns, Spawning
<1>7. CASE TermAll(t)
  <2>1. /\ \A c \in Pids : pstate'[c] = pstate[c] \/ pstate'[c] = SigTerm(pstate[c])
        /\ UNCHANGED <<runners, pport>> /\ pc' = [pc EXCEPT ![t] = "sweep"]
        /\ \A u \in Threads : u # t => frame'[u] = frame[u]
    BY <1>1, <1>7 DEF TermAll, Goto, TypeOK
  <2>2. Fades
    BY <1>1, <2>1, SignalsFade, SigTermLemma DEF TypeOK, Fades, Unreaped
  <2> QED
    BY <1>1, <2>1, <2>2 DEF TypeOK, SameSpawns, Spawning
<1>8. CASE StopBegin(t) \/ GraceOver(t)
  <2>0. \E p : \/ pstate' = [pstate EXCEPT ![p] = SigTerm(@)]
               \/ pstate' = [pstate EXCEPT ![p] = SigKill(@)]
    BY <1>8 DEF StopBegin, GraceOver
  <2>1. /\ \A c \in Pids : pstate'[c] \in {pstate[c], SigTerm(pstate[c]), SigKill(pstate[c])}
        /\ UNCHANGED <<runners, pport>>
        /\ pc' = [pc EXCEPT ![t] = "grace"] \/ pc' = [pc EXCEPT ![t] = "reap"]
        /\ \A u \in Threads : u # t => frame'[u] = frame[u]
    BY <1>1, <1>8, <2>0 DEF StopBegin, GraceOver, Goto, TypeOK
  <2>2. Fades
    BY <1>1, <2>1, SignalsFade, SigTermLemma, SigKillLemma DEF TypeOK, Fades, Unreaped
  <2> QED
    BY <1>1, <2>1, <2>2 DEF TypeOK, SameSpawns, Spawning
<1>9. CASE Reap(t)
  <2>1. /\ pstate' = [pstate EXCEPT ![Victim(t)] = "free"]
        /\ pport' = [pport EXCEPT ![Victim(t)] = None]
        /\ UNCHANGED runners /\ pc' = [pc EXCEPT ![t] = "sweep"]
        /\ \A u \in Threads : u # t => frame'[u] = frame[u]
    BY <1>1, <1>9 DEF Reap, Goto, TypeOK
  <2>2. Fades
    BY <1>1, <2>1 DEF TypeOK, Fades, Unreaped, ChildStates, LiveStates
  <2> QED
    BY <1>1, <2>1, <2>2 DEF TypeOK, SameSpawns, Spawning
<1> QED
  BY <1>2, <1>3, <1>4, <1>5, <1>6, <1>7, <1>8, <1>9, <1>10

\* The holder of the mutex is the only one that spawns, stops, sends a request or
\* returns.
LEMMA HolderAlone ==
    ASSUME IInv, NEW t \in Threads, NEW u \in Threads, u # t, pc[t] \in Critical
    PROVE  pc[u] \notin Critical /\ pc[u] # "fork" /\ ~Spawning(u) /\ ~Stopping(u)
  BY DEF IInv, LockInv, Critical, Spawning, Stopping

\* A port is picked on which nobody listens.
LEMMA PickPortKeepsPorts ==
    ASSUME IInv, IInv', PortsInv, NEW t \in Threads, PickPort(t)
    PROVE  PortsInv'
<1>1. PICK p \in Ports : IsFreePort(p) /\ frame' = [frame EXCEPT ![t].port = p]
  BY DEF PickPort
<1>2. /\ pc[t] = "enter" /\ pc' = [pc EXCEPT ![t] = "fork"]
      /\ UNCHANGED <<runners, pstate, pport>>
  BY DEF PickPort, Goto, procVars
<1>3. \A u \in Threads : u # t => ~Spawning(u) /\ pc[u] # "fork" /\ pc'[u] = pc[u]
  BY <1>2, HolderAlone DEF Critical, IInv, TypeOK
<1>4. pc'[t] = "fork" /\ frame'[t].port = p
  BY <1>1, <1>2 DEF IInv, TypeOK, Frame
<1>5. ForkInv'
  BY <1>1, <1>2, <1>3, <1>4 DEF ForkInv, IsFreePort, Listeners
<1>6. ChildInv'
  BY <1>2, <1>3, <1>4 DEF ChildInv, Spawning
<1>7. EntryPortInv' /\ UniqueInv'
  BY <1>2 DEF PortsInv, EntryPortInv, UniqueInv, Registered, Unreaped, Own
<1> QED
  BY <1>5, <1>6, <1>7 DEF PortsInv

\* The child gets the port, and its id is that of no entry.
LEMMA ForkKeepsPorts ==
    ASSUME IInv, IInv', PortsInv, NEW t \in Threads, Fork(t)
    PROVE  PortsInv'
<1>1. PICK c \in Pids :
        /\ pstate[c] = "free"
        /\ pstate' = [pstate EXCEPT ![c] = "loading"]
        /\ pport' = [pport EXCEPT ![c] = frame[t].port]
        /\ frame' = [frame EXCEPT ![t].child = c, ![t].tries = 0]
  BY DEF Fork
<1>2. pc[t] = "fork" /\ pc' = [pc EXCEPT ![t] = "poll"] /\ UNCHANGED runners
  BY DEF Fork, Goto
<1>3. \A u \in Threads : u # t => ~Spawning(u) /\ pc[u] # "fork" /\ pc'[u] = pc[u]
  BY <1>2, HolderAlone DEF Critical, IInv, TypeOK
<1>4. /\ pc'[t] = "poll" /\ frame'[t].port = frame[t].port /\ frame'[t].child = c
      /\ pstate'[c] = "loading" /\ pport'[c] = frame[t].port
      /\ \A d \in Pids : d # c => pstate'[d] = pstate[d] /\ pport'[d] = pport[d]
  BY <1>1, <1>2 DEF IInv, TypeOK, Frame
<1>5. \A p : Listeners(p)' \subseteq Listeners(p)
  BY <1>4 DEF Listeners
<1>6. ForkInv'
  BY <1>2, <1>3, <1>4 DEF ForkInv
<1>7. ChildInv'
  <2>1. Own(frame[t].port) => Listeners(frame[t].port) = {}
    BY <1>2 DEF PortsInv, ForkInv
  <2>2. Own(frame[t].port) => \A d \in Pids : ~(pstate'[d] = "serving" /\ pport'[d] = frame[t].port)
    BY <1>4, <2>1 DEF Listeners
  <2> QED
    BY <1>3, <1>4, <2>2 DEF ChildInv, Spawning, Own, Listeners
<1>8. EntryPortInv'
  <2> SUFFICES ASSUME NEW n \in Names, Registered(n), Unreaped(runners[n].pid)'
               PROVE  (/\ pport[runners[n].pid] = runners[n].port
                       /\ Own(runners[n].port) =>
                            pstate[runners[n].pid] \notin {"loading", "armed"})'
    BY <1>2 DEF EntryPortInv, Registered, Unreaped
  <2>1. runners[n].pid \in Pids
    BY RunnerLemma DEF IInv, TypeOK, Registered
  <2>2. ~Buried(n)
    BY <1>2, HolderAlone DEF Buried, Stopping, Critical
  <2>3. Unreaped(runners[n].pid)
    BY <2>2 DEF IInv, EntryInv
  <2>4. runners[n].pid # c
    BY <1>1, <2>3 DEF Unreaped, ChildStates, LiveStates
  <2> QED
    BY <1>2, <1>4, <2>1, <2>3, <2>4 DEF PortsInv, EntryPortInv, Own
<1>9. UniqueInv'
  BY <1>4 DEF PortsInv, UniqueInv, Own
<1> QED
  BY <1>6, <1>7, <1>8, <1>9 DEF PortsInv

\* The child registered is the one that answered: it has begun to serve.
LEMMA RegisterKeepsPorts ==
    ASSUME IInv, IInv', PortsInv, VouchInv, NEW t \in Threads, Register(t)
    PROVE  PortsInv'
<1>1. /\ pc[t] = "register" /\ UNCHANGED <<op, pstate, pport>>
      /\ pc' = [pc EXCEPT ![t] = "post"] \/ pc' = [pc EXCEPT ![t] = "return"]
      /\ runners' = [runners EXCEPT ![op[t].name] =
                       [pid |-> frame[t].child, port |-> frame[t].port]]
      /\ op[t].name \in Names
  BY OpsLemma DEF Register, Goto, Return, procVars, IInv, OpInv
<1>2. \A u \in Threads : u # t => ~Spawning(u) /\ pc[u] # "fork" /\ pc'[u] = pc[u]
  BY <1>1, HolderAlone DEF Critical, IInv, TypeOK
<1>3. pc'[t] \notin {"fork", "poll", "register", "unspawn"}
  BY <1>1 DEF IInv, TypeOK
<1>4. ForkInv' /\ ChildInv'
  BY <1>2, <1>3 DEF ForkInv, ChildInv, Spawning
<1>5. UniqueInv'
  BY <1>1 DEF PortsInv, UniqueInv, Own
<1>6. EntryPortInv'
  <2> SUFFICES ASSUME NEW n \in Names, Registered(n)', Unreaped(runners[n].pid)'
               PROVE  (/\ pport[runners[n].pid] = runners[n].port
                       /\ Own(runners[n].port) =>
                            pstate[runners[n].pid] \notin {"loading", "armed"})'
    BY DEF EntryPortInv
  <2>1. CASE n = op[t].name
    <3>1. runners'[n].pid = frame[t].child /\ runners'[n].port = frame[t].port
      BY <1>1, <2>1 DEF IInv, TypeOK
    <3>2. pport[frame[t].child] = frame[t].port
      BY <1>1 DEF PortsInv, ChildInv, Spawning
    <3>3. Own(frame[t].port) => pstate[frame[t].child] \in {"serving", "zombie"}
      BY <1>1 DEF VouchInv
    <3> QED
      BY <1>1, <3>1, <3>2, <3>3 DEF Own
  <2>2. CASE n # op[t].name
    <3>1. runners'[n] = runners[n]
      BY <1>1, <2>2 DEF IInv, TypeOK
    <3> QED
      BY <1>1, <3>1 DEF PortsInv, EntryPortInv, Registered, Unreaped, Own
  <2> QED
    BY <2>1, <2>2
<1> QED
  BY <1>4, <1>5, <1>6 DEF PortsInv

LEMMA EraseKeepsPorts ==
    ASSUME IInv, IInv', PortsInv, NEW t \in Threads, Erase(t)
    PROVE  PortsInv'
<1>1. /\ pc[t] = "sweep" /\ pc' = [pc EXCEPT ![t] = "return"] /\ UNCHANGED <<pstate, pport>>
      /\ \A n \in Names : runners'[n] = runners[n] \/ runners'[n] = None
  BY DEF Erase, Return, Goto, procVars
<1>2. \A u \in Threads : u # t => ~Spawning(u) /\ pc[u] # "fork" /\ pc'[u] = pc[u]
  BY <1>1, HolderAlone DEF Critical, IInv, TypeOK
<1>3. pc'[t] = "return"
  BY <1>1 DEF IInv, TypeOK
<1>4. ForkInv' /\ ChildInv'
  BY <1>2, <1>3 DEF ForkInv, ChildInv, Spawning
<1>5. EntryPortInv' /\ UniqueInv'
  BY <1>1 DEF PortsInv, EntryPortInv, UniqueInv, Own, Registered, Unreaped
<1> QED
  BY <1>4, <1>5 DEF PortsInv

\* A child that was armed is the one that is being spawned, unless unrelated
\* processes can take its port.
LEMMA ProcessKeepsPorts ==
    ASSUME IInv, IInv', PortsInv, NEW c \in Pids, ProcessStep(c)
    PROVE  PortsInv'
<1>1. /\ UNCHANGED <<pc, op, frame, runners, pport>> /\ TypeOK
      /\ \A d \in Pids : d # c => pstate'[d] = pstate[d]
  BY DEF ProcessStep, Startup, Arm, Listen, ExitEarly, Drained, Crash, Recycle, Becomes,
         managerVars, IInv, TypeOK
<1>2. CASE ExitEarly(c) \/ Drained(c) \/ Crash(c) \/ Recycle(c)
  <2>1. pstate'[c] \in {"zombie", "foreign", "free"} /\ (Unreaped(c)' => Unreaped(c))
    BY <1>1, <1>2 DEF ExitEarly, Drained, Crash, Recycle, Becomes, TypeOK, Unreaped,
       ChildStates, LiveStates
  <2>2. Fades /\ SameSpawns
    BY <1>1, <2>1 DEF Fades, SameSpawns, Spawning, Unreaped
  <2> QED
    BY <1>1, <2>2, FadeKeepsPorts
<1>3. CASE Arm(c) \/ Listen(c)
  <2>1. /\ pstate[c] \in {"loading", "armed"} /\ pstate'[c] \in {"armed", "serving"}
        /\ \A d \in Pids : Unreaped(d)' <=> Unreaped(d)
        /\ Unreaped(c)
    BY <1>1, <1>3 DEF Arm, Listen, Becomes, TypeOK, Unreaped, ChildStates, LiveStates
  <2>2. \A n \in Names : Registered(n) /\ runners[n].pid = c =>
          pport[c] = runners[n].port /\ ~Own(pport[c])
    BY <2>1 DEF PortsInv, EntryPortInv
  <2>3. \A t \in Threads : pc[t] = "fork" => ~Own(pport[c])
    <3> SUFFICES ASSUME NEW t \in Threads, pc[t] = "fork"
                 PROVE  ~Own(pport[c])
      OBVIOUS
    <3>1. \A u \in Threads : ~Spawning(u)
      BY HolderAlone DEF Critical, Spawning
    <3>2. \E n \in Names : Registered(n) /\ runners[n].pid = c
      BY <2>1, <3>1 DEF IInv, OwnerInv
    <3> QED
      BY <2>2, <3>2
  <2>4. \A t \in Threads : Spawning(t) /\ Own(pport[c]) => frame[t].child = c
    <3> SUFFICES ASSUME NEW t \in Threads, Spawning(t), Own(pport[c])
                 PROVE  frame[t].child = c
      OBVIOUS
    <3>1. PICK u \in Threads : Spawning(u) /\ frame[u].child = c
      BY <2>1, <2>2 DEF IInv, OwnerInv
    <3>2. u = t
      BY <3>1, HolderAlone DEF Critical, Spawning
    <3> QED
      BY <3>1, <3>2
  <2>5. \A p : \A d \in Listeners(p)' : d \in Listeners(p) \/ (d = c /\ p = pport[c])
    BY <1>1 DEF Listeners
  <2>6. ForkInv'
    <3> SUFFICES ASSUME NEW t \in Threads, pc[t] = "fork", Own(frame[t].port)
                 PROVE  Listeners(frame[t].port)' = {}
      BY <1>1 DEF ForkInv, Own, Listeners
    <3>1. Listeners(frame[t].port) = {} /\ frame[t].port # pport[c]
      BY <2>3 DEF PortsInv, ForkInv
    <3> QED
      BY <1>1, <3>1 DEF Listeners
  <2>7. ChildInv'
    <3> SUFFICES ASSUME NEW t \in Threads, Spawning(t)
                 PROVE  /\ pport[frame[t].child] = frame[t].port
                        /\ Own(frame[t].port) =>
                             {d \in Pids : pstate'[d] = "serving" /\ pport[d] = frame[t].port}
                               \subseteq {frame[t].child}
      BY <1>1 DEF ChildInv, Spawning, Own, Listeners
    <3>1. /\ pport[frame[t].child] = frame[t].port
          /\ Own(frame[t].port) => Listeners(frame[t].port) \subseteq {frame[t].child}
      BY DEF PortsInv, ChildInv
    <3> QED
      BY <1>1, <2>4, <3>1 DEF Listeners
  <2>8. EntryPortInv'
    <3> SUFFICES ASSUME NEW n \in Names, Registered(n), Unreaped(runners[n].pid)'
                 PROVE  (/\ pport[runners[n].pid] = runners[n].port
                         /\ Own(runners[n].port) =>
                              pstate[runners[n].pid] \notin {"loading", "armed"})'
      BY <1>1 DEF EntryPortInv, Registered
    <3>1. runners[n].pid \in Pids
      BY <1>1, RunnerLemma DEF TypeOK, Registered
    <3>2. Unreaped(runners[n].pid)
      BY <1>1, <2>1, <3>1 DEF Unreaped
    <3>3. CASE runners[n].pid = c
      BY <1>1, <2>2, <3>3 DEF Own
    <3>4. CASE runners[n].pid # c
      BY <1>1, <3>1, <3>2, <3>4 DEF PortsInv, EntryPortInv, Own
    <3> QED
      BY <3>3, <3>4
  <2>9. UniqueInv'
    <3>1. ASSUME NEW d \in Pids, d # c, pstate'[c] = "serving", pstate[d] = "serving",
                 pport[c] = pport[d], Own(pport[c])
          PROVE  FALSE
      <4>1. PICK t \in Threads : Spawning(t) /\ frame[t].child = c
        BY <2>1, <2>2, <3>1 DEF IInv, OwnerInv
      <4>2. frame[t].port = pport[c] /\ Listeners(frame[t].port) \subseteq {c}
        BY <3>1, <4>1 DEF PortsInv, ChildInv
      <4> QED
        BY <3>1, <4>2 DEF Listeners
    <3> QED
      BY <1>1, <3>1 DEF PortsInv, UniqueInv, Own
  <2> QED
    BY <2>6, <2>7, <2>8, <2>9 DEF PortsInv
<1> QED
  BY <1>2, <1>3 DEF ProcessStep, Startup

LEMMA NextPorts == IInv /\ IInv' /\ PortsInv /\ VouchInv /\ [Next]_vars => PortsInv'
<1> SUFFICES ASSUME IInv, IInv', PortsInv, VouchInv, [Next]_vars
             PROVE  PortsInv'
  OBVIOUS
<1>1. ASSUME NEW t \in Threads, ThreadStep(t)
      PROVE  PortsInv'
  <2>1. CASE PickPort(t) \/ Fork(t) \/ Register(t) \/ Erase(t)
    BY <2>1, PickPortKeepsPorts, ForkKeepsPorts, RegisterKeepsPorts, EraseKeepsPorts
  <2>2. CASE ~(PickPort(t) \/ Fork(t) \/ Register(t) \/ Erase(t))
    BY <1>1, <2>2, CallsFade, FadeKeepsPorts DEF ThreadStep, InCall
  <2> QED
    BY <2>1, <2>2
<1>2. ASSUME NEW c \in Pids, ProcessStep(c)
      PROVE  PortsInv'
  BY <1>2, ProcessKeepsPorts
<1>3. CASE UNCHANGED vars \/ \E p \in ForeignPorts : ForeignPort(p)
  <2>1. UNCHANGED <<pc, op, frame, runners, pstate, pport>>
    BY <1>3 DEF vars, procVars, ForeignPort, managerVars
  <2>2. Fades /\ SameSpawns
    BY <2>1 DEF Fades, SameSpawns, Spawning, Unreaped
  <2> QED
    BY <2>1, <2>2, FadeKeepsPorts
<1> QED
  BY <1>1, <1>2, <1>3 DEF Next

-----------------------------------------------------------------------------
(* What kind of call is where, and who has answered. *)

\* While a thread is in its critical section, another one can only call the
\* manager and wait.
LEMMA OthersWait ==
    ASSUME IInv, NEW t \in Threads, ThreadStep(t)
    PROVE  /\ \A u \in Threads : u # t =>
                pc'[u] = pc[u] /\ op'[u] = op[u] /\ frame'[u] = frame[u]
           /\ pc[t] \in Critical \/ UNCHANGED <<frame, runners, procVars>>
<1>1. TypeOK
  BY DEF IInv
<1>2. CASE Call(t) \/ Acquire(t)
  BY <1>1, <1>2 DEF TypeOK, Call, Acquire, Goto
<1>3. CASE Release(t)
  BY <1>1, <1>3 DEF TypeOK, Release, Goto, Critical
<1>4. CASE InCall(t) /\ ~Release(t)
  <2>1. op' = op /\ \A u \in Threads : u # t => pc'[u] = pc[u]
    BY <1>1, <1>4 DEF TypeOK, InCall, LookupHit, LookupFails, PickPort, ForkFails, Fork,
       PollHealthy, Register, PollMiss, GiveUp, ReapFailed, PostAnswered, PostFails, StopOne,
       TermAll, StopBegin, GraceTick, GraceDead, GraceOver, Reap, Erase, Return, Goto
  <2>2. pc[t] \in Critical
    BY <1>4 DEF Critical, InCall, LookupHit, LookupFails, PickPort, ForkFails, Fork,
       PollHealthy, Register, PollMiss, GiveUp, ReapFailed, PostAnswered, PostFails, StopOne,
       TermAll, StopBegin, GraceTick, GraceDead, GraceOver, Reap, Erase
  <2>3. \A u \in Threads : u # t => frame'[u] = frame[u]
    <3>1. CASE \/ LookupHit(t) \/ LookupFails(t) \/ PickPort(t) \/ ForkFails(t) \/ Fork(t)
               \/ PollHealthy(t) \/ Register(t) \/ PollMiss(t) \/ GiveUp(t) \/ ReapFailed(t)
      BY <1>1, <3>1 DEF TypeOK, LookupHit, LookupFails, PickPort, ForkFails, Fork,
         PollHealthy, Register, PollMiss, GiveUp, ReapFailed, Return
    <3>2. CASE \/ PostAnswered(t) \/ PostFails(t) \/ StopOne(t) \/ TermAll(t) \/ StopBegin(t)
               \/ GraceTick(t) \/ GraceDead(t) \/ GraceOver(t) \/ Reap(t) \/ Erase(t)
      BY <1>1, <3>2 DEF TypeOK, PostAnswered, PostFails, StopOne, TermAll, StopBegin,
         GraceTick, GraceDead, GraceOver, Reap, Erase, Return
    <3> QED
      BY <1>4, <3>1, <3>2 DEF InCall
  <2> QED
    BY <2>1, <2>2, <2>3
<1> QED
  BY <1>2, <1>3, <1>4 DEF ThreadStep

\* A start forks, a stop sweeps, a request is sent to an entry.
LEMMA ThreadKeepsKinds ==
    ASSUME IInv, KindInv, NEW t \in Threads, ThreadStep(t)
    PROVE  KindInv'
<1> DEFINE Kind(u) ==
      /\ pc[u] = "fork" \/ Spawning(u) => Starts(op[u])
      /\ Stopping(u) => op[u].kind \in {"stop", "stop_all"}
      /\ pc[u] = "post" => op[u].kind \in {"infer", "health"} /\ Registered(op[u].name)
<1>1. TypeOK /\ Kind(t) /\ \A u \in Threads : Kind(u)
  BY DEF IInv, KindInv
<1>2. ASSUME NEW u \in Threads, u # t
      PROVE  Kind(u)'
  <2>1. pc'[u] = pc[u] /\ op'[u] = op[u]
    BY <1>2, OthersWait
  <2>2. pc[u] = "post" => UNCHANGED runners
    BY <1>2, OthersWait, HolderAlone DEF Critical
  <2> QED
    BY <1>1, <2>1, <2>2 DEF Spawning, Stopping, Starts, Registered
<1>3. Kind(t)'
  <2>1. CASE Call(t) \/ Acquire(t) \/ Release(t)
    BY <1>1, <2>1 DEF TypeOK, Call, Acquire, Release, Goto, Spawning, Stopping
  <2>2. CASE LookupHit(t)
    BY <1>1, <2>2 DEF TypeOK, LookupHit, Return, Goto, Spawning, Stopping, Registered
  <2>3. CASE PickPort(t)
    BY <1>1, <2>3 DEF TypeOK, PickPort, Goto, Spawning, Stopping, Starts
  <2>4. CASE Fork(t) \/ PollHealthy(t) \/ PollMiss(t) \/ GiveUp(t)
    BY <1>1, <2>4 DEF TypeOK, Fork, PollHealthy, PollMiss, GiveUp, Goto, Spawning, Stopping, Starts
  <2>5. CASE Register(t)
    <3>1. /\ op' = op /\ pc[t] = "register"
          /\ IF op[t].kind = "infer" THEN pc' = [pc EXCEPT ![t] = "post"]
                                     ELSE pc' = [pc EXCEPT ![t] = "return"]
          /\ runners' = [runners EXCEPT ![op[t].name] =
                           [pid |-> frame[t].child, port |-> frame[t].port]]
      BY <2>5 DEF Register, Return, Goto
    <3>2. op[t].name \in Names /\ [pid |-> frame[t].child, port |-> frame[t].port] \in Runner
      BY <3>1, OpsLemma DEF IInv, OpInv, SpawnInv, Spawning, Runner
    <3>3. Registered(op[t].name)'
      BY <1>1, <3>1, <3>2, RunnerLemma DEF TypeOK, Registered
    <3> QED
      BY <1>1, <3>1, <3>3 DEF TypeOK, Spawning, Stopping
  <2>6. CASE LookupFails(t) \/ ForkFails(t) \/ ReapFailed(t) \/ PostFails(t) \/ Erase(t)
    BY <1>1, <2>6 DEF TypeOK, LookupFails, ForkFails, ReapFailed, PostFails, Erase, Return,
       Goto, Spawning, Stopping
  <2>7. CASE PostAnswered(t)
    BY <1>1, <2>7 DEF TypeOK, PostAnswered, Goto, Spawning, Stopping
  <2>8. CASE StopOne(t) \/ TermAll(t)
    BY <1>1, <2>8 DEF TypeOK, StopOne, TermAll, Goto, Spawning, Stopping
  <2>9. CASE StopBegin(t) \/ GraceTick(t) \/ GraceDead(t) \/ GraceOver(t) \/ Reap(t)
    BY <1>1, <2>9 DEF TypeOK, StopBegin, GraceTick, GraceDead, GraceOver, Reap, Goto,
       Spawning, Stopping
  <2> QED
    BY <2>1, <2>2, <2>3, <2>4, <2>5, <2>6, <2>7, <2>8, <2>9 DEF ThreadStep, InCall
<1> QED
  BY <1>2, <1>3 DEF KindInv

\* A request is answered by the runner's own child if that one serves, because
\* no other child listens on its port.
LEMMA ThreadKeepsAnswers ==
    ASSUME IInv, ServingInv, NEW t \in Threads, ThreadStep(t)
    PROVE  AnswerInv'
<1> DEFINE Good(u) == Answered(u) =>
      /\ Registered(op[u].name)
      /\ LET r == runners[op[u].name]
         IN  frame[u].by = r.pid \/ r.pid \notin Listeners(r.port) \/ r.port \in ForeignPorts
<1>1. TypeOK /\ KindInv /\ UniqueInv /\ \A u \in Threads : Good(u)
  BY DEF IInv, ServingInv, PortsInv, AnswerInv
<1>2. ASSUME NEW u \in Threads, u # t
      PROVE  Good(u)'
  <2> SUFFICES ASSUME pc'[u] = "return"
               PROVE  Good(u)'
    BY DEF Answered
  <2>1. pc'[u] = pc[u] /\ op'[u] = op[u] /\ frame'[u] = frame[u]
    BY <1>2, OthersWait
  <2>2. UNCHANGED <<runners, pstate, pport>>
    BY <1>2, <2>1, OthersWait, HolderAlone DEF Critical, procVars
  <2> QED
    BY <1>1, <2>1, <2>2 DEF Answered, Registered, Listeners
<1>3. Good(t)'
  <2>1. CASE PostAnswered(t)
    <3> DEFINE r == runners[op[t].name]
    <3>1. PICK q \in Answerers(r.port) :
            frame' = [frame EXCEPT ![t].res = "ok", ![t].by = q]
      BY <2>1 DEF PostAnswered
    <3>2. pc[t] = "post" /\ UNCHANGED <<op, runners, pstate, pport>>
      BY <2>1 DEF PostAnswered, procVars
    <3>3. Registered(op[t].name)
      BY <1>1, <3>2 DEF KindInv
    <3>4. q = r.pid \/ r.pid \notin Listeners(r.port) \/ r.port \in ForeignPorts
      BY <1>1, <3>1 DEF TypeOK, UniqueInv, Answerers, Listeners, Own
    <3>5. frame'[t].by = q
      BY <1>1, <3>1 DEF TypeOK, Frame
    <3> QED
      BY <3>2, <3>3, <3>4, <3>5 DEF Registered, Listeners
  <2>2. CASE ~PostAnswered(t)
    <3>1. CASE Call(t) \/ Acquire(t) \/ Release(t)
      BY <1>1, <3>1 DEF TypeOK, Call, Acquire, Release, Goto, Answered
    <3>2. CASE \/ LookupFails(t) \/ ForkFails(t) \/ ReapFailed(t) \/ PostFails(t)
      <4>1. PICK r \in {"error", "not_found"} : frame' = [frame EXCEPT ![t].res = r]
        BY <3>2 DEF LookupFails, ForkFails, ReapFailed, PostFails, Return
      <4>2. frame'[t].res = r
        BY <1>1, <4>1 DEF TypeOK, Frame
      <4> QED
        BY <4>1, <4>2 DEF Answered
    <3>3. CASE LookupHit(t)
      <4>1. /\ op' = op
            /\ \/ op[t].kind = "start"
               \/ frame' = [frame EXCEPT ![t].res = "already_exists"]
               \/ pc' = [pc EXCEPT ![t] = "post"]
        BY <3>3 DEF LookupHit, Return, Goto
      <4> QED
        BY <1>1, <4>1 DEF TypeOK, Frame, Answered
    <3>4. CASE Register(t) \/ Erase(t)
      <4>1. /\ op' = op
            /\ \/ Starts(op[t]) /\ op[t].kind # "infer"
               \/ op[t].kind \in {"stop", "stop_all"}
               \/ pc' = [pc EXCEPT ![t] = "post"]
        BY <1>1, <3>4 DEF Register, Erase, Goto, KindInv, Spawning, Stopping
      <4> QED
        BY <1>1, <4>1 DEF TypeOK, Starts, Answered
    <3>5. CASE \/ PickPort(t) \/ Fork(t) \/ PollHealthy(t) \/ PollMiss(t) \/ GiveUp(t)
               \/ StopOne(t) \/ TermAll(t)
               \/ StopBegin(t) \/ GraceTick(t) \/ GraceDead(t) \/ GraceOver(t) \/ Reap(t)
      <4>1. pc'[t] # "return"
        BY <1>1, <3>5 DEF TypeOK, PickPort, Fork, PollHealthy, PollMiss, GiveUp, StopOne, TermAll,
           StopBegin, GraceTick, GraceDead, GraceOver, Reap, Goto
      <4> QED
        BY <4>1 DEF Answered
    <3> QED
      BY <2>2, <3>1, <3>2, <3>3, <3>4, <3>5 DEF ThreadStep, InCall
  <2> QED
    BY <2>1, <2>2
<1> QED
  BY <1>2, <1>3 DEF AnswerInv

\* The child of an entry does not begin to serve, unless unrelated processes can
\* take its port.
LEMMA ProcessKeepsAnswers ==
    ASSUME IInv, ServingInv, NEW c \in Pids, ProcessStep(c)
    PROVE  AnswerInv'
<1>1. /\ UNCHANGED <<pc, op, frame, runners, pport>> /\ TypeOK
      /\ \A d \in Pids : d # c => pstate'[d] = pstate[d]
      /\ pstate'[c] = "serving" => pstate[c] = "armed"
  BY DEF ProcessStep, Startup, Arm, Listen, ExitEarly, Drained, Crash, Recycle, Becomes,
         managerVars, IInv, TypeOK
<1> SUFFICES ASSUME NEW t \in Threads, Answered(t)
             PROVE  (/\ Registered(op[t].name)
                     /\ LET r == runners[op[t].name]
                        IN  \/ frame[t].by = r.pid
                            \/ r.pid \notin Listeners(r.port)
                            \/ r.port \in ForeignPorts)'
  BY <1>1 DEF AnswerInv, Answered
<1> DEFINE r == runners[op[t].name]
<1>2. /\ Registered(op[t].name)
      /\ frame[t].by = r.pid \/ r.pid \notin Listeners(r.port) \/ r.port \in ForeignPorts
  BY DEF ServingInv, AnswerInv
<1>3. op[t].name \in Names
  BY OpsLemma DEF IInv, OpInv, Answered
<1>4. r.pid \in Pids
  BY <1>1, <1>2, <1>3, RunnerLemma DEF TypeOK, Registered
<1>5. pstate[r.pid] = "armed" => r.port \in ForeignPorts
  BY <1>2, <1>3 DEF ServingInv, PortsInv, EntryPortInv, Unreaped, ChildStates, LiveStates, Own
<1>6. r.pid \in Listeners(r.port)' => r.pid \in Listeners(r.port) \/ r.port \in ForeignPorts
  BY <1>1, <1>4, <1>5 DEF Listeners
<1> QED
  BY <1>1, <1>2, <1>6 DEF Registered, Listeners

\* Nothing is spawned, registered or answered at the beginning.
LEMMA InitServing == Init => ServingInv
  BY DEF Init, ServingInv, PortsInv, ForkInv, ChildInv, EntryPortInv, UniqueInv, VouchInv,
         KindInv, AnswerInv, Spawning, Stopping, Registered, Answered

\* Only the poll that was answered takes a call to the registration, and until
\* then no other call does anything.
LEMMA NextVouch == IInv /\ PortsInv /\ VouchInv /\ [Next]_vars => VouchInv'
<1> SUFFICES ASSUME IInv, PortsInv, VouchInv, [Next]_vars,
                    NEW u \in Threads, (pc[u] = "register")', Own(frame'[u].port)
             PROVE  /\ frame'[u].by = frame'[u].child
                    /\ pstate'[frame'[u].child] \in {"serving", "zombie"}
  BY DEF VouchInv, Own
<1>1. TypeOK
  BY DEF IInv
<1>2. ASSUME pc[u] = "register", frame'[u] = frame[u],
             pstate'[frame[u].child] = pstate[frame[u].child]
      PROVE  /\ frame'[u].by = frame'[u].child
             /\ pstate'[frame'[u].child] \in {"serving", "zombie"}
  BY <1>2 DEF VouchInv
<1>3. ASSUME NEW t \in Threads, ThreadStep(t), t # u
      PROVE  /\ frame'[u].by = frame'[u].child
             /\ pstate'[frame'[u].child] \in {"serving", "zombie"}
  <2>1. pc[u] = "register" /\ frame'[u] = frame[u]
    BY <1>3, OthersWait
  <2>2. UNCHANGED pstate
    BY <1>3, <2>1, OthersWait, HolderAlone DEF Critical, procVars
  <2> QED
    BY <1>2, <2>1, <2>2
<1>4. ASSUME ThreadStep(u)
      PROVE  /\ frame'[u].by = frame'[u].child
             /\ pstate'[frame'[u].child] \in {"serving", "zombie"}
  <2>1. PollHealthy(u)
    <3>1. CASE Call(u) \/ Acquire(u) \/ Release(u)
      BY <1>1, <3>1 DEF TypeOK, Call, Acquire, Release, Goto
    <3>2. CASE \/ LookupHit(u) \/ LookupFails(u) \/ PickPort(u) \/ ForkFails(u) \/ Fork(u)
               \/ Register(u) \/ PollMiss(u) \/ GiveUp(u) \/ ReapFailed(u)
      BY <1>1, <3>2 DEF TypeOK, LookupHit, LookupFails, PickPort, ForkFails, Fork, Register,
         PollMiss, GiveUp, ReapFailed, Return, Goto
    <3>3. CASE \/ PostAnswered(u) \/ PostFails(u) \/ StopOne(u) \/ TermAll(u) \/ StopBegin(u)
               \/ GraceTick(u) \/ GraceDead(u) \/ GraceOver(u) \/ Reap(u) \/ Erase(u)
      BY <1>1, <3>3 DEF TypeOK, PostAnswered, PostFails, StopOne, TermAll, StopBegin,
         GraceTick, GraceDead, GraceOver, Reap, Erase, Return, Goto
    <3> QED
      BY <1>4, <3>1, <3>2, <3>3 DEF ThreadStep, InCall
  <2>2. PICK q \in Answerers(frame[u].port) : frame' = [frame EXCEPT ![u].by = q]
    BY <2>1 DEF PollHealthy
  <2>3. /\ frame'[u].by = q /\ frame'[u].child = frame[u].child
        /\ frame'[u].port = frame[u].port
    BY <1>1, <2>2 DEF TypeOK, Frame
  <2>4. q \in Listeners(frame[u].port) /\ Spawning(u)
    BY <1>1, <2>1, <2>2, <2>3 DEF TypeOK, Answerers, Own, PollHealthy, Spawning
  <2>5. q = frame[u].child /\ pstate[q] = "serving"
    BY <2>3, <2>4 DEF PortsInv, ChildInv, Listeners
  <2> QED
    BY <2>1, <2>3, <2>5 DEF PollHealthy, procVars
<1>5. ASSUME NEW c \in Pids, ProcessStep(c)
      PROVE  /\ frame'[u].by = frame'[u].child
             /\ pstate'[frame'[u].child] \in {"serving", "zombie"}
  <2>1. /\ UNCHANGED managerVars
        /\ \A d \in Pids : pstate[d] \in {"serving", "zombie"} =>
              pstate'[d] = pstate[d] \/ pstate'[d] = "zombie"
    BY <1>1, <1>5 DEF ProcessStep, Startup, Arm, Listen, ExitEarly, Drained, Crash, Recycle,
       Becomes, TypeOK
  <2>2. frame[u].child \in Pids
    BY <2>1 DEF managerVars, IInv, SpawnInv, Spawning
  <2> QED
    BY <2>1, <2>2 DEF managerVars, VouchInv
<1>6. CASE UNCHANGED vars \/ \E p \in ForeignPorts : ForeignPort(p)
  <2>1. UNCHANGED <<pc, frame, pstate>>
    BY <1>6 DEF vars, procVars, ForeignPort, managerVars
  <2> QED
    BY <1>2, <2>1
<1> QED
  BY <1>3, <1>4, <1>5, <1>6 DEF Next

LEMMA NextServing == IInv /\ IInv' /\ ServingInv /\ [Next]_vars => ServingInv'
<1> SUFFICES ASSUME IInv, IInv', ServingInv, [Next]_vars
             PROVE  ServingInv'
  OBVIOUS
<1>1. PortsInv' /\ VouchInv'
  BY NextPorts, NextVouch DEF ServingInv
<1>2. ASSUME NEW t \in Threads, ThreadStep(t)
      PROVE  KindInv' /\ AnswerInv'
  BY <1>2, ThreadKeepsKinds, ThreadKeepsAnswers DEF ServingInv
<1>3. ASSUME UNCHANGED <<pc, op, runners>>
      PROVE  KindInv'
  BY <1>3 DEF ServingInv, KindInv, Spawning, Stopping, Starts, Registered
<1>4. ASSUME NEW c \in Pids, ProcessStep(c)
      PROVE  KindInv' /\ AnswerInv'
  <2>1. UNCHANGED <<pc, op, runners>>
    BY <1>4 DEF ProcessStep, Startup, Arm, Listen, ExitEarly, Drained, Crash, Recycle,
       managerVars
  <2> QED
    BY <1>3, <1>4, <2>1, ProcessKeepsAnswers
<1>5. CASE UNCHANGED vars \/ \E p \in ForeignPorts : ForeignPort(p)
  <2>1. UNCHANGED <<pc, op, frame, runners, pstate, pport>>
    BY <1>5 DEF vars, procVars, ForeignPort, managerVars
  <2>2. KindInv'
    BY <1>3, <2>1
  <2>3. AnswerInv'
    BY <2>1 DEF ServingInv, AnswerInv, Answered, Registered, Listeners
  <2> QED
    BY <1>1, <2>2, <2>3 DEF ServingInv
<1> QED
  BY <1>1, <1>2, <1>4, <1>5 DEF Next, ServingInv

\* ServingInv is an invariant of the specification, next to IInv.
THEOREM ServingInvariance == Spec => []ServingInv
<1>1. Spec => []IInv
  BY Invariance
<1> QED
  BY <1>1, InitServing, NextServing, PTL DEF Spec

\* ServingAnswersItself: a request sent to a runner that serves (infer, health) is
\* answered by that runner's own process, whatever starts, crashes and stops
\* meanwhile, unless unrelated processes can take its port.
THEOREM RunnersAnswer == Spec => []ServingAnswersItself
<1>1. ServingInv => ServingAnswersItself
  BY DEF ServingInv, AnswerInv, ServingAnswersItself
<1> QED
  BY <1>1, ServingInvariance, PTL

\* RegisteredServing: spawn_runner registers a runner on the word of its own process,
\* which served its port then and at most has died since, unless unrelated processes
\* can take the port.
THEOREM RegisteredServe == Spec => RegisteredServing
<1> DEFINE Good(n) ==
             \/ runners'[n].port \in ForeignPorts
             \/ /\ \E t \in Threads : lock = t /\ Vouched(t, n)
                /\ pstate[runners'[n].pid] \in {"serving", "zombie"}
           Step == \A n \in Names : ~Registered(n) /\ Registered(n)' => Good(n)
<1>1. IInv /\ ServingInv /\ [Next]_vars => [Step]_vars
  <2> SUFFICES ASSUME IInv, ServingInv, [Next]_vars, NEW n \in Names,
                      ~Registered(n), Registered(n)'
               PROVE  Good(n)
    OBVIOUS
  <2>1. PICK t \in Threads : Register(t)
    <3>1. ASSUME NEW t \in Threads, ThreadStep(t), ~Register(t)
          PROVE  FALSE
      <4>1. CASE Erase(t)
        BY <4>1 DEF Erase, Registered
      <4>2. CASE PickPort(t) \/ Fork(t)
        BY <4>2 DEF PickPort, Fork, Registered
      <4> QED
        BY <3>1, <4>1, <4>2, CallsFade DEF ThreadStep, InCall, Registered
    <3>2. ~UNCHANGED runners
      BY DEF Registered
    <3> QED
      BY <3>1, <3>2 DEF Next, vars, ProcessStep, Startup, Arm, Listen, ExitEarly, Drained,
         Crash, Recycle, ForeignPort, managerVars
  <2>2. runners' = [runners EXCEPT ![op[t].name] =
                       [pid |-> frame[t].child, port |-> frame[t].port]]
    BY <2>1 DEF Register
  <2>3. /\ runners'[n].pid = frame[t].child
        /\ runners'[n].port = frame[t].port
    <3>1. n = op[t].name
      BY <2>2 DEF IInv, TypeOK, Registered
    <3> QED
      BY <2>2, <3>1 DEF IInv, TypeOK
  <2>4. lock = t
    BY <2>1 DEF Register, IInv, LockInv, Critical
  <2>5. frame[t].port \notin ForeignPorts =>
          /\ frame[t].by = frame[t].child
          /\ pstate[frame[t].child] \in {"serving", "zombie"}
    BY <2>1 DEF Register, ServingInv, VouchInv, Own
  <2> QED
    BY <2>3, <2>4, <2>5 DEF Vouched
<1>2. Spec => []IInv /\ []ServingInv
  BY Invariance, ServingInvariance, PTL
<1> QED
  BY <1>1, <1>2, PTL DEF Spec, RegisteredServing

=============================================================================
