------------------------- MODULE ServeControlProofs -------------------------
(***************************************************************************)
(* Proofs about ServeControl, for any number of process ids, names, files  *)
(* and users: what the pidfiles say of the servers in spite of the races   *)
(* of servers and commands.                                                *)
(***************************************************************************)
EXTENDS ServeControl, TLAPS

-----------------------------------------------------------------------------
(* The inductive invariant. *)

ServersType == /\ phase \in [Pids -> {"free", "foreign"} \cup ServerPhases]
               /\ options \in [Pids -> Options]
               /\ owner \subseteq Pids
               /\ linked \subseteq Pids
               /\ pidfile \in [Files -> Pids \cup {None}]
               /\ crashed \subseteq Files
               /\ past \in [Pids -> SUBSET Mishaps]

CommandsType == /\ cmd \in [Users -> {"idle", "check", "stale", "list", "cmdline",
                                      "remove", "poll", "kill"}]
                /\ want \in [Users -> Names \cup {None}]
                /\ target \in [Users -> Pids \cup {None}]
                /\ todo \in [Users -> SUBSET Pids]
                /\ doomed \in [Users -> SUBSET Files]
                /\ polls \in [Users -> 0 .. Polls]
                /\ blind \in [Users -> SUBSET Pids]

\* A server writes or is going to remove a file that it has, and is going to
\* remove the one that contains its process id.
OwnerInv ==
    /\ \A p \in Pids : p \in owner \cup linked \/ phase[p] = "writing"
                       => IsServer(p) /\ File(p) # None
    /\ \A f \in Files : pidfile[f] # None /\ f \notin crashed => pidfile[f] \in owner

\* Two servers, one of which has the file of the other in its command line, have
\* been seen together.
OverlapInv == \A p, q \in Pids :
    IsServer(p) /\ IsServer(q) /\ p # q /\ File(p) \in Marks(q)
        => "overlap" \in past[p]

\* A server whose file nothing has happened to and nobody wants to remove.
Running == {"writing", "starting", "open", "serving"}
Quiet(p) == /\ phase[p] \in Running
            /\ File(p) # None
            /\ past[p] = {}
            /\ ~Condemned(p)

\* Its file is there, and contains its process id once that is written.
FileInv == \A p \in Pids : Quiet(p) =>
    IF phase[p] = "writing" THEN p \in linked /\ pidfile[File(p)] = None
                            ELSE pidfile[File(p)] = p

ServersInv == /\ ServersType /\ OwnerInv /\ OverlapInv
              /\ OnlyAbruptEndsLeaveFiles /\ FileInv

\* A command that may remove the file of a quiet server has not seen the server
\* open it, unless it has found the server itself and looks at it again.
Claim(u, p) ==
    /\ cmd[u] = "check" /\ want[u] = File(p) => p \in blind[u] \cup {target[u]}
    /\ cmd[u] = "stale" /\ want[u] = File(p) => p \in blind[u]
    /\ cmd[u] = "remove" /\ File(p) \in doomed[u] => p \in blind[u]
ClaimInv == \A u \in Users, p \in Pids : Quiet(p) => Claim(u, p)

\* What a command acts on.
ActsInv == \A u \in Users :
    /\ cmd[u] \in {"check", "cmdline", "remove", "poll", "kill"} => target[u] \in Pids
    /\ cmd[u] \in {"check", "stale"} => want[u] \in Names
    /\ cmd[u] # "remove" => doomed[u] = {}

CommandsInv == CommandsType /\ ActsInv

ServeInv == ServersInv /\ CommandsInv /\ ClaimInv


\* No process but p stops being about to be signalled.
CondemnedBut(p) == \A q \in Pids : q # p /\ Condemned(q) => Condemned(q)'

\* Every quiet server was one, with the same file.
QuietBefore == \A q \in Pids : Quiet(q)' => Quiet(q) /\ File(q)' = File(q)

-----------------------------------------------------------------------------
(* The steps of the servers. *)

\* The files of a server and of its command line.
LEMMA FileFacts ==
    ASSUME ServersType
    PROVE  \A p \in Pids : /\ options[p] \in Options
                           /\ File(p) \in Files \cup {None}
                           /\ File(p) # None => File(p) \in Marks(p)
                           /\ Marks(p) \subseteq Files
<1> SUFFICES ASSUME NEW p \in Pids
             PROVE  /\ options[p] \in Options
                    /\ File(p) \in Files \cup {None}
                    /\ File(p) # None => File(p) \in Marks(p)
                    /\ Marks(p) \subseteq Files
  OBVIOUS
<1>1. options[p] \in Options
  BY DEF ServersType
<1>2. /\ options[p].name \in Files \cup {None}
      /\ options[p].pidfile \in Files \cup {None}
  BY <1>1, ServeAssumption DEF Options
<1> QED
  BY <1>1, <1>2 DEF File, Marks, FileOf, MarksOf

\* A step of a server that does not concern the commands.
LEMMA ServerKeeps ==
    ASSUME ServeInv, ServersInv', UNCHANGED <<commands, blind>>, QuietBefore
    PROVE  ServeInv'
<1>1. CommandsInv'
  BY DEF ServeInv, CommandsInv, CommandsType, ActsInv, commands
<1>2. ClaimInv'
  BY DEF ServeInv, ClaimInv, Claim, QuietBefore, commands
<1> QED
  BY <1>1, <1>2 DEF ServeInv

\* The same processes are about to be signalled.
LEMMA SameCommands ==
    ASSUME UNCHANGED commands
    PROVE  \A q \in Pids : Condemned(q)' <=> Condemned(q)
  BY DEF Condemned, commands

\* A server ends.
LEMMA EndsKeeps ==
    ASSUME ServersInv, NEW p \in Pids, IsServer(p), Ends(p), UNCHANGED pidfile,
           crashed \subseteq crashed', crashed' \subseteq Files,
           \A f \in Files : pidfile[f] = p => f \in crashed',
           CondemnedBut(p)
    PROVE  ServersInv' /\ QuietBefore
<1>1. /\ phase' = [phase EXCEPT ![p] = "free"]
      /\ options' = [options EXCEPT ![p] = NoOptions]
      /\ owner' = owner \ {p}
      /\ linked' = linked \ {p}
      /\ past' = [past EXCEPT ![p] = {}]
  BY DEF Ends, Enters
<1>2. NoOptions \in Options
  BY DEF NoOptions, Options
<1>3. ServersType'
  BY <1>1, <1>2 DEF ServersInv, ServersType
<1>4. /\ phase'[p] = "free"
      /\ \A q \in Pids : q # p => /\ phase'[q] = phase[q]
                                  /\ options'[q] = options[q]
                                  /\ past'[q] = past[q]
                                  /\ File(q)' = File(q) /\ Marks(q)' = Marks(q)
                                  /\ IsServer(q)' <=> IsServer(q)
  BY <1>1 DEF ServersInv, ServersType, File, Marks, IsServer
<1>5. ~IsServer(p)'
  BY <1>4 DEF IsServer, ServerPhases
<1>6. ASSUME NEW f \in Files, pidfile'[f] # None, f \notin crashed'
      PROVE  /\ pidfile'[f] = pidfile[f] /\ pidfile[f] # None /\ f \notin crashed
             /\ pidfile[f] # p /\ pidfile[f] \in Pids
  BY <1>6 DEF ServersInv, ServersType
<1>7. OwnerInv'
  BY <1>1, <1>4, <1>6 DEF ServersInv, OwnerInv
<1>8. OverlapInv'
  BY <1>4, <1>5 DEF ServersInv, OverlapInv
<1>9. OnlyAbruptEndsLeaveFiles'
  BY <1>4, <1>6 DEF ServersInv, OnlyAbruptEndsLeaveFiles
<1>10. ASSUME NEW q \in Pids, Quiet(q)'
       PROVE  q # p /\ Quiet(q) /\ File(q)' = File(q)
  <2>1. q # p
    BY <1>4, <1>10 DEF Quiet, Running
  <2> QED
    BY <1>4, <1>10, <2>1 DEF Quiet, CondemnedBut
<1>11. FileInv'
  BY <1>1, <1>4, <1>10 DEF ServersInv, FileInv
<1> QED
  BY <1>3, <1>7, <1>8, <1>9, <1>10, <1>11 DEF ServersInv, QuietBefore

LEMMA AbruptEndKeeps ==
    ASSUME ServersInv, NEW p \in Pids, IsServer(p), EndsAbruptly(p), CondemnedBut(p)
    PROVE  ServersInv' /\ QuietBefore
<1>1. /\ Ends(p) /\ UNCHANGED pidfile
      /\ crashed' = crashed \cup {f \in Files : pidfile[f] = p}
      /\ crashed \subseteq Files
  BY DEF EndsAbruptly, ServersInv, ServersType
<1>2. /\ crashed \subseteq crashed' /\ crashed' \subseteq Files
      /\ \A f \in Files : pidfile[f] = p => f \in crashed'
  BY <1>1
<1> QED
  BY <1>1, <1>2, EndsKeeps

\* A server goes on, with what it has.
LEMMA StayKeeps ==
    ASSUME ServersInv, NEW p \in Pids, NEW ph \in ServerPhases, IsServer(p),
           phase' = [phase EXCEPT ![p] = ph],
           UNCHANGED <<options, owner, files, past>>, CondemnedBut(p),
           ph # "writing",
           \A f \in Files : pidfile[f] = p /\ f \notin crashed
               => ph \in ServerPhases \ {"boot", "writing", "leaving"},
           ph \in Running => /\ phase[p] \in {"starting", "open", "serving"} \/ File(p) = None
                             /\ Condemned(p) => Condemned(p)'
    PROVE  ServersInv' /\ QuietBefore
<1>1. ServersType'
  BY DEF ServersInv, ServersType, files, ServerPhases
<1>2. /\ phase'[p] = ph
      /\ \A q \in Pids : /\ q # p => phase'[q] = phase[q]
                         /\ File(q)' = File(q) /\ Marks(q)' = Marks(q)
                         /\ IsServer(q)' <=> IsServer(q)
      /\ UNCHANGED <<pidfile, linked, crashed, past, owner>>
  BY DEF ServersInv, ServersType, File, Marks, IsServer, files
<1>3. OwnerInv'
  BY <1>2 DEF ServersInv, OwnerInv
<1>4. OverlapInv'
  BY <1>2 DEF ServersInv, OverlapInv
<1>5. OnlyAbruptEndsLeaveFiles'
  <2> SUFFICES ASSUME NEW f \in Files, pidfile[f] # None, f \notin crashed
               PROVE  /\ phase'[pidfile[f]] \in ServerPhases \ {"boot", "writing", "leaving"}
                      /\ File(pidfile[f])' = f
    BY <1>2 DEF OnlyAbruptEndsLeaveFiles, File
  <2>1. /\ phase[pidfile[f]] \in ServerPhases \ {"boot", "writing", "leaving"}
        /\ File(pidfile[f]) = f /\ pidfile[f] \in Pids
    BY DEF ServersInv, OnlyAbruptEndsLeaveFiles, ServersType
  <2> QED
    BY <1>2, <2>1
<1>6. ASSUME NEW q \in Pids, Quiet(q)'
      PROVE  /\ Quiet(q) /\ File(q)' = File(q)
             /\ phase'[q] = "writing" <=> phase[q] = "writing"
  <2>1. CASE q = p
    <3>1. /\ ph \in Running /\ File(p) # None /\ past[p] = {} /\ ~Condemned(p)'
      BY <1>2, <1>6, <2>1 DEF Quiet
    <3>2. phase[p] \in {"starting", "open", "serving"} /\ ~Condemned(p)
      BY <3>1
    <3> QED
      BY <1>2, <2>1, <3>1, <3>2 DEF Quiet, Running
  <2>2. CASE q # p
    BY <1>2, <1>6, <2>2 DEF Quiet, CondemnedBut
  <2> QED
    BY <2>1, <2>2
<1>7. FileInv'
  BY <1>2, <1>6 DEF ServersInv, FileInv
<1> QED
  BY <1>1, <1>3, <1>4, <1>5, <1>6, <1>7 DEF ServersInv, QuietBefore

\* SIGTERM.
LEMMA TerminatedKeeps ==
    ASSUME ServersInv, NEW p \in Pids, Terminated(p), CondemnedBut(p)
    PROVE  ServersInv' /\ QuietBefore
<1>1. CASE phase[p] \in {"boot", "writing", "starting", "open"}
  BY <1>1, AbruptEndKeeps DEF Terminated, IsServer, ServerPhases
<1>2. CASE phase[p] = "serving"
  <2>1. /\ phase' = [phase EXCEPT ![p] = "stopping"]
        /\ UNCHANGED <<options, owner, files, past>>
    BY <1>2 DEF Terminated, Enters
  <2>2. "stopping" \in ServerPhases \ {"boot", "writing", "leaving"} /\ "stopping" \notin Running
        /\ IsServer(p)
    BY <1>2 DEF ServerPhases, Running, IsServer
  <2> QED
    BY <2>1, <2>2, StayKeeps
<1>3. CASE phase[p] \notin {"boot", "writing", "starting", "open", "serving"}
  <2>1. UNCHANGED <<phase, options, owner, files, past>>
    BY <1>3 DEF Terminated
  <2>2. phase[p] \notin Running
    BY <1>3 DEF Running
  <2>3. \A q \in Pids : Quiet(q)' => Quiet(q) /\ File(q)' = File(q)
    BY <2>1, <2>2 DEF Quiet, CondemnedBut, File
  <2> QED
    BY <2>1, <2>3 DEF ServersInv, ServersType, OwnerInv, OverlapInv, OnlyAbruptEndsLeaveFiles,
                      FileInv, QuietBefore, File, Marks, IsServer, files
<1> QED
  BY <1>1, <1>2, <1>3

\* A server starts.
LEMMA StartKeeps ==
    ASSUME ServeInv, NEW p \in Pids, NEW o \in Launches, Start(p, o)
    PROVE  ServeInv'
<1>1. /\ phase[p] = "free" /\ phase' = [phase EXCEPT ![p] = "boot"]
      /\ options' = [options EXCEPT ![p] = o]
      /\ UNCHANGED <<owner, pidfile, linked, crashed, commands, blind>>
      /\ o \in Options /\ ServersInv
      /\ past' = [q \in Pids |->
           IF q = p
           THEN IF \E r \in Pids : IsServer(r) /\ FileOf(o) \in Marks(r)
                THEN {"overlap"} ELSE {}
           ELSE IF IsServer(q) /\ File(q) \in MarksOf(o)
                THEN past[q] \cup {"overlap"} ELSE past[q]]
  BY ServeAssumption DEF Start, Enters, files, ServeInv
<1>2. ServersType'
  BY <1>1 DEF ServersInv, ServersType, ServerPhases, Mishaps
<1>3. /\ phase'[p] = "boot" /\ options'[p] = o
      /\ File(p)' = FileOf(o) /\ Marks(p)' = MarksOf(o)
      /\ ~IsServer(p)
      /\ \A q \in Pids : q # p => /\ phase'[q] = phase[q]
                                  /\ options'[q] = options[q]
                                  /\ File(q)' = File(q) /\ Marks(q)' = Marks(q)
                                  /\ IsServer(q)' <=> IsServer(q)
  BY <1>1 DEF ServersInv, ServersType, File, Marks, IsServer, ServerPhases
<1>4. /\ \A q \in Pids : q # p => /\ past[q] \subseteq past'[q]
                                  /\ IsServer(q) /\ File(q) \in MarksOf(o)
                                       => "overlap" \in past'[q]
      /\ (\E r \in Pids : IsServer(r) /\ FileOf(o) \in Marks(r)) => "overlap" \in past'[p]
  BY <1>1 DEF ServersInv, ServersType
<1>5. \A f \in Files : pidfile[f] # None /\ f \notin crashed
        => pidfile[f] # p /\ pidfile[f] \in Pids
  BY <1>1, <1>3 DEF ServersInv, ServersType, OnlyAbruptEndsLeaveFiles, IsServer
<1>6. p \notin owner \cup linked
  BY <1>1, <1>3 DEF ServersInv, OwnerInv
<1>7. OwnerInv'
  BY <1>1, <1>3, <1>5, <1>6 DEF ServersInv, OwnerInv
<1>8. OverlapInv'
  <2> SUFFICES ASSUME NEW q \in Pids, NEW r \in Pids, IsServer(q)', IsServer(r)', q # r,
                      File(q)' \in Marks(r)'
               PROVE  "overlap" \in past'[q]
    BY DEF OverlapInv
  <2>1. CASE q = p
    BY <1>3, <1>4, <2>1
  <2>2. CASE r = p
    BY <1>3, <1>4, <2>2
  <2>3. CASE q # p /\ r # p
    BY <1>1, <1>3, <1>4, <2>3 DEF ServersInv, OverlapInv
  <2> QED
    BY <2>1, <2>2, <2>3
<1>9. OnlyAbruptEndsLeaveFiles'
  BY <1>1, <1>3, <1>5 DEF ServersInv, OnlyAbruptEndsLeaveFiles
<1>10. ASSUME NEW q \in Pids, Quiet(q)'
       PROVE  q # p /\ Quiet(q) /\ File(q)' = File(q)
  <2>1. q # p
    BY <1>3, <1>10 DEF Quiet, Running
  <2>2. past[q] = {}
    BY <1>4, <1>10, <2>1 DEF Quiet
  <2>3. ~Condemned(q)
    BY <1>1, <1>10, SameCommands DEF Quiet
  <2> QED
    BY <1>3, <1>10, <2>1, <2>2, <2>3 DEF Quiet
<1>11. FileInv'
  BY <1>1, <1>3, <1>10 DEF ServersInv, FileInv
<1>12. ServersInv' /\ QuietBefore
  BY <1>2, <1>7, <1>8, <1>9, <1>10, <1>11 DEF ServersInv, QuietBefore
<1> QED
  BY <1>1, <1>12, ServerKeeps

\* main returns, or the process ends otherwise than by a signal or exception.
LEMMA ExitKeeps ==
    ASSUME ServeInv, NEW p \in Pids, DaemonFails(p) \/ Exit(p)
    PROVE  ServeInv'
<1>1. /\ phase[p] \in {"boot", "leaving"} /\ Ends(p)
      /\ UNCHANGED <<pidfile, crashed, commands, blind>>
  BY DEF DaemonFails, Exit
<1>2. \A f \in Files : pidfile[f] = p => f \in crashed
  BY <1>1, ServeAssumption DEF ServeInv, ServersInv, OnlyAbruptEndsLeaveFiles, ServerPhases
<1>3. IsServer(p) /\ CondemnedBut(p) /\ crashed' = crashed /\ crashed \subseteq Files
  BY <1>1, SameCommands
     DEF IsServer, ServerPhases, CondemnedBut, ServeInv, ServersInv, ServersType
<1>4. ServersInv' /\ QuietBefore
  BY <1>1, <1>2, <1>3, EndsKeeps DEF ServeInv
<1> QED
  BY <1>1, <1>4, ServerKeeps

LEMMA CrashKeeps ==
    ASSUME ServeInv, NEW p \in Pids, StartFails(p) \/ Crash(p) \/ Interrupt(p)
    PROVE  ServeInv'
<1>1. IsServer(p) /\ (EndsAbruptly(p) \/ Terminated(p)) /\ UNCHANGED <<commands, blind>>
  BY DEF StartFails, Crash, Interrupt, IsServer, ServerPhases
<1>2. CondemnedBut(p)
  BY <1>1, SameCommands DEF CondemnedBut
<1>3. ServersInv' /\ QuietBefore
  BY <1>1, <1>2, AbruptEndKeeps, TerminatedKeeps DEF ServeInv
<1> QED
  BY <1>1, <1>3, ServerKeeps

\* The steps that change the phase of a server only.
LEMMA PhaseKeeps ==
    ASSUME ServeInv, NEW p \in Pids,
           \/ NoPidfile(p) \/ StartRouter(p) \/ InstallHandlers(p) \/ StopAll(p)
           \/ Cleanup(p) /\ p \notin owner
    PROVE  ServeInv'
<1>1. UNCHANGED <<options, owner, files, past, commands, blind>>
  BY DEF NoPidfile, StartRouter, InstallHandlers, StopAll, Cleanup
<1>2. CondemnedBut(p) /\ (Condemned(p) => Condemned(p)')
  BY <1>1, SameCommands DEF CondemnedBut
<1>3. ServersInv /\ (\A f \in Files : pidfile[f] = p /\ f \notin crashed
                       => /\ phase[p] \in ServerPhases \ {"boot", "writing", "leaving"}
                          /\ p \in owner)
  BY ServeAssumption DEF ServeInv, ServersInv, OnlyAbruptEndsLeaveFiles, OwnerInv
<1>4. \A ph \in ServerPhases \ {"boot", "writing"} :
        /\ phase' = [phase EXCEPT ![p] = ph] /\ IsServer(p)
        /\ \A f \in Files : pidfile[f] = p /\ f \notin crashed
             => ph \in ServerPhases \ {"boot", "writing", "leaving"}
        /\ ph \in Running => phase[p] \in {"starting", "open", "serving"} \/ File(p) = None
        => ServersInv' /\ QuietBefore
  BY <1>1, <1>2, <1>3, StayKeeps
<1>5. ServersInv' /\ QuietBefore
  <2>1. CASE NoPidfile(p)
    <3>1. /\ phase' = [phase EXCEPT ![p] = "starting"] /\ IsServer(p) /\ File(p) = None
          /\ "starting" \in ServerPhases \ {"boot", "writing", "leaving"}
      BY <2>1 DEF NoPidfile, Enters, IsServer, ServerPhases
    <3> QED
      BY <1>4, <3>1
  <2>2. CASE StartRouter(p)
    <3>1. /\ phase' = [phase EXCEPT ![p] = "open"] /\ IsServer(p) /\ phase[p] = "starting"
          /\ "open" \in ServerPhases \ {"boot", "writing", "leaving"}
      BY <2>2 DEF StartRouter, Enters, IsServer, ServerPhases
    <3> QED
      BY <1>4, <3>1
  <2>3. CASE InstallHandlers(p)
    <3>1. /\ phase' = [phase EXCEPT ![p] = "serving"] /\ IsServer(p) /\ phase[p] = "open"
          /\ "serving" \in ServerPhases \ {"boot", "writing", "leaving"}
      BY <2>3 DEF InstallHandlers, Enters, IsServer, ServerPhases
    <3> QED
      BY <1>4, <3>1
  <2>4. CASE StopAll(p)
    <3>1. /\ phase' = [phase EXCEPT ![p] = "exiting"] /\ IsServer(p)
          /\ "exiting" \in ServerPhases \ {"boot", "writing", "leaving"}
          /\ "exiting" \notin Running
      BY <2>4 DEF StopAll, Enters, IsServer, ServerPhases, Running
    <3> QED
      BY <1>4, <3>1
  <2>5. CASE Cleanup(p) /\ p \notin owner
    <3>1. /\ phase' = [phase EXCEPT ![p] = "leaving"] /\ IsServer(p)
          /\ "leaving" \in ServerPhases \ {"boot", "writing"} /\ "leaving" \notin Running
      BY <2>5 DEF Cleanup, Enters, IsServer, ServerPhases, Running
    <3>2. \A f \in Files : ~(pidfile[f] = p /\ f \notin crashed)
      BY <1>3, <2>5
    <3> QED
      BY <1>4, <3>1, <3>2
  <2> QED
    BY <2>1, <2>2, <2>3, <2>4, <2>5
<1> QED
  BY <1>1, <1>5, ServerKeeps

\* Other programs come and go.
LEMMA RecycleKeeps ==
    ASSUME ServeInv, NEW p \in Pids, Recycle(p)
    PROVE  ServeInv'
<1>1. /\ phase[p] \in {"free", "foreign"}
      /\ \/ phase' = [phase EXCEPT ![p] = "free"]
         \/ phase' = [phase EXCEPT ![p] = "foreign"]
      /\ UNCHANGED <<options, owner, pidfile, linked, crashed, past, commands, blind>>
      /\ ServersInv
  BY DEF Recycle, Enters, files, ServeInv
<1>2. /\ ~IsServer(p) /\ ~IsServer(p)' /\ phase[p] \notin Running /\ phase'[p] \notin Running
      /\ \A q \in Pids : /\ q # p => phase'[q] = phase[q]
                         /\ File(q)' = File(q) /\ Marks(q)' = Marks(q)
                         /\ IsServer(q)' <=> IsServer(q)
  BY <1>1 DEF ServersInv, ServersType, IsServer, ServerPhases, Running, File, Marks
<1>3. ServersType' /\ OverlapInv'
  BY <1>1, <1>2 DEF ServersInv, ServersType, OverlapInv
<1>4. OwnerInv'
  <2>1. phase'[p] # "writing" /\ phase[p] # "writing"
    BY <1>2 DEF Running
  <2> QED
    BY <1>1, <1>2, <2>1 DEF ServersInv, OwnerInv
<1>5. OnlyAbruptEndsLeaveFiles'
  <2>1. \A f \in Files : pidfile[f] # None /\ f \notin crashed
          => pidfile[f] # p /\ pidfile[f] \in Pids
    BY <1>1, <1>2 DEF ServersInv, ServersType, OnlyAbruptEndsLeaveFiles, IsServer
  <2> QED
    BY <1>1, <1>2, <2>1 DEF ServersInv, OnlyAbruptEndsLeaveFiles
<1>6. \A q \in Pids : Quiet(q)' => q # p /\ Quiet(q) /\ File(q)' = File(q)
  BY <1>1, <1>2, SameCommands DEF Quiet
<1>7. FileInv'
  BY <1>1, <1>2, <1>6 DEF ServersInv, FileInv
<1>8. ServersInv' /\ QuietBefore
  BY <1>3, <1>4, <1>5, <1>6, <1>7 DEF ServersInv, QuietBefore
<1> QED
  BY <1>1, <1>8, ServerKeeps

\* The file cannot be opened.
LEMMA OpenFailsKeeps ==
    ASSUME ServeInv, NEW p \in Pids, OpenFails(p)
    PROVE  ServeInv'
<1>1. /\ phase[p] = "boot" /\ phase' = [phase EXCEPT ![p] = "starting"]
      /\ File(p) # None /\ owner' \in {owner, owner \cup {p}}
      /\ past' = [past EXCEPT ![p] = @ \cup {"unwritten"}]
      /\ UNCHANGED <<options, pidfile, linked, crashed, commands, blind>>
      /\ ServersInv
  BY DEF OpenFails, Enters, files, ServeInv
<1>2. /\ phase'[p] = "starting" /\ IsServer(p)
      /\ \A q \in Pids : /\ q # p => phase'[q] = phase[q] /\ past'[q] = past[q]
                         /\ File(q)' = File(q) /\ Marks(q)' = Marks(q)
                         /\ IsServer(q)' <=> IsServer(q)
      /\ past[p] \subseteq past'[p] /\ past'[p] # {}
  BY <1>1 DEF ServersInv, ServersType, IsServer, ServerPhases, File, Marks
<1>3. ServersType'
  BY <1>1 DEF ServersInv, ServersType, ServerPhases, Mishaps
<1>4. OverlapInv'
  BY <1>1, <1>2 DEF ServersInv, OverlapInv
<1>5. OwnerInv'
  BY <1>1, <1>2 DEF ServersInv, OwnerInv
<1>6. OnlyAbruptEndsLeaveFiles'
  <2>1. \A f \in Files : pidfile[f] # None /\ f \notin crashed
          => pidfile[f] # p /\ pidfile[f] \in Pids
    BY <1>1 DEF ServersInv, ServersType, OnlyAbruptEndsLeaveFiles
  <2> QED
    BY <1>1, <1>2, <2>1 DEF ServersInv, OnlyAbruptEndsLeaveFiles
<1>7. \A q \in Pids : Quiet(q)' => q # p /\ Quiet(q) /\ File(q)' = File(q)
  BY <1>1, <1>2, SameCommands DEF Quiet
<1>8. FileInv'
  BY <1>1, <1>2, <1>7 DEF ServersInv, FileInv
<1>9. ServersInv' /\ QuietBefore
  BY <1>3, <1>4, <1>5, <1>6, <1>7, <1>8 DEF ServersInv, QuietBefore
<1> QED
  BY <1>1, <1>9, ServerKeeps

\* A quiet server has its file alone.
LEMMA AloneLemma ==
    ASSUME ServersInv, NEW p \in Pids, IsServer(p), File(p) # None,
           NEW q \in Pids, q # p, Quiet(q)
    PROVE  File(q) # File(p)
<1>1. IsServer(q) /\ past[q] = {}
  BY DEF Quiet, Running, IsServer, ServerPhases
<1>2. File(p) \in Marks(p)
  BY FileFacts DEF ServersInv
<1> QED
  BY <1>1, <1>2 DEF ServersInv, OverlapInv

\* The file is opened, and is empty then.
LEMMA OpenKeeps ==
    ASSUME ServeInv, NEW p \in Pids, OpenPidfile(p)
    PROVE  ServeInv'
<1> DEFINE f == File(p)
<1>1. /\ phase[p] = "boot" /\ phase' = [phase EXCEPT ![p] = "writing"]
      /\ f # None /\ pidfile' = [pidfile EXCEPT ![f] = None]
      /\ crashed' = crashed \ {f} /\ linked' = linked \cup {p}
      /\ blind' = [u \in Users |-> IF cmd[u] \in {"check", "stale", "remove"}
                                   THEN blind[u] \cup {p} ELSE blind[u]]
      /\ UNCHANGED <<options, owner, past, commands>>
      /\ ServersInv /\ CommandsInv /\ ClaimInv
  BY DEF OpenPidfile, Enters, ServeInv
<1>2. f \in Files /\ IsServer(p)
  BY <1>1, FileFacts DEF ServersInv, IsServer, ServerPhases
<1>3. /\ phase'[p] = "writing" /\ pidfile'[f] = None
      /\ \A g \in Files : g # f => pidfile'[g] = pidfile[g]
      /\ \A q \in Pids : /\ q # p => phase'[q] = phase[q]
                         /\ File(q)' = File(q) /\ Marks(q)' = Marks(q)
                         /\ IsServer(q)' <=> IsServer(q)
  BY <1>1, <1>2 DEF ServersInv, ServersType, IsServer, ServerPhases, File, Marks
<1> HIDE DEF f
<1>4. ServersType'
  BY <1>1, <1>2 DEF ServersInv, ServersType, ServerPhases
<1>5. OverlapInv'
  BY <1>1, <1>3 DEF ServersInv, OverlapInv
<1>6. ASSUME NEW g \in Files, pidfile'[g] # None, g \notin crashed'
      PROVE  /\ g # f /\ pidfile'[g] = pidfile[g] /\ pidfile[g] # None /\ g \notin crashed
             /\ pidfile[g] \in Pids /\ pidfile[g] # p
  <2>1. g # f /\ pidfile'[g] = pidfile[g] /\ g \notin crashed
    BY <1>1, <1>3, <1>6
  <2>2. pidfile[g] \in Pids /\ pidfile[g] # p
    BY <1>1, <1>6, <2>1 DEF ServersInv, ServersType, OnlyAbruptEndsLeaveFiles
  <2> QED
    BY <1>6, <2>1, <2>2
<1>7. OwnerInv'
  BY <1>1, <1>2, <1>3, <1>6 DEF ServersInv, OwnerInv, f
<1>8. OnlyAbruptEndsLeaveFiles'
  BY <1>1, <1>3, <1>6 DEF ServersInv, OnlyAbruptEndsLeaveFiles
<1>9. \A q \in Pids : q # p /\ Quiet(q)' => Quiet(q) /\ File(q) # f
  BY <1>1, <1>2, <1>3, SameCommands, AloneLemma DEF Quiet, f
<1>10. FileInv'
  <2> SUFFICES ASSUME NEW q \in Pids, Quiet(q)'
               PROVE  IF phase'[q] = "writing" THEN q \in linked' /\ pidfile'[File(q)'] = None
                                               ELSE pidfile'[File(q)'] = q
    BY DEF FileInv
  <2>1. CASE q = p
    BY <1>1, <1>3, <2>1 DEF f
  <2>2. CASE q # p
    <3>1. Quiet(q) /\ File(q) # f /\ File(q) \in Files /\ File(q)' = File(q)
      BY <1>1, <1>3, <1>9, <2>2, FileFacts DEF Quiet, ServersInv
    <3> QED
      BY <1>1, <1>3, <2>2, <3>1 DEF ServersInv, FileInv
  <2> QED
    BY <2>1, <2>2
<1>11. CommandsInv'
  BY <1>1 DEF CommandsInv, CommandsType, ActsInv, commands
<1>12. ClaimInv'
  <2> SUFFICES ASSUME NEW u \in Users, NEW q \in Pids, Quiet(q)'
               PROVE  Claim(u, q)'
    BY DEF ClaimInv
  <2>1. /\ blind'[u] = IF cmd[u] \in {"check", "stale", "remove"}
                       THEN blind[u] \cup {p} ELSE blind[u]
        /\ UNCHANGED <<cmd, want, target, doomed>>
    BY <1>1 DEF commands
  <2>2. CASE q = p
    BY <2>1, <2>2 DEF Claim
  <2>3. CASE q # p
    <3>1. Claim(u, q) /\ File(q)' = File(q)
      BY <1>1, <1>3, <1>9, <2>3 DEF ClaimInv
    <3> QED
      BY <2>1, <3>1 DEF Claim
  <2> QED
    BY <2>2, <2>3
<1> QED
  BY <1>4, <1>5, <1>7, <1>8, <1>10, <1>11, <1>12 DEF ServeInv, ServersInv

\* The process id is written, unless the file is gone.
LEMMA WriteKeeps ==
    ASSUME ServeInv, NEW p \in Pids, WritePidfile(p)
    PROVE  ServeInv'
<1> DEFINE f == File(p)
<1>1. /\ phase[p] = "writing" /\ phase' = [phase EXCEPT ![p] = "starting"]
      /\ owner' = owner \cup {p} /\ linked' = linked \ {p}
      /\ p \in linked => /\ pidfile' = [pidfile EXCEPT ![f] = p]
                         /\ crashed' = crashed \ {f}
      /\ p \notin linked => UNCHANGED <<pidfile, crashed>>
      /\ UNCHANGED <<options, past, commands, blind>>
      /\ ServersInv
  BY DEF WritePidfile, Enters, ServeInv
<1>2. f # None /\ f \in Files /\ IsServer(p) /\ p # None
  BY <1>1, FileFacts, ServeAssumption DEF ServersInv, OwnerInv, IsServer, ServerPhases
<1>3. /\ phase'[p] = "starting"
      /\ p \in linked => pidfile'[f] = p
      /\ \A g \in Files : g # f => pidfile'[g] = pidfile[g]
      /\ \A q \in Pids : /\ q # p => phase'[q] = phase[q]
                         /\ File(q)' = File(q) /\ Marks(q)' = Marks(q)
                         /\ IsServer(q)' <=> IsServer(q)
  BY <1>1, <1>2 DEF ServersInv, ServersType, IsServer, ServerPhases, File, Marks
<1> HIDE DEF f
<1>4. ServersType'
  BY <1>1, <1>2 DEF ServersInv, ServersType, ServerPhases
<1>5. OverlapInv'
  BY <1>1, <1>3 DEF ServersInv, OverlapInv
<1>6. ASSUME NEW g \in Files, pidfile'[g] # None, g \notin crashed'
      PROVE  \/ g = f /\ pidfile'[g] = p
             \/ /\ pidfile'[g] = pidfile[g] /\ pidfile[g] # None /\ g \notin crashed
                /\ pidfile[g] \in Pids /\ pidfile[g] # p
  <2>1. CASE g = f /\ p \in linked
    BY <1>3, <2>1
  <2>2. CASE ~(g = f /\ p \in linked)
    <3>1. pidfile'[g] = pidfile[g] /\ g \notin crashed
      BY <1>1, <1>3, <1>6, <2>2
    <3> QED
      BY <1>1, <1>6, <3>1 DEF ServersInv, ServersType, OnlyAbruptEndsLeaveFiles
  <2> QED
    BY <2>1, <2>2
<1>7. OwnerInv'
  BY <1>1, <1>2, <1>3, <1>6 DEF ServersInv, OwnerInv, f
<1>8. OnlyAbruptEndsLeaveFiles'
  <2> SUFFICES ASSUME NEW g \in Files, pidfile'[g] # None, g \notin crashed'
               PROVE  /\ phase'[pidfile'[g]] \in ServerPhases \ {"boot", "writing", "leaving"}
                      /\ File(pidfile[g])' = g
    BY DEF OnlyAbruptEndsLeaveFiles
  <2>1. CASE g = f /\ pidfile'[g] = p
    <3>1. phase'[pidfile'[g]] = "starting" /\ File(pidfile[g])' = File(p)'
      BY <1>3, <2>1 DEF File
    <3> QED
      BY <1>3, <2>1, <3>1 DEF f, ServerPhases
  <2>2. CASE /\ pidfile'[g] = pidfile[g] /\ pidfile[g] # None /\ g \notin crashed
             /\ pidfile[g] \in Pids /\ pidfile[g] # p
    <3>1. /\ phase[pidfile[g]] \in ServerPhases \ {"boot", "writing", "leaving"}
          /\ File(pidfile[g]) = g
      BY <1>1, <2>2 DEF ServersInv, OnlyAbruptEndsLeaveFiles
    <3>2. File(pidfile[g])' = File(pidfile[g])
      BY <1>1, <2>2 DEF File
    <3> QED
      BY <1>3, <2>2, <3>1, <3>2
  <2> QED
    BY <1>6, <2>1, <2>2
<1>9. ASSUME NEW q \in Pids, Quiet(q)'
      PROVE  /\ Quiet(q) /\ File(q)' = File(q)
             /\ q # p => File(q) # f
  <2>1. Quiet(q) /\ File(q)' = File(q)
    BY <1>1, <1>3, <1>9, SameCommands DEF Quiet, Running
  <2> QED
    BY <1>1, <1>2, <2>1, AloneLemma DEF f
<1>10. FileInv'
  <2> SUFFICES ASSUME NEW q \in Pids, Quiet(q)'
               PROVE  IF phase'[q] = "writing" THEN q \in linked' /\ pidfile'[File(q)'] = None
                                               ELSE pidfile'[File(q)'] = q
    BY DEF FileInv
  <2>1. CASE q = p
    <3>1. p \in linked
      BY <1>1, <1>9, <2>1 DEF ServersInv, FileInv
    <3> QED
      BY <1>3, <2>1, <3>1 DEF f
  <2>2. CASE q # p
    <3>1. Quiet(q) /\ File(q) # f /\ File(q) \in Files /\ File(q)' = File(q)
      BY <1>1, <1>9, <2>2, FileFacts DEF Quiet, ServersInv
    <3> QED
      BY <1>1, <1>3, <2>2, <3>1 DEF ServersInv, FileInv
  <2> QED
    BY <2>1, <2>2
<1>11. ServersInv' /\ QuietBefore
  BY <1>4, <1>5, <1>7, <1>8, <1>9, <1>10 DEF ServersInv, QuietBefore
<1> QED
  BY <1>1, <1>11, ServerKeeps


\* A file is removed that no quiet server has.
LEMMA RemovesKeeps ==
    ASSUME ServersInv, NEW f \in Files, Removes(f), UNCHANGED <<options, owner>>,
           phase' \in [Pids -> {"free", "foreign"} \cup ServerPhases],
           past' \in [Pids -> SUBSET Mishaps],
           \A q \in Pids : /\ phase'[q] = phase[q] \/ /\ phase[q] = "exiting" /\ File(q) = f
                                                      /\ phase'[q] = "leaving"
                           /\ past[q] \subseteq past'[q]
                           /\ Quiet(q)' => Quiet(q) /\ File(q) # f
    PROVE  ServersInv' /\ QuietBefore
<1>1. /\ pidfile' = [pidfile EXCEPT ![f] = None]
      /\ linked' = {q \in linked : File(q) # f}
      /\ crashed' = crashed \ {f}
  BY DEF Removes
<1>2. ServersType'
  BY <1>1 DEF ServersInv, ServersType
<1>3. \A q \in Pids : /\ File(q)' = File(q) /\ Marks(q)' = Marks(q)
                      /\ IsServer(q)' <=> IsServer(q)
                      /\ phase'[q] = "writing" => phase[q] = "writing"
  BY DEF File, Marks, IsServer, ServerPhases
<1>4. ASSUME NEW g \in Files, pidfile'[g] # None, g \notin crashed'
      PROVE  /\ g # f /\ pidfile'[g] = pidfile[g] /\ pidfile[g] # None /\ g \notin crashed
             /\ pidfile[g] \in Pids
  BY <1>1, <1>4 DEF ServersInv, ServersType
<1>5. OwnerInv'
  BY <1>1, <1>3, <1>4 DEF ServersInv, OwnerInv
<1>6. OverlapInv'
  BY <1>3 DEF ServersInv, OverlapInv
<1>7. OnlyAbruptEndsLeaveFiles'
  <2> SUFFICES ASSUME NEW g \in Files, pidfile'[g] # None, g \notin crashed'
               PROVE  /\ phase'[pidfile'[g]] \in ServerPhases \ {"boot", "writing", "leaving"}
                      /\ File(pidfile[g])' = g
    BY DEF OnlyAbruptEndsLeaveFiles
  <2>1. /\ g # f /\ pidfile'[g] = pidfile[g] /\ pidfile[g] \in Pids
        /\ phase[pidfile[g]] \in ServerPhases \ {"boot", "writing", "leaving"}
        /\ File(pidfile[g]) = g
    BY <1>4 DEF ServersInv, OnlyAbruptEndsLeaveFiles
  <2>2. phase'[pidfile[g]] = phase[pidfile[g]] /\ File(pidfile[g])' = File(pidfile[g])
    BY <2>1 DEF File
  <2> QED
    BY <2>1, <2>2
<1>8. FileInv'
  <2> SUFFICES ASSUME NEW q \in Pids, Quiet(q)'
               PROVE  IF phase'[q] = "writing" THEN q \in linked' /\ pidfile'[File(q)'] = None
                                               ELSE pidfile'[File(q)'] = q
    BY DEF FileInv
  <2>1. Quiet(q) /\ File(q) # f /\ File(q) \in Files /\ File(q)' = File(q)
    BY <1>3, FileFacts DEF Quiet, ServersInv
  <2>2. phase'[q] = phase[q]
    BY <2>1
  <2> QED
    BY <1>1, <2>1, <2>2 DEF ServersInv, FileInv, ServersType
<1> QED
  BY <1>2, <1>3, <1>5, <1>6, <1>7, <1>8 DEF ServersInv, QuietBefore

\* A server removes its file when it exits.
LEMMA CleanupKeeps ==
    ASSUME ServeInv, NEW p \in Pids, Cleanup(p), p \in owner
    PROVE  ServeInv'
<1>1. /\ phase[p] = "exiting" /\ phase' = [phase EXCEPT ![p] = "leaving"]
      /\ Removes(File(p)) /\ UNCHANGED <<options, owner, past, commands, blind>>
      /\ ServersInv
  BY DEF Cleanup, Enters, ServeInv
<1>2. IsServer(p) /\ File(p) # None /\ File(p) \in Files
  BY <1>1, FileFacts DEF ServersInv, OwnerInv, IsServer, ServerPhases
<1>3. /\ phase' \in [Pids -> {"free", "foreign"} \cup ServerPhases]
      /\ past' \in [Pids -> SUBSET Mishaps]
  BY <1>1 DEF ServersInv, ServersType, ServerPhases
<1>4. phase'[p] = "leaving" /\ \A q \in Pids : q # p => phase'[q] = phase[q]
  BY <1>1 DEF ServersInv, ServersType
<1>5. ASSUME NEW q \in Pids, Quiet(q)'
      PROVE  Quiet(q) /\ File(q) # File(p)
  <2>1. q # p /\ Quiet(q)
    BY <1>1, <1>4, <1>5, SameCommands DEF Quiet, Running, File
  <2> QED
    BY <1>1, <1>2, <2>1, AloneLemma
<1>6. ServersInv' /\ QuietBefore
  BY <1>1, <1>2, <1>3, <1>4, <1>5, RemovesKeeps
<1> QED
  BY <1>1, <1>6, ServerKeeps

-----------------------------------------------------------------------------
(* The steps of the commands. *)

\* The other commands stay where they are.
OthersKeep(u) == \A w \in Users : w # u =>
    /\ cmd'[w] = cmd[w] /\ want'[w] = want[w] /\ target'[w] = target[w]
    /\ doomed'[w] = doomed[w] /\ blind'[w] = blind[w]

\* What is left to show of a step of a command.
LEMMA CommandKeeps ==
    ASSUME ServeInv, NEW u \in Users, OthersKeep(u), CommandsType', ServersInv', QuietBefore,
           /\ cmd'[u] \in {"check", "cmdline", "remove", "poll", "kill"} => target'[u] \in Pids
           /\ cmd'[u] \in {"check", "stale"} => want'[u] \in Names
           /\ cmd'[u] # "remove" => doomed'[u] = {},
           \A p \in Pids : Quiet(p) /\ Quiet(p)' => Claim(u, p)'
    PROVE  ServeInv'
<1>1. CommandsInv'
  BY DEF CommandsInv, ActsInv, OthersKeep, ServeInv
<1>2. ClaimInv'
  <2> SUFFICES ASSUME NEW w \in Users, NEW p \in Pids, Quiet(p)'
               PROVE  Claim(w, p)'
    BY DEF ClaimInv
  <2>1. Quiet(p) /\ File(p)' = File(p)
    BY DEF QuietBefore
  <2>2. CASE w = u
    BY <2>1, <2>2
  <2>3. CASE w # u
    BY <2>1, <2>3 DEF ServeInv, ClaimInv, Claim, OthersKeep
  <2> QED
    BY <2>2, <2>3
<1> QED
  BY <1>1, <1>2 DEF ServeInv

\* The command of u only looks.
LEMMA LookKeeps ==
    ASSUME ServersInv, NEW u \in Users, OthersKeep(u), UNCHANGED <<servers, files, past>>,
           cmd[u] = "remove" => cmd'[u] = "remove" /\ target'[u] = target[u]
    PROVE  ServersInv' /\ QuietBefore
<1>1. UNCHANGED <<phase, options, owner, pidfile, linked, crashed, past>>
  BY DEF servers, files
<1>2. \A q \in Pids : Condemned(q) => Condemned(q)'
  <2> SUFFICES ASSUME NEW q \in Pids, NEW w \in Users, cmd[w] = "remove", target[w] = q
               PROVE  cmd'[w] = "remove" /\ target'[w] = q
    BY DEF Condemned
  <2> QED
    BY DEF OthersKeep
<1>3. QuietBefore
  BY <1>1, <1>2 DEF QuietBefore, Quiet, File
<1> QED
  BY <1>1, <1>3 DEF ServersInv, ServersType, OwnerInv, OverlapInv, OnlyAbruptEndsLeaveFiles,
                    FileInv, QuietBefore, File, Marks, IsServer

\* The file of a name is read.
LEMMA ReadKeeps ==
    ASSUME ServeInv, NEW u \in Users, NEW n \in Names, ReadPidfile(u, n)
    PROVE  ServeInv'
<1>1. /\ cmd[u] = "idle" /\ pidfile[n] # None
      /\ cmd' = [cmd EXCEPT ![u] = "check"] /\ want' = [want EXCEPT ![u] = n]
      /\ target' = [target EXCEPT ![u] = pidfile[n]] /\ blind' = [blind EXCEPT ![u] = {}]
      /\ UNCHANGED <<servers, files, todo, doomed, polls, past>>
      /\ ServersInv /\ CommandsType /\ ActsInv /\ n \in Files
  BY ServeAssumption DEF ReadPidfile, Goes, Looks, ServeInv, CommandsInv
<1>2. pidfile[n] \in Pids
  BY <1>1 DEF ServersInv, ServersType
<1>3. /\ OthersKeep(u) /\ CommandsType'
      /\ cmd'[u] = "check" /\ want'[u] = n /\ target'[u] = pidfile[n] /\ doomed'[u] = {}
  BY <1>1, <1>2 DEF OthersKeep, CommandsType, ActsInv
<1>4. ServersInv' /\ QuietBefore
  BY <1>1, <1>3, LookKeeps
<1>5. ASSUME NEW p \in Pids, Quiet(p), Quiet(p)'
      PROVE  Claim(u, p)'
  <2>1. File(p)' = File(p)
    BY <1>4, <1>5 DEF QuietBefore
  <2>2. n = File(p) => pidfile[n] = p
    BY <1>1, <1>5 DEF ServersInv, FileInv
  <2> QED
    BY <1>3, <2>1, <2>2 DEF Claim
<1> QED
  BY <1>2, <1>3, <1>4, <1>5, <1>1, CommandKeeps

\* The process of the file is looked for.
LEMMA CheckKeeps ==
    ASSUME ServeInv, NEW u \in Users, TargetAlive(u) \/ TargetGone(u)
    PROVE  ServeInv'
<1>1. /\ cmd[u] = "check"
      /\ \/ cmd' = [cmd EXCEPT ![u] = "cmdline"]
         \/ cmd' = [cmd EXCEPT ![u] = "stale"] /\ phase[target[u]] = "free"
      /\ UNCHANGED <<servers, files, want, target, todo, doomed, polls, blind, past>>
      /\ ServersInv /\ CommandsType /\ ActsInv /\ ClaimInv
  BY DEF TargetAlive, TargetGone, IsAlive, Goes, ServeInv, CommandsInv
<1>2. /\ OthersKeep(u) /\ CommandsType'
      /\ \/ cmd'[u] = "cmdline"
         \/ cmd'[u] = "stale" /\ phase[target[u]] = "free"
      /\ target[u] \in Pids /\ want[u] \in Names /\ doomed[u] = {}
  BY <1>1 DEF OthersKeep, CommandsType, ActsInv
<1>3. ServersInv' /\ QuietBefore
  BY <1>1, <1>2, LookKeeps
<1>4. ASSUME NEW p \in Pids, Quiet(p), Quiet(p)'
      PROVE  Claim(u, p)'
  <2>1. File(p)' = File(p) /\ Claim(u, p)
    BY <1>1, <1>3, <1>4 DEF QuietBefore, ClaimInv
  <2>2. phase[p] # "free"
    BY <1>4 DEF Quiet, Running
  <2> QED
    BY <1>1, <1>2, <2>1, <2>2 DEF Claim
<1> QED
  BY <1>1, <1>2, <1>3, <1>4, CommandKeeps

\* The steps that neither look at a file nor are about to remove one.
LEMMA ListKeeps ==
    ASSUME ServeInv, NEW u \in Users,
           StopPid(u) \/ ListServers(u) \/ NextListed(u) \/ ListEnds(u) \/ Poll(u)
    PROVE  ServeInv'
<1>1. /\ cmd[u] \in {"idle", "list", "poll"}
      /\ UNCHANGED <<servers, files, doomed, blind, past>>
      /\ ServersInv /\ CommandsType /\ ActsInv
  BY DEF StopPid, ListServers, NextListed, ListEnds, Poll, Returns, ServeInv, CommandsInv
<1>2. /\ OthersKeep(u) /\ CommandsType'
      /\ cmd'[u] \in {"idle", "list", "cmdline", "poll", "kill"}
      /\ cmd'[u] \in {"cmdline", "poll", "kill"} => target'[u] \in Pids
  <2>1. CASE StopPid(u)
    BY <1>1, <2>1 DEF StopPid, Goes, OthersKeep, CommandsType
  <2>2. CASE ListServers(u)
    BY <1>1, <2>2 DEF ListServers, Goes, OthersKeep, CommandsType
  <2>3. CASE NextListed(u)
    <3>1. PICK p \in todo[u] :
            /\ todo' = [todo EXCEPT ![u] = @ \ {p}]
            /\ IF IsServer(p)
               THEN Goes(u, "cmdline") /\ target' = [target EXCEPT ![u] = p]
               ELSE UNCHANGED <<cmd, target>>
      BY <2>3 DEF NextListed
    <3>2. p \in Pids /\ cmd[u] = "list" /\ UNCHANGED <<want, polls>>
      BY <1>1, <2>3, <3>1 DEF NextListed, CommandsType
    <3> QED
      BY <1>1, <3>1, <3>2 DEF Goes, OthersKeep, CommandsType
  <2>4. CASE ListEnds(u)
    BY <1>1, <2>4 DEF ListEnds, Goes, OthersKeep, CommandsType
  <2>5. CASE Poll(u)
    <3>1. cmd[u] = "poll" /\ target[u] \in Pids
      BY <1>1, <2>5 DEF Poll, ActsInv
    <3>2. CASE Returns(u)
      BY <1>1, <3>1, <3>2, ServeAssumption DEF Returns, Goes, OthersKeep, CommandsType
    <3>3. CASE /\ polls[u] < Polls /\ polls' = [polls EXCEPT ![u] = @ + 1]
               /\ UNCHANGED <<cmd, want, target, todo, doomed, blind>>
      <4>1. polls' \in [Users -> 0 .. Polls]
        <5>1. polls \in [Users -> 0 .. Polls] /\ polls[u] \in 0 .. Polls
          BY <1>1 DEF CommandsType
        <5>2. polls[u] + 1 \in 0 .. Polls
          BY <3>3, <5>1, ServeAssumption
        <5> QED
          BY <3>3, <5>1, <5>2
      <4> QED
        BY <1>1, <3>1, <3>3, <4>1 DEF OthersKeep, CommandsType
    <3>4. CASE /\ Goes(u, "kill")
               /\ UNCHANGED <<want, target, todo, doomed, polls, blind>>
      BY <1>1, <3>1, <3>4 DEF Goes, OthersKeep, CommandsType
    <3> QED
      BY <2>5, <3>2, <3>3, <3>4 DEF Poll
  <2> QED
    BY <2>1, <2>2, <2>3, <2>4, <2>5
<1>3. ServersInv' /\ QuietBefore
  BY <1>1, <1>2, LookKeeps
<1>4. doomed'[u] = {}
  BY <1>1 DEF ActsInv
<1>5. \A p \in Pids : Claim(u, p)'
  BY <1>2 DEF Claim
<1> QED
  BY <1>2, <1>3, <1>4, <1>5, CommandKeeps

\* The command line of the process is read.
LEMMA CmdlineKeeps ==
    ASSUME ServeInv, NEW u \in Users, ReadCmdline(u)
    PROVE  ServeInv'
<1>1. /\ cmd[u] = "cmdline" /\ cmd' = [cmd EXCEPT ![u] = "remove"]
      /\ UNCHANGED <<servers, files, want, target, todo, polls, past>>
      /\ ServersInv /\ CommandsType /\ ActsInv
  BY DEF ReadCmdline, Goes, ServeInv, CommandsInv
<1>2. target[u] \in Pids /\ doomed[u] = {}
  BY <1>1 DEF ActsInv
<1>3. \E fs \in SUBSET Files, ps \in SUBSET Pids :
        /\ doomed' = [doomed EXCEPT ![u] = fs] /\ blind' = [blind EXCEPT ![u] = ps]
        /\ \/ IsServer(target[u]) /\ fs \subseteq Marks(target[u])
           \/ fs = {} \/ ps = Pids
  <2>1. CASE IsServer(target[u])
    <3>1. PICK fs \in SUBSET Marks(target[u]) : doomed' = [doomed EXCEPT ![u] = fs]
      BY <2>1 DEF ReadCmdline, IsServer, IsAlive, ServerPhases
    <3>2. blind' = [blind EXCEPT ![u] = {}]
      BY <2>1 DEF ReadCmdline, IsServer, IsAlive, ServerPhases, Looks
    <3>3. fs \in SUBSET Files
      BY <1>1, <1>2, FileFacts DEF ServersInv
    <3>4. {} \in SUBSET Pids /\ fs \subseteq Marks(target[u])
      OBVIOUS
    <3> QED
      BY <2>1, <3>1, <3>2, <3>3, <3>4
  <2>2. CASE phase[target[u]] = "foreign"
    <3>1. PICK fs \in SUBSET Files :
            /\ doomed' = [doomed EXCEPT ![u] = fs]
            /\ Looks(u, IF fs = {} THEN {} ELSE Pids)
      BY <2>2 DEF ReadCmdline, IsServer, IsAlive, ServerPhases
    <3> QED
      BY <3>1 DEF Looks
  <2>3. CASE ~IsAlive(target[u])
    <3>1. doomed' = doomed /\ blind' = [blind EXCEPT ![u] = {}]
      BY <2>3 DEF ReadCmdline, IsServer, IsAlive, ServerPhases, Looks
    <3>2. doomed' = [doomed EXCEPT ![u] = {}]
      BY <1>1, <1>2, <3>1 DEF CommandsType
    <3> QED
      BY <3>1, <3>2
  <2> QED
    BY <2>1, <2>2, <2>3 DEF ReadCmdline
<1>4. PICK fs \in SUBSET Files, ps \in SUBSET Pids :
        /\ doomed' = [doomed EXCEPT ![u] = fs] /\ blind' = [blind EXCEPT ![u] = ps]
        /\ \/ IsServer(target[u]) /\ fs \subseteq Marks(target[u])
           \/ fs = {} \/ ps = Pids
  BY <1>3
<1>5. /\ OthersKeep(u) /\ CommandsType'
      /\ cmd'[u] = "remove" /\ target'[u] = target[u]
      /\ doomed'[u] = fs /\ blind'[u] = ps
  BY <1>1, <1>4 DEF OthersKeep, CommandsType
<1>6. ServersInv' /\ QuietBefore
  BY <1>1, <1>5, LookKeeps
<1>7. ASSUME NEW p \in Pids, Quiet(p), Quiet(p)'
      PROVE  Claim(u, p)'
  <2>1. File(p)' = File(p)
    BY <1>6, <1>7 DEF QuietBefore
  <2>2. p # target[u]
    BY <1>5, <1>7 DEF Quiet, Condemned
  <2>3. ASSUME IsServer(target[u]), fs \subseteq Marks(target[u])
        PROVE  File(p) \notin fs
    BY <1>1, <1>2, <1>7, <2>2, <2>3
       DEF ServersInv, OverlapInv, Quiet, Running, IsServer, ServerPhases
  <2> QED
    BY <1>4, <1>5, <2>1, <2>3 DEF Claim
<1> QED
  BY <1>2, <1>5, <1>6, <1>7, CommandKeeps

\* A command removes a file.
LEMMA RemoveKeeps ==
    ASSUME ServeInv, NEW u \in Users, RemoveStale(u) \/ Remove(u)
    PROVE  ServeInv'
<1>1. ServersInv /\ CommandsType /\ ActsInv /\ ClaimInv
  BY DEF ServeInv, CommandsInv
<1>2. PICK f \in Files :
        /\ CommandRemoves(u, f)
        /\ \/ cmd[u] = "stale" /\ want[u] = f
           \/ cmd[u] = "remove" /\ f \in doomed[u]
        /\ UNCHANGED servers
        /\ OthersKeep(u) /\ CommandsType'
        /\ \/ cmd'[u] = "idle" /\ doomed'[u] = {} /\ cmd[u] = "stale"
           \/ /\ cmd'[u] = "remove" /\ cmd[u] = "remove" /\ doomed'[u] \subseteq doomed[u]
              /\ blind'[u] = blind[u] /\ target'[u] = target[u] /\ target[u] \in Pids
  <2>1. CASE RemoveStale(u)
    <3>1. /\ CommandRemoves(u, want[u]) /\ cmd[u] = "stale" /\ UNCHANGED servers
          /\ cmd' = [cmd EXCEPT ![u] = "idle"] /\ want' = [want EXCEPT ![u] = None]
          /\ target' = [target EXCEPT ![u] = None] /\ blind' = [blind EXCEPT ![u] = {}]
          /\ UNCHANGED <<todo, doomed, polls>>
      BY <2>1 DEF RemoveStale, Goes, Looks
    <3>2. want[u] \in Files /\ doomed[u] = {}
      BY <1>1, <3>1, ServeAssumption DEF ActsInv
    <3>3. OthersKeep(u) /\ CommandsType' /\ cmd'[u] = "idle"
      BY <1>1, <3>1 DEF OthersKeep, CommandsType
    <3> QED
      BY <3>1, <3>2, <3>3
  <2>2. CASE Remove(u)
    <3>1. PICK f \in doomed[u] : /\ CommandRemoves(u, f)
                                 /\ doomed' = [doomed EXCEPT ![u] = @ \ {f}]
      BY <2>2 DEF Remove
    <3>2. /\ cmd[u] = "remove"
          /\ UNCHANGED <<servers, cmd, want, target, todo, polls, blind>>
      BY <2>2 DEF Remove
    <3>3. f \in Files /\ target[u] \in Pids /\ doomed'[u] \subseteq doomed[u]
      BY <1>1, <3>1, <3>2 DEF CommandsType, ActsInv
    <3>4. OthersKeep(u) /\ CommandsType'
      BY <1>1, <3>1, <3>2 DEF OthersKeep, CommandsType
    <3> QED
      BY <3>1, <3>2, <3>3, <3>4
  <2> QED
    BY <2>1, <2>2
<1>3. /\ Removes(f)
      /\ past' = [p \in Pids |->
           IF p \in blind[u] /\ (pidfile[f] = p \/ (p \in linked /\ File(p) = f))
           THEN past[p] \cup {"raced"} ELSE past[p]]
      /\ UNCHANGED <<phase, options, owner>>
  BY <1>2 DEF CommandRemoves, servers
<1>4. /\ phase' \in [Pids -> {"free", "foreign"} \cup ServerPhases]
      /\ past' \in [Pids -> SUBSET Mishaps]
      /\ \A q \in Pids : past[q] \subseteq past'[q]
  BY <1>1, <1>3 DEF ServersInv, ServersType, Mishaps
<1>5. ASSUME NEW q \in Pids, Quiet(q)'
      PROVE  Quiet(q) /\ File(q) # f
  <2>1. Condemned(q) => Condemned(q)'
    BY <1>2 DEF Condemned, OthersKeep
  <2>2. Quiet(q)
    BY <1>3, <1>4, <1>5, <2>1 DEF Quiet, File
  <2>3. ASSUME File(q) = f
        PROVE  FALSE
    <3>1. q \in blind[u]
      BY <1>1, <1>2, <2>2, <2>3 DEF ClaimInv, Claim
    <3>2. pidfile[f] = q \/ (q \in linked /\ File(q) = f)
      BY <1>1, <2>2, <2>3 DEF ServersInv, FileInv
    <3>3. "raced" \in past'[q]
      BY <1>3, <3>1, <3>2
    <3> QED
      BY <1>5, <3>3 DEF Quiet
  <2> QED
    BY <2>2, <2>3
<1>6. ServersInv' /\ QuietBefore
  BY <1>1, <1>2, <1>3, <1>4, <1>5, RemovesKeeps
<1>7. ASSUME NEW p \in Pids, Quiet(p), Quiet(p)'
      PROVE  Claim(u, p)'
  BY <1>1, <1>2, <1>6, <1>7 DEF QuietBefore, ClaimInv, Claim
<1> QED
  BY <1>2, <1>6, <1>7, CommandKeeps

\* SIGTERM and SIGKILL.
LEMMA SignalKeeps ==
    ASSUME ServeInv, NEW u \in Users, SendTerm(u) \/ SendKill(u)
    PROVE  ServeInv'
<1>1. ServersInv /\ CommandsType /\ ActsInv
  BY DEF ServeInv, CommandsInv
<1>2. /\ OthersKeep(u) /\ CommandsType'
      /\ target[u] \in Pids
      /\ cmd'[u] \in {"idle", "list", "poll"}
      /\ cmd'[u] = "poll" => target'[u] \in Pids
      /\ doomed'[u] = {}
  <2>1. CASE SendTerm(u)
    <3>1. /\ cmd[u] = "remove" /\ doomed[u] = {} /\ cmd' = [cmd EXCEPT ![u] = "poll"]
          /\ blind' = [blind EXCEPT ![u] = {}]
          /\ UNCHANGED <<want, target, todo, doomed, polls>>
      BY <2>1 DEF SendTerm, Goes, Looks
    <3> QED
      BY <1>1, <3>1 DEF OthersKeep, CommandsType, ActsInv
  <2>2. CASE SendKill(u)
    <3>1. cmd[u] = "kill" /\ Returns(u)
      BY <2>2 DEF SendKill
    <3> QED
      BY <1>1, <3>1, ServeAssumption DEF Returns, Goes, OthersKeep, CommandsType, ActsInv
  <2> QED
    BY <2>1, <2>2
<1>3. CondemnedBut(target[u])
  BY <1>2 DEF CondemnedBut, Condemned, OthersKeep
<1>4. ServersInv' /\ QuietBefore
  <2>1. CASE Terminated(target[u])
    BY <1>1, <1>2, <1>3, <2>1, TerminatedKeeps
  <2>2. CASE IsServer(target[u]) /\ EndsAbruptly(target[u])
    BY <1>1, <1>2, <1>3, <2>2, AbruptEndKeeps
  <2>3. CASE cmd[u] = "kill" /\ UNCHANGED <<servers, files, past>>
    BY <1>1, <1>2, <2>3, LookKeeps
  <2> QED
    BY <2>1, <2>2, <2>3 DEF SendTerm, SendKill
<1>5. \A p \in Pids : Claim(u, p)'
  BY <1>2 DEF Claim
<1> QED
  BY <1>2, <1>4, <1>5, CommandKeeps

-----------------------------------------------------------------------------
(* The theorems. *)

LEMMA InitServe == Init => ServeInv
<1> SUFFICES ASSUME Init
             PROVE  ServeInv
  OBVIOUS
<1>1. NoOptions \in Options
  BY DEF NoOptions, Options
<1>2. \A p \in Pids : ~IsServer(p) /\ phase[p] \notin Running
  BY DEF Init, IsServer, ServerPhases, Running
<1>3. ServersType
  BY <1>1 DEF Init, ServersType
<1>4. OwnerInv
  BY <1>2 DEF Init, OwnerInv, Running
<1>5. OverlapInv /\ FileInv /\ ClaimInv
  BY <1>2 DEF OverlapInv, FileInv, ClaimInv, Quiet
<1>6. OnlyAbruptEndsLeaveFiles
  BY DEF Init, OnlyAbruptEndsLeaveFiles
<1>7. CommandsInv
  BY ServeAssumption DEF Init, CommandsInv, CommandsType, ActsInv
<1> QED
  BY <1>3, <1>4, <1>5, <1>6, <1>7 DEF ServeInv, ServersInv

LEMMA NextServe == ServeInv /\ [Next]_vars => ServeInv'
<1> SUFFICES ASSUME ServeInv, [Next]_vars
             PROVE  ServeInv'
  OBVIOUS
<1>1. ASSUME NEW p \in Pids, NEW o \in Launches, Start(p, o)
      PROVE  ServeInv'
  BY <1>1, StartKeeps
<1>2. ASSUME NEW p \in Pids, ServerStep(p)
      PROVE  ServeInv'
  BY <1>2, ExitKeeps, PhaseKeeps, OpenKeeps, OpenFailsKeeps, WriteKeeps, CrashKeeps,
     CleanupKeeps DEF ServerStep
<1>3. ASSUME NEW p \in Pids, Crash(p) \/ Interrupt(p) \/ Recycle(p)
      PROVE  ServeInv'
  BY <1>3, CrashKeeps, RecycleKeeps
<1>4. ASSUME NEW u \in Users, NEW n \in Names, ReadPidfile(u, n)
      PROVE  ServeInv'
  BY <1>4, ReadKeeps
<1>5. ASSUME NEW u \in Users, StopPid(u) \/ ListServers(u) \/ StopStep(u)
      PROVE  ServeInv'
  BY <1>5, CheckKeeps, ListKeeps, CmdlineKeeps, RemoveKeeps, SignalKeeps DEF StopStep
<1>6. CASE UNCHANGED vars
  <2>1. UNCHANGED <<phase, options, owner, pidfile, linked, crashed, past, commands, blind>>
    BY <1>6 DEF vars, servers, files
  <2>2. ServersInv' /\ QuietBefore
    BY <2>1, SameCommands
       DEF ServeInv, ServersInv, ServersType, OwnerInv, OverlapInv, OnlyAbruptEndsLeaveFiles,
           FileInv, QuietBefore, Quiet, File, Marks, IsServer
  <2> QED
    BY <2>1, <2>2, ServerKeeps
<1> QED
  BY <1>1, <1>2, <1>3, <1>4, <1>5, <1>6 DEF Next

\* The invariant holds in every state, whatever servers and commands do to the
\* files between each other's system calls (main.cpp 256-454).
THEOREM ServeInvariance == Spec => []ServeInv
BY InitServe, NextServe, PTL DEF Spec

\* Every variable keeps its type.
THEOREM ServeTypeCorrect == Spec => []TypeOK
<1>1. ServeInv => TypeOK
  BY DEF ServeInv, ServersInv, ServersType, CommandsInv, CommandsType, TypeOK
<1> QED
  BY <1>1, ServeInvariance, PTL

\* Only a server that ends abruptly leaves its process id in a file: the atexit
\* call of main.cpp 39-44 is enough for the others.
THEOREM PidfilesAreLive == Spec => []OnlyAbruptEndsLeaveFiles
<1>1. ServeInv => OnlyAbruptEndsLeaveFiles
  BY DEF ServeInv, ServersInv
<1> QED
  BY <1>1, ServeInvariance, PTL

\* The file of a running server contains its process id, but for three mishaps:
\* the check of a process and the removal of a file (main.cpp 266-267, 275-290)
\* are steps of their own, and do no harm to a server that is older than the
\* check.
THEOREM ServersKeepFiles == Spec => []RunningServerKeepsFile
<1>1. ServeInv => RunningServerKeepsFile
  <2> SUFFICES ASSUME ServeInv, NEW p \in Pids,
                      phase[p] \in {"starting", "open", "serving"}, File(p) # None,
                      past[p] = {}, ~Condemned(p)
               PROVE  pidfile[File(p)] = p
    BY DEF RunningServerKeepsFile
  <2>1. Quiet(p) /\ phase[p] # "writing"
    BY DEF Quiet, Running
  <2> QED
    BY <2>1 DEF ServeInv, ServersInv, FileInv
<1> QED
  BY <1>1, ServeInvariance, PTL

=============================================================================
