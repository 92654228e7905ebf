---------------------------- MODULE ServeControl ----------------------------
(***************************************************************************)
(* The server processes of a machine and the commands "serve start" and    *)
(* "serve stop" of src/src/cli/main.cpp.  They share nothing but the table *)
(* of processes and the pidfiles: a server writes its process id to its    *)
(* file, which is that of its name or the one given with --pidfile, and    *)
(* removes the file when it exits; "serve stop" finds a server through the *)
(* file of a name or the process table, and removes files too.             *)
(*                                                                         *)
(* Nothing is locked: between any two system calls of a process the others *)
(* go on, and another process may get the process id of one that has ended.*)
(* What a server does with its runners is the subject of ServerCalls.      *)
(***************************************************************************)
EXTENDS Naturals, FiniteSets

CONSTANTS
    Pids,        \* process ids
    Names,       \* names of servers
    Files,       \* pidfiles; that of a name is the name
    Launches,    \* the options --name and --pidfile of the "serve start" made
    WriteFails,  \* whether the opening of a pidfile may fail
    Users,       \* shells that run "serve stop"
    Polls,       \* how often stop_process looks whether the server is gone
    None         \* no process, no name, no file

VARIABLES
    phase,    \* what is at a process id: nothing, another program, or how far
              \* a server is
    options,  \* what the server was started with
    owner,    \* the servers that will remove their file when they exit
    linked,   \* the servers that write to a file that has not been removed
    pidfile,  \* the content of each file; None if it is empty or not there
    cmd,      \* where the command of a user is
    want,     \* the name that it looks for
    target,   \* the process id that it has found
    todo,     \* the process ids that "serve stop all" has found
    doomed,   \* the files that it is going to remove
    polls,    \* polls so far
    crashed,  \* history: the files whose process ended without its atexit calls
    blind,    \* history: the servers that have opened their file since a
              \* command last looked at the file or the process
    past      \* history: what has happened to the file of a server

servers == <<phase, options, owner>>
files == <<pidfile, linked, crashed>>
commands == <<cmd, want, target, todo, doomed, polls>>
vars == <<servers, files, commands, blind, past>>

Options == [name : Names \cup {None}, pidfile : Files \cup {None}]
NoOptions == [name |-> None, pidfile |-> None]

ASSUME ServeAssumption == /\ Polls \in Nat
                          /\ None \notin Pids \cup Files
                          /\ Names \subseteq Files
                          /\ Launches \subseteq Options
                          /\ WriteFails \in BOOLEAN

ServerPhases == {"boot", "writing", "starting", "open", "serving", "stopping",
                 "exiting", "leaving"}
Mishaps == {"unwritten", "overlap", "raced"}

TypeOK == /\ phase \in [Pids -> {"free", "foreign"} \cup ServerPhases]
          /\ options \in [Pids -> Options]
          /\ owner \subseteq Pids
          /\ linked \subseteq Pids
          /\ pidfile \in [Files -> Pids \cup {None}]
          /\ cmd \in [Users -> {"idle", "check", "stale", "list", "cmdline",
                                "remove", "poll", "kill"}]
          /\ want \in [Users -> Names \cup {None}]
          /\ target \in [Users -> Pids \cup {None}]
          /\ todo \in [Users -> SUBSET Pids]
          /\ doomed \in [Users -> SUBSET Files]
          /\ polls \in [Users -> 0 .. Polls]
          /\ crashed \subseteq Files
          /\ blind \in [Users -> SUBSET Pids]
          /\ past \in [Pids -> SUBSET Mishaps]

Init == /\ phase = [p \in Pids |-> "free"]
        /\ options = [p \in Pids |-> NoOptions]
        /\ owner = {}
        /\ linked = {}
        /\ pidfile = [f \in Files |-> None]
        /\ cmd = [u \in Users |-> "idle"]
        /\ want = [u \in Users |-> None]
        /\ target = [u \in Users |-> None]
        /\ todo = [u \in Users |-> {}]
        /\ doomed = [u \in Users |-> {}]
        /\ polls = [u \in Users |-> 0]
        /\ crashed = {}
        /\ blind = [u \in Users |-> {}]
        /\ past = [p \in Pids |-> {}]

IsServer(p) == phase[p] \in ServerPhases
IsAlive(p) == phase[p] # "free"

\* effective_pidfile, and the files that a command line speaks of.
FileOf(o) == IF o.pidfile # None THEN o.pidfile ELSE o.name
MarksOf(o) == {o.pidfile, o.name} \ {None}
File(p) == FileOf(options[p])
Marks(p) == MarksOf(options[p])

Enters(p, ph) == phase' = [phase EXCEPT ![p] = ph]

\* The process ends.
Ends(p) == /\ Enters(p, "free")
           /\ options' = [options EXCEPT ![p] = NoOptions]
           /\ owner' = owner \ {p}
           /\ linked' = linked \ {p}
           /\ past' = [past EXCEPT ![p] = {}]

\* It ends without running the functions registered with atexit.
EndsAbruptly(p) == /\ Ends(p)
                   /\ crashed' = crashed \cup {f \in Files : pidfile[f] = p}
                   /\ UNCHANGED pidfile

\* A file is removed, whatever it contains and whoever is writing it.
Removes(f) == /\ pidfile' = [pidfile EXCEPT ![f] = None]
              /\ linked' = {p \in linked : File(p) # f}
              /\ crashed' = crashed \ {f}

-----------------------------------------------------------------------------
(* A server. *)

\* "serve start": in the foreground, or the child process of a daemon.
Start(p, o) ==
    /\ phase[p] = "free"
    /\ Enters(p, "boot")
    /\ options' = [options EXCEPT ![p] = o]
    /\ past' = [q \in Pids |->
         IF q = p
         THEN IF \E r \in Pids : IsServer(r) /\ FileOf(o) \in Marks(r)
              THEN {"overlap"} ELSE {}
         ELSE IF IsServer(q) /\ File(q) \in MarksOf(o)
              THEN past[q] \cup {"overlap"} ELSE past[q]]
    /\ UNCHANGED <<owner, files, commands, blind>>

\* The fork of a daemon fails: main returns.
DaemonFails(p) ==
    /\ phase[p] = "boot"
    /\ Ends(p)
    /\ UNCHANGED <<pidfile, crashed, commands, blind>>

NoPidfile(p) ==
    /\ phase[p] = "boot"
    /\ File(p) = None
    /\ Enters(p, "starting")
    /\ UNCHANGED <<options, owner, files, commands, blind, past>>

\* The opening of the file empties it, whatever it contains.
OpenPidfile(p) ==
    /\ phase[p] = "boot"
    /\ File(p) # None
    /\ Enters(p, "writing")
    /\ pidfile' = [pidfile EXCEPT ![File(p)] = None]
    /\ crashed' = crashed \ {File(p)}
    /\ linked' = linked \cup {p}
    /\ blind' = [u \in Users |-> IF cmd[u] \in {"check", "stale", "remove"}
                                 THEN blind[u] \cup {p} ELSE blind[u]]
    /\ UNCHANGED <<options, owner, commands, past>>

\* It fails: the server goes on, and a daemon is going to remove the file.
OpenFails(p) ==
    /\ WriteFails
    /\ phase[p] = "boot"
    /\ File(p) # None
    /\ Enters(p, "starting")
    /\ owner' \in {owner, owner \cup {p}}
    /\ past' = [past EXCEPT ![p] = @ \cup {"unwritten"}]
    /\ UNCHANGED <<options, files, commands, blind>>

\* The process id is written, and the removal of the file registered.  A file
\* that has been removed since it was opened cannot be found any more.
WritePidfile(p) ==
    /\ phase[p] = "writing"
    /\ Enters(p, "starting")
    /\ owner' = owner \cup {p}
    /\ linked' = linked \ {p}
    /\ IF p \in linked
       THEN /\ pidfile' = [pidfile EXCEPT ![File(p)] = p]
            /\ crashed' = crashed \ {File(p)}
       ELSE UNCHANGED <<pidfile, crashed>>
    /\ UNCHANGED <<options, commands, blind, past>>

\* The router listens; the signal handlers are not installed yet.
StartRouter(p) ==
    /\ phase[p] = "starting"
    /\ Enters(p, "open")
    /\ UNCHANGED <<options, owner, files, commands, blind, past>>

\* The port is taken: the exception of the router ends the process.
StartFails(p) ==
    /\ phase[p] = "starting"
    /\ EndsAbruptly(p)
    /\ UNCHANGED <<commands, blind>>

InstallHandlers(p) ==
    /\ phase[p] = "open"
    /\ Enters(p, "serving")
    /\ UNCHANGED <<options, owner, files, commands, blind, past>>

\* g_router->stop and stop_all have returned, if they do.
StopAll(p) ==
    /\ phase[p] = "stopping"
    /\ Enters(p, "exiting")
    /\ UNCHANGED <<options, owner, files, commands, blind, past>>

\* Faulty variant: the removal of the pidfile is not registered.
CleanupNothing(p) ==
    /\ phase[p] = "exiting"
    /\ Enters(p, "leaving")
    /\ UNCHANGED <<options, owner, files, commands, blind, past>>

\* main returns: the file is removed, whatever it contains.
Cleanup(p) ==
    /\ phase[p] = "exiting"
    /\ Enters(p, "leaving")
    /\ IF p \in owner THEN Removes(File(p)) ELSE UNCHANGED files
    /\ UNCHANGED <<options, owner, commands, blind, past>>

\* The destructors have run.
Exit(p) ==
    /\ phase[p] = "leaving"
    /\ Ends(p)
    /\ UNCHANGED <<pidfile, crashed, commands, blind>>

\* A crash, or a SIGKILL from elsewhere.
Crash(p) ==
    /\ IsServer(p)
    /\ EndsAbruptly(p)
    /\ UNCHANGED <<commands, blind>>

\* What SIGTERM does: it ends a server that has no handler yet, and is ignored
\* by one that stops already.  What it does to another program does not matter.
Terminated(p) ==
    IF phase[p] \in {"boot", "writing", "starting", "open"} THEN EndsAbruptly(p)
    ELSE /\ IF phase[p] = "serving" THEN Enters(p, "stopping") ELSE UNCHANGED phase
         /\ UNCHANGED <<options, owner, files, past>>

\* Ctrl-C, or a signal from elsewhere.
Interrupt(p) ==
    /\ IsServer(p)
    /\ Terminated(p)
    /\ UNCHANGED <<commands, blind>>

\* Other programs come and go.
Recycle(p) == /\ \/ phase[p] = "free" /\ Enters(p, "foreign")
                 \/ phase[p] = "foreign" /\ Enters(p, "free")
              /\ UNCHANGED <<options, owner, files, commands, blind, past>>

-----------------------------------------------------------------------------
(* The command "serve stop". *)

Goes(u, c) == cmd' = [cmd EXCEPT ![u] = c]
Looks(u, ps) == blind' = [blind EXCEPT ![u] = ps]

\* resolve_serve_name reads the pidfile.
ReadPidfile(u, n) ==
    /\ cmd[u] = "idle"
    /\ pidfile[n] # None
    /\ want' = [want EXCEPT ![u] = n]
    /\ target' = [target EXCEPT ![u] = pidfile[n]]
    /\ Looks(u, {})
    /\ Goes(u, "check")
    /\ UNCHANGED <<servers, files, todo, doomed, polls, past>>

\* The process is there, although it need not be a server.
TargetAlive(u) ==
    /\ cmd[u] = "check"
    /\ IsAlive(target[u])
    /\ Goes(u, "cmdline")
    /\ UNCHANGED <<servers, files, want, target, todo, doomed, polls, blind, past>>

\* Faulty variant: the process is not looked at.
TargetAssumedGone(u) ==
    /\ cmd[u] = "check"
    /\ Goes(u, "stale")
    /\ UNCHANGED <<servers, files, want, target, todo, doomed, polls, blind, past>>

TargetGone(u) ==
    /\ cmd[u] = "check"
    /\ ~IsAlive(target[u])
    /\ Goes(u, "stale")
    /\ UNCHANGED <<servers, files, want, target, todo, doomed, polls, blind, past>>

\* The command removes a file, whatever it contains by now.  History: whether
\* it is that of a server that has opened it since the command looked.
CommandRemoves(u, f) ==
    /\ Removes(f)
    /\ past' = [p \in Pids |->
         IF p \in blind[u] /\ (pidfile[f] = p \/ (p \in linked /\ File(p) = f))
         THEN past[p] \cup {"raced"} ELSE past[p]]

RemoveStale(u) ==
    /\ cmd[u] = "stale"
    /\ CommandRemoves(u, want[u])
    /\ Goes(u, "idle")
    /\ want' = [want EXCEPT ![u] = None]
    /\ target' = [target EXCEPT ![u] = None]
    /\ Looks(u, {})
    /\ UNCHANGED <<servers, todo, doomed, polls>>

\* "serve stop <pid>", with the process id of a server.
StopPid(u) ==
    /\ cmd[u] = "idle"
    /\ \E p \in Pids : IsServer(p) /\ target' = [target EXCEPT ![u] = p]
    /\ Goes(u, "cmdline")
    /\ UNCHANGED <<servers, files, want, todo, doomed, polls, blind, past>>

\* "serve stop all".
ListServers(u) ==
    /\ cmd[u] = "idle"
    /\ todo' = [todo EXCEPT ![u] = {p \in Pids : IsServer(p)}]
    /\ Goes(u, "list")
    /\ UNCHANGED <<servers, files, want, target, doomed, polls, blind, past>>

\* The next one of the list is a server, or is none any more.
NextListed(u) ==
    /\ cmd[u] = "list"
    /\ \E p \in todo[u] :
         /\ todo' = [todo EXCEPT ![u] = @ \ {p}]
         /\ IF IsServer(p)
            THEN Goes(u, "cmdline") /\ target' = [target EXCEPT ![u] = p]
            ELSE UNCHANGED <<cmd, target>>
    /\ UNCHANGED <<servers, files, want, doomed, polls, blind, past>>

ListEnds(u) ==
    /\ cmd[u] = "list"
    /\ todo[u] = {}
    /\ Goes(u, "idle")
    /\ UNCHANGED <<servers, files, want, target, todo, doomed, polls, blind, past>>

\* stop_process looks for "--pidfile " and "--name " in the command line of the
\* process.  It does not recognise "-n" and "--name=", and takes whatever stands
\* there in that of another program, which says nothing about any server.
ReadCmdline(u) ==
    /\ cmd[u] = "cmdline"
    /\ \/ /\ IsServer(target[u])
          /\ \E fs \in SUBSET Marks(target[u]) : doomed' = [doomed EXCEPT ![u] = fs]
          /\ Looks(u, {})
       \/ /\ phase[target[u]] = "foreign"
          /\ \E fs \in SUBSET Files :
               /\ doomed' = [doomed EXCEPT ![u] = fs]
               /\ Looks(u, IF fs = {} THEN {} ELSE Pids)
       \/ /\ ~IsAlive(target[u])
          /\ UNCHANGED doomed
          /\ Looks(u, {})
    /\ Goes(u, "remove")
    /\ UNCHANGED <<servers, files, want, target, todo, polls, past>>

\* One of the files it has found there.
Remove(u) ==
    /\ cmd[u] = "remove"
    /\ \E f \in doomed[u] :
         /\ CommandRemoves(u, f)
         /\ doomed' = [doomed EXCEPT ![u] = @ \ {f}]
    /\ UNCHANGED <<servers, cmd, want, target, todo, polls, blind>>

SendTerm(u) ==
    /\ cmd[u] = "remove"
    /\ doomed[u] = {}
    /\ Terminated(target[u])
    /\ Looks(u, {})
    /\ Goes(u, "poll")
    /\ UNCHANGED <<want, target, todo, doomed, polls>>

\* stop_process returns, to the list if there is one.
Returns(u) == /\ Goes(u, IF todo[u] = {} THEN "idle" ELSE "list")
              /\ target' = [target EXCEPT ![u] = None]
              /\ want' = [want EXCEPT ![u] = None]
              /\ polls' = [polls EXCEPT ![u] = 0]
              /\ UNCHANGED <<todo, doomed, blind>>

\* Faulty variant: stop_process waits until the server is gone.
PollForever(u) ==
    /\ cmd[u] = "poll"
    /\ ~IsAlive(target[u])
    /\ Returns(u)
    /\ UNCHANGED <<servers, files, past>>

Poll(u) ==
    /\ cmd[u] = "poll"
    /\ \/ /\ ~IsAlive(target[u])
          /\ Returns(u)
       \/ /\ IsAlive(target[u])
          /\ polls[u] < Polls
          /\ polls' = [polls EXCEPT ![u] = @ + 1]
          /\ UNCHANGED <<cmd, want, target, todo, doomed, blind>>
       \/ /\ IsAlive(target[u])
          /\ polls[u] = Polls
          /\ Goes(u, "kill")
          /\ UNCHANGED <<want, target, todo, doomed, polls, blind>>
    /\ UNCHANGED <<servers, files, past>>

\* SIGKILL; the last look at the process changes only what is printed.
SendKill(u) ==
    /\ cmd[u] = "kill"
    /\ IF IsServer(target[u]) THEN EndsAbruptly(target[u])
                              ELSE UNCHANGED <<servers, files, past>>
    /\ Returns(u)

-----------------------------------------------------------------------------

ServerStep(p) == \/ DaemonFails(p) \/ NoPidfile(p) \/ OpenPidfile(p) \/ OpenFails(p)
                 \/ WritePidfile(p) \/ StartRouter(p) \/ StartFails(p)
                 \/ InstallHandlers(p) \/ StopAll(p) \/ Cleanup(p) \/ Exit(p)

StopStep(u) == \/ TargetAlive(u) \/ TargetGone(u) \/ RemoveStale(u)
               \/ NextListed(u) \/ ListEnds(u)
               \/ ReadCmdline(u) \/ Remove(u) \/ SendTerm(u) \/ Poll(u) \/ SendKill(u)

Next == \/ \E p \in Pids, o \in Launches : Start(p, o)
        \/ \E p \in Pids : ServerStep(p) \/ Crash(p) \/ Interrupt(p) \/ Recycle(p)
        \/ \E u \in Users, n \in Names : ReadPidfile(u, n)
        \/ \E u \in Users : StopPid(u) \/ ListServers(u) \/ StopStep(u)

Spec == Init /\ [][Next]_vars

\* A command that was started is scheduled.  Nothing is assumed of the servers:
\* they may hang.
FairSpec == Spec /\ \A u \in Users : WF_vars(StopStep(u))

-----------------------------------------------------------------------------
(* Properties. *)

\* The process id in a pidfile is that of a live server which has this file and
\* has not removed it yet, unless the server has ended abruptly: by a crash, a
\* SIGKILL, a failure to start, or a SIGTERM before its handlers were installed.
OnlyAbruptEndsLeaveFiles == \A f \in Files :
    pidfile[f] # None /\ f \notin crashed =>
        /\ phase[pidfile[f]] \in ServerPhases \ {"boot", "writing", "leaving"}
        /\ File(pidfile[f]) = f

\* A command is about to send SIGTERM to p, and has perhaps removed its files.
Condemned(p) == \E u \in Users : cmd[u] = "remove" /\ target[u] = p

\* The pidfile of a running server contains its process id, although commands
\* and other servers remove and write files without a lock, unless the file
\* could not be opened; another server with the file in its command line was
\* alive at the same time; or a command has removed it that had looked for the
\* owner before the server opened it, or in the command line of a program that
\* is no server.
RunningServerKeepsFile == \A p \in Pids :
    /\ phase[p] \in {"starting", "open", "serving"}
    /\ File(p) # None
    /\ past[p] = {}
    /\ ~Condemned(p)
    => pidfile[File(p)] = p

\* "serve stop" returns, even if the server hangs.
StopReturns == \A u \in Users : cmd[u] # "idle" ~> cmd[u] = "idle"

\* While nothing starts or stops, the file of the name of a server contains the
\* process id of a server of this name, so that "serve stop" finds one.
AtRest == /\ \A p \in Pids : IsServer(p) => phase[p] = "serving"
          /\ \A u \in Users : cmd[u] = "idle"
NamedServerFound == AtRest => \A n \in Names :
    (\E p \in Pids : IsServer(p) /\ options[p].name = n)
        => /\ pidfile[n] # None
           /\ IsServer(pidfile[n]) /\ options[pidfile[n]].name = n

=============================================================================
