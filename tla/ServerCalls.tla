---------------------------- MODULE ServerCalls -----------------------------
(***************************************************************************)
(* A server (src/src/cli/main.cpp, oatpp_router.hpp, runner_mgr.cpp) and   *)
(* the command line processes that talk to it: chat sessions, each with    *)
(* its history of messages, and the commands runner start and stop.  Every *)
(* call has a connection and, once accepted, a thread of its own, which    *)
(* waits for the mutex of the manager.  Any party may give up first: the   *)
(* client, the manager that waits for a runner, or the server.             *)
(*                                                                         *)
(* The life of a runner is RunnerManager's subject: here a name is         *)
(* registered or not, its process may have died, and the call that spawns  *)
(* it may wait for a child that does not end (the run RMLostTerm).         *)
(***************************************************************************)
EXTENDS SequencesExt

CONSTANTS
    Chats,     \* processes that run "runner chat"
    Users,     \* processes that run "runner start" and "runner stop"
    Names,     \* names of models and runners
    MaxCalls   \* bound: calls ever made

ASSUME CallsAssumption == /\ MaxCalls \in Nat
                          /\ Chats \cap Users = {}

VARIABLES
    model,    \* the name that a chat was opened with
    history,  \* history of a chat
    pending,  \* the call that a client waits for, or 0
    calls,    \* every call ever made, with its thread in the server
    main,     \* what the main thread of the server has reached
    mutex,    \* mtx_: the call that waits for a runner with the mutex, or 0
    starter,  \* runners_: the call that has started each runner, or 0
    dead,     \* the names of the runners whose process has died
    gens,     \* calls whose completion is being generated in a runner
    late      \* history: calls that have begun to spawn after the last stop_all

clients == <<model, history, pending>>
manager == <<mutex, starter, dead, gens, late>>
vars == <<clients, calls, main, manager>>

Clients == Chats \cup Users
Ids == 1 .. MaxCalls

Message == [role : {"user", "assistant"}, call : Ids]
User(i) == [role |-> "user", call |-> i]
Assistant(i) == [role |-> "assistant", call |-> i]  \* text made for call i

Reply == [kind : {"none", "ok", "error"}, from : 0 .. MaxCalls]
NoReply == [kind |-> "none", from |-> 0]
Done == [kind |-> "ok", from |-> 0]
Text(i) == [kind |-> "ok", from |-> i]
Failed == [kind |-> "error", from |-> 0]

Ops == {"chat", "run", "stop", "stop_all"}

\* A thread with the mutex waits for the health of the child it has spawned, for
\* the end of one that has not become healthy, or for an answer.
Inside == {"spawns", "stuck", "holds"}
Unanswered == {"sent", "waiting"} \cup Inside
Threads == Unanswered \cup {"replied", "lost", "over"}
Call == [op : Ops, name : Names, msgs : Seq(Message),
         thread : Threads,
         reply : Reply]

runners == {n \in Names : starter[n] # 0}

TypeOK == /\ model \in [Chats -> Names]
          /\ history \in [Chats -> Seq(Message)]
          /\ pending \in [Clients -> 0 .. Len(calls)]
          /\ calls \in Seq(Call)
          /\ Len(calls) \in 0 .. MaxCalls
          /\ main \in {"serving", "closed", "stopped", "gone"}
          /\ mutex \in 0 .. Len(calls)
          /\ starter \in [Names -> 0 .. Len(calls)]
          /\ dead \subseteq runners
          /\ gens \subseteq 1 .. Len(calls)
          /\ late \subseteq 1 .. Len(calls)

Init == /\ model \in [Chats -> Names]
        /\ history = [c \in Chats |-> <<>>]
        /\ pending = [c \in Clients |-> 0]
        /\ calls = <<>>
        /\ main = "serving"
        /\ mutex = 0
        /\ starter = [n \in Names |-> 0]
        /\ dead = {}
        /\ gens = {}
        /\ late = {}

Up == main # "gone"

-----------------------------------------------------------------------------
(* The clients. *)

\* cli.Post, with a connection of its own; without a server it is refused.
Posts(c, op, n, msgs) ==
    /\ pending[c] = 0
    /\ Len(calls) < MaxCalls
    /\ pending' = [pending EXCEPT ![c] = Len(calls) + 1]
    /\ calls' = Append(calls, [op |-> op, name |-> n, msgs |-> msgs,
                               thread |-> IF Up THEN "sent" ELSE "lost",
                               reply |-> NoReply])

\* A line of the user: the whole history is sent.
Ask(c) ==
    /\ history' = [history EXCEPT ![c] = Append(@, User(Len(calls) + 1))]
    /\ Posts(c, "chat", model[c], history'[c])
    /\ UNCHANGED model

\* /reset.  The other commands of a chat, and its end, leave all this alone.
Reset(c) ==
    /\ pending[c] = 0
    /\ history' = [history EXCEPT ![c] = <<>>]
    /\ UNCHANGED <<model, pending, calls>>

\* runner start and runner stop.
Command(c) ==
    /\ \E op \in Ops \ {"chat"}, n \in Names : Posts(c, op, n, <<>>)
    /\ UNCHANGED <<model, history>>

\* Faulty variant: the turn of the user stays in the history.
TurnsKept(c, r) == IF r.kind = "ok" THEN Append(history[c], Assistant(r.from))
                                    ELSE history[c]

\* What a chat makes of an answer: an error takes the user's turn back.
Turns(c, r) == IF r.kind = "ok" THEN Append(history[c], Assistant(r.from))
                                ELSE Front(history[c])

Receives(c, r) ==
    /\ pending' = [pending EXCEPT ![c] = 0]
    /\ history' = IF c \in Chats THEN [history EXCEPT ![c] = Turns(c, r)] ELSE history
    /\ UNCHANGED model

\* The thread or the connection of a call, and what was replied.
Sets(i, where, r) == calls' = [calls EXCEPT ![i].thread = where, ![i].reply = r]
Goes(i, where) == Sets(i, where, NoReply)

\* An answer, or the connection was refused or closed.
Return(c) ==
    /\ pending[c] # 0
    /\ \/ /\ calls[pending[c]].thread = "replied"
          /\ Receives(c, calls[pending[c]].reply)
       \/ /\ calls[pending[c]].thread = "lost"
          /\ Receives(c, Failed)
    /\ Goes(pending[c], "over")

\* The read times out; the server is not told.
GiveUp(c) == /\ pending[c] # 0
             /\ calls[pending[c]].thread \in Unanswered
             /\ Receives(c, Failed)
             /\ UNCHANGED calls

ClientStep ==
    /\ \/ \E c \in Chats : Ask(c) \/ Reset(c)
       \/ \E c \in Users : Command(c)
    /\ UNCHANGED <<main, manager>>

GiveUpStep(c) == GiveUp(c) /\ UNCHANGED <<main, manager>>

ReturnStep(c) == Return(c) /\ UNCHANGED <<main, manager>>

-----------------------------------------------------------------------------
(* The threads of the calls. *)

\* A reply goes nowhere if the client has given up.
Awaited(i) == \E c \in Clients : pending[c] = i
Replies(i, r) == IF Awaited(i) THEN Sets(i, "replied", r) ELSE Goes(i, "over")

\* The router hands the connection to a thread.
Accept(i) == /\ main = "serving"
             /\ calls[i].thread = "sent"
             /\ Goes(i, "waiting")
             /\ UNCHANGED manager

\* The thread takes the mutex.
Gets(i, op) == /\ mutex = 0
               /\ Up
               /\ calls[i].thread = "waiting"
               /\ calls[i].op = op

Of(names) == {i \in gens : calls[i].name \in names}
StopsAll(names) == /\ starter' = [n \in Names |-> IF n \in names THEN 0 ELSE starter[n]]
                   /\ dead' = dead \ names
                   /\ gens' = gens \ Of(names)
                   /\ UNCHANGED late

\* stop, of a name that may not be registered, and stop_all.
Stop(i) == /\ \/ Gets(i, "stop") /\ StopsAll({calls[i].name})
              \/ Gets(i, "stop_all") /\ StopsAll(Names)
           /\ Replies(i, Done)
           /\ UNCHANGED mutex

\* The early returns of start_runner: the name is taken, there is no such file.
Refused(i) == /\ Gets(i, "run")
              /\ Replies(i, Failed)
              /\ UNCHANGED manager

\* get_or_start has returned nullptr early.
ChatUnstarted(i) == /\ Gets(i, "chat")
                    /\ calls[i].name \notin runners
                    /\ Replies(i, Failed)
                    /\ UNCHANGED manager

\* The request to a registered runner; a dead one gets none.
Chat(i) == /\ Gets(i, "chat")
           /\ calls[i].name \in runners
           /\ mutex' = i
           /\ Goes(i, "holds")
           /\ gens' = IF calls[i].name \in dead THEN gens ELSE gens \cup {i}
           /\ UNCHANGED <<starter, dead, late>>

\* spawn_runner: a child is spawned and polled, with the mutex held.
Spawns(i) == /\ Gets(i, "run") \/ Gets(i, "chat")
             /\ calls[i].name \notin runners
             /\ mutex' = i
             /\ Goes(i, "spawns")
             /\ late' = IF main = "stopped" THEN late \cup {i} ELSE late
             /\ UNCHANGED <<starter, dead, gens>>

Is(i, where) == mutex = i /\ calls[i].thread = where

\* It is healthy and registered; a chat goes on to its request.
Spawned(i) == /\ Is(i, "spawns")
              /\ starter' = [starter EXCEPT ![calls[i].name] = i]
              /\ \/ /\ calls[i].op = "run"
                    /\ Replies(i, Done)
                    /\ mutex' = 0
                    /\ UNCHANGED gens
                 \/ /\ calls[i].op = "chat"
                    /\ Goes(i, "holds")
                    /\ gens' = gens \cup {i}
                    /\ UNCHANGED mutex
              /\ UNCHANGED <<dead, late>>

\* It is not, but has ended when it was told to.
SpawnFails(i) == /\ Is(i, "spawns")
                 /\ Replies(i, Failed)
                 /\ mutex' = 0
                 /\ UNCHANGED <<starter, dead, gens, late>>

\* It is not, and has lost the signal ...
SpawnSticks(i) == /\ Is(i, "spawns")
                  /\ Goes(i, "stuck")
                  /\ UNCHANGED manager

\* ... until it dies of something else, if it ever does.
Unstick(i) == /\ Is(i, "stuck")
              /\ Replies(i, Failed)
              /\ mutex' = 0
              /\ UNCHANGED <<starter, dead, gens, late>>

\* Faulty variant: the connection to a runner is kept after a timeout.
AnswerKept(i) == /\ Is(i, "holds")
                 /\ i \in gens
                 /\ \E g \in Of({calls[i].name}) :
                      /\ Replies(i, Text(g))
                      /\ gens' = gens \ {g}
                 /\ mutex' = 0
                 /\ UNCHANGED <<starter, dead, late>>

\* The runner answers on the connection of the request.
Answer(i) == /\ Is(i, "holds")
             /\ i \in gens
             /\ Replies(i, Text(i))
             /\ gens' = gens \ {i}
             /\ mutex' = 0
             /\ UNCHANGED <<starter, dead, late>>

\* Faulty variant: a request to a runner never times out.
FailIfDead(i) == /\ Is(i, "holds")
                 /\ i \notin gens
                 /\ Replies(i, Failed)
                 /\ mutex' = 0
                 /\ UNCHANGED <<starter, dead, gens, late>>

\* The runner is gone, or says nothing for the time of a read, or its answer
\* is not one.  The connection is closed; the runner may go on.
Fail(i) == /\ Is(i, "holds")
           /\ Replies(i, Failed)
           /\ mutex' = 0
           /\ UNCHANGED <<starter, dead, gens, late>>

CallStep(i) == /\ \/ Accept(i) \/ Stop(i)
                  \/ Refused(i) \/ ChatUnstarted(i) \/ Chat(i) \/ Fail(i)
                  \/ Spawns(i) \/ Spawned(i) \/ SpawnFails(i) \/ SpawnSticks(i)
               /\ UNCHANGED <<clients, main>>

-----------------------------------------------------------------------------
(* The runners. *)

RunnerAnswers == \E i \in DOMAIN calls : Answer(i) /\ UNCHANGED <<clients, main>>

ChildEnds == \E i \in DOMAIN calls : Unstick(i) /\ UNCHANGED <<clients, main>>

\* A completion that nobody waits for any more.
GeneratorEnds == /\ \E i \in gens \ {mutex} : gens' = gens \ {i}
                 /\ UNCHANGED <<clients, calls, main, mutex, starter, dead, late>>

RunnerDies == /\ \E n \in runners \ dead : dead' = dead \cup {n} /\ gens' = gens \ Of({n})
              /\ UNCHANGED <<clients, calls, main, mutex, starter, late>>

-----------------------------------------------------------------------------
(* The main thread of the server. *)

\* A signal; the router does not accept connections any more.
Close == /\ main = "serving"
         /\ main' = "closed"
         /\ UNCHANGED <<clients, calls, manager>>

\* Faulty variant: the manager is cleared while a call is spawning a runner.
StopAllUnlocked == /\ main = "closed"
                   /\ StopsAll(Names)
                   /\ main' = "stopped"
                   /\ UNCHANGED <<clients, calls, mutex>>

\* g_runner_mgr->stop_all.
StopAll == /\ main = "closed"
           /\ mutex = 0
           /\ StopsAll(Names)
           /\ main' = "stopped"
           /\ UNCHANGED <<clients, calls, mutex>>

\* The connections of a process that ends are closed.
Disconnect == calls' = [i \in DOMAIN calls |->
    IF calls[i].thread \notin Unanswered THEN calls[i]
    ELSE [calls[i] EXCEPT !.thread = IF Awaited(i) THEN "lost" ELSE "over"]]

\* main returns, or the server is killed or crashes: its registry is lost.  On
\* return, the destructor of the manager stops the runners once more, unless an
\* open connection keeps the manager alive.
Dies == /\ main' = "gone"
        /\ Disconnect
        /\ mutex' = 0
        /\ starter' = [n \in Names |-> 0]
        /\ dead' = {}
        /\ gens' = {}
        /\ late' = {}
        /\ UNCHANGED clients

Exit == main = "stopped" /\ Dies

Crash == Up /\ Dies

\* Another server takes over the address.
Restart == /\ main = "gone"
           /\ main' = "serving"
           /\ UNCHANGED <<clients, calls, manager>>

MainStep == StopAll \/ Exit

-----------------------------------------------------------------------------

Next == \/ ClientStep
        \/ \E c \in Clients : ReturnStep(c) \/ GiveUpStep(c)
        \/ \E i \in DOMAIN calls : CallStep(i)
        \/ RunnerAnswers \/ GeneratorEnds \/ RunnerDies \/ ChildEnds
        \/ Close \/ MainStep \/ Crash \/ Restart

Spec == Init /\ [][Next]_vars

\* The thread with the mutex waits for a child that need not end.
Stuck == \E i \in DOMAIN calls : calls[i].thread = "stuck"

(***************************************************************************)
(* The threads of the server and its clients are scheduled, and a request  *)
(* to a runner times out (Fail), but the wait for a child that has lost    *)
(* its signal does not (Stuck).  A runner need not answer, nobody need     *)
(* type anything, and of the timeout of a client's own read it is assumed  *)
(* only that it ends a read that the server leaves waiting for ever.       *)
(***************************************************************************)
FairSpec == /\ Spec
            /\ WF_vars(\E i \in DOMAIN calls : CallStep(i))
            /\ WF_vars(MainStep)
            /\ \A c \in Clients : WF_vars(ReturnStep(c))
            /\ \A c \in Clients : WF_vars(Stuck /\ GiveUpStep(c))

-----------------------------------------------------------------------------
(* Properties. *)

\* Whatever fails, a model is asked with a conversation in which the user and
\* the assistant take turns, and the user speaks last.
Alternates(msgs) == \A k \in DOMAIN msgs :
    msgs[k].role = "user" <=> k = 1 \/ msgs[k - 1].role = "assistant"
EndsWith(role, msgs) == msgs # <<>> /\ msgs[Len(msgs)].role = role
ChatAlternates == \A i \in DOMAIN calls : calls[i].op = "chat" =>
    Alternates(calls[i].msgs) /\ EndsWith("user", calls[i].msgs)

\* An answer in the history of a chat was made for the conversation before it:
\* no late answer, of the server or of a runner, is taken for another's.
AnswersFitHistory == \A c \in Chats : \A k \in DOMAIN history[c] :
    history[c][k].role = "assistant" =>
        calls[history[c][k].call].msgs = SubSeq(history[c], 1, k - 1)

\* What makes these two inductive: the call that a chat waits for was sent with
\* its whole history, and the text of a reply was made for the call itself.
ChatInv(c) ==
    /\ Alternates(history[c])
    /\ \A k \in DOMAIN history[c] : history[c][k].call \in DOMAIN calls
    /\ pending[c] = 0 => history[c] = <<>> \/ EndsWith("assistant", history[c])
    /\ pending[c] # 0 => /\ calls[pending[c]].op = "chat"
                         /\ calls[pending[c]].msgs = history[c]
                         /\ EndsWith("user", history[c])
ReplyInv == \A i \in DOMAIN calls : calls[i].op = "chat" /\ calls[i].reply.kind = "ok"
                                      => calls[i].reply.from = i

\* The runners that are there after the stop_all of main were started by calls
\* that got the mutex after it: none of an earlier call escapes, although such
\* a call may be spawning one when the server is told to end.
LateRunnersOnly == main = "stopped" => \A n \in runners : starter[n] \in late

\* What makes it inductive: one call at a time is inside, with the mutex.
LateInv == /\ \A i \in DOMAIN calls : calls[i].thread \in Inside => mutex = i
           /\ \A i \in DOMAIN calls :
                main = "stopped" /\ calls[i].thread = "spawns" => i \in late
           /\ LateRunnersOnly

CallsInv == /\ TypeOK
            /\ LateInv
            /\ \A c \in Chats : ChatInv(c)
            /\ ReplyInv
            /\ ChatAlternates
            /\ AnswersFitHistory

\* Every command returns, even if its runner hangs and the server is told to
\* end meanwhile.
CommandsReturn == \A c \in Clients : pending[c] # 0 ~> pending[c] = 0

\* A server that was told to end does, even if a runner hangs, unless spawn_runner
\* waits for ever with the mutex that stop_all needs.
ServerEnds == []<>~Stuck => (main = "closed" ~> ~Up)

=============================================================================
