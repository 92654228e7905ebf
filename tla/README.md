# Verification of cllama

cllama serves local language models over an OpenAI-compatible HTTP API. The
server does not run models itself: it starts one child process (a *runner*)
per model, waits until the runner answers `GET /health`, and proxies requests
to it. The specifications in this directory model that machinery and the
streaming path through it, TLC checks them on small instances, and TLAPS
proves their safety properties for every value of the constants: of the runner
manager, of each part of the streaming path and of the path as a whole, of the
calls, of the servers' pidfiles and of the command line parser; liveness is checked
by TLC alone. Paths below are those of the repository, whose root is the directory
`src/` that `PROJECT.json` refers to (`src/core/runner_mgr.cpp` is
`src/src/core/runner_mgr.cpp` there).

## 1. Inventory

| Part | State it keeps | Operations | Interacts with |
|---|---|---|---|
| **RunnerManager** (`src/core/runner_mgr.cpp`) | `runners_`: name to pid, port and HTTP client; two maps of runner binaries; `mtx_` | `start`, `start_runner`, `stop`, `stop_all`, `health`, inference calls, `list_*` | called by the router's threads; forks, signals and waits for runners; HTTP to them |
| **Platform layer** (`src/platform/`) | none on POSIX, a table of process handles on Windows | `spawn_process`, `wait_process`, `kill_process`, `process_is_alive`, `find_free_port`, `daemonize`, `list_processes` | called by the manager and the command line |
| **Runner process** (`src/runner/llama_runner.cpp`) | the loaded model, one `TokenStream` per request | `/health`, `/api/completion`, `/api/chat`, `/api/embeddings`, SIGTERM | started and stopped by the manager; a detached generator thread per request |
| **oatpp router** (`include/cllama/api/oatpp_router.hpp`) | one `IOPipe` per streamed response | the REST endpoints | a connection thread per client and a detached stream thread per streamed request |
| **Stream parser** (`runner_mgr.cpp:292-363`) | `StreamCtx` per request | `stream_parse_chunk`, `parse_ndjson` | fed by the HTTP client, calls `on_token` |
| **C++ REST SDK router** (`cpprest_router.hpp`) | one `producer_consumer_buffer` per streamed response | the same endpoints | the manager; the listener of the library reads the buffer |
| **Serve control** (`src/cli/main.cpp:39-53, 259-456`) | pidfiles and info files in `/tmp` | `serve start`, `serve stop`, `serve stop all`, `serve list` | other processes, through files and signals |
| **Command line** (`main.cpp`, `cflag.hpp`) | chat history | one command per invocation | HTTP to a server or a runner |
| **Configuration, logging** | none worth modelling | | |

What is hard in this code, and what each part must guarantee:

* *RunnerManager.* Request threads exclude one another with `mtx_`, but every
  step of a call interleaves with children that load, listen, crash and exit
  by themselves, with unrelated processes that take ports and recycle pids,
  and with signals that are lost. It must leak no process and no zombie,
  signal nobody but its own children, never lose or overwrite an entry,
  register a runner only on the word of its own process, answer from the right
  runner, and give the mutex back.
* *IOPipe.* A producer and a consumer with a condition variable, a watermark,
  and clients that disappear. It must lose no wake-up, no byte and no end of
  stream, and its memory is bounded.
* *Runner process.* A generator thread, a content provider that releases the
  lock around each socket write, an abort by a callback, a shutdown in the
  middle. The `done` line must follow the last token.
* *Stream parser.* Lines cut at arbitrary places, streams that end early, a
  callback that refuses. What it reports as a success must be one.
* *C++ REST SDK router.* The same streams over a buffer that has no bound and
  whose operations throw once the client has left, in a handler that catches
  nothing but what `on_token` throws; its client must be able to tell a failed
  completion from a complete one.
* *Command line and router threads.* A chat keeps a history that the server never
  sees whole except in its requests; client, manager and server have timeouts of
  their own and none tells the next one that it gave up. No late answer may be
  taken for another's, every command must return, and the server must end.
* *Serve control and server lifecycle.* Several processes that share pidfiles and
  the process table without a lock: between the look of `serve stop` at a file or
  a process and the removal of a file, servers start, end and are replaced. A
  running server must keep its file unless somebody has interfered with it in a
  way that can be named, a stale file must be the trace of an abrupt end, and the
  command must return. Detached threads outlive the shutdown and may start a
  runner after the last `stop_all`.

`PROJECT.json` lists the hazards at the lines where they bite, with the
properties that are about them.

## 2. Modules and plan

| Module | Models | Used by |
|---|---|---|
| `RunnerPool` | abstract: a pool of children that are reaped before their name is free again | refined by `RunnerManager` |
| `RunnerManager` | the manager, its threads and its children | `MCRunnerManager` (a symmetry set), `RunnerManagerProofs` |
| `ByteStream` | abstract: a stream of bytes with an end | refined by `IOPipe` |
| `IOPipe` | the pipe with the stream thread and the connection thread | `StreamPath`, `IOPipeProofs` |
| `TokenLines` | tokens, texts and the lines a runner sends | the next five |
| `RunnerFaults` | constants: what may go wrong in a runner | `TokenStream`, `StreamPath` |
| `TokenChannel` | abstract: tokens in order, then at most one final line with their text | refined by `TokenStream` |
| `TokenStream` | the generator thread and the content provider of one request in a runner | `StreamPath` |
| `StreamProxy` | `stream_completion`, `stream_chat`, their parser, and `parse_ndjson` | `StreamPath`, `RestStream`, `StreamProxyProofs` |
| `StreamPath` | composition of `TokenStream`, `StreamProxy` and `IOPipe`: one streamed request from end to end | `StreamPathProofs`, also about the runner alone |
| `RestStream` | `StreamProxy` under the C++ REST SDK router: the handler, its buffer, the listener and the client | `RestStreamProofs` |
| `ServerCalls` | the command line's chats and commands, the threads of the router, the mutex, runners that answer late, the end and the restart of the server | `ServerCallsProofs` |
| `ServeControl` | server processes, pidfiles and `serve stop` | `MCServeControl` (the options of the servers), `ServeControlProofs` |
| `CFlag` | the command line parser | `MCCFlag` (a small tree of commands), `CFlagProofs` |

All of these are written. What remains is the composition of the detached stream
threads at shutdown with `ServerCalls` (which of them keeps the manager alive), and
of `ServeControl` with `ServerCalls`, which today meet only in what each says about
the end of a server.

## 3. RunnerManager

### State

| Variable | Code |
|---|---|
| `lock` | `mtx_`, which every operation holds from its first to its last step |
| `pc`, `op`, `frame` | where each request thread is, its call and the locals of that call (`pid`, `port`, loop counters, who answered last, the runner being stopped) |
| `runners` | `runners_`; of an entry, the pid and the port |
| `pstate`, `pport` | the process table: what each pid is now, and the `--port` it was started with |
| `foreignOn` | ports on which unrelated processes listen |

A child is `loading` (from `fork` to `std::signal`, `llama_runner.cpp:188`),
`armed` (up to `svr.listen`), `serving`, `draining` (its HTTP server was
stopped), or a `zombie`. The distinction between the first three is there
because SIGTERM has a different effect in each: the default action kills, the
handler of an armed child only clears a flag that nobody reads, and the
handler of a serving one stops the server. An id may also be `foreign`, and a
foreign process that is signalled becomes `shot`, which is how `NoBystander`
notices.

### Actions

One action per step of the code between two points where other processes can
be observed to have moved: `Acquire`, `LookupHit`/`LookupFails`, `PickPort`
(`find_free_port`), `Fork`/`ForkFails`, one iteration of the health loop
(`PollHealthy`, `PollMiss`), `Register`, `GiveUp` and `ReapFailed`, the proxied request
(`PostAnswered`, `PostFails`), `StopOne`, `TermAll`, the parts of
`stop_with_timeout` (`StopBegin`, `GraceTick`, `GraceDead`, `GraceOver`,
`Reap`), `Erase`, `Release`; and the children's `Arm`, `Listen`, `ExitEarly`,
`Drained`, `Crash`, with `Recycle` and `ForeignPort` for the rest of the
system. A call names its model file by the name of the runner, except for
`start_runner`, whose file is chosen independently. `stop_all` visits the runners in any order
(the map's order is that of the names, which the model does not order).

`Posix` chooses between the two semantics of the platform layer (`PosixTerm` and
`PosixAlive`, `WindowsTerm` and `WindowsAlive`): on POSIX
`kill(pid, 0)` succeeds for a zombie; on Windows signals terminate at once and
an exited process is seen to be dead.

`RegistryDiscipline` and `ImplementsPool` say that an entry is never
overwritten and disappears only after its child was waited for; `NoLeak` that,
whenever the mutex is free, the children that were not waited for are exactly
those of the entries; `NoBystander` that no unrelated process is signalled,
although pids are recycled. `ServingAnswersItself` says that an answered request
was answered by the process of the entry, unless this process does not listen
any more or its port is one that unrelated processes can take.

A child is registered on the word of an answer to `GET /health`, and the answer
and the registration are two steps: the child may crash in between, and is then
registered while it is dead. `RegisteredServing` says what is left of the promise:
the answer was that of the child itself (`Vouched`), which served at that moment and
has at most died since. It says nothing of ports that unrelated processes can take
(`ForeignPorts`), for the manager cannot tell whose answer it gets there.

The loops of 100 health polls and 50 grace polls are cut to one or two: each
iteration has the same effect, and between two of them the children may take
any number of steps. Two threads suffice for contention, because a third could
only wait for the mutex as the second does. Two names are needed for one runner
to inherit the port of another; two pids for a foreign process beside a
child or for two children. In the run of Windows one port is enough, which an unrelated
process can take at any time. Symmetry of threads, pids and ports is used in a run
without liveness only.

`FairSpec` assumes that the holder of the mutex is scheduled (the HTTP client
has timeouts and the loops are bounded; only `wait_process` may wait for ever,
and there the step is not enabled) and that a child that starts up either
listens or exits. Nothing is assumed about the order in which threads get
`mtx_`, so starvation at the mutex is allowed, nor about a draining child: a
runner whose workers hang must not prevent `stop` from returning, and
`StopCompletes` shows that it does not. `LockReleased` is checked for Windows,
where a signal ends the process; on POSIX it does not hold, which is what
`RMLostTerm` shows. That run uses `FairDrainSpec`, in which a draining child
also exits, so that nothing but the lost signal is to blame.

## 4. The streaming path

### IOPipe

The pipe is `buf`, `done`, `aborted`; the stream thread of a request is `wpc`,
`tokens`, `failed`; the connection thread is `rpc`, with `woken` for the
condition variable. `read`, `write` and `close` are each one critical section
and so one action; a `read` that finds nothing is split into `ReadWaits` and
`Wake`, and may wake up spuriously. `put` and `got` are histories of the bytes
that entered and left the buffer. Bytes are pairs of an event and a position,
so that order and completeness are visible.

Run `Pipe` has a watermark of 5, events of 2 bytes, reads of 3 and 4 tokens: an
event can cross the watermark, a read can end inside an event, and the error and
the `[DONE]` marker can find the pipe aborted. Fairness: both threads are
scheduled, and `stream_completion` is assumed to return (`CallReturns` of
`StreamPath` shows that it does). The connection thread's step `Sent` is the end of a
write to the client, so its fairness assumes that a client that stays reads on, or
leaves, in the end; `WriterEnds` holds without that, for `write` never waits.

### TokenStream

One request of `/api/completion` or `/api/chat` with `stream` set, inside a
runner. `queue`, `text`, `done`, `aborted` are the shared `TokenStream`; `gpc`
and `made` are the generator thread; `ppc`, `cur`, `woken` the content provider,
which is called by a worker of the HTTP server. `lines` is what was written to
the connection and `closed` its end.

| Actions | Code in `llama_runner.cpp` |
|---|---|
| `PushToken`, `Generated`, `GenerateThrows` | the callback of `generate`, its return and the catch block |
| `Provide`, `ProviderWaits`, `Drain`, `DrainOn` | the content provider, which takes tokens under the mutex |
| `SendToken`, `SendFails`, `SendFinal` | `sink.write`, with the mutex released |
| `DumpThrows` | `json::dump` of a token that is not valid UTF-8 by itself |
| `Release` | the callback at the end of the response |
| `Stop`, `MainReturns`, `Crash` | signals, the end of `main` with detached generators, crashes |

A token is its number; `SplitTokens` are the ones that end inside a character.
Sampling ends after `max_tokens`, and a write to the connection has a timeout.
`TokenStream` is checked as a part of `StreamPath`: there `NoLostToken` is its
`NoLostWakeup`, and `RunnerKeepsChannel` its refinement of `TokenChannel`, with
writes that fail exactly when the server has closed the connection.

### StreamProxy

`stream_parse_chunk`, `parse_ndjson` and the result of the call. The sender puts
whole lines on the `wire`, at most one final line, possibly something that is no
line of a runner, and hangs up at any time, even within a line. `Receive` takes a
chunk of any size; `ScanToken`, `ScanFinal`, `ScanGarbage`, `ScanEnds` are the
loop over the lines of `leftover`. `ParseNdjson` is what `parse_ndjson` makes of
the same body when it is not streamed: `std::getline` also gives it the rest after
the last newline, which `stream_parse_chunk` never looks at. `BufferedAgrees` says
that the two agree on a body that ends with a line. The module is checked as a
part of `RestStream`.

### StreamPath

The three modules are composed by instantiation: the proxy's `wire` is the bytes
of the runner's `lines`; a token that the proxy passes on is a `WriteToken` of the
pipe, whose return value is that of `on_token`; and the result of the call
decides how the stream thread goes on. A step of the composition is a step of
one module, or a joint step of the proxy and the pipe. A write of the runner can
fail only when the proxy has closed the connection.

Run `PathAll` (3 tokens, watermark 2) lets the runner crash, be signalled, throw
and split a character, the client read slowly and leave: `CallReturns` says that
the call returns, which matters because it holds the mutex of the manager.
Fairness: all threads are scheduled, and a client that stays reads in the end, as in
`IOPipe`; `CallFails` is *not* fair, so the end of the call does not depend on a
timeout. `UndisturbedIsFullText` and `ClientGotAll` say
that chunks, slow readers and interleavings cost no token as long as the runner
itself is not disturbed; `PathSplit` shows what happens otherwise.

### RestStream

`RestStream` extends `StreamProxy` with the thread that handles a streamed request
of the C++ REST SDK router (`hpc`), its `buffer`, whether it was closed (`shut`), and
the client, with the events it has `got`. `OnToken` is a `ScanToken` of the proxy
together with the put of its event; `Calls` are the other steps of the call;
`PutRole`, `CallReturns`, `PutError`, `PutMarker` and `CloseBuffer` are the rest of
`handle_completions` and `handle_chat`.

Nothing outside of `on_token` is in a `try` block. An exception ends the handler
(`died`), and the buffer stays open: a put throws when the client has left
(`PutOrDie`), `role_event.dump()` may throw with the client present (`PutRole`), and so
may `stream_completion` and `stream_chat` before they send the request, which look
for the binary and the model and dump the body (`CallThrows`). Within the call an
exception of `dump` is caught by the parser, which gives the call up (`ScanThrows`).
`RestEnds` therefore says that the handler ends, and that a client that stays sees the
end of the response unless the handler has died before the first token.

The buffer belongs to the library. A put is assumed to fail only once the client
has left, and the listener to write what it finds in the buffer until it is closed.
Run `Rest` has 3 tokens and lines of 3 bytes, so that a chunk or the body can end
before, within and after a line, and the sender may send rubbish or hang up at any
time. Fairness: the handler and the listener are scheduled, which includes that a
read from a silent runner times out and that a client that stays reads in the end;
nothing is assumed of the runner. `RestTellsOutcome` says that a client that sees the
end has received one event per token, an error event exactly if the call failed,
and the marker last.

## 5. ServerCalls

`calls` holds every call ever made, with the messages it carried (`msgs`), where its
connection or its thread in the server is (`thread`) and what was replied. A
client waits for `pending`; a chat has its `history`, in which a message is a role and
the number of the call that it was made for. In the server there are `main` (what
`cmd_serve` has reached), `mutex` (`mtx_`), the call that has started each registered
runner (`starter`), the runners that are `dead`, and `gens`, the calls whose completion
is being generated.

| Actions | Code |
|---|---|
| `Ask`, `Reset`, `Return`, `GiveUp` (through `Receives`, `Turns`) | the loop of `cmd_runner_chat`: an error of any kind takes the user's turn back |
| `Command` | `cmd_runner_start`, `cmd_runner_stop` |
| `Accept`, `Stop`, `Refused`, `Chat`, `ChatUnstarted`, `Answer`, `Fail` | the endpoints of the oatpp router, the manager's operations they call, and their early returns |
| `Spawns`, `Spawned`, `SpawnFails`, `SpawnSticks`, `Unstick` | `spawn_runner`: the health loop with the mutex held, the registration, the kill of a child that has not become healthy, and the wait for it |
| `GeneratorEnds`, `RunnerDies` | a completion nobody waits for any more; a crash of a runner |
| `Close`, `StopAll`, `Exit` | the signal and `g_router->stop`, `stop_all`, the end of `main` |
| `Crash`, `Restart` | a server that dies, and another one at the same address |

A stop is one step: its inside is `RunnerManager`'s subject, where `StopCompletes`
shows that it returns. A call that spawns a runner holds the mutex until the runner
is registered or has failed, and the wait for a child that has lost its SIGTERM
(`RMLostTerm`) need not end: `SpawnSticks` is always possible, and nothing makes
`Unstick` happen. A completion holds the mutex between `Chat` or `Spawned` and `Answer`
or `Fail`; `Fail` is also the timeout of the manager's HTTP client, after which the
generator runs on in the runner, beside the next request. `GiveUp` is the timeout of
the client; the server goes on with the call and its reply goes nowhere. Both HTTP
clients use a connection per request and close it when they give up, which is why
an answer cannot reach the wrong call.

`ChatAlternates` says that a model is only asked with conversations in which user
and assistant take turns, `AnswersFitHistory` that every answer in a history was
made for exactly the messages before it. `CommandsReturn` and `ServerEnds` are about
the mutex: whoever holds it waits for a runner or a child, and everybody else,
`stop_all` at the end of `main` included, for the holder. Every command returns, because
its own read times out in the end; the server has no such timeout, and `ServerEnds`
says that it ends if no call is stuck for ever in `spawn_runner`.

Threads of the router outlive `g_router->stop`. A call that takes the mutex after the
`stop_all` of `main` starts a runner (`late`) that nobody stops, unless the destructor of
the manager does (`runner_mgr.cpp:44`), which runs when the last connection gives the
manager up, or never. `LateRunnersOnly` says that these are the only ones that can be
left: a call that was already spawning one when the server was told to end has given
the mutex back before `stop_all`, which stops its runner too.

Run `Calls` has 1 chat, 1 user of `runner start` and `runner stop`, 1 name and 3 calls:
a chat and the commands compete for one runner and the mutex, a third call finds the
generator of one that was given up, and a history can have an answer, a failed
question and a new one. With a second chat, so that two chats compete for one runner,
TLC has checked the four invariants as well (356 000 states).

Fairness: the threads of the server and its main thread are scheduled, as is the
return of a client whose call is over, and a request to a runner times out. A client
is assumed to give up only while a call is stuck (`WF_vars(Stuck /\ GiveUpStep(c))`),
where its own read timeout is what ends its call. A runner need not answer, a child
that is stuck need not end, and nobody need type anything.

## 6. ServeControl

Each system call of a server or of `serve stop` that looks at a file or a process, or
changes one, is a step of its own: anything may happen between two of them.

| State | Code |
|---|---|
| `phase` | what is at a process id: nothing, a `foreign` program, or a server: `boot` (up to the opening of the pidfile), `writing` (it is open and empty), `starting` (written, and its removal registered with `atexit`), `open` (the router listens, no signal handlers yet), `serving`, `stopping` (in `g_router->stop` and `stop_all`), `exiting`, `leaving` (the functions registered with `atexit` have run) |
| `options` | `--name` and `--pidfile`: `FileOf` is the file that the server writes, `MarksOf` the ones that its command line speaks of |
| `pidfile`, `linked` | the content of each file; the servers whose open file has not been removed, for on POSIX a write to a removed file goes nowhere |
| `owner` | the servers that are going to remove their file (`g_pidfile`); a daemon does even if the opening has failed |
| `cmd`, `want`, `target`, `todo`, `doomed`, `polls` | where the command of a user is, the name it was given, the process it has found, the rest of the list of `serve stop all`, the files that it is going to remove |
| `crashed`, `blind`, `past` | histories: the files whose process ended without its `atexit` calls; the servers that have opened their file since a command last looked; what has happened to the file of a server |

`serve stop` with a name reads the pidfile (`ReadPidfile`), looks whether the process
is there (`TargetAlive`, `TargetGone`) and removes the file if it is not (`RemoveStale`).
Otherwise, or with a process id (`StopPid`) or for all (`ListServers`, `NextListed`),
`stop_process` reads the command line of the process (`ReadCmdline`), removes the
files that it finds there (`Remove`), sends SIGTERM (`SendTerm`), polls and kills
(`Poll`, `SendKill`). `ReadCmdline` chooses any subset of the files: the search for
`--name ` does not recognise `-n` and `--name=`, and the process may be none of a server
by then. `Interrupt` and `Crash` stand for signals from elsewhere, `Recycle` for other
programs that take over a process id.

Nothing in the code keeps two servers from one file, or a command from removing a
file that was written meanwhile. `RunningServerKeepsFile` says exactly what can cost
a running server its file: it could not be opened (`unwritten`); another server that
has the file in its command line was alive at the same time (`overlap`); a command
removed it that had looked at the file or the owner before the server opened it, or
that took its name from the command line of a program that is no server (`raced`); or
a command is about to signal the server itself (`Condemned`). `OnlyAbruptEndsLeaveFiles`
says that the process id in a file is that of a live server of this file, unless the
process has ended abruptly.

Run `Serve` has 2 process ids, 1 name, 1 command at a time and 1 poll, servers with
the name and servers without one, and pidfiles that cannot be opened: a server can be
replaced by another, or by a foreign program, at each step of a command. With a third
kind of server, which has the name and another pidfile (`NamedOrGiven`), TLC has checked
the two invariants on 3.3 million states up to symmetry; the proof covers all options.
Only the command is assumed to be scheduled; servers may hang (`StopReturns`).

Simplifications: the parent of a daemon, which returns at once, is left out, and so is
`serve list`; `.info` files are only displayed. What a server does with its runners is
`ServerCalls`' subject.

## 7. CFlag

`App::parse` as a state machine over `args` and `idx`: one action per branch of
the loop. The arguments are words, `--id`, `--id=value` and `-id`, and the
initial states are all command lines of at most `MaxArgs` of them. What an argument
looks like says nothing of the value it may be: `Numbers` are the arguments, and
`Assigned` what may stand after `=`, of any form, so that `-1` is an unknown option
where an option is expected and a number after `--port`. `WellFormed`
and `Meant` define the same language without the left-to-right order: which
arguments are values of the one before them (`Taken`), and what each option gets.
Run `Flags` compares the two for every command line of up to four arguments over a
tree of two levels with a required option, a number, a flag with two names and an
option with two long names, `-1` and an assigned value that looks like an option
among the arguments. Four arguments are enough for a command of two words
followed by an option and its value, or by an option that swallows another one.

The model shows some peculiarities that no document contradicts: of two long
names (`--impl,--router`) the second is dropped; `--flag=false` sets the flag; an
option takes the next argument even if it looks like an option; superfluous
positional arguments are dropped.

## 8. Runs

| Run | Checks | Instance | Distinct states |
|---|---|---|---|
| `RMManager` | the inductive invariant (with the types and `DistinctPids`), `NoBystander`, `NoLeak`, `RegistryDiscipline`, refinement of `RunnerPool`; `RegisteredServing`, `ServingAnswersItself`; `StopCompletes` | POSIX, 2 threads, 2 names with files, 2 pids, 2 ports, crashes, fairness | 230 000 |
| `RMWindows` | `LockReleased` | Windows, 1 of 2 names with a file, 1 port that unrelated processes take, crashes, fairness | 284 000 |
| `Pipe` | the inductive invariant (with the types), wake-ups, memory, order, end, refinement of `ByteStream`, both threads end | see 4 | 2 400 |
| `PathAll` | the whole path: wake-ups and refinement of `TokenChannel` in the runner, completeness, the call returns, the client sees the end | see 4 | 226 000 |
| `Rest` | chunking, completeness of a success, agreement of the two parsers, refusals; the client of the C++ REST SDK router is told the outcome, the handler ends, and the response but for exceptions | see 4 | 101 000 |
| `Calls` | the inductive invariant (with the types), histories, late runners, commands return, the server ends | see 5 | 129 000 |
| `Serve` | stale and missing pidfiles, `serve stop` returns | see 6 | 613 000 |
| `Flags` | `parse` against the grammar | see 7 | 1 000 000 |
| `RMDeadPort`, `RMLostTerm`, `PathSplit`, `ServeLost` | violations, see below | the smallest that show it | |

Deadlock is checked in the runs of the manager and of `ServeControl`, which never
stop. In the others it is not: a finished request, or a parsed command line,
stays finished. Every property of a run is violated when a plausible mistake is
put into the code; these faulty variants are the definitions marked so in the
modules, and `PROJECT.json` lists them under `mutants`.

### Violations

* `RMDeadPort`: a crashed runner keeps its entry, its port is given to another
  runner, and a request for the first model is answered by the second
  (`runner_mgr.hpp:18-19` promises one runner per model).
* `RMLostTerm`: a child that installs its handlers just before the health
  check gives up loses the SIGTERM; `spawn_runner`, which logs that it is
  "killing" the runner (`runner_mgr.cpp:134`), waits for it for ever with the
  mutex held, and the whole server stops answering.
* `PathSplit`: a token that ends within a character makes `json::dump` throw in
  the content provider, which nothing guards; the runner dies, its connection
  ends, and because `got_done` is never read the call succeeds with an empty
  text, where `runner_mgr.hpp:87-88` promises the full one.
* `ServeLost`: a second `serve start` with the name of a running server empties its
  pidfile before anything else has succeeded. When the second one ends, because its
  port is taken or by a crash, the first runs on and `serve stop` with the name says
  that there is "no running serve instance named" so (`main.cpp:357`).

### Other observations

The models contain these behaviours too. Most contradict nothing that the repository
says; where one does, it is said here:

* `start` reuses the entry of a crashed runner without looking at it.
* `find_free_port` gives the port up before the child binds it; whoever takes it
  and answers 200 makes a dead child "healthy" (`runner_mgr.cpp:139`).
  `RegisteredServing` therefore holds only if no foreign process listens on these
  ports.
* On POSIX a child that has exited stays a zombie until it is waited for and so
  passes `process_is_alive`: every `stop` lasts the full five seconds and ends
  with SIGKILL.
* The text of a generator's exception is sent, and returned, as a completion; a
  runner that is signalled ends its streams early, and the calls succeed. Both are
  at odds with "Returns the full text on success" (`runner_mgr.hpp:87-88`), like
  `PathSplit`; `UndisturbedIsFullText` names them as exceptions.
* When the server gives a request up, the generator runs on to `max_tokens`.
* `serve stop` kills a server after five seconds, although `stop_all` needs five
  for each runner and waits for the request in progress; the remaining runners
  are orphaned.
* A SIGTERM before the handlers are installed ends a server without cleanup.
* A server that exits removes the file of its name without looking whether a newer
  server has written it (`main.cpp:41`).
* After a crash, `serve stop` signals whatever program has got the process id in the
  stale pidfile (`main.cpp:266` looks only whether there is one).
* With `--name` and `--pidfile` a server writes the latter only (`main.cpp:391`): it is
  not found by its name, and `serve stop` with its process id removes the file of the
  name, which may be another server's.
* A request that comes after the last `stop_all` starts a runner that may outlive the
  server (`late` in `ServerCalls`).
* An exception in a handler of the C++ REST SDK router, outside of `on_token`, leaves
  the buffer open, and a client that stays waits for ever (`died` in `RestStream`).
* A response of a runner that ends within a line is an error if it was buffered
  (`parse_ndjson`) and a success if it was streamed.
* `README.md:26` speaks of one runner per model; `start_runner` starts as many for
  one model as there are names.
* `runner chat` removes special tokens from an answer one kind after the other, and
  what is left may again contain one.
* The buffer of the C++ REST SDK router is unbounded.
* `llama_token_to_piece` gets a buffer of 16 bytes (`llama_runner.cpp:85`): a longer token
  is left out of stream and text alike. The embedding is copied with the length of the
  context (`llama_runner.cpp:148`). Neither is modelled.

## 9. Proofs

### RunnerManagerProofs

For any sets of threads, names, pids and ports and any loop bounds (assumptions
`SetsAssumption` and `NoneAssumption`):

| Theorem | Statement |
|---|---|
| `Invariance` | `Spec => []IInv` |
| `TypeCorrect` | `Spec => []TypeOK` |
| `BystandersSafe` | `Spec => []NoBystander` |
| `PidsDistinct` | `Spec => []DistinctPids` |
| `ChildrenAccounted` | `Spec => []NoLeak` |
| `EntriesDisciplined` | `Spec => RegistryDiscipline` |
| `Refinement` | `Spec => ImplementsPool` |
| `ServingInvariance` | `Spec => []ServingInv` |
| `RunnersAnswer` | `Spec => []ServingAnswersItself` |
| `RegisteredServe` | `Spec => RegisteredServing` |

`NoLeak` only speaks of states in which the mutex is free, so it is not
inductive. `IInv` says who owns each child in *every* state: a child that was
not waited for is registered, or is the one that the holder of the mutex is
spawning (`OwnerInv`); an entry's child is unreaped unless the holder is a stop
that has already reaped it and will erase the entry (`EntryInv`, `Buried`); the
child being spawned has no entry and its name is free (`SpawnInv`); a stop has
only registered names left to do (`StopInv`); and exactly the holder of the
mutex is inside a call (`LockInv`). `NoBystander` follows because the manager
only signals children of entries that are not buried or the one it is
spawning, none of which can be a foreign process. There is one lemma per
action, and in it one step per conjunct.

That the right runner answers is a matter of ports, of which `IInv` says nothing.
`ServingInv` follows a port that unrelated processes do not take from
`find_free_port` to the request: nobody listens on it when the child is to be
forked (`ForkInv`); until the child is registered nobody but the child can listen
on it, because the manager forks one child at a time (`ChildInv`); the child of an
entry has begun to serve that port and cannot be about to begin (`EntryPortInv`),
so that a port which is free once stays free until the next fork; hence no two
children ever serve one port (`UniqueInv`). A child that is about to be registered
has answered itself, and serves or is a zombie (`VouchInv`). `KindInv` ties the
program counter to the call, and `AnswerInv` is the property itself with the entry
still there. The step lemmas use `IInv` before and after the step, so the two invariants are
proved one after the other. TLC has checked `ServingInv` on the instance of
`RMManager`.

### IOPipeProofs

For any watermark, size of an event, size of a read and number of tokens
(assumption `SizesAssumption`):

| Theorem | Statement |
|---|---|
| `PipeInvariance` | `Spec => []PipeInv` |
| `PipeTypeCorrect` | `Spec => []TypeOK` |
| `WakeupsKept` | `Spec => []NoLostWakeup` |
| `MemoryBounded` | `Spec => []Watermark` |
| `EndComplete` | `Spec => []EofComplete` |
| `AbortFinal` | `Spec => AbortIsFinal` |
| `StreamRefinement` | `Spec => ImplementsStream` |

`Watermark` alone is not inductive: a buffer that is already over the mark must
take nothing more, so `PipeInv` adds that a pipe that is not aborted is below it.
For the refinement and for `EofComplete` it adds that the bytes that entered are
those that left followed by those in the buffer (`put = got \o buf`), that the end
is seen with an empty buffer after `close`, and that the stream thread has
written the error and the marker when its program counter says so (`WrittenInv`).
Four lemmas about sequences carry the rest: a suffix by its elements, appending
to a suffix, appending to a prefix, and cutting a sequence in two.

### ServerCallsProofs

For any sets of chats, users and names and any number of calls (assumption
`CallsAssumption`: no process is both a chat and a user):

| Theorem | Statement |
|---|---|
| `CallsInvariance` | `Spec => []CallsInv` |
| `CallsTypes` | `Spec => []TypeOK` |
| `ChatsAlternate` | `Spec => []ChatAlternates` |
| `AnswersFit` | `Spec => []AnswersFitHistory` |
| `LateRunners` | `Spec => []LateRunnersOnly` |

`AnswersFitHistory` is not inductive, for it does not say what is on its way.
`CallsInv` adds that the call a chat waits for carries its whole history, which
still ends with the user's turn (`ChatInv`), and that a reply with a text was made
for its own call (`ReplyInv`). Then appending an answer extends the history by a
message made for what was there, and taking a turn back gives a prefix of it. All
steps of the server are treated alike: they keep the messages and kinds of the
calls, and reply rightly (`CallsKept`, `ServerKeeps`). What appending and taking back
do to a history are two lemmas about sequences.

`LateRunnersOnly` needs that only the holder of the mutex is inside a call, and that a
call which spawns a runner after `stop_all` is counted as late (`LateInv`).

### StreamProxyProofs

For any number of tokens and any length of a line (`LineAssumption`), whatever the
other end sends and wherever the body is cut:

| Theorem | Statement |
|---|---|
| `ProxyInvariance` | `Spec => []ProxyInv` |
| `ProxyTypeCorrect` | `Spec => []TypeOK` |
| `ProxyChunking` | `Spec => []ChunkingIrrelevant` |
| `ProxyCompleteness` | `Spec => []SuccessIsComplete` |
| `ProxyRefusal` | `Spec => RefusalIsFinal` |
| `ProxyAgrees` | `Spec => []BufferedAgrees` |
| `ProxyLinesIntact` | `Spec => []LinesIntact` |

All properties compare the parser with the bytes that were sent. `Parsed`, the
number of bytes received less those left over, is the place in the body where the
parser stands, and `ParseInv` says what it has made of the bytes before that place
and that the left-over bytes are the ones after it; `WireInv` describes a body:
tokens in order, and nothing after a final line. Receiving a chunk moves no place,
so chunks do not matter; a step of the loop moves it behind the next newline
(`SkipLemma`). `BodyInv` adds that newlines are at the multiples of the length of a
line and that no rubbish was passed over, from which `parse_ndjson` finds the same
final line in a whole body; `LinesInv` that every byte of a line belongs to it,
from which a line of the parser is one that was sent (`LinesIntact`). TLC has
checked all three invariants on the instance of `Rest`.

### RestStreamProofs

| Theorem | Statement |
|---|---|
| `RestInvariance` | `RestSpec => []RestInv` |
| `RestTypeCorrect` | `RestSpec => []RestTypeOK` |
| `RestCall` | `RestSpec => Spec`: inside the router the call is a `StreamProxy` |
| `RestChunking`, `RestCompleteness`, `RestRefusal`, `RestAgrees` | the properties of `StreamProxy` |
| `RestOutcome` | `RestSpec => []RestTellsOutcome` |

`RestTellsOutcome` is about the end of the response, when it has left the buffer.
`EventsInv` states it at every step: unless the client has left, what it has
received followed by what is in the buffer is the role, the events of the tokens
passed on so far, and the part of the ending that the handler has put.

### StreamPathProofs

For any number of tokens, any set of tokens that end within a character, any
faults, and any sizes of lines, events, reads and the buffer (`MaxTokensAssumption`,
`FaultsAssumption`, `PathAssumption`):

| Theorem | Statement |
|---|---|
| `RunnerInvariance` | `Runner!Spec => []RunnerInv` |
| `RunnerTypeCorrect` | `Runner!Spec => []Runner!TypeOK` |
| `RunnerWakeups` | `Runner!Spec => []Runner!NoLostWakeup` |
| `RunnerRefinement` | `Runner!Spec => Runner!ImplementsChannel` |
| `PathRunner` | `Spec => Runner!Spec` |
| `PathPipe` | `Spec => Pipe!Spec` |
| `PathProxy` | `Spec => Proxy!Spec` |
| `PathWakeups` | `Spec => []NoLostToken` |
| `PathChannel` | `Spec => RunnerKeepsChannel` |
| `PathNeverGarbage` | `Spec => []NeverGarbage` |
| `PathFullText` | `Spec => []UndisturbedIsFullText` |
| `PathClientGotAll` | `Spec => []ClientGotAll` |

The first four are about the runner alone, whatever becomes of its connection. Its
provider gives the mutex up around each write, so a token can be in its hands, in
neither the queue nor the response. `QueueInv` counts it (`Taken`): the lines are the
first tokens, the queue goes on where they and the token in hand end, and together
they are what was generated. `ControlInv` says that the final line is only due when
the generator has ended and the queue is empty.

The composition implements each of its components: a step of the path is a step
of the runner, of the pipe and of the call, or leaves it alone. So the theorems
about the components hold in the path and are used there; those about the call and
the pipe by instantiating their proof modules. For the call this is not obvious, because `StreamProxy` makes
assumptions about its sender: `PathProxy` shows that a runner is such a sender
(`SendStep`, with `BytesLemma` about the bytes of a sequence of lines).

Two invariants join the components. `EndInv` says that a response which was neither
cut off by a crash nor ended by a signal ends with the final line, unless the
call had failed before, so that a call which succeeds has seen it: `PathFullText`.
`EventsInv` says that the stream thread has put an event for each token that was
passed on, and the marker only after a call that was done; with `put = got` at the
end, from the pipe's invariant, this gives `PathClientGotAll`. `PathNeverGarbage`
shows that the branch for invalid lines, which the path leaves out, is never
enabled there.

### ServeControlProofs

For any sets of process ids, names, files and users, any options of the servers and
any number of polls (`ServeAssumption`):

| Theorem | Statement |
|---|---|
| `ServeInvariance` | `Spec => []ServeInv` |
| `ServeTypeCorrect` | `Spec => []TypeOK` |
| `PidfilesAreLive` | `Spec => []OnlyAbruptEndsLeaveFiles` |
| `ServersKeepFiles` | `Spec => []RunningServerKeepsFile` |

`ServeInv` joins what is known of the servers and of the commands. Whoever is named by
a file, and has not ended abruptly, is going to remove it (`OwnerInv`). Two live servers
of which one has the file of the other in its command line have been seen together
(`OverlapInv`). The file of a `Quiet` server, to which nothing has happened and which
nobody is about to signal, is linked and empty while it is being written and contains
its process id from then on (`FileInv`). This is kept because of `ClaimInv`: a command
that is about to remove the file of a quiet server has not looked since the server
opened it, so that its removal is recorded as `raced`, or has found the server itself
and is going to look at it once more. There is one lemma per step, and
`RemovesKeeps` for all removals of a file.

### CFlagProofs

For any tree of commands, any declarations of options, any words and any number of
arguments (`CommandsAssumption`, `OptionsAssumption`, `NoneAssumption`):

| Theorem | Statement |
|---|---|
| `ParseInvariance` | `Spec => []ParseInv` |
| `ParseTypeCorrect` | `Spec => []TypeOK` |
| `ParseAccepts` | `Spec => []AcceptsAsMeant` |
| `ParseRejects` | `Spec => []RejectsOnlyMalformed` |
| `ParseDecides` | `Spec => []Decided`: which command lines get help, the command, or an error |

Both properties only speak of the end of `parse`. `ParseInv` says what it has read
on the way there: the words before `idx` are a command (`AtDescend`); once no command
leads on, `cmd` is the command that is meant, `idx` is never the value of an option,
the arguments before it all fit, `vals` has the last value of each option among them
and `words` the positional ones (`AtOptions`).

The rest is about the grammar, which is not defined from left to right. `Taken` is
chosen as a set that satisfies its rule; `TakenLemma` shows that one exists, from
the least number of arguments for which none would. `NextIsFree` derives from the
rule what follows an argument, which is where `idx` goes (`Advance`).
`DepthsClosed` shows that the commands on the way to a command are commands, so
that a greedy walk finds the longest (`DepthIs`). Each error is one clause of `Fits`
that fails for the argument at `idx` (`ReadingFails`), or one of the two other clauses
of `WellFormed` at the end (`CheckKeeps`).

The proof needs that the default command has no subcommands: `parse` would walk from
it into them, without its name on the command line. `main.cpp:657-659` gives it none,
and `CommandsAssumption` says so. `ParseDecides` joins the two properties and the
exits with help, which neither of them speaks of: every command line that is parsed
to the end gets exactly one of the three verdicts, by the grammar alone (`AsksHelp`,
`WellFormed`). Its invariant `HelpInv` is proved after `ParseInv`. TLC has checked
both on the instance of `Flags`.

### Only model-checked

* Liveness, which rests on fairness and `ENABLED` and is out of the prover's reach:
  `StopCompletes`, `LockReleased`, `ReaderEnds`, `WriterEnds`, `CallReturns`,
  `ClientEnds`, `RestEnds`, `CommandsReturn`, `ServerEnds`, `StopReturns`.
  All safety properties of the passing runs are proved.
* The four violations.

## 10. Not modelled

* Routing, JSON and log formatting, Swagger, configuration and the logger, which
  keep no state; the endpoints that only read or refuse (models, runners, health,
  pull, delete). `runner_mgr.cpp:265` reads the size of the map outside the mutex for
  a log line; it is a data race that the models leave out with the log.
* llama.cpp's tokenisation, sampling and decoding.
* `resolve_path`, `list_models` and the maps of runner binaries: functions on strings,
  or written once before the server starts. The models have names and files as
  constants.
* The C++ REST SDK router beyond its streams: its other endpoints make the calls of
  `ServerCalls` and `RunnerManager`.
* The commands that print one response; `/bye` and the end of input of a chat, which
  end a process that keeps nothing.
* Clients of the API other than the command line, which may keep connections open
  or send several requests on one.
* The interfaces without implementation (`Session`, iOS and Android), and
  `tests/test_api.cpp`, which tests a class that no longer exists.
