----------------------------- MODULE StreamPath -----------------------------
(***************************************************************************)
(* A streamed completion from end to end: the generator and the content    *)
(* provider of the runner (TokenStream), the parser of the server          *)
(* (StreamProxy), and the pipe to the client (IOPipe), for one request of  *)
(* /v1/completions or /v1/chat/completions.                                *)
(*                                                                         *)
(* The proxy receives the bytes of the lines that the runner writes; each  *)
(* token it passes on is written to the pipe by on_token, and the result   *)
(* of the call decides how the stream thread ends the response.            *)
(***************************************************************************)
EXTENDS RunnerFaults, SequencesExt

CONSTANTS
    LineBytes, None,                \* the proxy
    MaxBuffer, EventSize, ReadSize  \* the pipe

ASSUME PathAssumption == /\ LineBytes \in Nat \ {0}
                         /\ MaxBuffer \in Nat
                         /\ EventSize \in Nat \ {0}
                         /\ ReadSize \in Nat \ {0}

VARIABLES
    \* the runner
    queue, text, done, aborted, gpc, made, ppc, cur, woken, stopping, lines,
    closed,
    \* the proxy
    rcvd, leftover, passed, refused, fullText, spc, result,
    \* the pipe, its stream thread and its connection thread
    buf, finished, gaveUp, wpc, tokens, failed, rpc, notified, put, got

runnerVars == <<queue, text, done, aborted, gpc, made, ppc, cur, woken,
                stopping, lines, closed>>
proxyVars == <<rcvd, leftover, passed, refused, fullText, spc, result>>
pipeVars == <<buf, finished, gaveUp, wpc, tokens, failed, rpc, notified, put, got>>
vars == <<runnerVars, proxyVars, pipeVars>>

Runner == INSTANCE TokenStream

\* The bytes of a sequence of lines or events of n bytes each.
BytesOf(s, n) == [p \in 1 .. Len(s) * n |->
                    <<s[((p - 1) \div n) + 1], ((p - 1) % n) + 1>>]

\* What is on the connection: the bytes of the lines written to it.
Wire == BytesOf(lines, LineBytes)

Proxy == INSTANCE StreamProxy WITH wire <- Wire, ended <- closed

Pipe == INSTANCE IOPipe WITH
            done <- finished, aborted <- gaveUp, woken <- notified

Init == Runner!Init /\ Proxy!InitProxy /\ Pipe!Init

-----------------------------------------------------------------------------

Others == UNCHANGED <<proxyVars, pipeVars>>

\* The client of the runner has closed the connection.
Hungup == spc = "end"

\* The provider; its writes fail only if the connection is closed.
ProviderStep == /\ Runner!Provider
                /\ ~Hungup => ~Runner!SendFails /\ (ppc = "final" => lines' # lines)
                /\ Others

GeneratorStep == Runner!Generator /\ Others

\* Signals, crashes and the end of the runner process.
ProcessStep == (Runner!Stop \/ Runner!Crash \/ Runner!MainReturns) /\ Others

\* The stream thread runs the request inside stream_completion.
InRequest == wpc = "stream"

\* on_token writes the token to the pipe and returns what write returns.
PassToken == /\ InRequest
             /\ Pipe!WriteToken
             /\ Proxy!ScanToken(Pipe!WriteOk)
             /\ UNCHANGED runnerVars

\* The other steps of the request; ScanGarbage cannot be taken, because every
\* line of a runner parses (NeverGarbage of StreamPathProofs).
Parse == /\ InRequest
         /\ Proxy!Receive \/ Proxy!ScanFinal \/ Proxy!ScanEnds
         /\ UNCHANGED <<runnerVars, pipeVars>>

\* The call returns, and the stream thread goes on by its result.
CallSucceeds == /\ InRequest
                /\ Proxy!BodyEnds
                /\ Pipe!StreamSucceeds
                /\ UNCHANGED runnerVars

CallFails == /\ InRequest
             /\ Proxy!RequestFails
             /\ Pipe!StreamFails
             /\ UNCHANGED runnerVars

\* A refused token has already sent the stream thread on its way to the error
\* event; the call returns before it gets there.
CallCancelled == /\ Proxy!Cancelled
                 /\ UNCHANGED <<runnerVars, pipeVars>>

\* The steps of the stream thread outside the call.
StreamThreadStep ==
    /\ \/ Pipe!WriteRole
       \/ result # None /\ (Pipe!WriteError \/ Pipe!WriteMarker \/ Pipe!Close)
    /\ UNCHANGED <<runnerVars, proxyVars>>

ReaderStep == Pipe!ReaderStep /\ UNCHANGED <<runnerVars, proxyVars>>

ClientStep == /\ Pipe!SpuriousWake \/ Pipe!ClientGone
              /\ UNCHANGED <<runnerVars, proxyVars>>

CallStep == PassToken \/ Parse \/ CallSucceeds \/ CallCancelled

Next == \/ GeneratorStep \/ ProviderStep \/ ProcessStep
        \/ CallStep \/ CallFails
        \/ StreamThreadStep \/ ReaderStep \/ ClientStep

Spec == Init /\ [][Next]_vars

(***************************************************************************)
(* Every thread is scheduled, and a client that stays reads in the end     *)
(* (ReaderStep).  CallFails is not fair: the end of the call must not      *)
(* depend on a timeout.                                                    *)
(***************************************************************************)
FairSpec == /\ Spec
            /\ WF_vars(GeneratorStep) /\ WF_vars(ProviderStep)
            /\ WF_vars(CallStep)
            /\ WF_vars(StreamThreadStep) /\ WF_vars(ReaderStep)

-----------------------------------------------------------------------------
(* Properties. *)

\* The provider of the runner waits only if there is nothing to write and more
\* to come, or if it was notified: on_token and the end of generate are not
\* missed, whatever the server does with the connection.
NoLostToken == Runner!NoLostWakeup

\* Under every fault of the runner and of the connection, its response is the
\* tokens in order and at most one final line with exactly their text.
RunnerKeepsChannel == Runner!ImplementsChannel

\* The text of a call that has succeeded is the whole completion that the
\* runner has generated.
FullText == gpc = "end" /\ result.text = FirstTokens(made)
Succeeded == result # None /\ result.kind = "ok"

\* stream_completion "returns the full text on success"
\* (src/include/cllama/core/runner_mgr.hpp:88).
SuccessIsFullText == Succeeded => FullText

\* The runner was not signalled, its generator has not thrown, and it has not
\* died in the middle of the response.
Undisturbed == ~stopping /\ text # What /\ (closed => aborted)

\* The same for a runner that nothing disturbs: neither a slow or vanished
\* client nor the chunks of the connection nor the interleaving of the threads
\* cost a token.
UndisturbedIsFullText == Succeeded /\ Undisturbed => FullText

\* A client that reads the response of an undisturbed runner to its end has
\* received an event for every generated token, in order, and the marker,
\* unless there was an error or the pipe gave up on it because it read too
\* slowly.
TokenEvents == BytesOf([k \in 1 .. made |-> Pipe!Token(k)], EventSize)
ClientGotAll == rpc = "eof" /\ ~failed /\ ~gaveUp /\ Undisturbed =>
    IsSuffix(TokenEvents \o Pipe!Bytes(Pipe!Marker), got)

\* The call returns, and with it mtx_ is released, whatever becomes of the
\* runner and of the client.
CallReturns == <>(result # None)

\* The client of the server sees the end of the response, unless it leaves.
ClientEnds == <>(rpc \in {"eof", "gone"})

=============================================================================
