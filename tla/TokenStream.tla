---------------------------- MODULE TokenStream -----------------------------
(***************************************************************************)
(* A streamed request in the runner (src/src/runner/llama_runner.cpp):     *)
(* the detached thread that generates the completion and queues its        *)
(* tokens in a TokenStream, and the thread of the HTTP server that calls   *)
(* the content provider again and again to write them to the connection.   *)
(*                                                                         *)
(* The provider holds the mutex of the TokenStream except while it waits   *)
(* on the condition variable and while it writes to the connection, so     *)
(* its steps are the stretches between these points.                       *)
(***************************************************************************)
EXTENDS RunnerFaults

VARIABLES
    queue,    \* tokens: what was generated and not taken yet
    text,     \* text: the completion, as a sequence of tokens
    done,     \* done
    aborted,  \* aborted
    gpc,      \* where the generator thread is
    made,     \* the number of tokens it has generated
    ppc,      \* where the provider is
    cur,      \* the token that it is writing
    woken,    \* the provider was notified since it waits
    stopping, \* the HTTP server was stopped
    lines,    \* the lines written to the connection
    closed    \* the connection was closed

stream == <<queue, text, done, aborted>>
vars == <<stream, gpc, made, ppc, cur, woken, stopping, lines, closed>>

-----------------------------------------------------------------------------

Line == {TokenLine(k) : k \in Tokens} \cup {FinalLine(s) : s \in Texts}

TypeOK == /\ queue \in Seq(Tokens)
          /\ text \in Texts
          /\ done \in BOOLEAN
          /\ aborted \in BOOLEAN
          /\ gpc \in {"generate", "end"}
          /\ made \in 0 .. MaxTokens
          /\ ppc \in {"call", "blocked", "send", "sent", "final", "return", "end"}
          /\ cur \in 0 .. MaxTokens
          /\ woken \in BOOLEAN
          /\ stopping \in BOOLEAN
          /\ lines \in Seq(Line)
          /\ closed \in BOOLEAN

Init == /\ queue = <<>>
        /\ text = <<>>
        /\ done = FALSE
        /\ aborted = FALSE
        /\ gpc = "generate"
        /\ made = 0
        /\ ppc = "call"
        /\ cur = 0
        /\ woken = FALSE
        /\ stopping = FALSE
        /\ lines = <<>>
        /\ closed = FALSE

Notify == woken' = (woken \/ ppc = "blocked")

-----------------------------------------------------------------------------
(* The generator thread. *)

\* Faulty variant: the token is queued without a notification.
PushQuietly ==
    /\ gpc = "generate"
    /\ made < MaxTokens
    /\ made' = made + 1
    /\ queue' = IF aborted THEN queue ELSE Append(queue, made + 1)
    /\ UNCHANGED <<text, done, aborted, gpc, ppc, cur, woken, stopping, lines, closed>>

\* generate samples a token and calls on_token.
PushToken ==
    /\ gpc = "generate"
    /\ made < MaxTokens
    /\ made' = made + 1
    /\ IF aborted THEN UNCHANGED <<queue, woken>>
                  ELSE queue' = Append(queue, made + 1) /\ Notify
    /\ UNCHANGED <<text, done, aborted, gpc, ppc, cur, stopping, lines, closed>>

\* generate returns: an end-of-generation token, max_tokens, a failed decode
\* or, before the first token, a context, a prompt or a batch that failed.
Generated ==
    /\ gpc = "generate"
    /\ text' = FirstTokens(made)
    /\ done' = TRUE
    /\ gpc' = "end"
    /\ Notify
    /\ UNCHANGED <<queue, aborted, made, ppc, cur, stopping, lines, closed>>

\* generate or on_token throws: the message is sent as if it were the text.
GenerateThrows ==
    /\ Throws
    /\ gpc = "generate"
    /\ text' = What
    /\ done' = TRUE
    /\ gpc' = "end"
    /\ Notify
    /\ UNCHANGED <<queue, aborted, made, ppc, cur, stopping, lines, closed>>

-----------------------------------------------------------------------------
(* The content provider. *)

\* The predicate of cv.wait.
Ready == queue # <<>> \/ done \/ aborted

\* Faulty variant: done is looked at before the queue is empty.
DrainDoneFirst ==
    /\ \/ /\ done
          /\ ppc' = "final"
          /\ UNCHANGED <<queue, cur>>
       \/ /\ ~done
          /\ queue # <<>>
          /\ Head(queue) \notin SplitTokens
          /\ cur' = Head(queue)
          /\ queue' = Tail(queue)
          /\ ppc' = "send"
       \/ /\ ~done
          /\ queue = <<>>
          /\ ppc' = "call"
          /\ UNCHANGED <<queue, cur>>
    /\ UNCHANGED <<text, done, aborted, gpc, made, stopping, lines, closed>>

\* With the mutex held: take the next token, or the end, or return to the
\* HTTP server to be called again.  A token that is not valid UTF-8 cannot be
\* taken, see DumpThrows.
Drain ==
    /\ \/ /\ queue # <<>>
          /\ Head(queue) \notin SplitTokens
          /\ cur' = Head(queue)
          /\ queue' = Tail(queue)
          /\ ppc' = "send"
       \/ /\ queue = <<>>
          /\ ppc' = IF done THEN "final" ELSE "call"
          /\ UNCHANGED <<queue, cur>>
    /\ UNCHANGED <<text, done, aborted, gpc, made, stopping, lines, closed>>

\* The provider is called, or is notified while it waits.
Runs == \/ ppc = "call" /\ ~stopping
        \/ ppc = "blocked" /\ woken

\* The predicate holds.  The stream is not aborted yet: only the provider
\* itself and the callback at the end of the response abort it.
Provide == /\ Runs
           /\ Ready
           /\ ~aborted
           /\ Drain
           /\ woken' = FALSE

\* It does not hold; a spurious wake-up would change nothing.
ProviderWaits ==
    /\ Runs
    /\ ~Ready
    /\ ppc' = "blocked"
    /\ woken' = FALSE
    /\ UNCHANGED <<stream, gpc, made, cur, stopping, lines, closed>>

\* After a write the mutex is taken again; aborted is not looked at.
DrainOn == /\ ppc = "sent"
           /\ Drain
           /\ UNCHANGED woken

\* sink.write of a token, with the mutex released.
SendToken ==
    /\ ppc = "send"
    /\ lines' = Append(lines, TokenLine(cur))
    /\ ppc' = "sent"
    /\ UNCHANGED <<stream, gpc, made, cur, woken, stopping, closed>>

\* The write fails: the client is gone.
SendFails ==
    /\ ppc = "send"
    /\ aborted' = TRUE
    /\ ppc' = "return"
    /\ UNCHANGED <<queue, text, done, gpc, made, cur, woken, stopping, lines, closed>>

\* The final line, whose result is not looked at, and sink.done.
SendFinal ==
    /\ ppc = "final"
    /\ \/ lines' = Append(lines, FinalLine(text))
       \/ UNCHANGED lines
    /\ ppc' = "return"
    /\ UNCHANGED <<stream, gpc, made, cur, woken, stopping, closed>>

\* A stopped HTTP server does not call the provider again.
NotCalledAgain ==
    /\ ppc = "call"
    /\ stopping
    /\ ppc' = "return"
    /\ UNCHANGED <<stream, gpc, made, cur, woken, stopping, lines, closed>>

\* Faulty variant: the connection of an ended response is kept.
ReleaseKeepsOpen ==
    /\ ppc = "return"
    /\ aborted' = TRUE
    /\ ppc' = "end"
    /\ UNCHANGED <<queue, text, done, gpc, made, cur, woken, stopping, lines, closed>>

\* The end of the response: the resource callback, and the connection is
\* closed, for the response has no length.
Release ==
    /\ ppc = "return"
    /\ aborted' = TRUE
    /\ closed' = TRUE
    /\ ppc' = "end"
    /\ UNCHANGED <<queue, text, done, gpc, made, cur, woken, stopping, lines>>

-----------------------------------------------------------------------------
(* The process. *)

\* SIGTERM or SIGINT.
Stop == /\ Stops
        /\ stopping' = TRUE
        /\ UNCHANGED <<stream, gpc, made, ppc, cur, woken, lines, closed>>

\* The process ends: both threads, and the connection is closed.
Die == /\ gpc' = "end"
       /\ ppc' = "end"
       /\ closed' = TRUE
       /\ UNCHANGED <<stream, made, cur, woken, stopping, lines>>

\* dump throws on a token that is not valid UTF-8.  Nothing in the HTTP
\* server catches what a content provider throws.
DumpThrows == /\ Runs \/ ppc = "sent"
              /\ queue # <<>>
              /\ Head(queue) \in SplitTokens
              /\ Die

Crash == Crashes /\ ~closed /\ Die

\* A stopped server waits for its workers only: the model is freed and main
\* returns while the generator may still run.
MainReturns == /\ stopping
               /\ ppc = "end"
               /\ gpc = "generate"
               /\ gpc' = "end"
               /\ UNCHANGED <<stream, made, ppc, cur, woken, stopping, lines, closed>>

-----------------------------------------------------------------------------

Generator == PushToken \/ Generated \/ GenerateThrows

Provider == \/ Provide \/ ProviderWaits \/ DrainOn \/ DumpThrows
            \/ SendToken \/ SendFails \/ SendFinal
            \/ NotCalledAgain \/ Release

Next == Generator \/ Provider \/ Stop \/ Crash \/ MainReturns

Spec == Init /\ [][Next]_vars

-----------------------------------------------------------------------------
(* Properties. *)

\* The provider waits only if there is nothing to write and more to come, or
\* if it was notified: on_token and the end of generate are not missed.
NoLostWakeup == ppc = "blocked" /\ ~woken => ~Ready

\* The runner implements the channel of tokens.
Channel == INSTANCE TokenChannel WITH ended <- closed
ImplementsChannel == Channel!Spec

=============================================================================
