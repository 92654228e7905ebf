----------------------------- MODULE RestStream ------------------------------
(***************************************************************************)
(* A streamed completion of the C++ REST SDK router                        *)
(* (src/include/cllama/api/cpprest_router.hpp): one thread replies to the  *)
(* request, makes the call (StreamProxy) and puts an event for each token  *)
(* into a producer_consumer_buffer, from which the listener writes the     *)
(* body of the response.                                                   *)
(*                                                                         *)
(* Unlike IOPipe the buffer has no watermark.  It belongs to the library;  *)
(* a put into it is assumed to fail only once the client has left.  What   *)
(* else may throw (the JSON library's dump, the manager before it sends    *)
(* the request) does so with the client present.  Nothing here catches an  *)
(* exception outside of on_token: the handler is over and the buffer stays *)
(* open.                                                                   *)
(***************************************************************************)
EXTENDS StreamProxy

VARIABLES
    hpc,       \* where the thread that handles the request is
    buffer,    \* events that were put and not written to the client yet
    shut,      \* buf->close()
    got,       \* history: the events the client has received
    client     \* what the client is doing

handler == <<hpc, buffer, shut>>
reader == <<got, client>>
restVars == <<vars, handler, reader>>

Event == [kind : {"role", "token", "error", "marker"}, n : 0 .. MaxTokens]
Role == [kind |-> "role", n |-> 0]
Token(k) == [kind |-> "token", n |-> k]
ErrorEvent == [kind |-> "error", n |-> 0]
Marker == [kind |-> "marker", n |-> 0]     \* data: [DONE]

RestTypeOK == /\ TypeOK
              /\ hpc \in {"role", "call", "error", "marker", "close", "end", "died"}
              /\ buffer \in Seq(Event)
              /\ shut \in BOOLEAN
              /\ got \in Seq(Event)
              /\ client \in {"reading", "eof", "gone"}

\* The request was replied to; a chat begins with the role event.
RestInit == /\ Init
            /\ hpc \in {"role", "call"}
            /\ buffer = <<>>
            /\ shut = FALSE
            /\ got = <<>>
            /\ client = "reading"

-----------------------------------------------------------------------------
(* The thread that handles the request. *)

Puts(e) == buffer' = Append(buffer, e)
PutThrows == client = "gone" /\ UNCHANGED buffer

\* A put outside of on_token: an exception ends the handler.
PutOrDie(e, next) == \/ Puts(e) /\ hpc' = next
                     \/ PutThrows /\ hpc' = "died"

\* The event is dumped before it is put, which may throw as well.
PutRole == /\ hpc = "role"
           /\ PutOrDie(Role, "call") \/ (hpc' = "died" /\ UNCHANGED buffer)
           /\ UNCHANGED <<proxy, shut>>

\* on_token catches an exception of the put and returns false; one of dump is
\* caught by the parser.
OnToken == /\ hpc = "call"
           /\ \/ ScanToken(TRUE) /\ Puts(Token(Last(passed')))
              \/ ScanToken(FALSE) /\ PutThrows
              \/ ScanThrows /\ UNCHANGED buffer
           /\ UNCHANGED <<hpc, shut>>

\* The manager looks for the binary and the model and dumps the request before
\* it sends it.
CallThrows == /\ hpc = "call"
              /\ spc = "receive" /\ rcvd = 0
              /\ hpc' = "died"
              /\ UNCHANGED <<proxy, buffer, shut>>

\* The other steps of the call.
Calls == /\ hpc = "call"
         /\ \/ Receive \/ ScanFinal \/ ScanEnds \/ ScanGarbage
            \/ BodyEnds \/ Cancelled \/ RequestFails
         /\ UNCHANGED handler

\* Faulty variant: whether the call succeeded is not looked at.
CallReturnsBlindly == /\ hpc = "call"
                      /\ result # None
                      /\ hpc' = "marker"
                      /\ UNCHANGED <<proxy, buffer, shut>>

CallReturns == /\ hpc = "call"
               /\ result # None
               /\ hpc' = IF result.kind = "ok" THEN "marker" ELSE "error"
               /\ UNCHANGED <<proxy, buffer, shut>>

\* Faulty variant: a failed call ends the handler with its error event.
PutErrorOnly == /\ hpc = "error"
                /\ PutOrDie(ErrorEvent, "end")
                /\ UNCHANGED <<proxy, shut>>

PutError == /\ hpc = "error"
            /\ PutOrDie(ErrorEvent, "marker")
            /\ UNCHANGED <<proxy, shut>>

PutMarker == /\ hpc = "marker"
             /\ PutOrDie(Marker, "close")
             /\ UNCHANGED <<proxy, shut>>

CloseBuffer == /\ hpc = "close"
               /\ shut' = TRUE
               /\ hpc' = "end"
               /\ UNCHANGED <<proxy, buffer>>

HandlerStep == /\ \/ PutRole \/ OnToken \/ Calls \/ CallThrows \/ CallReturns
                  \/ PutError \/ PutMarker \/ CloseBuffer
               /\ UNCHANGED <<sender, reader>>

-----------------------------------------------------------------------------
(* The listener, and the client. *)

Deliver == /\ client = "reading"
           /\ buffer # <<>>
           /\ got' = Append(got, Head(buffer))
           /\ buffer' = Tail(buffer)
           /\ UNCHANGED <<hpc, shut, client>>

DeliverEnd == /\ client = "reading"
              /\ buffer = <<>>
              /\ shut
              /\ client' = "eof"
              /\ UNCHANGED <<handler, got>>

ListenerStep == (Deliver \/ DeliverEnd) /\ UNCHANGED vars

ClientLeaves == /\ client = "reading"
                /\ client' = "gone"
                /\ UNCHANGED <<vars, handler, got>>

RunnerSends == (Send \/ Hangup) /\ UNCHANGED <<proxy, handler, reader>>

RestNext == HandlerStep \/ ListenerStep \/ ClientLeaves \/ RunnerSends

RestSpec == RestInit /\ [][RestNext]_restVars

(***************************************************************************)
(* The threads are scheduled, and a read that waits for a silent runner    *)
(* times out (RequestFails); nothing is assumed of the runner and client.  *)
(***************************************************************************)
RestFairSpec == RestSpec /\ WF_restVars(HandlerStep) /\ WF_restVars(ListenerStep)

-----------------------------------------------------------------------------
(* Properties. *)

\* A client that reads the response to its end has received an event for each
\* token of the call in order, an error event exactly if the call has failed,
\* and the marker last.
TokenEvents == [i \in DOMAIN passed |-> Token(passed[i])]
Ending == IF result = Error THEN <<ErrorEvent, Marker>> ELSE <<Marker>>
RestTellsOutcome == client = "eof" =>
    \E start \in {<<>>, <<Role>>} : got = start \o TokenEvents \o Ending

\* The thread that handles the request ends, and a client that stays sees the
\* end of the response, unless an exception has ended the handler before the
\* first token.
RestEnds == /\ <>(hpc \in {"end", "died"})
            /\ <>\/ client \in {"eof", "gone"}
                 \/ hpc = "died" /\ passed = <<>>

=============================================================================
