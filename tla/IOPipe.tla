------------------------------- MODULE IOPipe -------------------------------
(***************************************************************************)
(* IOPipe (src/include/cllama/api/oatpp_router.hpp) with the two threads   *)
(* that share it: the detached thread that runs a streamed completion and  *)
(* writes one server-sent event per token, and the connection thread of    *)
(* oatpp, which reads the response body and sends it to the client.        *)
(*                                                                         *)
(* read, write and close run under the mutex of the pipe, so each of their *)
(* critical sections is one step; a read that has nothing to return waits  *)
(* on the condition variable, which is modelled with its notifications.    *)
(***************************************************************************)
EXTENDS SequencesExt

CONSTANTS
    MaxBuffer,  \* MAX_BUFFER, the watermark
    EventSize,  \* bytes of an event
    ReadSize,   \* bytes the reader asks for in one read
    MaxTokens   \* tokens a completion may have

VARIABLES
    buf,      \* buf_: the bytes written and not read
    done,     \* done_
    aborted,  \* aborted_
    wpc,      \* where the stream thread is
    tokens,   \* the number of tokens it has passed to the pipe
    failed,   \* the completion did not succeed
    rpc,      \* where the connection thread is
    woken,    \* the connection thread was notified since it waits
    put,      \* history: the bytes that entered the buffer
    got       \* history: the bytes that left it

pipe == <<buf, done, aborted>>
writer == <<wpc, tokens, failed>>
vars == <<pipe, writer, rpc, woken, put, got>>

ASSUME SizesAssumption == /\ MaxBuffer \in Nat
                          /\ EventSize \in Nat \ {0}
                          /\ ReadSize \in Nat \ {0}
                          /\ MaxTokens \in Nat

-----------------------------------------------------------------------------
(* The events and their bytes. *)

Event == [kind : {"role", "token", "error", "marker"}, n : 0 .. MaxTokens]
Role == [kind |-> "role", n |-> 0]
Token(k) == [kind |-> "token", n |-> k]
ErrorEvent == [kind |-> "error", n |-> 0]
Marker == [kind |-> "marker", n |-> 0]     \* data: [DONE]

Byte == Event \X (1 .. EventSize)
Bytes(e) == [i \in 1 .. EventSize |-> <<e, i>>]

TypeOK == /\ buf \in Seq(Byte)
          /\ done \in BOOLEAN
          /\ aborted \in BOOLEAN
          /\ wpc \in {"role", "stream", "error", "marker", "close", "end"}
          /\ tokens \in 0 .. MaxTokens
          /\ failed \in BOOLEAN
          /\ rpc \in {"read", "blocked", "send", "eof", "gone"}
          /\ woken \in BOOLEAN
          /\ put \in Seq(Byte)
          /\ got \in Seq(Byte)

\* A chat completion announces the role first, a text completion does not.
Init == /\ buf = <<>>
        /\ done = FALSE
        /\ aborted = FALSE
        /\ wpc \in {"role", "stream"}
        /\ tokens = 0
        /\ failed = FALSE
        /\ rpc = "read"
        /\ woken = FALSE
        /\ put = <<>>
        /\ got = <<>>

-----------------------------------------------------------------------------
(* The pipe. *)

\* notify_one and notify_all: the connection thread is the only one to wait.
Notify == woken' = (rpc = "blocked" \/ woken)

Refuses == aborted \/ done

\* Faulty variant: an aborted pipe still takes what is written to it.
WriteAlways(e) ==
    /\ IF done
       THEN UNCHANGED <<buf, aborted, woken, put>>
       ELSE /\ buf' = buf \o Bytes(e)
            /\ put' = put \o Bytes(e)
            /\ aborted' = (aborted \/ Len(buf) + EventSize > MaxBuffer)
            /\ Notify
    /\ UNCHANGED <<done, rpc, got>>

\* write: the event that exceeds the watermark still enters the buffer, but
\* the caller is told that it was refused.
Write(e) ==
    /\ IF Refuses
       THEN UNCHANGED <<buf, aborted, woken, put>>
       ELSE /\ buf' = buf \o Bytes(e)
            /\ put' = put \o Bytes(e)
            /\ aborted' = (Len(buf) + EventSize > MaxBuffer)
            /\ Notify
    /\ UNCHANGED <<done, rpc, got>>

\* The value write returns.
WriteOk == ~Refuses /\ ~aborted'

-----------------------------------------------------------------------------
(* The stream thread. *)

\* The result of writing the role is ignored.
WriteRole == /\ wpc = "role"
             /\ Write(Role)
             /\ wpc' = "stream"
             /\ UNCHANGED <<tokens, failed>>

\* on_token: a refused token ends the completion with an error.
WriteToken == /\ wpc = "stream"
              /\ tokens < MaxTokens
              /\ Write(Token(tokens + 1))
              /\ tokens' = tokens + 1
              /\ IF WriteOk THEN UNCHANGED <<wpc, failed>>
                            ELSE wpc' = "error" /\ failed' = TRUE

StreamSucceeds == /\ wpc = "stream"
                  /\ wpc' = "marker"
                  /\ UNCHANGED <<pipe, tokens, failed, rpc, woken, put, got>>

\* No runner, a failed request, or an exception.
StreamFails == /\ wpc = "stream"
               /\ wpc' = "error"
               /\ failed' = TRUE
               /\ UNCHANGED <<pipe, tokens, rpc, woken, put, got>>

WriteError == /\ wpc = "error"
              /\ Write(ErrorEvent)
              /\ wpc' = "marker"
              /\ UNCHANGED <<tokens, failed>>

\* Faulty variant: the pipe is closed before the marker is written.
CloseFirst == /\ wpc = "marker"
              /\ done' = TRUE
              /\ Notify
              /\ wpc' = "end"
              /\ UNCHANGED <<buf, aborted, tokens, failed, rpc, put, got>>

\* Faulty variant: the stream thread waits for room in the buffer.
WriteMarkerWaits == /\ wpc = "marker"
                    /\ Len(buf) <= MaxBuffer
                    /\ Write(Marker)
                    /\ wpc' = "close"
                    /\ UNCHANGED <<tokens, failed>>

WriteMarker == /\ wpc = "marker"
               /\ Write(Marker)
               /\ wpc' = "close"
               /\ UNCHANGED <<tokens, failed>>

\* Faulty variant: close does not notify.
CloseQuietly == /\ wpc = "close"
                /\ done' = TRUE
                /\ wpc' = "end"
                /\ UNCHANGED <<buf, aborted, tokens, failed, rpc, woken, put, got>>

Close == /\ wpc = "close"
         /\ done' = TRUE
         /\ Notify
         /\ wpc' = "end"
         /\ UNCHANGED <<buf, aborted, tokens, failed, rpc, put, got>>

-----------------------------------------------------------------------------
(* The connection thread. *)

\* cv_.wait with a predicate that does not hold.
ReadWaits == /\ rpc = "read"
             /\ buf = <<>>
             /\ ~done
             /\ rpc' = "blocked"
             /\ woken' = FALSE
             /\ UNCHANGED <<pipe, writer, put, got>>

\* A waiting thread returns to evaluate the predicate again ...
Wake == /\ rpc = "blocked"
        /\ woken
        /\ rpc' = "read"
        /\ woken' = FALSE
        /\ UNCHANGED <<pipe, writer, put, got>>

\* ... when it is notified, and possibly without any notification.
SpuriousWake == /\ rpc = "blocked"
                /\ ~woken
                /\ rpc' = "read"
                /\ UNCHANGED <<pipe, writer, woken, put, got>>

Taken == IF Len(buf) <= ReadSize THEN Len(buf) ELSE ReadSize

\* Faulty variant: the whole buffer is cleared after a partial read.
ReadAndClear == /\ rpc = "read"
                /\ buf # <<>>
                /\ got' = got \o SubSeq(buf, 1, Taken)
                /\ buf' = <<>>
                /\ rpc' = "send"
                /\ UNCHANGED <<done, aborted, writer, woken, put>>

Read == /\ rpc = "read"
        /\ buf # <<>>
        /\ got' = got \o SubSeq(buf, 1, Taken)
        /\ buf' = SubSeq(buf, Taken + 1, Len(buf))
        /\ rpc' = "send"
        /\ UNCHANGED <<done, aborted, writer, woken, put>>

\* An empty read is the end of the body.
ReadEnd == /\ rpc = "read"
           /\ buf = <<>>
           /\ done
           /\ rpc' = "eof"
           /\ UNCHANGED <<pipe, writer, woken, put, got>>

Sent == /\ rpc = "send"
        /\ rpc' = "read"
        /\ UNCHANGED <<pipe, writer, woken, put, got>>

\* The client has disconnected; the pipe is not told.
ClientGone == /\ rpc = "send"
              /\ rpc' = "gone"
              /\ UNCHANGED <<pipe, writer, woken, put, got>>

-----------------------------------------------------------------------------

WriterStep == \/ WriteRole \/ WriteToken \/ StreamSucceeds \/ StreamFails
              \/ WriteError \/ WriteMarker \/ Close

ReaderStep == ReadWaits \/ Wake \/ Read \/ ReadEnd \/ Sent

Next == WriterStep \/ ReaderStep \/ SpuriousWake \/ ClientGone

Spec == Init /\ [][Next]_vars

(***************************************************************************)
(* Both threads are scheduled.  stream_completion returns, because its     *)
(* HTTP client has timeouts and a completion has at most MaxTokens tokens; *)
(* a client that stays reads what it is sent in the end (Sent).            *)
(***************************************************************************)
FairSpec == Spec /\ WF_vars(WriterStep) /\ WF_vars(ReaderStep)

-----------------------------------------------------------------------------
(* Properties. *)

\* A connection thread waits only if there is nothing to read and the stream
\* goes on, or if it was notified: no write or close is missed.
NoLostWakeup == rpc = "blocked" /\ ~woken => buf = <<>> /\ ~done

\* The buffer exceeds the watermark by at most one event, whether or not
\* anyone reads: a client that went away costs a bounded amount of memory.
Watermark == Len(buf) <= MaxBuffer + EventSize

\* A pipe that gave up on its reader stays so (aborted_ is never reset), and
\* from then on no event enters the buffer.
AbortIsFinal == [][aborted => aborted' /\ put' = put]_vars

\* How a response must end: with the [DONE] marker and, if the completion
\* failed, the error before it.
Ending == (IF failed THEN Bytes(ErrorEvent) ELSE <<>>) \o Bytes(Marker)

\* Unless the pipe gave up on it, a client that reads to the end has received
\* the [DONE] marker last and, if the completion failed, the error before it.
EofComplete == rpc = "eof" /\ ~aborted => IsSuffix(Ending, got)

\* The stream thread has written what it should have by the point it is at.
WrittenInv == /\ done <=> wpc = "end"
              /\ wpc \in {"role", "stream"} => ~failed
              /\ wpc = "error" => failed
              /\ wpc = "marker" /\ failed /\ ~aborted => IsSuffix(Bytes(ErrorEvent), put)
              /\ wpc \in {"close", "end"} /\ ~aborted => IsSuffix(Ending, put)

\* The inductive invariant of IOPipe: no byte that entered the buffer is lost
\* or reordered, the buffer is below the watermark until write has aborted the
\* pipe, and the end is seen after the last byte.
PipeInv == /\ TypeOK
           /\ put = got \o buf
           /\ ~aborted => Len(buf) <= MaxBuffer
           /\ Watermark
           /\ NoLostWakeup
           /\ rpc = "eof" => done /\ buf = <<>>
           /\ WrittenInv

\* The client of a streamed completion sees the end of the response, unless
\* it disconnects.
ReaderEnds == <>(rpc \in {"eof", "gone"})

\* The stream thread ends, even if nobody reads the pipe any more.
WriterEnds == <>(wpc = "end")

\* The pipe is a stream of bytes.
Stream == INSTANCE ByteStream WITH
    sent <- put, rcvd <- got, closed <- done, eof <- rpc = "eof"
ImplementsStream == Stream!Spec

=============================================================================
