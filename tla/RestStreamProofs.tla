-------------------------- MODULE RestStreamProofs --------------------------
(***************************************************************************)
(* Proofs about RestStream, for any number of tokens and bytes of a line:  *)
(* what StreamProxyProofs shows of the call also holds inside the C++ REST *)
(* SDK router, and a response that was read to its end tells the outcome.  *)
(***************************************************************************)
EXTENDS RestStream, StreamProxyProofs

-----------------------------------------------------------------------------
(* The invariant. *)

\* The part of the ending that was put into the buffer.
EndingSoFar == IF hpc \in {"role", "call", "error"} THEN <<>>
               ELSE IF hpc # "marker" THEN Ending
               ELSE IF result = Error THEN <<ErrorEvent>> ELSE <<>>

\* What the client has received and what is in the buffer is what the handler
\* has put there, unless the client has left or an exception has ended the
\* handler.
EventsInv == client # "gone" /\ hpc # "died" =>
    /\ \E start \in {<<>>, <<Role>>} :
         /\ got \o buffer = (start \o TokenEvents) \o EndingSoFar
         /\ hpc = "role" => start = <<>>
    /\ hpc = "end" => shut

HandlerInv == /\ hpc = "role" => passed = <<>>
              /\ hpc \in {"error", "marker", "close"} => result # None
              /\ hpc = "error" => result = Error
              /\ shut => hpc = "end"
              /\ client = "eof" => shut /\ buffer = <<>>

RestInv == RestTypeOK /\ ProxyInv /\ HandlerInv /\ EventsInv

-----------------------------------------------------------------------------
(* Lemmas about sequences and events. *)

\* Appending to the right one of two sequences.
LEMMA AppendRight ==
    ASSUME NEW S, NEW s \in Seq(S), NEW t \in Seq(S), NEW e \in S
    PROVE  s \o Append(t, e) = Append(s \o t, e)
<1>1. Append(t, e) = t \o <<e>> /\ Append(s \o t, e) = (s \o t) \o <<e>>
  BY ConcatProperties, AppendIsConcat
<1>2. <<e>> \in Seq(S)
  BY SMT
<1>3. (s \o t) \o <<e>> = s \o (t \o <<e>>)
  BY <1>2, ConcatAssociative
<1> QED
  BY <1>1, <1>3

\* A sequence of two elements.
LEMMA PairLemma ==
    ASSUME NEW S, NEW x \in S, NEW y \in S
    PROVE  Append(<<x>>, y) = <<x, y>>
<1>1. <<x>> \in Seq(S) /\ Len(<<x>>) = 1 /\ <<x>>[1] = x
  BY SMT
<1>2. /\ Append(<<x>>, y) \in Seq(S) /\ Len(Append(<<x>>, y)) = 2
      /\ Append(<<x>>, y)[1] = x /\ Append(<<x>>, y)[2] = y
  BY <1>1, AppendProperties, SMT
<1>3. /\ <<x, y>> \in Seq(S) /\ Len(<<x, y>>) = 2
      /\ <<x, y>>[1] = x /\ <<x, y>>[2] = y
  BY SMT
<1>4. \A i \in 1 .. 2 : i = 1 \/ i = 2
  BY SMT
<1> QED
  BY <1>2, <1>3, <1>4, SeqEqual

\* Moving the head of a sequence to the end of the one before it.
LEMMA MoveHead ==
    ASSUME NEW S, NEW s \in Seq(S), NEW t \in Seq(S), t # <<>>
    PROVE  /\ Append(s, Head(t)) \in Seq(S) /\ Tail(t) \in Seq(S)
           /\ Append(s, Head(t)) \o Tail(t) = s \o t
<1>1. Head(t) \in S /\ Tail(t) \in Seq(S) /\ <<Head(t)>> \in Seq(S)
  BY HeadTailProperties, SMT
<1>2. Append(s, Head(t)) \in Seq(S) /\ Append(s, Head(t)) = s \o <<Head(t)>>
  BY <1>1, AppendProperties, AppendIsConcat
<1>3. (s \o <<Head(t)>>) \o Tail(t) = s \o (<<Head(t)>> \o Tail(t))
  BY <1>1, ConcatAssociative
<1>4. <<Head(t)>> \o Tail(t) = t
  BY <1>1, HeadTailProperties, SMT
<1> QED
  BY <1>1, <1>2, <1>3, <1>4

\* The events that the handler puts into the buffer.
LEMMA EventsLemma ==
    /\ Role \in Event /\ ErrorEvent \in Event /\ Marker \in Event
    /\ \A k \in Tokens : Token(k) \in Event
    /\ <<>> \in Seq(Event) /\ <<Role>> \in Seq(Event)
    /\ EndingSoFar \in Seq(Event) /\ Ending \in Seq(Event)
<1>1. 0 \in 0 .. MaxTokens /\ \A k \in Tokens : k \in 0 .. MaxTokens
  BY MaxTokensAssumption, SMT DEF Tokens
<1>2. Role \in Event /\ ErrorEvent \in Event /\ Marker \in Event
  BY <1>1, SMT DEF Event, Role, ErrorEvent, Marker
<1>3. \A k \in Tokens : Token(k) \in Event
  BY <1>1, SMT DEF Event, Token
<1> HIDE DEF Event, Role, ErrorEvent, Marker
<1>4. /\ <<>> \in Seq(Event) /\ <<Role>> \in Seq(Event) /\ <<Marker>> \in Seq(Event)
      /\ <<ErrorEvent>> \in Seq(Event) /\ <<ErrorEvent, Marker>> \in Seq(Event)
  BY <1>2, SMT
<1> QED
  BY <1>2, <1>3, <1>4 DEF EndingSoFar, Ending

LEMMA TokenEventsType ==
    ASSUME passed \in Seq(Tokens)
    PROVE  TokenEvents \in Seq(Event) /\ Len(TokenEvents) = Len(passed)
<1>1. DOMAIN passed = 1 .. Len(passed) /\ Len(passed) \in Nat
      /\ \A i \in 1 .. Len(passed) : passed[i] \in Tokens
  BY LenProperties, ElementOfSeq
<1>2. TokenEvents \in [1 .. Len(passed) -> Event]
  BY <1>1, EventsLemma DEF TokenEvents
<1> QED
  BY <1>1, <1>2, SMT

\* Passing on a token adds one event.
LEMMA PassedLemma ==
    ASSUME ProxyInv, NEW goOn \in BOOLEAN, ScanToken(goOn), UNCHANGED sender
    PROVE  \E k \in Tokens : /\ Last(passed') = k
                             /\ TokenEvents' = Append(TokenEvents, Token(k))
<1>1. PICK k \in Tokens : FirstLine = TokenLine(k)
  <2>1. HasLine /\ SkipLine /\ UNCHANGED <<sender, rcvd>> /\ FirstLine.kind = "token"
    BY DEF ScanToken, NextLine
  <2> QED
    BY <2>1, SkipTokens
<1>2. passed \in Seq(Tokens) /\ Len(passed) \in Nat /\ DOMAIN passed = 1 .. Len(passed)
  BY LenProperties DEF ProxyInv, TypeOK
<1>3. passed' = Append(passed, k)
  <2>1. passed' = passed \o <<k>>
    BY <1>1 DEF ScanToken, TokenLine
  <2> QED
    BY <1>2, <2>1, AppendIsConcat
<1>4. /\ passed' \in Seq(Tokens) /\ Len(passed') = Len(passed) + 1
      /\ \A i \in 1 .. Len(passed) : passed'[i] = passed[i]
      /\ passed'[Len(passed) + 1] = k
      /\ DOMAIN passed' = 1 .. Len(passed) + 1
  BY <1>2, <1>3, AppendProperties, LenProperties, SMT
<1>5. Last(passed') = k
  BY <1>4 DEF Last
<1>6. TokenEvents \in Seq(Event) /\ Len(TokenEvents) = Len(passed) /\ Token(k) \in Event
  BY <1>2, TokenEventsType, EventsLemma
<1>7. TokenEvents' = Append(TokenEvents, Token(k))
  <2>1. TokenEvents' = [i \in 1 .. Len(passed) + 1 |-> Token(passed'[i])]
    BY <1>4 DEF TokenEvents, Token
  <2>2. /\ Append(TokenEvents, Token(k)) \in Seq(Event)
        /\ Len(Append(TokenEvents, Token(k))) = Len(passed) + 1
        /\ \A i \in 1 .. Len(passed) : Append(TokenEvents, Token(k))[i] = TokenEvents[i]
        /\ Append(TokenEvents, Token(k))[Len(passed) + 1] = Token(k)
    BY <1>6, AppendProperties
  <2>3. \A i \in 1 .. Len(passed) : TokenEvents[i] = Token(passed[i])
    BY <1>2 DEF TokenEvents
  <2>4. \A i \in 1 .. Len(passed) + 1 : i \in 1 .. Len(passed) \/ i = Len(passed) + 1
    BY <1>2, SMT
  <2>5. \A i \in 1 .. Len(passed) + 1 :
          Token(passed'[i]) = Append(TokenEvents, Token(k))[i]
    BY <1>4, <2>2, <2>3, <2>4
  <2>6. \A i \in 1 .. Len(passed) + 1 : Token(passed'[i]) \in Event
    BY <1>4, EventsLemma, ElementOfSeq
  <2>7. /\ TokenEvents' \in Seq(Event) /\ Len(TokenEvents') = Len(passed) + 1
        /\ \A i \in 1 .. Len(passed) + 1 : TokenEvents'[i] = Token(passed'[i])
    BY <1>2, <2>1, <2>6, SMT
  <2>8. \A i \in 1 .. Len(TokenEvents') : TokenEvents'[i] = Append(TokenEvents, Token(k))[i]
    BY <2>5, <2>7
  <2> QED
    BY <2>2, <2>7, <2>8, SeqEqual, Zenon
<1> QED
  BY <1>5, <1>7

-----------------------------------------------------------------------------
(* The steps. *)

LEMMA InitRest == RestInit => RestInv
<1> SUFFICES ASSUME RestInit
             PROVE  RestInv
  OBVIOUS
<1>1. ProxyInv /\ passed = <<>>
  BY InitProxyInv DEF RestInit, Init, InitProxy
<1>2. got = <<>> /\ buffer = <<>> /\ hpc \in {"role", "call"} /\ ~shut /\ client = "reading"
  BY DEF RestInit
<1>3. TokenEvents = <<>>
  <2>1. passed \in Seq(Tokens) /\ Len(passed) = 0
    BY <1>1, EmptySeq
  <2> QED
    BY <2>1, TokenEventsType, EmptySeq
<1>4. EndingSoFar = <<>> /\ <<>> \o <<>> = <<>>
  BY <1>2, ConcatEmptySeq, EventsLemma DEF EndingSoFar
<1>5. RestTypeOK
  BY <1>1, <1>2, EventsLemma DEF RestTypeOK, ProxyInv, RestInit
<1>6. HandlerInv /\ EventsInv
  BY <1>1, <1>2, <1>3, <1>4 DEF HandlerInv, EventsInv
<1> QED
  BY <1>1, <1>5, <1>6 DEF RestInv

\* What the handler and the runner do to the call.
LEMMA CallKeeps == ProxyInv /\ [RestNext]_restVars => ProxyInv'
<1> SUFFICES ASSUME ProxyInv, [RestNext]_restVars
             PROVE  ProxyInv'
  OBVIOUS
<1>1. CASE OnToken /\ UNCHANGED sender
  <2>1. ScanThrows \/ \E goOn \in BOOLEAN : ScanToken(goOn)
    BY <1>1 DEF OnToken
  <2> QED
    BY <1>1, <2>1, ScanTokenKeeps, EndingsKeep
<1>2. CASE Calls /\ UNCHANGED sender
  <2>1. Request
    BY <1>2 DEF Calls, Request
  <2> QED
    BY <1>2, <2>1, RequestKeeps
<1>3. CASE RunnerSends
  BY <1>3, SenderKeeps DEF RunnerSends
<1>4. CASE UNCHANGED vars
  BY <1>4, StutterProxy
<1>5. CASE HandlerStep
  <2>1. UNCHANGED sender
    BY <1>5 DEF HandlerStep
  <2>2. OnToken \/ Calls \/ UNCHANGED proxy
    BY <1>5 DEF HandlerStep, PutRole, CallThrows, CallReturns, PutError, PutMarker, CloseBuffer
  <2> QED
    BY <1>1, <1>2, <1>4, <2>1, <2>2 DEF vars
<1>6. CASE ListenerStep \/ ClientLeaves \/ UNCHANGED restVars
  BY <1>4, <1>6 DEF ListenerStep, ClientLeaves, restVars
<1> QED
  BY <1>3, <1>5, <1>6 DEF RestNext

\* An event that is put follows what was put before.
LEMMA PutLemma ==
    ASSUME RestInv, NEW e \in Event, Puts(e), got' = got, NEW s \in Seq(Event),
           got \o buffer = s
    PROVE  buffer' \in Seq(Event) /\ got' \o buffer' = Append(s, e)
<1>1. got \in Seq(Event) /\ buffer \in Seq(Event) /\ buffer' = Append(buffer, e)
  BY DEF RestInv, RestTypeOK, Puts
<1>2. buffer' \in Seq(Event)
  BY <1>1, AppendProperties
<1>3. got \o Append(buffer, e) = Append(got \o buffer, e)
  BY <1>1, AppendRight
<1> QED
  BY <1>1, <1>2, <1>3

\* The steps of the handler.
LEMMA HandlerKeeps ==
    ASSUME RestInv, HandlerStep
    PROVE  HandlerInv' /\ EventsInv' /\ buffer' \in Seq(Event)
<1>1. /\ RestTypeOK /\ ProxyInv /\ HandlerInv /\ EventsInv
      /\ passed \in Seq(Tokens) /\ got \in Seq(Event) /\ buffer \in Seq(Event)
  BY DEF RestInv, RestTypeOK, TypeOK
<1>2. UNCHANGED <<sender, got, client>>
  BY DEF HandlerStep, reader
<1>3. TokenEvents \in Seq(Event) /\ EndingSoFar \in Seq(Event)
      /\ \A start \in {<<>>, <<Role>>} : /\ start \in Seq(Event)
                                         /\ start \o TokenEvents \in Seq(Event)
  BY <1>1, TokenEventsType, EventsLemma, ConcatProperties
<1>4. CASE PutRole
  <2>1. hpc = "role" /\ UNCHANGED proxy /\ shut' = shut /\ ~shut /\ passed = <<>>
    BY <1>1, <1>4 DEF PutRole, HandlerInv
  <2>2. client # "eof"
    BY <1>1, <2>1 DEF HandlerInv
  <2>3. TokenEvents' = TokenEvents /\ TokenEvents = <<>>
    <3>1. Len(TokenEvents) = 0
      BY <1>1, <2>1, TokenEventsType, EmptySeq
    <3> QED
      BY <1>3, <2>1, <3>1, EmptySeq DEF TokenEvents, proxy
  <2>4. CASE Puts(Role) /\ hpc' = "call"
    <3>1. buffer' \in Seq(Event)
      BY <1>1, <2>4, EventsLemma, AppendProperties DEF Puts
    <3>2. HandlerInv'
      BY <1>2, <2>1, <2>2, <2>4 DEF HandlerInv
    <3>3. ASSUME client # "gone"
          PROVE  got' \o buffer' = (<<Role>> \o TokenEvents') \o EndingSoFar'
      <4>1. got \o buffer = (<<>> \o <<>>) \o <<>>
        BY <1>1, <2>1, <2>3, <3>3 DEF EventsInv, EndingSoFar
      <4>2. got \o buffer = <<>>
        BY <4>1, ConcatEmptySeq, EventsLemma
      <4>3. got' \o buffer' = Append(<<>>, Role)
        BY <1>2, <2>4, <4>2, PutLemma, EventsLemma
      <4>4. Append(<<>>, Role) = <<Role>>
        BY SMT
      <4>5. EndingSoFar' = <<>>
        BY <2>4 DEF EndingSoFar
      <4>6. (<<Role>> \o <<>>) \o <<>> = <<Role>>
        BY EventsLemma, ConcatEmptySeq
      <4> QED
        BY <2>3, <4>3, <4>4, <4>5, <4>6
    <3> QED
      BY <1>2, <2>4, <3>1, <3>2, <3>3 DEF EventsInv
  <2>5. CASE hpc' = "died" /\ UNCHANGED buffer
    BY <1>1, <1>2, <2>1, <2>2, <2>5 DEF PutThrows, HandlerInv, EventsInv
  <2> QED
    BY <1>4, <2>4, <2>5 DEF PutRole, PutOrDie, PutThrows
<1>5. CASE OnToken
  <2>1. hpc = "call" /\ hpc' = "call" /\ shut' = shut /\ ~shut /\ client # "eof"
    BY <1>1, <1>5 DEF OnToken, HandlerInv
  <2>2. HandlerInv'
    BY <1>2, <2>1 DEF HandlerInv
  <2>3. CASE ScanToken(TRUE) /\ Puts(Token(Last(passed')))
    <3>1. PICK k \in Tokens : Puts(Token(k)) /\ TokenEvents' = Append(TokenEvents, Token(k))
      BY <1>1, <1>2, <2>3, PassedLemma
    <3>2. Token(k) \in Event
      BY EventsLemma
    <3>3. buffer' \in Seq(Event)
      BY <1>1, <3>1, <3>2, AppendProperties DEF Puts
    <3>4. ASSUME client # "gone"
          PROVE  \E start \in {<<>>, <<Role>>} :
                   got' \o buffer' = (start \o TokenEvents') \o EndingSoFar'
      <4>1. PICK start \in {<<>>, <<Role>>} :
              got \o buffer = (start \o TokenEvents) \o <<>>
        BY <1>1, <2>1, <3>4 DEF EventsInv, EndingSoFar
      <4>2. got \o buffer = start \o TokenEvents
        BY <1>3, <4>1, ConcatEmptySeq
      <4>3. got' \o buffer' = Append(start \o TokenEvents, Token(k))
        BY <1>2, <1>3, <3>1, <3>2, <4>2, PutLemma
      <4>4. Append(start \o TokenEvents, Token(k)) = start \o TokenEvents'
        <5>1. start \in Seq(Event) /\ TokenEvents \in Seq(Event)
          BY <1>3
        <5>2. start \o Append(TokenEvents, Token(k)) = Append(start \o TokenEvents, Token(k))
          <6>1. \A s, t \in Seq(Event), e \in Event : s \o Append(t, e) = Append(s \o t, e)
            BY AppendRight
          <6> QED
            BY <3>2, <5>1, <6>1, Zenon
        <5> QED
          BY <3>1, <5>2
      <4>5. EndingSoFar' = <<>> /\ start \o TokenEvents' \in Seq(Event)
        <5>1. TokenEvents' \in Seq(Event)
          BY <1>3, <3>1, <3>2, AppendProperties
        <5> QED
          BY <1>3, <2>1, <5>1, ConcatProperties DEF EndingSoFar
      <4>6. (start \o TokenEvents') \o EndingSoFar' = start \o TokenEvents'
        BY <4>5, ConcatEmptySeq
      <4> QED
        BY <4>3, <4>4, <4>6
    <3> QED
      BY <1>2, <2>1, <2>2, <3>3, <3>4 DEF EventsInv
  <2>4. CASE PutThrows
    BY <1>1, <1>2, <2>1, <2>2, <2>4 DEF PutThrows, EventsInv
  <2>5. CASE ScanThrows /\ UNCHANGED buffer
    <3>1. TokenEvents' = TokenEvents /\ EndingSoFar' = EndingSoFar
      BY <2>1, <2>5 DEF ScanThrows, TokenEvents, EndingSoFar
    <3> QED
      BY <1>1, <1>2, <2>1, <2>2, <2>5, <3>1 DEF EventsInv
  <2> QED
    BY <1>5, <2>3, <2>4, <2>5 DEF OnToken
<1>6. CASE Calls
  <2>1. hpc = "call" /\ UNCHANGED <<hpc, buffer, shut>> /\ ~shut /\ client # "eof"
    BY <1>1, <1>6 DEF Calls, HandlerInv, handler
  <2>2. passed' = passed
    BY <1>6 DEF Calls, Receive, ScanFinal, ScanEnds, ScanGarbage, BodyEnds, Cancelled,
                RequestFails, Finish
  <2>3. HandlerInv'
    BY <1>2, <2>1 DEF HandlerInv
  <2>4. EventsInv'
    BY <1>1, <1>2, <2>1, <2>2 DEF EventsInv, EndingSoFar, TokenEvents
  <2> QED
    BY <1>1, <2>1, <2>3, <2>4
<1>7. CASE CallReturns
  <2>1. /\ hpc = "call" /\ result # None /\ UNCHANGED <<buffer, shut>> /\ UNCHANGED proxy
        /\ hpc' = (IF result.kind = "ok" THEN "marker" ELSE "error")
    BY <1>7 DEF CallReturns
  <2>2. result \in {Error, Ok(fullText)}
    BY <1>1, <2>1 DEF ProxyInv, CallInv
  <2>3. (result.kind = "ok" => result # Error) /\ (result.kind # "ok" => result = Error)
    BY <2>2 DEF Ok, Error
  <2>4. ~shut /\ client # "eof"
    BY <1>1, <2>1 DEF HandlerInv
  <2>5. HandlerInv'
    BY <1>2, <2>1, <2>3, <2>4 DEF HandlerInv, proxy
  <2>6. EndingSoFar' = EndingSoFar /\ TokenEvents' = TokenEvents
    BY <2>1, <2>3 DEF EndingSoFar, TokenEvents, proxy
  <2>7. EventsInv'
    BY <1>1, <1>2, <2>1, <2>6 DEF EventsInv
  <2> QED
    BY <1>1, <2>1, <2>5, <2>7
<1>8. CASE PutError \/ PutMarker
  <2>1. /\ hpc \in {"error", "marker"} /\ UNCHANGED proxy /\ shut' = shut
        /\ ~shut /\ client # "eof" /\ result # None
        /\ hpc = "error" => result = Error
    BY <1>1, <1>8 DEF PutError, PutMarker, HandlerInv
  <2>2. TokenEvents' = TokenEvents /\ result' = result
    BY <2>1 DEF TokenEvents, proxy
  <2>3. CASE PutThrows /\ hpc' = "died"
    BY <1>1, <1>2, <2>1, <2>2, <2>3 DEF PutThrows, HandlerInv, EventsInv
  <2>4. ASSUME NEW e \in Event, Puts(e), EndingSoFar' = Append(EndingSoFar, e),
               hpc' \in {"marker", "close"}
        PROVE  HandlerInv' /\ EventsInv' /\ buffer' \in Seq(Event)
    <3>1. buffer' \in Seq(Event)
      BY <1>1, <2>4, AppendProperties DEF Puts
    <3>2. HandlerInv'
      BY <1>2, <2>1, <2>2, <2>4 DEF HandlerInv
    <3>3. ASSUME client # "gone"
          PROVE  \E start \in {<<>>, <<Role>>} :
                   got' \o buffer' = (start \o TokenEvents') \o EndingSoFar'
      <4>1. PICK start \in {<<>>, <<Role>>} :
              got \o buffer = (start \o TokenEvents) \o EndingSoFar
        BY <1>1, <2>1, <3>3 DEF EventsInv
      <4>2. (start \o TokenEvents) \o EndingSoFar \in Seq(Event)
        BY <1>3, ConcatProperties
      <4>3. got' \o buffer' = Append((start \o TokenEvents) \o EndingSoFar, e)
        BY <1>2, <2>4, <4>1, <4>2, PutLemma
      <4>4. (start \o TokenEvents) \o Append(EndingSoFar, e)
              = Append((start \o TokenEvents) \o EndingSoFar, e)
        BY <1>3, AppendRight
      <4> QED
        BY <2>2, <2>4, <4>3, <4>4
    <3> QED
      BY <1>2, <2>4, <3>1, <3>2, <3>3 DEF EventsInv
  <2>5. CASE PutError /\ Puts(ErrorEvent) /\ hpc' = "marker"
    <3>1. EndingSoFar = <<>> /\ EndingSoFar' = <<ErrorEvent>>
      BY <2>1, <2>2, <2>5 DEF EndingSoFar, PutError
    <3>2. Append(<<>>, ErrorEvent) = <<ErrorEvent>>
      BY SMT
    <3> QED
      BY <2>4, <2>5, <3>1, <3>2, EventsLemma
  <2>6. CASE PutMarker /\ Puts(Marker) /\ hpc' = "close"
    <3>1. /\ EndingSoFar = (IF result = Error THEN <<ErrorEvent>> ELSE <<>>)
          /\ EndingSoFar' = Ending'
      BY <2>6 DEF EndingSoFar, PutMarker
    <3>2. Ending' = IF result = Error THEN <<ErrorEvent, Marker>> ELSE <<Marker>>
      BY <2>2 DEF Ending, ErrorEvent, Marker, Error
    <3>3. Append(<<>>, Marker) = <<Marker>> /\ Append(<<ErrorEvent>>, Marker) = <<ErrorEvent, Marker>>
      <4>1. \A x : Append(<<>>, x) = <<x>>
        BY SMT
      <4>2. Append(<<ErrorEvent>>, Marker) = <<ErrorEvent, Marker>>
        BY EventsLemma, PairLemma
      <4> QED
        BY <4>1, <4>2, Zenon
    <3> QED
      BY <2>4, <2>6, <3>1, <3>2, <3>3, EventsLemma
  <2> QED
    BY <1>8, <2>3, <2>5, <2>6 DEF PutError, PutMarker, PutOrDie
<1>9. CASE CloseBuffer
  <2>1. hpc = "close" /\ hpc' = "end" /\ shut' = TRUE /\ UNCHANGED <<proxy, buffer>>
    BY <1>9 DEF CloseBuffer
  <2>2. client # "eof"
    BY <1>1, <2>1 DEF HandlerInv
  <2>3. EndingSoFar' = EndingSoFar /\ TokenEvents' = TokenEvents
    BY <2>1 DEF EndingSoFar, Ending, TokenEvents, proxy, Error, ErrorEvent, Marker
  <2>4. HandlerInv'
    BY <1>2, <2>1, <2>2 DEF HandlerInv
  <2>5. EventsInv'
    BY <1>1, <1>2, <2>1, <2>3 DEF EventsInv
  <2> QED
    BY <1>1, <2>1, <2>4, <2>5
<1>10. CASE CallThrows
  <2>1. hpc = "call" /\ hpc' = "died" /\ UNCHANGED <<proxy, buffer, shut>>
    BY <1>10 DEF CallThrows
  <2> QED
    BY <1>1, <1>2, <2>1 DEF HandlerInv, EventsInv, proxy
<1> QED
  BY <1>4, <1>5, <1>6, <1>7, <1>8, <1>9, <1>10 DEF HandlerStep

\* The other steps: only the listener takes events out of the buffer.
LEMMA OthersKeep ==
    ASSUME RestInv, ListenerStep \/ ClientLeaves \/ RunnerSends \/ UNCHANGED restVars
    PROVE  /\ HandlerInv' /\ EventsInv'
           /\ buffer' \in Seq(Event) /\ got' \in Seq(Event)
           /\ client' \in {"reading", "eof", "gone"} /\ UNCHANGED <<hpc, shut>>
<1>1. /\ HandlerInv /\ EventsInv /\ got \in Seq(Event) /\ buffer \in Seq(Event)
      /\ client \in {"reading", "eof", "gone"}
  BY DEF RestInv, RestTypeOK
<1>2. UNCHANGED <<passed, result, hpc, shut>>
  BY DEF ListenerStep, Deliver, DeliverEnd, ClientLeaves, RunnerSends, restVars, vars, proxy, handler
<1>3. TokenEvents' = TokenEvents /\ EndingSoFar' = EndingSoFar
  BY <1>2 DEF TokenEvents, EndingSoFar, Ending, Error, ErrorEvent, Marker
<1>4. CASE Deliver
  <2>1. /\ client = "reading" /\ client' = client /\ buffer # <<>>
        /\ got' = Append(got, Head(buffer)) /\ buffer' = Tail(buffer)
    BY <1>4 DEF Deliver
  <2>2. got' \in Seq(Event) /\ buffer' \in Seq(Event) /\ got' \o buffer' = got \o buffer
    <3>1. /\ Append(got, Head(buffer)) \in Seq(Event) /\ Tail(buffer) \in Seq(Event)
          /\ Append(got, Head(buffer)) \o Tail(buffer) = got \o buffer
      BY <1>1, <2>1, MoveHead, Zenon
    <3> QED
      BY <2>1, <3>1
  <2> QED
    BY <1>1, <1>2, <1>3, <2>1, <2>2 DEF HandlerInv, EventsInv
<1>5. CASE UNCHANGED <<got, buffer>>
  <2>1. client' = client \/ client' = "gone" \/ (client' = "eof" /\ client = "reading" /\ shut /\ buffer = <<>>)
    BY <1>4, <1>5 DEF ListenerStep, Deliver, DeliverEnd, ClientLeaves, RunnerSends, reader, restVars
  <2> QED
    BY <1>1, <1>2, <1>3, <1>5, <2>1 DEF HandlerInv, EventsInv
<1>6. Deliver \/ UNCHANGED <<got, buffer>>
  BY DEF ListenerStep, DeliverEnd, ClientLeaves, RunnerSends, restVars, handler, reader
<1> QED
  BY <1>4, <1>5, <1>6

LEMMA NextRest == RestInv /\ [RestNext]_restVars => RestInv'
<1> SUFFICES ASSUME RestInv, [RestNext]_restVars
             PROVE  RestInv'
  OBVIOUS
<1>1. ProxyInv' /\ TypeOK'
  BY CallKeeps DEF RestInv, ProxyInv
<1>2. CASE HandlerStep
  <2>1. hpc' \in {"role", "call", "error", "marker", "close", "end", "died"} /\ shut' \in BOOLEAN
        /\ UNCHANGED <<got, client>>
    BY <1>2 DEF HandlerStep, PutRole, OnToken, Calls, CallThrows, CallReturns, PutError, PutMarker,
                CloseBuffer, PutOrDie, handler, reader, RestInv, RestTypeOK
  <2> QED
    BY <1>1, <1>2, <2>1, HandlerKeeps DEF RestInv, RestTypeOK
<1>3. CASE ListenerStep \/ ClientLeaves \/ RunnerSends \/ UNCHANGED restVars
  BY <1>1, <1>3, OthersKeep DEF RestInv, RestTypeOK
<1> QED
  BY <1>2, <1>3 DEF RestNext

-----------------------------------------------------------------------------
(* The theorems. *)

\* RestInv is inductive: what the client has received and what is in the
\* buffer are the events of the call, in order, and the part of the ending
\* that was put.
THEOREM RestInvariance == RestSpec => []RestInv
  BY InitRest, NextRest, PTL DEF RestSpec

\* The state of the handler, its buffer and the client keeps its type.
THEOREM RestTypeCorrect == RestSpec => []RestTypeOK
  BY RestInvariance, PTL DEF RestInv

\* The call of the handler passes on exactly the tokens whose lines have arrived,
\* whatever the chunks and whatever becomes of the client.
THEOREM RestChunking == RestSpec => []ChunkingIrrelevant
  BY RestInvariance, ChunkingHolds, PTL DEF RestInv

\* If it succeeds, it has passed on every token that was sent.
THEOREM RestCompleteness == RestSpec => []SuccessIsComplete
  BY RestInvariance, SuccessHolds, PTL DEF RestInv

\* RestTellsOutcome follows from the invariant.
LEMMA OutcomeHolds == RestInv => RestTellsOutcome
<1> SUFFICES ASSUME RestInv, client = "eof"
             PROVE  \E start \in {<<>>, <<Role>>} : got = start \o TokenEvents \o Ending
  BY DEF RestTellsOutcome
<1>1. buffer = <<>> /\ hpc = "end" /\ got \in Seq(Event)
  BY DEF RestInv, HandlerInv, RestTypeOK
<1>2. PICK start \in {<<>>, <<Role>>} :
        got \o buffer = (start \o TokenEvents) \o EndingSoFar
  BY <1>1 DEF RestInv, EventsInv
<1>3. EndingSoFar = Ending /\ got \o buffer = got
  BY <1>1, ConcatEmptySeq DEF EndingSoFar
<1> QED
  BY <1>2, <1>3

\* A client that reads the response to its end has received the events of the
\* tokens in order, an error event exactly if the call has failed, and the
\* marker (cpprest_router.hpp, the streamed completion and chat).
THEOREM RestOutcome == RestSpec => []RestTellsOutcome
  BY RestInvariance, OutcomeHolds, PTL

\* To the call, the handler is a callback that refuses or not, and the rest of the
\* server and the client do nothing.
LEMMA RestStepIsCall == RestInv /\ [RestNext]_restVars => [Next]_vars
<1> SUFFICES ASSUME RestInv, [RestNext]_restVars
             PROVE  [Next]_vars
  OBVIOUS
<1>1. CASE HandlerStep
  <2>1. UNCHANGED sender
    BY <1>1 DEF HandlerStep
  <2>2. Request \/ UNCHANGED proxy
    BY <1>1 DEF HandlerStep, PutRole, OnToken, Calls, CallThrows, CallReturns, PutError, PutMarker,
                CloseBuffer, Request
  <2> QED
    BY <2>1, <2>2 DEF Next, vars
<1>2. CASE RunnerSends
  BY <1>2 DEF RunnerSends, Next
<1>3. CASE ListenerStep \/ ClientLeaves \/ UNCHANGED restVars
  BY <1>3 DEF ListenerStep, ClientLeaves, restVars
<1> QED
  BY <1>1, <1>2, <1>3 DEF RestNext

\* The call under the handler of the C++ REST SDK router behaves as StreamProxy
\* describes it, with an on_token that refuses when a put throws.
THEOREM RestCall == RestSpec => Spec
<1>1. RestInit => Init
  BY DEF RestInit
<1> QED
  BY <1>1, RestInvariance, RestStepIsCall, PTL DEF RestSpec, Spec

\* In the C++ REST SDK router too, once on_token has refused a token, no other
\* token is passed to it and the call fails.
THEOREM RestRefusal == RestSpec => RefusalIsFinal
  BY RestCall, ProxyRefusal, PTL

\* The text of a streamed response is that of a buffered one, if the body ends
\* with a line.
THEOREM RestAgrees == RestSpec => []BufferedAgrees
  BY RestCall, ProxyAgrees, PTL

=============================================================================
