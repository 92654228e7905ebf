-------------------------- MODULE StreamPathProofs --------------------------
(***************************************************************************)
(* Proofs about StreamPath, for any number of tokens and any sizes.  Of    *)
(* the runner alone, under any faults: its provider misses no notification *)
(* and what it writes is a behaviour of TokenChannel.  Of the path: it     *)
(* implements each of its components, so what is proved of the runner, of  *)
(* the parser and of the pipe holds of the whole, and together their       *)
(* invariants show that the text of a completion reaches the client.       *)
(***************************************************************************)
EXTENDS StreamPath, SequenceTheorems, FiniteSetTheorems, TLAPS

ProxyProofs == INSTANCE StreamProxyProofs WITH wire <- Wire, ended <- closed
PipeProofs == INSTANCE IOPipeProofs WITH
                  done <- finished, aborted <- gaveUp, woken <- notified

-----------------------------------------------------------------------------
(* A definition of a component and the same definition in the module of    *)
(* the component's proofs are equal.                                       *)

\* What the modules of the components assume of their constants.
LEMMA ComponentConstants ==
    /\ MaxTokens \in Nat /\ LineBytes \in Nat \ {0}
    /\ MaxBuffer \in Nat /\ EventSize \in Nat \ {0} /\ ReadSize \in Nat \ {0}
  BY MaxTokensAssumption, PathAssumption

\* The call.
LEMMA SameProxy ==
    /\ Proxy!Init <=> ProxyProofs!Init
    /\ Proxy!Next <=> ProxyProofs!Next
    /\ Proxy!vars = ProxyProofs!vars /\ Proxy!vars' = ProxyProofs!vars'
  BY Zenon
     DEF Proxy!Cardinality, ProxyProofs!Cardinality, Proxy!Next,
     ProxyProofs!Next, Proxy!Request, ProxyProofs!Request, Proxy!Receive,
     ProxyProofs!Receive, Proxy!ScanToken, ProxyProofs!ScanToken,
     Proxy!ScanFinal, ProxyProofs!ScanFinal, Proxy!ScanEnds,
     ProxyProofs!ScanEnds, Proxy!ScanThrows, ProxyProofs!ScanThrows, Proxy!ScanGarbage, ProxyProofs!ScanGarbage,
     Proxy!BodyEnds, ProxyProofs!BodyEnds, Proxy!Cancelled,
     ProxyProofs!Cancelled, Proxy!RequestFails, ProxyProofs!RequestFails,
     Proxy!Finish, ProxyProofs!Finish, Proxy!NextLine, ProxyProofs!NextLine,
     Proxy!HasLine, ProxyProofs!HasLine, Proxy!LineEnd, ProxyProofs!LineEnd,
     Proxy!FirstLine, ProxyProofs!FirstLine, Proxy!Parses, ProxyProofs!Parses,
     Proxy!SkipLine, ProxyProofs!SkipLine, Proxy!Newline, ProxyProofs!Newline,
     Proxy!Bytes, ProxyProofs!Bytes, Proxy!OtherLine, ProxyProofs!OtherLine,
     Proxy!Ok, ProxyProofs!Ok, Proxy!Error, ProxyProofs!Error, Proxy!Send,
     ProxyProofs!Send, Proxy!Hangup, ProxyProofs!Hangup, Proxy!Sent,
     ProxyProofs!Sent, Proxy!SentTokens, ProxyProofs!SentTokens,
     Proxy!SentFinal, ProxyProofs!SentFinal, Proxy!NextLines,
     ProxyProofs!NextLines, Proxy!TokenLine, ProxyProofs!TokenLine,
     Proxy!FinalLine, ProxyProofs!FinalLine, Proxy!FirstTokens,
     ProxyProofs!FirstTokens, Proxy!What, ProxyProofs!What, Proxy!Tokens,
     ProxyProofs!Tokens, Proxy!vars, ProxyProofs!vars, Proxy!sender,
     ProxyProofs!sender, Proxy!proxy, ProxyProofs!proxy, Proxy!Init,
     ProxyProofs!Init, Proxy!InitProxy, ProxyProofs!InitProxy

\* The pipe.
LEMMA SamePipe ==
    /\ Pipe!Init <=> PipeProofs!Init
    /\ Pipe!Next <=> PipeProofs!Next
    /\ Pipe!vars = PipeProofs!vars /\ Pipe!vars' = PipeProofs!vars'
  BY Zenon
     DEF Pipe!Next, PipeProofs!Next, Pipe!WriterStep, PipeProofs!WriterStep,
     Pipe!ReaderStep, PipeProofs!ReaderStep, Pipe!WriteRole,
     PipeProofs!WriteRole, Pipe!WriteToken, PipeProofs!WriteToken,
     Pipe!StreamSucceeds, PipeProofs!StreamSucceeds, Pipe!StreamFails,
     PipeProofs!StreamFails, Pipe!WriteError, PipeProofs!WriteError,
     Pipe!WriteMarker, PipeProofs!WriteMarker, Pipe!Close, PipeProofs!Close,
     Pipe!ReadWaits, PipeProofs!ReadWaits, Pipe!Wake, PipeProofs!Wake,
     Pipe!Read, PipeProofs!Read, Pipe!ReadEnd, PipeProofs!ReadEnd, Pipe!Sent,
     PipeProofs!Sent, Pipe!SpuriousWake, PipeProofs!SpuriousWake,
     Pipe!ClientGone, PipeProofs!ClientGone, Pipe!Write, PipeProofs!Write,
     Pipe!WriteOk, PipeProofs!WriteOk, Pipe!Refuses, PipeProofs!Refuses,
     Pipe!Notify, PipeProofs!Notify, Pipe!Bytes, PipeProofs!Bytes, Pipe!Role,
     PipeProofs!Role, Pipe!Token, PipeProofs!Token, Pipe!ErrorEvent,
     PipeProofs!ErrorEvent, Pipe!Marker, PipeProofs!Marker, Pipe!Taken,
     PipeProofs!Taken, Pipe!pipe, PipeProofs!pipe, Pipe!writer,
     PipeProofs!writer, Pipe!vars, PipeProofs!vars, Pipe!Init, PipeProofs!Init

-----------------------------------------------------------------------------
(* The runner. *)

\* The provider has not ended its part of the response.
Providing == ppc \in {"call", "blocked", "send", "sent", "final"}

\* The tokens it has taken out of the queue: those written and the one that it
\* is writing.
Taken == IF ppc = "send" THEN Len(lines) + 1 ELSE Len(lines)

\* The lines are the tokens in order; what was taken and what is queued is
\* what was generated, and nothing is between the two.
QueueInv == Providing =>
    /\ \A i \in 1 .. Len(lines) : lines[i] = Runner!TokenLine(i)
    /\ \A i \in 1 .. Len(queue) : queue[i] = Taken + i
    /\ Taken + Len(queue) = made
    /\ ppc = "send" => cur = Taken

\* Where the two threads are tells what they have left behind.
ControlInv == /\ Providing => ~aborted /\ ~closed
              /\ done => gpc = "end" /\ text \in {Runner!What, Runner!FirstTokens(made)}
              /\ ppc = "final" => done /\ queue = <<>>

RunnerInv == Runner!TypeOK /\ QueueInv /\ ControlInv /\ Runner!NoLostWakeup

-----------------------------------------------------------------------------
(* Lemmas about the tokens. *)

\* A text of the first k tokens, and a line for each token.
LEMMA TextsLemma ==
    /\ \A k \in 0 .. MaxTokens :
         /\ Runner!FirstTokens(k) \in Runner!Texts
         /\ Runner!FinalLine(Runner!FirstTokens(k)) \in Runner!Line
    /\ Runner!What \in Runner!Texts
    /\ \A s \in Runner!Texts : Runner!FinalLine(s) \in Runner!Line
    /\ \A k \in Runner!Tokens : Runner!TokenLine(k) \in Runner!Line
  BY DEF Runner!Texts, Runner!Line

\* The head and the tail of the queue.
LEMMA QueueLemma ==
    ASSUME NEW S, NEW q \in Seq(S), q # <<>>
    PROVE  /\ Head(q) = q[1] /\ Head(q) \in S
           /\ Tail(q) \in Seq(S) /\ Len(Tail(q)) = Len(q) - 1
           /\ \A i \in 1 .. Len(Tail(q)) : Tail(q)[i] = q[i + 1]
           /\ Len(q) \in Nat /\ Len(q) > 0
  BY HeadTailProperties, EmptySeq, LenProperties, SMT

\* An element at the end.
LEMMA AppendLemma ==
    ASSUME NEW S, NEW s \in Seq(S), NEW e \in S
    PROVE  /\ Append(s, e) \in Seq(S) /\ Len(Append(s, e)) = Len(s) + 1
           /\ \A i \in 1 .. Len(s) : Append(s, e)[i] = s[i]
           /\ Append(s, e)[Len(s) + 1] = e
           /\ Len(s) \in Nat
  BY AppendProperties, LenProperties, SMT

-----------------------------------------------------------------------------
(* The steps of the runner. *)

LEMMA InitRunner == Runner!Init => RunnerInv
<1> SUFFICES ASSUME Runner!Init
             PROVE  RunnerInv
  OBVIOUS
<1>1. <<>> \in Seq(Runner!Tokens) /\ <<>> \in Seq(Runner!Line) /\ Len(<<>>) = 0
  BY EmptySeq
<1>2. 0 \in 0 .. MaxTokens /\ Runner!FirstTokens(0) = <<>>
  BY MaxTokensAssumption, SMT DEF Runner!FirstTokens
<1>3. Runner!TypeOK
  BY <1>1, <1>2, TextsLemma DEF Runner!Init, Runner!TypeOK
<1>4. QueueInv
  BY <1>1, SMT DEF Runner!Init, QueueInv, Providing, Taken
<1>5. ControlInv /\ Runner!NoLostWakeup
  BY DEF Runner!Init, ControlInv, Runner!NoLostWakeup, Providing
<1> QED
  BY <1>3, <1>4, <1>5 DEF RunnerInv

\* The generator appends the next token and notifies, or ends and notifies.
LEMMA GeneratorKeeps == RunnerInv /\ Runner!Generator => RunnerInv'
<1> SUFFICES ASSUME RunnerInv, Runner!Generator
             PROVE  RunnerInv'
  OBVIOUS
<1> USE DEF RunnerInv
<1>1. CASE Runner!PushToken
  <2>1. made \in 0 .. MaxTokens /\ made + 1 \in Runner!Tokens /\ made' = made + 1 /\ ~done
        /\ made' \in 0 .. MaxTokens
    BY <1>1, MaxTokensAssumption, SMT
       DEF Runner!PushToken, Runner!TypeOK, Runner!Tokens, ControlInv
  <2>2. CASE aborted
    <3>1. ~Providing /\ ~Providing'
      BY <1>1, <2>2 DEF ControlInv, Providing, Runner!PushToken
    <3> QED
      BY <1>1, <2>1, <2>2, <3>1
         DEF Runner!PushToken, Runner!TypeOK, QueueInv, ControlInv, Runner!NoLostWakeup,
             Providing
  <2>3. CASE ~aborted
    <3>1. queue' = Append(queue, made + 1) /\ woken' = (woken \/ ppc = "blocked")
          /\ UNCHANGED <<text, done, aborted, gpc, ppc, cur, stopping, lines, closed>>
      BY <1>1, <2>3 DEF Runner!PushToken, Runner!Notify
    <3>2. /\ queue' \in Seq(Runner!Tokens)
          /\ Len(queue') = Len(queue) + 1 /\ Len(queue) \in Nat
          /\ \A i \in 1 .. Len(queue) : queue'[i] = queue[i]
          /\ queue'[Len(queue) + 1] = made + 1
      BY <2>1, <3>1, AppendLemma DEF Runner!TypeOK
    <3>3. QueueInv'
      <4> SUFFICES ASSUME Providing
                   PROVE  /\ \A i \in 1 .. Len(queue') : queue'[i] = Taken + i
                          /\ Taken + Len(queue') = made'
        BY <3>1 DEF QueueInv, Providing, Taken
      <4>1. Len(lines) \in Nat /\ Taken \in Nat
        BY LenProperties DEF Runner!TypeOK, Taken
      <4> QED
        BY <2>1, <3>2, <4>1, SMT DEF QueueInv
    <3>4. Runner!TypeOK'
      BY <2>1, <3>1, <3>2 DEF Runner!TypeOK
    <3> QED
      BY <2>1, <3>1, <3>3, <3>4 DEF ControlInv, Runner!NoLostWakeup, Providing
  <2> QED
    BY <2>2, <2>3
<1>2. CASE Runner!Generated \/ Runner!GenerateThrows
  <2>1. /\ text' \in {Runner!What, Runner!FirstTokens(made)}
        /\ done' = TRUE /\ gpc' = "end"
        /\ woken' = (woken \/ ppc = "blocked")
        /\ UNCHANGED <<queue, aborted, made, ppc, cur, stopping, lines, closed>>
    BY <1>2 DEF Runner!Generated, Runner!GenerateThrows, Runner!Notify
  <2>2. text' \in Runner!Texts
    BY <2>1, TextsLemma DEF Runner!TypeOK
  <2> QED
    BY <2>1, <2>2
       DEF Runner!TypeOK, QueueInv, ControlInv, Runner!NoLostWakeup, Providing, Taken
<1> QED
  BY <1>1, <1>2 DEF Runner!Generator

\* Taking the next token, or the end, out of the queue; only an empty queue
\* ends the response.
LEMMA DrainKeeps ==
    ASSUME RunnerInv, ppc \in {"call", "blocked", "sent"}, Runner!Drain,
           woken' \in BOOLEAN
    PROVE  RunnerInv'
<1> USE DEF RunnerInv
<1>1. Providing /\ Taken = Len(lines) /\ Len(lines) \in Nat
  BY LenProperties DEF Providing, Taken, Runner!TypeOK
<1>2. UNCHANGED <<text, done, aborted, gpc, made, stopping, lines, closed>>
  BY DEF Runner!Drain
<1>3. CASE queue # <<>>
  <2>1. cur' = Head(queue) /\ queue' = Tail(queue) /\ ppc' = "send"
    BY <1>3 DEF Runner!Drain
  <2>2. /\ Head(queue) = queue[1] /\ Head(queue) \in Runner!Tokens
        /\ queue' \in Seq(Runner!Tokens) /\ Len(queue') = Len(queue) - 1
        /\ \A i \in 1 .. Len(queue') : queue'[i] = queue[i + 1]
        /\ Len(queue) \in Nat /\ Len(queue) > 0
    BY <1>3, <2>1, QueueLemma DEF Runner!TypeOK
  <2>3. cur' = Len(lines) + 1 /\ Taken' = Len(lines) + 1
    BY <1>1, <1>2, <2>1, <2>2, SMT DEF QueueInv, Taken
  <2>4. \A i \in 1 .. Len(queue') : queue'[i] = Taken' + i
    BY <1>1, <2>2, <2>3, SMT DEF QueueInv
  <2>5. Taken' + Len(queue') = made'
    BY <1>1, <1>2, <2>2, <2>3, SMT DEF QueueInv
  <2>6. QueueInv'
    BY <1>1, <1>2, <2>3, <2>4, <2>5 DEF QueueInv
  <2>7. Runner!TypeOK'
    <3>1. cur' \in 0 .. MaxTokens
      BY <2>1, <2>2, SMT DEF Runner!Tokens
    <3> QED
      BY <1>2, <2>1, <2>2, <3>1 DEF Runner!TypeOK
  <2> QED
    BY <1>1, <1>2, <2>1, <2>6, <2>7 DEF ControlInv, Runner!NoLostWakeup, Providing
<1>4. CASE queue = <<>>
  <2>1. ppc' = (IF done THEN "final" ELSE "call") /\ UNCHANGED <<queue, cur>>
    BY <1>4 DEF Runner!Drain
  <2>2. Runner!TypeOK'
    BY <1>2, <2>1 DEF Runner!TypeOK
  <2>3. QueueInv'
    BY <1>1, <1>2, <2>1 DEF QueueInv, Providing, Taken
  <2> QED
    BY <1>1, <1>2, <1>4, <2>1, <2>2, <2>3 DEF ControlInv, Runner!NoLostWakeup, Providing
<1> QED
  BY <1>3, <1>4

\* The token of a provider that writes is the next one.
LEMMA SendTokenKeeps ==
    ASSUME RunnerInv, Runner!SendToken
    PROVE  /\ RunnerInv'
           /\ lines' = Append(lines, Runner!TokenLine(Len(lines) + 1))
<1> USE DEF RunnerInv
<1>1. Providing /\ Taken = Len(lines) + 1 /\ cur = Taken /\ Len(lines) \in Nat
  BY LenProperties DEF Runner!SendToken, Providing, Taken, QueueInv, Runner!TypeOK
<1>2. /\ lines' = Append(lines, Runner!TokenLine(Len(lines) + 1)) /\ ppc' = "sent"
      /\ UNCHANGED <<Runner!stream, gpc, made, cur, woken, stopping, closed>>
  BY <1>1 DEF Runner!SendToken
<1>3. cur \in Runner!Tokens
  BY <1>1, SMT DEF Runner!TypeOK, Runner!Tokens
<1>4. /\ lines' \in Seq(Runner!Line) /\ Len(lines') = Len(lines) + 1
      /\ \A i \in 1 .. Len(lines) : lines'[i] = lines[i]
      /\ lines'[Len(lines) + 1] = Runner!TokenLine(Len(lines) + 1)
  BY <1>1, <1>2, <1>3, TextsLemma, AppendLemma DEF Runner!TypeOK
<1>5. Taken' = Taken
  BY <1>1, <1>2, <1>4 DEF Taken
<1>6. \A i \in 1 .. Len(lines') : lines'[i] = Runner!TokenLine(i)
  <2>1. \A i \in 1 .. Len(lines') : i \in 1 .. Len(lines) \/ i = Len(lines) + 1
    BY <1>1, <1>4, SMT
  <2> QED
    BY <1>1, <1>4, <2>1 DEF QueueInv
<1>7. QueueInv'
  BY <1>1, <1>2, <1>5, <1>6 DEF QueueInv, Runner!stream
<1>8. Runner!TypeOK'
  BY <1>2, <1>4 DEF Runner!TypeOK, Runner!stream
<1> QED
  BY <1>1, <1>2, <1>7, <1>8 DEF ControlInv, Runner!NoLostWakeup, Providing, Runner!stream

\* The final line follows the lines of all tokens, and repeats their text.
LEMMA SendFinalKeeps ==
    ASSUME RunnerInv, Runner!SendFinal
    PROVE  /\ RunnerInv'
           /\ text \in {Runner!What, Runner!FirstTokens(Len(lines))}
<1> USE DEF RunnerInv
<1>1. Providing /\ Taken = Len(lines) /\ done /\ queue = <<>> /\ Len(lines) \in Nat
  BY LenProperties DEF Runner!SendFinal, Providing, Taken, ControlInv, Runner!TypeOK
<1>2. made = Len(lines)
  <2>1. Len(queue) = 0
    BY <1>1, EmptySeq
  <2> QED
    BY <1>1, <2>1, SMT DEF QueueInv
<1>3. /\ ppc' = "return"
      /\ UNCHANGED <<Runner!stream, gpc, made, cur, woken, stopping, closed>>
      /\ lines' = Append(lines, Runner!FinalLine(text)) \/ lines' = lines
  BY DEF Runner!SendFinal
<1>4. lines' \in Seq(Runner!Line)
  BY <1>3, TextsLemma, AppendLemma DEF Runner!TypeOK
<1>5. Runner!TypeOK'
  BY <1>3, <1>4 DEF Runner!TypeOK, Runner!stream
<1> QED
  BY <1>1, <1>2, <1>3, <1>5
     DEF QueueInv, ControlInv, Runner!NoLostWakeup, Providing, Runner!stream

\* The other steps of the provider.
LEMMA ProviderKeeps == RunnerInv /\ Runner!Provider => RunnerInv'
<1> SUFFICES ASSUME RunnerInv, Runner!Provider
             PROVE  RunnerInv'
  OBVIOUS
<1> USE DEF RunnerInv
<1>1. CASE Runner!Provide
  <2>1. ppc \in {"call", "blocked", "sent"} /\ Runner!Drain /\ woken' \in BOOLEAN
    BY <1>1 DEF Runner!Provide, Runner!Runs
  <2> QED
    BY <2>1, DrainKeeps
<1>2. CASE Runner!DrainOn
  <2>1. ppc \in {"call", "blocked", "sent"} /\ Runner!Drain /\ woken' \in BOOLEAN
    BY <1>2 DEF Runner!DrainOn, Runner!TypeOK
  <2> QED
    BY <2>1, DrainKeeps
<1>3. CASE Runner!SendToken
  BY <1>3, SendTokenKeeps
<1>4. CASE Runner!SendFinal
  BY <1>4, SendFinalKeeps
<1>5. CASE Runner!ProviderWaits
  <2>1. /\ ppc \in {"call", "blocked"} /\ ~Runner!Ready
        /\ ppc' = "blocked" /\ woken' = FALSE
        /\ UNCHANGED <<Runner!stream, gpc, made, cur, stopping, lines, closed>>
    BY <1>5 DEF Runner!ProviderWaits, Runner!Runs
  <2> QED
    BY <2>1
       DEF Runner!TypeOK, QueueInv, ControlInv, Runner!NoLostWakeup, Runner!Ready,
           Providing, Taken, Runner!stream
<1>6. CASE Runner!SendFails \/ Runner!NotCalledAgain \/ Runner!Release
  <2>1. /\ ppc' \in {"return", "end"} /\ aborted' \in BOOLEAN /\ closed' \in BOOLEAN
        /\ UNCHANGED <<queue, text, done, gpc, made, cur, woken, stopping, lines>>
    BY <1>6
       DEF Runner!SendFails, Runner!NotCalledAgain, Runner!Release, Runner!TypeOK,
           Runner!stream
  <2> QED
    BY <2>1 DEF Runner!TypeOK, QueueInv, ControlInv, Runner!NoLostWakeup, Providing
<1>7. CASE Runner!DumpThrows
  BY <1>7
     DEF Runner!DumpThrows, Runner!Die, Runner!TypeOK, QueueInv, ControlInv,
         Runner!NoLostWakeup, Providing, Runner!stream
<1> QED
  BY <1>1, <1>2, <1>3, <1>4, <1>5, <1>6, <1>7 DEF Runner!Provider

\* The steps of the process.
LEMMA ProcessKeeps ==
    RunnerInv /\ (Runner!Stop \/ Runner!Crash \/ Runner!MainReturns) => RunnerInv'
<1> SUFFICES ASSUME RunnerInv, Runner!Stop \/ Runner!Crash \/ Runner!MainReturns
             PROVE  RunnerInv'
  OBVIOUS
<1> USE DEF RunnerInv
<1>1. CASE Runner!Stop
  BY <1>1
     DEF Runner!Stop, Runner!TypeOK, QueueInv, ControlInv, Runner!NoLostWakeup,
         Providing, Taken, Runner!Ready, Runner!stream
<1>2. CASE Runner!Crash \/ Runner!MainReturns
  <2>1. /\ ppc' = "end" /\ gpc' = "end" /\ closed' \in BOOLEAN
        /\ UNCHANGED <<Runner!stream, made, cur, woken, stopping, lines>>
    BY <1>2 DEF Runner!Crash, Runner!Die, Runner!MainReturns, Runner!TypeOK
  <2> QED
    BY <2>1
       DEF Runner!TypeOK, QueueInv, ControlInv, Runner!NoLostWakeup, Providing,
           Runner!stream
<1> QED
  BY <1>1, <1>2

\* RunnerInv is inductive.
LEMMA NextRunner == RunnerInv /\ [Runner!Next]_(Runner!vars) => RunnerInv'
<1>1. RunnerInv /\ UNCHANGED Runner!vars => RunnerInv'
  BY
     DEF RunnerInv, Runner!TypeOK, QueueInv, ControlInv, Runner!NoLostWakeup,
         Runner!Ready, Providing, Taken, Runner!vars, Runner!stream
<1> QED
  BY <1>1, GeneratorKeeps, ProviderKeeps, ProcessKeeps DEF Runner!Next

\* The lines written, the token being written and the queue are the generated
\* tokens in order, whatever on_token, the provider and the process do.
THEOREM RunnerInvariance == Runner!Spec => []RunnerInv
  BY InitRunner, NextRunner, PTL DEF Runner!Spec

\* The state of a streamed request in the runner keeps its type.
THEOREM RunnerTypeCorrect == Runner!Spec => []Runner!TypeOK
  BY RunnerInvariance, PTL DEF RunnerInv

\* A provider that waits without having been notified has nothing to write and
\* is not at the end: no notification of on_token or of the end of generate is
\* missed (the content provider and on_token of llama_runner.cpp).
THEOREM RunnerWakeups == Runner!Spec => []Runner!NoLostWakeup
  BY RunnerInvariance, PTL DEF RunnerInv

-----------------------------------------------------------------------------
(* The runner refines the channel. *)

\* A provider that writes has written lines of tokens only, and the connection
\* is open.
LEMMA OpenLemma ==
    ASSUME RunnerInv, Providing
    PROVE  ~closed /\ ~Runner!Channel!Final
<1>1. /\ ~closed /\ Len(lines) \in Nat
      /\ \A i \in 1 .. Len(lines) : lines[i] = Runner!TokenLine(i)
  BY LenProperties DEF RunnerInv, ControlInv, QueueInv, Runner!TypeOK
<1>2. ASSUME lines # <<>>
      PROVE  lines[Len(lines)].kind # "done"
  <2>1. Len(lines) \in 1 .. Len(lines)
    BY <1>1, <1>2, EmptySeq, SMT DEF RunnerInv, Runner!TypeOK
  <2>2. lines[Len(lines)] = Runner!TokenLine(Len(lines))
    BY <1>1, <2>1
  <2>3. Runner!TokenLine(Len(lines)).kind = "token"
    BY DEF Runner!TokenLine
  <2> QED
    BY <2>2, <2>3
<1> QED
  BY <1>1, <1>2 DEF Runner!Channel!Final

LEMMA ChannelStep ==
    RunnerInv /\ [Runner!Next]_(Runner!vars) => [Runner!Channel!Next]_(Runner!Channel!vars)
<1> SUFFICES ASSUME RunnerInv, [Runner!Next]_(Runner!vars)
             PROVE  [Runner!Channel!Next]_(Runner!Channel!vars)
  OBVIOUS
<1> USE DEF Runner!Channel!Next, Runner!Channel!vars
<1>1. CASE Runner!SendToken
  <2>1. Providing /\ closed' = closed
    BY <1>1 DEF Runner!SendToken, Providing
  <2>2. Runner!Channel!PutToken
    BY <1>1, <2>1, OpenLemma, SendTokenKeeps
       DEF Runner!Channel!PutToken, Runner!Channel!TokenLine, Runner!TokenLine
  <2> QED
    BY <2>2
<1>2. CASE Runner!SendFinal
  <2>1. Providing /\ closed' = closed
        /\ (lines' = Append(lines, Runner!FinalLine(text)) \/ lines' = lines)
    BY <1>2 DEF Runner!SendFinal, Providing
  <2>2. Runner!Channel!PutFinal \/ lines' = lines
    BY <1>2, <2>1, OpenLemma, SendFinalKeeps
       DEF Runner!Channel!PutFinal, Runner!Channel!FinalLine, Runner!FinalLine,
           Runner!Channel!FirstTokens, Runner!FirstTokens, Runner!Channel!What,
           Runner!What
  <2> QED
    BY <2>1, <2>2
<1>3. CASE Runner!Release \/ Runner!DumpThrows \/ Runner!Crash
  <2>1. Runner!Channel!End
    BY <1>3
       DEF Runner!Release, Runner!DumpThrows, Runner!Crash, Runner!Die,
           Runner!Channel!End
  <2> QED
    BY <2>1
<1>4. CASE \/ Runner!Generator \/ Runner!Provide \/ Runner!ProviderWaits \/ Runner!DrainOn
           \/ Runner!SendFails \/ Runner!NotCalledAgain \/ Runner!Stop
           \/ Runner!MainReturns \/ UNCHANGED Runner!vars
  <2>1. UNCHANGED <<lines, closed>>
    BY <1>4
       DEF Runner!Generator, Runner!PushToken, Runner!Generated, Runner!GenerateThrows,
           Runner!Provide, Runner!ProviderWaits, Runner!DrainOn, Runner!Drain,
           Runner!SendFails, Runner!NotCalledAgain, Runner!Stop, Runner!MainReturns,
           Runner!vars
  <2> QED
    BY <2>1
<1> QED
  BY <1>1, <1>2, <1>3, <1>4 DEF Runner!Next, Runner!Provider

\* The runner implements the channel: every step writes the line of the next
\* token, writes a final line with the text of exactly the written tokens or
\* the message of an exception, ends the response, or changes nothing of it.
THEOREM RunnerRefinement == Runner!Spec => Runner!ImplementsChannel
<1>1. Runner!Init => Runner!Channel!Init
  BY DEF Runner!Init, Runner!Channel!Init
<1> QED
  BY <1>1, RunnerInvariance, ChannelStep, PTL
     DEF Runner!Spec, Runner!ImplementsChannel, Runner!Channel!Spec

-----------------------------------------------------------------------------
(* The composition implements the runner and the pipe. *)

\* A step of the path is a step of the runner or leaves it alone.
LEMMA RunnerSteps == [Next]_vars => [Runner!Next]_(Runner!vars)
<1>1. UNCHANGED runnerVars => UNCHANGED Runner!vars
  BY DEF runnerVars, Runner!vars, Runner!stream
<1>2. GeneratorStep \/ ProviderStep \/ ProcessStep => Runner!Next
  BY DEF GeneratorStep, ProviderStep, ProcessStep, Runner!Next
<1>3. CallStep \/ CallFails \/ StreamThreadStep \/ ReaderStep \/ ClientStep \/ UNCHANGED vars
        => UNCHANGED runnerVars
  BY DEF CallStep, PassToken, Parse, CallSucceeds, CallCancelled, CallFails,
         StreamThreadStep, ReaderStep, ClientStep, vars
<1> QED
  BY <1>1, <1>2, <1>3 DEF Next

\* In the path the runner behaves as TokenStream describes it, whatever the
\* server and the client do.
THEOREM PathRunner == Spec => Runner!Spec
<1>1. Init => Runner!Init
  BY DEF Init
<1> QED
  BY <1>1, RunnerSteps, PTL DEF Spec, Runner!Spec

\* A step of the path is a step of the pipe or leaves it alone.
LEMMA PipeSteps == [Next]_vars => [Pipe!Next]_(Pipe!vars)
<1>1. UNCHANGED pipeVars => UNCHANGED Pipe!vars
  BY DEF pipeVars, Pipe!vars, Pipe!pipe, Pipe!writer
<1>2. PassToken \/ CallSucceeds \/ CallFails \/ StreamThreadStep \/ ReaderStep \/ ClientStep
        => Pipe!Next
  BY DEF PassToken, CallSucceeds, CallFails, StreamThreadStep, ReaderStep, ClientStep,
         Pipe!Next, Pipe!WriterStep
<1>3. GeneratorStep \/ ProviderStep \/ ProcessStep \/ Parse \/ CallCancelled \/ UNCHANGED vars
        => UNCHANGED pipeVars
  BY DEF GeneratorStep, ProviderStep, ProcessStep, Others, Parse, CallCancelled, vars
<1> QED
  BY <1>1, <1>2, <1>3 DEF Next, CallStep

\* In the path the pipe and its two threads behave as IOPipe describes them,
\* whatever becomes of the runner.
THEOREM PathPipe == Spec => Pipe!Spec
<1>1. Init => Pipe!Init
  BY DEF Init
<1> QED
  BY <1>1, PipeSteps, PTL DEF Spec, Pipe!Spec

\* What is proved of the runner and of the pipe holds of the path.
LEMMA ComponentsHold ==
    Spec => /\ []RunnerInv /\ RunnerKeepsChannel
            /\ []PipeProofs!PipeInv
<1>1. Pipe!Spec => PipeProofs!Spec
  <2>1. Pipe!Init => PipeProofs!Init
    BY SamePipe
  <2>2. [Pipe!Next]_(Pipe!vars) => [PipeProofs!Next]_(PipeProofs!vars)
    BY SamePipe
  <2> QED
    BY <2>1, <2>2, PTL DEF Pipe!Spec, PipeProofs!Spec
<1>2. PipeProofs!Spec => []PipeProofs!PipeInv
  BY ComponentConstants, PipeProofs!PipeInvariance, PTL
<1> QED
  BY PathRunner, PathPipe, RunnerInvariance, RunnerRefinement, <1>1, <1>2, PTL
     DEF RunnerKeepsChannel

\* The content provider waits only if there is nothing to write and more to
\* come, or if it was notified, whatever the server does with the connection.
THEOREM PathWakeups == Spec => []NoLostToken
<1>1. RunnerInv => NoLostToken
  BY DEF RunnerInv, NoLostToken
<1> QED
  BY ComponentsHold, <1>1, PTL

\* Under every fault of the runner and of the connection, the response of the
\* runner is the tokens in order and at most one final line with their text.
THEOREM PathChannel == Spec => RunnerKeepsChannel
  BY ComponentsHold, PTL

-----------------------------------------------------------------------------
(* The bytes of a sequence of lines or events. *)

\* The place of a byte among blocks of n bytes.
LEMMA PlaceLemma ==
    ASSUME NEW n \in Nat \ {0}, NEW k \in Nat, NEW p \in 1 .. k * n
    PROVE  /\ ((p - 1) \div n) + 1 \in 1 .. k
           /\ ((p - 1) % n) + 1 \in 1 .. n
           /\ p = ((p - 1) \div n) * n + (((p - 1) % n) + 1)
<1>1. (p - 1) \div n \in 0 .. k - 1
  BY SMTT(20)
<1>2. (p - 1) % n \in 0 .. n - 1 /\ p - 1 = n * ((p - 1) \div n) + ((p - 1) % n)
  BY SMTT(20)
<1>3. n * ((p - 1) \div n) = ((p - 1) \div n) * n
  BY <1>1, SMTT(20)
<1> QED
  BY <1>1, <1>2, <1>3, SMTT(20)

\* The byte at a place among blocks of n bytes.
LEMMA BlockLemma ==
    ASSUME NEW n \in Nat \ {0}, NEW k \in Nat, NEW j \in 1 .. n
    PROVE  /\ k * n \in Nat /\ k * n + j \in 1 .. (k + 1) * n
           /\ ((k * n + j) - 1) \div n = k
           /\ ((k * n + j) - 1) % n = j - 1
           /\ (k + 1) * n = k * n + n
<1>1. k * n \in Nat /\ (k + 1) * n = k * n + n
  BY SMTT(20)
<1>2. ((k * n + j) - 1) \div n = k
  BY SMTT(20)
<1>3. ((k * n + j) - 1) % n = j - 1
  BY SMTT(20)
<1> QED
  BY <1>1, <1>2, <1>3, SMT

LEMMA BytesLemma ==
    ASSUME NEW S, NEW s \in Seq(S), NEW n \in Nat \ {0}
    PROVE  /\ BytesOf(s, n) \in Seq(S \X (1 .. n))
           /\ Len(BytesOf(s, n)) = Len(s) * n /\ Len(s) * n \in Nat
           /\ \A p \in 1 .. Len(s) * n :
                \E i \in 1 .. Len(s), j \in 1 .. n :
                  p = (i - 1) * n + j /\ BytesOf(s, n)[p] = <<s[i], j>>
           /\ \A i \in 1 .. Len(s) :
                i * n \in 1 .. Len(s) * n /\ BytesOf(s, n)[i * n] = <<s[i], n>>
<1>1. Len(s) \in Nat /\ \A i \in 1 .. Len(s) : s[i] \in S
  BY LenProperties, ElementOfSeq
<1>2. Len(s) * n \in Nat
  BY <1>1, BlockLemma, SMTT(20)
<1>3. \A p \in 1 .. Len(s) * n :
        \E i \in 1 .. Len(s), j \in 1 .. n :
          p = (i - 1) * n + j /\ BytesOf(s, n)[p] = <<s[i], j>>
  <2> TAKE p \in 1 .. Len(s) * n
  <2> DEFINE i == ((p - 1) \div n) + 1
             j == ((p - 1) % n) + 1
  <2>1. i \in 1 .. Len(s) /\ j \in 1 .. n /\ p = ((p - 1) \div n) * n + j
    BY <1>1, PlaceLemma
  <2>2. (p - 1) \div n = i - 1
    BY <2>1, SMT
  <2>3. BytesOf(s, n)[p] = <<s[i], j>>
    BY DEF BytesOf
  <2> HIDE DEF i, j
  <2> QED
    BY <2>1, <2>2, <2>3
<1>4. \A p \in 1 .. Len(s) * n : BytesOf(s, n)[p] \in S \X (1 .. n)
  <2> TAKE p \in 1 .. Len(s) * n
  <2>1. PICK i \in 1 .. Len(s), j \in 1 .. n : BytesOf(s, n)[p] = <<s[i], j>>
    BY <1>3
  <2>2. <<s[i], j>> \in S \X (1 .. n)
    BY <1>1
  <2> QED
    BY <2>1, <2>2
<1>5. BytesOf(s, n) \in [1 .. Len(s) * n -> S \X (1 .. n)]
  BY <1>4 DEF BytesOf
<1>6. BytesOf(s, n) \in Seq(S \X (1 .. n)) /\ Len(BytesOf(s, n)) = Len(s) * n
  <2> DEFINE b == BytesOf(s, n)
             m == Len(s) * n
             T == S \X (1 .. n)
  <2>1. b \in [1 .. m -> T] /\ m \in Nat
    BY <1>2, <1>5
  <2> HIDE DEF b, m, T
  <2>2. b \in Seq(T) /\ Len(b) = m
    BY <2>1, SMT
  <2> QED
    BY <2>2 DEF b, m, T
<1>7. \A i \in 1 .. Len(s) : i * n \in 1 .. Len(s) * n /\ BytesOf(s, n)[i * n] = <<s[i], n>>
  <2> TAKE i \in 1 .. Len(s)
  <2>1. i - 1 \in Nat /\ n \in 1 .. n /\ (i - 1) + 1 = i
    BY <1>1, SMT
  <2>2. /\ i * n = (i - 1) * n + n /\ (i - 1) * n \in Nat
        /\ ((i - 1) * n + n) \in 1 .. ((i - 1) + 1) * n
        /\ (((i - 1) * n + n) - 1) \div n = i - 1
        /\ (((i - 1) * n + n) - 1) % n = n - 1
    BY <2>1, BlockLemma
  <2>3. i * n <= Len(s) * n
    <3>1. Len(s) - i \in Nat
      BY <1>1, SMT
    <3>2. (Len(s) - i) * n \in Nat /\ Len(s) * n = i * n + (Len(s) - i) * n
      BY <1>1, <3>1, SMTT(20)
    <3> QED
      BY <1>2, <2>2, <3>2, SMT
  <2>4. i * n \in 1 .. Len(s) * n
    BY <1>2, <2>2, <2>3, SMT
  <2>5. ((i * n - 1) \div n) + 1 = i /\ ((i * n - 1) % n) + 1 = n
    BY <2>1, <2>2, SMT
  <2> QED
    BY <2>4, <2>5 DEF BytesOf
<1> QED
  BY <1>2, <1>3, <1>6, <1>7

\* The bytes of one line or event.
BlockOf(e, n) == [i \in 1 .. n |-> <<e, i>>]

LEMMA BlockType ==
    ASSUME NEW S, NEW e \in S, NEW n \in Nat \ {0}
    PROVE  BlockOf(e, n) \in Seq(S \X (1 .. n)) /\ Len(BlockOf(e, n)) = n
<1> DEFINE T == S \X (1 .. n)
           u == BlockOf(e, n)
<1>1. u \in [1 .. n -> T]
  BY DEF BlockOf
<1> HIDE DEF u, T
<1>2. u \in Seq(T) /\ Len(u) = n
  BY <1>1, SMT
<1> QED
  BY <1>2 DEF u, T

\* One more line or event.
LEMMA BytesAppend ==
    ASSUME NEW S, NEW s \in Seq(S), NEW e \in S, NEW n \in Nat \ {0}
    PROVE  BytesOf(Append(s, e), n) = BytesOf(s, n) \o BlockOf(e, n)
<1> DEFINE T == S \X (1 .. n)
           t == Append(s, e)
           u == BlockOf(e, n)
           b == BytesOf(s, n)
           m == Len(s) * n
<1>1. /\ t \in Seq(S) /\ Len(t) = Len(s) + 1 /\ Len(s) \in Nat /\ t[Len(s) + 1] = e
      /\ \A i \in 1 .. Len(s) : t[i] = s[i]
  BY AppendProperties, LenProperties
<1>2. u \in Seq(T) /\ Len(u) = n /\ \A i \in 1 .. n : u[i] = <<e, i>>
  BY BlockType DEF BlockOf
<1>3. /\ b \in Seq(T) /\ Len(b) = m /\ m \in Nat
      /\ BytesOf(t, n) \in Seq(T) /\ Len(BytesOf(t, n)) = m + n
  <2>1. (Len(s) + 1) * n = m + n
    BY <1>1, BlockLemma
  <2> QED
    <3>1. b \in Seq(T) /\ Len(b) = m /\ m \in Nat
      BY BytesLemma
    <3>2. BytesOf(t, n) \in Seq(T) /\ Len(BytesOf(t, n)) = Len(t) * n
      BY <1>1, BytesLemma
    <3>3. Len(BytesOf(t, n)) = m + n
      BY <1>1, <2>1, <3>2
    <3> QED
      BY <3>1, <3>2, <3>3
<1>4. /\ b \o u \in Seq(T) /\ Len(b \o u) = m + n
      /\ \A p \in 1 .. m : (b \o u)[p] = b[p]
      /\ \A i \in 1 .. n : (b \o u)[m + i] = u[i]
  <2> HIDE DEF b, u, m, T, t
  <2>1. /\ b \o u \in Seq(T) /\ Len(b \o u) = m + n
        /\ \A p \in 1 .. m + n : (b \o u)[p] = IF p <= m THEN b[p] ELSE u[p - m]
    BY <1>2, <1>3, ConcatProperties
  <2>2. ASSUME NEW p \in 1 .. m
        PROVE  p \in 1 .. m + n /\ p <= m
    BY <1>3, SMT
  <2>3. ASSUME NEW i \in 1 .. n
        PROVE  m + i \in 1 .. m + n /\ ~(m + i <= m) /\ (m + i) - m = i
    BY <1>3, SMT
  <2> QED
    BY <2>1, <2>2, <2>3
<1>5. ASSUME NEW p \in 1 .. m
      PROVE  BytesOf(t, n)[p] = b[p]
  <2>1. ((p - 1) \div n) + 1 \in 1 .. Len(s)
    BY <1>1, PlaceLemma
  <2>2. p \in 1 .. Len(t) * n
    BY <1>1, <1>3, BlockLemma, SMT
  <2> QED
    BY <1>1, <2>1, <2>2 DEF BytesOf
<1>6. ASSUME NEW i \in 1 .. n
      PROVE  BytesOf(t, n)[m + i] = <<e, i>>
  <2>1. /\ m + i \in 1 .. Len(t) * n
        /\ ((m + i) - 1) \div n = Len(s) /\ ((m + i) - 1) % n = i - 1
    <3>1. Len(s) \in Nat
      BY <1>1
    <3>2. /\ Len(s) * n + i \in 1 .. (Len(s) + 1) * n
          /\ ((Len(s) * n + i) - 1) \div n = Len(s) /\ ((Len(s) * n + i) - 1) % n = i - 1
      BY <3>1, BlockLemma, ZenonT(40)
    <3> QED
      BY <1>1, <3>2
  <2>2. (i - 1) + 1 = i
    BY SMT
  <2> QED
    BY <1>1, <2>1, <2>2 DEF BytesOf
<1>7. \A p \in 1 .. m + n : BytesOf(t, n)[p] = (b \o u)[p]
  <2> TAKE p \in 1 .. m + n
  <2>1. p \in 1 .. m \/ (p - m \in 1 .. n /\ p = m + (p - m))
    <3> HIDE DEF m
    <3> QED
      BY <1>3, SMT
  <2>2. CASE p \in 1 .. m
    BY <1>4, <1>5, <2>2
  <2>3. CASE p - m \in 1 .. n /\ p = m + (p - m)
    BY <1>2, <1>4, <1>6, <2>3, Zenon
  <2> QED
    BY <2>1, <2>2, <2>3
<1> HIDE DEF b, u, m, T, t
<1>8. BytesOf(t, n) = b \o u
  BY <1>3, <1>4, <1>7, SeqEqual
<1> QED
  BY <1>8 DEF b, u, t

-----------------------------------------------------------------------------
(* The composition implements the call: what the runner does is what the   *)
(* other end of the connection may do in StreamProxy.                      *)

Line == {TokenLine(k) : k \in Tokens} \cup {FinalLine(s) : s \in Texts}

\* What the invariant of the runner says of its response.
RunnerView ==
    /\ lines \in Seq(Line)
    /\ made \in 0 .. MaxTokens
    /\ Providing \/ ppc \in {"return", "end"}
    /\ Providing => /\ \A i \in 1 .. Len(lines) : lines[i] = TokenLine(i)
                    /\ Len(lines) \in 0 .. MaxTokens
                    /\ ~aborted /\ ~closed
    /\ ppc = "send" => cur = Len(lines) + 1 /\ cur \in Tokens
    /\ ppc = "final" => made = Len(lines) /\ done
    /\ done => gpc = "end" /\ text \in {What, FirstTokens(made)}

LEMMA RunnerFacts == RunnerInv => RunnerView
<1> SUFFICES ASSUME RunnerInv
             PROVE  RunnerView
  OBVIOUS
<1>1. Runner!Line = Line
  BY Zenon DEF Runner!Line, Line, Runner!Tokens, Tokens, Runner!Texts, Texts,
     Runner!TokenLine, TokenLine, Runner!FinalLine, FinalLine,
     Runner!FirstTokens, FirstTokens, Runner!What, What
<1>2. /\ lines \in Seq(Line) /\ made \in 0 .. MaxTokens /\ Len(lines) \in Nat
      /\ Len(queue) \in Nat
  BY <1>1, LenProperties DEF RunnerInv, Runner!TypeOK
<1>3. ASSUME Providing
      PROVE  /\ \A i \in 1 .. Len(lines) : lines[i] = TokenLine(i)
             /\ Len(lines) \in 0 .. MaxTokens
             /\ ~aborted /\ ~closed
             /\ ppc = "send" => cur = Len(lines) + 1 /\ cur \in Tokens
             /\ ppc = "final" => made = Len(lines)
  <2>1. /\ \A i \in 1 .. Len(lines) : lines[i] = TokenLine(i)
        /\ (IF ppc = "send" THEN Len(lines) + 1 ELSE Len(lines)) + Len(queue) = made
        /\ ppc = "send" => cur = Len(lines) + 1
        /\ ~aborted /\ ~closed
        /\ ppc = "final" => queue = <<>>
    BY <1>3 DEF Providing, RunnerInv, QueueInv,
       ControlInv, Taken,
       Runner!TokenLine, TokenLine
  <2>2. queue = <<>> => Len(queue) = 0
    BY EmptySeq
  <2> QED
    BY <1>2, <2>1, <2>2, MaxTokensAssumption, SMT DEF Tokens
<1>4. /\ ppc = "final" => done
      /\ done => gpc = "end" /\ text \in {What, FirstTokens(made)}
  BY DEF RunnerInv, ControlInv, Runner!What, What,
         Runner!FirstTokens, FirstTokens
<1>5. Providing \/ ppc \in {"return", "end"}
  BY DEF Providing, RunnerInv, Runner!TypeOK
<1> QED
  BY <1>2, <1>3, <1>4, <1>5 DEF RunnerView, Providing

\* The connection is closed only by the end of the response or of the process.
LEMMA ClosedAtEnd == Spec => [](closed => ppc = "end")
<1> DEFINE I == closed => ppc = "end"
<1>1. Runner!Init => I
  BY DEF Runner!Init
<1>2. I /\ [Runner!Next]_(Runner!vars) => I'
  BY DEF Runner!Next, Runner!Generator, Runner!Provider, Runner!PushToken, Runner!Generated,
         Runner!GenerateThrows, Runner!Provide, Runner!ProviderWaits, Runner!DrainOn,
         Runner!DumpThrows, Runner!SendToken, Runner!SendFails, Runner!SendFinal,
         Runner!NotCalledAgain, Runner!Release, Runner!Stop, Runner!Crash, Runner!MainReturns,
         Runner!Die, Runner!Drain, Runner!Runs, Runner!vars, Runner!stream
<1> QED
  BY PathRunner, <1>1, <1>2, PTL DEF Runner!Spec

\* A response of n tokens, possibly with a final line: the newlines on the
\* connection are those of the lines, and the proxy counts n tokens.
LEMMA WireTokens ==
    ASSUME lines \in Seq(Line), NEW n \in 0 .. MaxTokens, n <= Len(lines),
           \A i \in 1 .. n : lines[i] = TokenLine(i),
           \A i \in 1 .. Len(lines) : i > n => lines[i].kind = "done"
    PROVE  /\ \A p \in 1 .. Len(Wire) : \E i \in 1 .. Len(lines) : Wire[p][1] = lines[i]
           /\ \A i \in 1 .. Len(lines) : /\ i * LineBytes \in 1 .. Len(Wire)
                                         /\ Wire[i * LineBytes] = <<lines[i], LineBytes>>
           /\ Wire \in Seq(Line \X (1 .. LineBytes))
           /\ ProxyProofs!TokensUpTo(Len(Wire)) = 1 .. n
           /\ ProxyProofs!Cardinality(1 .. n) = n
<1>1. /\ Wire \in Seq(Line \X (1 .. LineBytes)) /\ Len(Wire) = Len(lines) * LineBytes
      /\ \A p \in 1 .. Len(lines) * LineBytes :
           \E i \in 1 .. Len(lines), j \in 1 .. LineBytes : Wire[p] = <<lines[i], j>>
      /\ \A i \in 1 .. Len(lines) : /\ i * LineBytes \in 1 .. Len(lines) * LineBytes
                                    /\ Wire[i * LineBytes] = <<lines[i], LineBytes>>
  <2>1. LineBytes \in Nat \ {0}
    BY PathAssumption
  <2>2. /\ Wire \in Seq(Line \X (1 .. LineBytes)) /\ Len(Wire) = Len(lines) * LineBytes
        /\ \A i \in 1 .. Len(lines) : /\ i * LineBytes \in 1 .. Len(lines) * LineBytes
                                      /\ Wire[i * LineBytes] = <<lines[i], LineBytes>>
    BY <2>1, BytesLemma DEF Wire
  <2>3. \A p \in 1 .. Len(lines) * LineBytes :
          \E i \in 1 .. Len(lines), j \in 1 .. LineBytes :
            p = (i - 1) * LineBytes + j /\ BytesOf(lines, LineBytes)[p] = <<lines[i], j>>
    BY <2>1, BytesLemma
  <2> QED
    BY <2>2, <2>3 DEF Wire
<1>2. \A x, y : <<x, y>>[1] = x
  OBVIOUS
<1>3. \A p \in 1 .. Len(Wire) : \E i \in 1 .. Len(lines) : Wire[p][1] = lines[i]
  <2> TAKE p \in 1 .. Len(Wire)
  <2>1. PICK i \in 1 .. Len(lines), j \in 1 .. LineBytes : Wire[p] = <<lines[i], j>>
    BY <1>1
  <2>2. <<lines[i], j>>[1] = lines[i]
    BY <1>2
  <2> QED
    BY <2>1, <2>2
<1>4. n \in Nat /\ n <= MaxTokens /\ Len(lines) \in Nat /\ MaxTokens \in Nat
  BY MaxTokensAssumption, LenProperties, SMT
<1>5. \A a, b \in Nat : TokenLine(a) = TokenLine(b) => a = b
  <2> SUFFICES ASSUME NEW a \in Nat, NEW b \in Nat, TokenLine(a) = TokenLine(b)
               PROVE  a = b
    OBVIOUS
  <2>1. TokenLine(a).text = <<a>> /\ TokenLine(b).text = <<b>>
    BY DEF TokenLine
  <2>2. <<a>> = <<b>>
    BY <2>1
  <2> QED
    BY <2>2
<1>6. \A k : TokenLine(k).kind = "token" /\ ProxyProofs!TokenLine(k) = TokenLine(k)
  BY DEF TokenLine, ProxyProofs!TokenLine
<1>7. ASSUME NEW k \in Tokens, NEW p \in 1 .. Len(Wire), Wire[p] = <<TokenLine(k), LineBytes>>
      PROVE  k \in 1 .. n
  <2>1. PICK i \in 1 .. Len(lines) : TokenLine(k) = lines[i]
    BY <1>2, <1>3, <1>7
  <2>2. ~(i > n)
    BY <1>6, <2>1
  <2>3. i \in 1 .. n /\ k \in Nat
    BY <1>4, <2>2, SMT DEF Tokens
  <2>4. TokenLine(k) = TokenLine(i)
    BY <2>1, <2>3
  <2>5. i \in Nat
    BY <1>4, <2>3, SMT
  <2> QED
    BY <1>5, <2>3, <2>4, <2>5
<1>8. ASSUME NEW k \in 1 .. n
      PROVE  k \in Tokens /\ \E p \in 1 .. Len(Wire) : Wire[p] = <<TokenLine(k), LineBytes>>
  <2>1. k \in Tokens /\ k \in 1 .. Len(lines)
    BY <1>4, SMT DEF Tokens
  <2>2. k * LineBytes \in 1 .. Len(Wire) /\ Wire[k * LineBytes] = <<TokenLine(k), LineBytes>>
    BY <1>1, <2>1
  <2> QED
    BY <2>1, <2>2
<1>9. ProxyProofs!TokensUpTo(Len(Wire))
        = {k \in Tokens : \E p \in 1 .. Len(Wire) : Wire[p] = <<TokenLine(k), LineBytes>>}
  BY <1>6, Zenon DEF ProxyProofs!TokensUpTo, ProxyProofs!EndOf, ProxyProofs!Tokens, Tokens
<1>10. ProxyProofs!Cardinality(1 .. n) = n
  BY <1>4, ComponentConstants, ProxyProofs!CountInterval
<1> QED
  BY <1>1, <1>3, <1>7, <1>8, <1>9, <1>10

\* Writing the next line is a Send of the other end of the connection.
LEMMA SendStep ==
    ASSUME RunnerView, ProxyProofs!ProxyInv, Providing, NEW line,
           lines' = Append(lines, line), closed' = closed,
           \/ line = TokenLine(Len(lines) + 1) /\ Len(lines) + 1 \in Tokens
           \/ line \in {FinalLine(What), FinalLine(FirstTokens(Len(lines)))}
    PROVE  ProxyProofs!Send
<1> DEFINE n == Len(lines)
<1>1. /\ lines \in Seq(Line) /\ n \in 0 .. MaxTokens /\ n <= Len(lines) /\ ~closed
      /\ \A i \in 1 .. n : lines[i] = TokenLine(i)
      /\ \A i \in 1 .. Len(lines) : i > n => lines[i].kind = "done"
  <2>1. n \in Nat /\ \A i \in 1 .. n : ~(i > n)
    BY LenProperties, SMT DEF RunnerView
  <2> QED
    BY <2>1 DEF RunnerView
<1>2. line \in Line
  <2>1. What \in Texts /\ FirstTokens(n) \in Texts
    BY <1>1 DEF Texts
  <2> QED
    BY <2>1 DEF Line
<1>3. Wire' = Wire \o ProxyProofs!Bytes(line)
  <2>1. LineBytes \in Nat \ {0}
    BY PathAssumption
  <2>2. BytesOf(Append(lines, line), LineBytes)
          = BytesOf(lines, LineBytes) \o BlockOf(line, LineBytes)
    BY <1>1, <1>2, <2>1, BytesAppend
  <2> QED
    BY <2>2 DEF Wire, BytesOf, BlockOf, ProxyProofs!Bytes
<1>4. /\ ProxyProofs!TokensUpTo(Len(Wire)) = 1 .. n /\ ProxyProofs!Cardinality(1 .. n) = n
      /\ \A p \in 1 .. Len(Wire) : \E i \in 1 .. n : Wire[p][1] = lines[i]
      /\ Wire \in Seq(Line \X (1 .. LineBytes))
  <2> HIDE DEF n
  <2>1. n = Len(lines)
    BY DEF n
  <2> QED
    BY <1>1, <2>1, WireTokens
<1>5. \A l \in ProxyProofs!Sent : \E i \in 1 .. n : l = lines[i]
  <2>1. DOMAIN Wire = 1 .. Len(Wire)
    BY <1>4, LenProperties
  <2> QED
    BY <1>4, <2>1, Zenon DEF ProxyProofs!Sent
<1>6. \A l \in ProxyProofs!Sent : l.kind = "token"
  <2>1. \A k : TokenLine(k).kind = "token"
    BY DEF TokenLine
  <2> HIDE DEF n
  <2> QED
    BY <1>1, <1>5, <2>1
<1>7. ~ProxyProofs!SentFinal /\ ProxyProofs!OtherLine \notin ProxyProofs!Sent
  <2>1. ProxyProofs!OtherLine.kind = "other"
    BY DEF ProxyProofs!OtherLine
  <2> QED
    BY <1>6, <2>1 DEF ProxyProofs!SentFinal
<1>8. ProxyProofs!Cardinality(ProxyProofs!SentTokens) = n
  <2>1. ProxyProofs!TypeOK /\ ProxyProofs!WireInv
    BY DEF ProxyProofs!ProxyInv
  <2>2. ProxyProofs!Cardinality(ProxyProofs!SentTokens)
          = ProxyProofs!Cardinality(ProxyProofs!TokensUpTo(Len(Wire)))
    BY <2>1, ComponentConstants, ProxyProofs!SentLemma
  <2> QED
    BY <1>4, <2>2
<1>9. line \in ProxyProofs!NextLines
  <2>1. Len(lines) + 1 \in Tokens => n < MaxTokens
    BY <1>1, MaxTokensAssumption, SMT DEF Tokens
  <2> HIDE DEF n
  <2>2. n = Len(lines)
    BY DEF n
  <2> QED
    BY <1>8, <2>1, <2>2
       DEF ProxyProofs!NextLines, ProxyProofs!TokenLine, TokenLine, ProxyProofs!FinalLine,
           FinalLine, ProxyProofs!FirstTokens, FirstTokens, ProxyProofs!What, What
<1> QED
  BY <1>1, <1>3, <1>7, <1>9 DEF ProxyProofs!Send

\* A step of the path is a step of the call, or of the other end of its
\* connection, or leaves both alone.
LEMMA ProxySteps ==
    ASSUME RunnerView, ProxyProofs!ProxyInv, closed => ppc = "end", [Next]_vars
    PROVE  [ProxyProofs!Next]_(ProxyProofs!vars)
<1>1. lines' = lines => Wire' = Wire
  BY DEF Wire, BytesOf
<1>2. UNCHANGED <<lines, closed, proxyVars>> => UNCHANGED ProxyProofs!vars
  BY <1>1 DEF proxyVars, ProxyProofs!vars, ProxyProofs!sender, ProxyProofs!proxy
<1>3. ~closed /\ closed' = TRUE /\ lines' = lines => ProxyProofs!Hangup
  BY <1>1 DEF ProxyProofs!Hangup
<1>4. CASE Runner!Next /\ UNCHANGED proxyVars
  <2>1. UNCHANGED ProxyProofs!proxy
    BY <1>4 DEF proxyVars, ProxyProofs!proxy
  <2>2. CASE Runner!SendToken
    <3>1. /\ Providing /\ lines' = Append(lines, TokenLine(cur)) /\ closed' = closed
          /\ cur = Len(lines) + 1 /\ cur \in Tokens
      BY <2>2 DEF Runner!SendToken, Providing, RunnerView, Runner!TokenLine, TokenLine
    <3>2. ProxyProofs!Send
      BY <3>1, SendStep
    <3> QED
      BY <2>1, <3>2 DEF ProxyProofs!Next
  <2>3. CASE Runner!SendFinal /\ lines' # lines
    <3>1. Providing /\ lines' = Append(lines, FinalLine(text)) /\ closed' = closed
      BY <2>3 DEF Runner!SendFinal, Providing, Runner!FinalLine, FinalLine
    <3>2. text \in {What, FirstTokens(Len(lines))}
      BY <2>3 DEF Runner!SendFinal, RunnerView
    <3>3. FinalLine(text) \in {FinalLine(What), FinalLine(FirstTokens(Len(lines)))}
      BY <3>2
    <3>4. ProxyProofs!Send
      BY <3>1, <3>3, SendStep
    <3> QED
      BY <2>1, <3>4 DEF ProxyProofs!Next
  <2>4. CASE Runner!Release \/ Runner!DumpThrows \/ Runner!Crash
    <3>1. closed' = TRUE /\ lines' = lines
      BY <2>4 DEF Runner!Release, Runner!DumpThrows, Runner!Crash, Runner!Die
    <3>2. ~closed
      BY <2>4 DEF Runner!Release, Runner!DumpThrows, Runner!Crash, Runner!Runs
    <3> QED
      BY <1>3, <2>1, <3>1, <3>2 DEF ProxyProofs!Next
  <2>5. CASE \/ Runner!PushToken \/ Runner!Generated \/ Runner!GenerateThrows
             \/ Runner!Provide \/ Runner!ProviderWaits \/ Runner!DrainOn
             \/ Runner!SendFails \/ Runner!NotCalledAgain \/ Runner!Stop
             \/ Runner!MainReturns \/ (Runner!SendFinal /\ lines' = lines)
    <3>1. UNCHANGED <<lines, closed>>
      BY <2>5 DEF Runner!PushToken, Runner!Generated, Runner!GenerateThrows, Runner!Provide,
         Runner!ProviderWaits, Runner!DrainOn, Runner!Drain, Runner!SendFails,
         Runner!NotCalledAgain, Runner!Stop, Runner!MainReturns, Runner!SendFinal
    <3> QED
      BY <1>2, <1>4, <3>1
  <2> QED
    BY <1>4, <2>2, <2>3, <2>4, <2>5 DEF Runner!Next, Runner!Generator, Runner!Provider
<1>5. CASE CallStep \/ CallFails
  <2>1. UNCHANGED runnerVars
    BY <1>5 DEF CallStep, PassToken, Parse, CallSucceeds, CallCancelled, CallFails
  <2>2. UNCHANGED ProxyProofs!sender
    BY <1>1, <2>1 DEF runnerVars, ProxyProofs!sender
  <2>3. \/ \E goOn \in BOOLEAN : Proxy!ScanToken(goOn)
        \/ Proxy!Receive \/ Proxy!ScanFinal \/ Proxy!ScanEnds
        \/ Proxy!BodyEnds \/ Proxy!Cancelled \/ Proxy!RequestFails
    <3>1. Pipe!WriteOk \in BOOLEAN
      BY DEF Pipe!WriteOk
    <3> QED
      BY <1>5, <3>1 DEF CallStep, PassToken, Parse, CallSucceeds, CallCancelled, CallFails
  <2>4. Proxy!Request
    BY <2>3 DEF Proxy!Request
  <2>5. Proxy!Next
    <3>1. UNCHANGED Proxy!sender
      BY <2>2 DEF Proxy!sender, ProxyProofs!sender
    <3> QED
      BY <2>4, <3>1 DEF Proxy!Next
  <2> QED
    BY <2>5, SameProxy
<1>6. CASE GeneratorStep \/ ProviderStep \/ ProcessStep
  <2>1. Runner!Next /\ UNCHANGED proxyVars
    BY <1>6 DEF GeneratorStep, ProviderStep, ProcessStep, Runner!Next, Others
  <2> QED
    BY <1>4, <2>1
<1>7. CASE StreamThreadStep \/ ReaderStep \/ ClientStep \/ UNCHANGED vars
  <2>1. UNCHANGED <<lines, closed, proxyVars>>
    BY <1>7 DEF StreamThreadStep, ReaderStep, ClientStep, vars, runnerVars
  <2> QED
    BY <1>2, <2>1
<1> QED
  BY <1>5, <1>6, <1>7 DEF Next

LEMMA InitCall == Init => Proxy!Init /\ ProxyProofs!Init
<1> SUFFICES ASSUME Init
             PROVE  Proxy!Init
  BY SameProxy
<1>1. lines = <<>> /\ closed = FALSE /\ Proxy!InitProxy
  BY DEF Init, Runner!Init
<1>2. lines \in Seq({}) /\ Len(lines) = 0 /\ LineBytes \in Nat \ {0}
  BY <1>1, PathAssumption, EmptySeq
<1>3. 0 * LineBytes = 0
  BY <1>2, SMT
<1>4. Len(Wire) = 0 /\ Wire \in Seq({} \X (1 .. LineBytes))
  BY <1>2, <1>3, BytesLemma DEF Wire
<1>5. Wire = <<>>
  BY <1>4, EmptySeq
<1> QED
  BY <1>1, <1>5 DEF Proxy!Init

\* The invariant of the call holds in the path.
LEMMA ProxyHolds == Spec => []ProxyProofs!ProxyInv
<1>1. Init => ProxyProofs!ProxyInv
  BY InitCall, ComponentConstants, ProxyProofs!InitProxyInv
<1>2. /\ RunnerView /\ (closed => ppc = "end") /\ ProxyProofs!ProxyInv /\ [Next]_vars
      => ProxyProofs!ProxyInv'
  BY ProxySteps, ComponentConstants, ProxyProofs!NextProxy
<1> QED
  BY <1>1, <1>2, RunnerFacts, ComponentsHold, ClosedAtEnd, PTL DEF Spec

\* In the path the call behaves as StreamProxy describes it: a runner is an
\* other end of the connection as StreamProxy assumes one.
THEOREM PathProxy == Spec => Proxy!Spec
<1>1. /\ RunnerView /\ (closed => ppc = "end") /\ ProxyProofs!ProxyInv /\ [Next]_vars
      => [Proxy!Next]_(Proxy!vars)
  BY ProxySteps, SameProxy
<1> QED
  BY <1>1, InitCall, RunnerFacts, ComponentsHold, ClosedAtEnd, ProxyHolds, PTL
     DEF Spec, Proxy!Spec

-----------------------------------------------------------------------------
(* Every line of the runner is parsed. *)

\* Whenever there is a line to parse it parses: ScanGarbage, which the path
\* leaves out of the request, could not be taken.
NeverGarbage == Proxy!HasLine => Proxy!Parses

\* Of what the runner sends no line is invalid.
LEMMA GarbageFree == RunnerView /\ ProxyProofs!LinesIntact => NeverGarbage
<1> SUFFICES ASSUME RunnerView, ProxyProofs!LinesIntact, ProxyProofs!HasLine
             PROVE  ProxyProofs!Parses
  BY Zenon
     DEF NeverGarbage, Proxy!Parses, ProxyProofs!Parses, Proxy!HasLine, ProxyProofs!HasLine,
         Proxy!LineEnd, ProxyProofs!LineEnd, Proxy!FirstLine, ProxyProofs!FirstLine,
         Proxy!Newline, ProxyProofs!Newline, Proxy!Bytes, ProxyProofs!Bytes,
         Proxy!OtherLine, ProxyProofs!OtherLine
<1>1. ProxyProofs!FirstLine \in ProxyProofs!Sent
      /\ (ProxyProofs!FirstLine # ProxyProofs!OtherLine => ProxyProofs!Parses)
  BY DEF ProxyProofs!LinesIntact
<1>2. Wire \in Seq(Line \X (1 .. LineBytes))
  BY PathAssumption, BytesLemma DEF RunnerView, Wire
<1>3. PICK p \in DOMAIN Wire : ProxyProofs!FirstLine = Wire[p][1]
  BY <1>1 DEF ProxyProofs!Sent
<1>4. Wire[p] \in Line \X (1 .. LineBytes)
  <2>1. p \in 1 .. Len(Wire)
    BY <1>2, <1>3, LenProperties
  <2> QED
    BY <1>2, <2>1, ElementOfSeq
<1>5. \A b \in Line \X (1 .. LineBytes) : b[1] \in Line
  OBVIOUS
<1>6. ProxyProofs!OtherLine \notin Line
  BY DEF ProxyProofs!OtherLine, Line, TokenLine, FinalLine
<1> QED
  BY <1>1, <1>3, <1>4, <1>5, <1>6

\* No chunk of a runner's response is taken for invalid NDJSON
\* (stream_parse_chunk of runner_mgr.cpp), wherever it is cut.
THEOREM PathNeverGarbage == Spec => []NeverGarbage
<1>1. Init => ProxyProofs!BodyInv /\ ProxyProofs!LinesInv
  BY InitCall, ComponentConstants, ProxyProofs!InitBody, ProxyProofs!InitLines
<1>2. /\ RunnerView /\ (closed => ppc = "end") /\ ProxyProofs!ProxyInv
      /\ ProxyProofs!BodyInv /\ ProxyProofs!LinesInv /\ [Next]_vars
      => ProxyProofs!BodyInv' /\ ProxyProofs!LinesInv'
  BY ProxySteps, ComponentConstants, ProxyProofs!NextBody, ProxyProofs!NextLinesInv
<1>3. ProxyProofs!ProxyInv /\ ProxyProofs!BodyInv /\ ProxyProofs!LinesInv
      => ProxyProofs!LinesIntact
  BY ComponentConstants, ProxyProofs!IntactHolds
<1>4. Spec => [](ProxyProofs!BodyInv /\ ProxyProofs!LinesInv)
  BY <1>1, <1>2, RunnerFacts, ComponentsHold, ClosedAtEnd, ProxyHolds, PTL DEF Spec
<1> QED
  BY <1>3, <1>4, GarbageFree, RunnerFacts, ComponentsHold, ProxyHolds, PTL

-----------------------------------------------------------------------------
(* The end of the runner's response, seen from the call. *)

\* The call has returned and has not failed.
CallDone == Hungup /\ result # Proxy!Error

\* The final line was written after all tokens, and the generation has ended.
Written == /\ done
           /\ Len(lines) = made + 1
           /\ lines[made + 1] = FinalLine(text)
           /\ \A i \in 1 .. made : lines[i] = TokenLine(i)

\* A response that was not ended by a crash or a signal ends with the final
\* line, unless the call has failed before.
EndInv == /\ closed => ppc = "end"
          /\ (/\ ppc = "return" \/ (ppc = "end" /\ aborted)
              /\ ~stopping
              /\ Hungup => CallDone) => Written

\* What the invariant of the call says of its result and its parsing.
CallView ==
    /\ passed \in Seq(Tokens)
    /\ CallDone => closed
    /\ result # None /\ result # Proxy!Error => CallDone /\ result = Proxy!Ok(fullText)
    /\ \A goOn \in BOOLEAN : Proxy!ScanToken(goOn) => Len(passed') = Len(passed) + 1

LEMMA CallFacts ==
    ASSUME ProxyProofs!ProxyInv, [Next]_vars
    PROVE  UNCHANGED runnerVars => CallView
<1> SUFFICES ASSUME UNCHANGED runnerVars
             PROVE  CallView
  OBVIOUS
<1>1. Proxy!Error = ProxyProofs!Error /\ Proxy!Ok(fullText) = ProxyProofs!Ok(fullText)
  BY DEF Proxy!Error, ProxyProofs!Error, Proxy!Ok, ProxyProofs!Ok
<1>2. /\ passed \in Seq(Tokens)
      /\ CallDone => closed
      /\ result # None /\ result # Proxy!Error => CallDone /\ result = Proxy!Ok(fullText)
  BY <1>1 DEF ProxyProofs!ProxyInv, ProxyProofs!TypeOK, ProxyProofs!CallInv, ProxyProofs!Tokens,
     Tokens, CallDone, Hungup
<1>3. ASSUME NEW goOn \in BOOLEAN, Proxy!ScanToken(goOn)
      PROVE  Len(passed') = Len(passed) + 1
  <2>1. ProxyProofs!ScanToken(goOn)
    BY <1>3, Zenon
       DEF Proxy!ScanToken, ProxyProofs!ScanToken, Proxy!NextLine, ProxyProofs!NextLine,
           Proxy!HasLine, ProxyProofs!HasLine, Proxy!LineEnd, ProxyProofs!LineEnd,
           Proxy!FirstLine, ProxyProofs!FirstLine, Proxy!Parses, ProxyProofs!Parses,
           Proxy!SkipLine, ProxyProofs!SkipLine, Proxy!Newline, ProxyProofs!Newline,
           Proxy!Bytes, ProxyProofs!Bytes, Proxy!OtherLine, ProxyProofs!OtherLine
  <2>2. UNCHANGED <<Wire, closed>>
    BY DEF runnerVars, Wire, BytesOf
  <2>3. /\ ProxyProofs!HasLine /\ ProxyProofs!SkipLine
        /\ UNCHANGED <<ProxyProofs!sender, rcvd>>
        /\ ProxyProofs!FirstLine.kind = "token"
        /\ passed' = passed \o ProxyProofs!FirstLine.text
    BY <2>1, <2>2 DEF ProxyProofs!ScanToken, ProxyProofs!NextLine, ProxyProofs!sender
  <2>4. PICK k \in ProxyProofs!Tokens : ProxyProofs!FirstLine = ProxyProofs!TokenLine(k)
    BY <2>3, ComponentConstants, ProxyProofs!SkipTokens
  <2>5. passed' = passed \o <<k>>
    BY <2>3, <2>4 DEF ProxyProofs!TokenLine
  <2>6. <<k>> \in Seq(Tokens) /\ Len(<<k>>) = 1
    BY <2>4 DEF ProxyProofs!Tokens, Tokens
  <2> QED
    BY <1>2, <2>5, <2>6, ConcatProperties
<1> QED
  BY <1>2, <1>3 DEF CallView

\* The steps of the call are taken before it returns.
LEMMA NotDoneYet == CallStep \/ CallFails => ~Hungup /\ UNCHANGED runnerVars
  BY DEF CallStep, CallFails, PassToken, Parse, CallSucceeds, CallCancelled, Hungup,
         Proxy!ScanToken, Proxy!NextLine, Proxy!Receive, Proxy!ScanFinal, Proxy!ScanEnds,
         Proxy!BodyEnds, Proxy!Cancelled, Proxy!RequestFails

\* The runner's steps keep EndInv.
LEMMA RunnerKeepsEnd ==
    ASSUME RunnerView, EndInv, CallDone => closed, UNCHANGED proxyVars,
           GeneratorStep \/ ProviderStep \/ ProcessStep
    PROVE  EndInv'
<1>1. (Hungup' <=> Hungup) /\ (CallDone' <=> CallDone)
  BY DEF proxyVars, Hungup, CallDone, Proxy!Error
<1>2. CASE GeneratorStep \/ Runner!Stop \/ Runner!MainReturns
  BY <1>1, <1>2 DEF GeneratorStep, Runner!Generator, Runner!PushToken, Runner!Generated,
     Runner!GenerateThrows, Runner!Stop, Runner!MainReturns, RunnerView, EndInv, Written,
     Runner!stream
<1>3. CASE Runner!Provide \/ Runner!ProviderWaits \/ Runner!DrainOn \/ Runner!SendToken
           \/ Runner!NotCalledAgain
  BY <1>3 DEF Runner!Provide, Runner!ProviderWaits, Runner!DrainOn, Runner!SendToken,
     Runner!NotCalledAgain, Runner!Drain, Runner!Runs, EndInv
<1>4. CASE Runner!Release
  BY <1>1, <1>4 DEF Runner!Release, EndInv, Written
<1>5. CASE Runner!DumpThrows \/ Runner!Crash
  <2>1. /\ ppc' = "end" /\ closed' = TRUE
        /\ UNCHANGED <<aborted, stopping, done, lines, made, text>>
    BY <1>5 DEF Runner!DumpThrows, Runner!Crash, Runner!Die, Runner!stream
  <2>2. aborted => ppc \in {"return", "end"}
    BY DEF RunnerView
  <2>3. Written' <=> Written
    BY <2>1 DEF Written
  <2> QED
    BY <1>1, <2>1, <2>2, <2>3 DEF EndInv
<1>6. CASE (Runner!SendFails \/ Runner!SendFinal) /\ Hungup
  BY <1>1, <1>6 DEF Runner!SendFails, Runner!SendFinal, EndInv
<1>7. CASE Runner!SendFinal /\ lines' # lines
  <2>1. /\ lines' = Append(lines, FinalLine(text)) /\ ppc' = "return" /\ ppc = "final"
        /\ UNCHANGED <<done, text, made, closed>>
    BY <1>7 DEF Runner!SendFinal, Runner!stream, Runner!FinalLine, FinalLine
  <2>2. /\ lines \in Seq(Line) /\ \A i \in 1 .. Len(lines) : lines[i] = TokenLine(i)
        /\ Len(lines) = made /\ done
        /\ text \in {What, FirstTokens(made)} /\ made \in 0 .. MaxTokens
    BY <2>1 DEF RunnerView, Providing
  <2>3. FinalLine(text) \in Line
    BY <2>2 DEF Line, Texts
  <2>4. /\ Len(lines') = made + 1 /\ lines'[made + 1] = FinalLine(text)
        /\ \A i \in 1 .. made : lines'[i] = TokenLine(i)
    BY <2>1, <2>2, <2>3, AppendProperties
  <2>5. Written'
    BY <2>1, <2>2, <2>4 DEF Written, FinalLine, TokenLine
  <2>6. ~closed'
    BY <2>1 DEF EndInv
  <2> QED
    BY <2>5, <2>6 DEF EndInv
<1>8. ProviderStep => \/ Runner!Provide \/ Runner!ProviderWaits \/ Runner!DrainOn
                      \/ Runner!DumpThrows \/ Runner!SendToken \/ Runner!NotCalledAgain
                      \/ Runner!Release
                      \/ (Runner!SendFails \/ Runner!SendFinal) /\ Hungup
                      \/ Runner!SendFinal /\ lines' # lines
  BY DEF ProviderStep, Runner!Provider, Runner!SendFinal
<1> QED
  BY <1>2, <1>3, <1>4, <1>5, <1>6, <1>7, <1>8 DEF ProcessStep

LEMMA EndStep ==
    ASSUME RunnerView, ProxyProofs!ProxyInv, EndInv, [Next]_vars
    PROVE  EndInv'
<1>1. CallDone => closed
  BY DEF ProxyProofs!ProxyInv, ProxyProofs!CallInv, Proxy!Error, ProxyProofs!Error,
         CallDone, Hungup
<1>2. CASE GeneratorStep \/ ProviderStep \/ ProcessStep
  <2>1. UNCHANGED proxyVars
    BY <1>2 DEF GeneratorStep, ProviderStep, ProcessStep, Others
  <2> QED
    BY <1>1, <1>2, <2>1, RunnerKeepsEnd
<1>3. CASE UNCHANGED runnerVars /\ (~Hungup \/ UNCHANGED proxyVars)
  <2>1. UNCHANGED <<closed, ppc, aborted, stopping, done, lines, made, text>>
    BY <1>3 DEF runnerVars
  <2>2. (Hungup' => CallDone') => (Hungup => CallDone)
    BY <1>3 DEF proxyVars, Hungup, CallDone, Proxy!Error
  <2>3. Written' <=> Written
    BY <2>1 DEF Written
  <2> QED
    BY <2>1, <2>2, <2>3 DEF EndInv
<1>4. StreamThreadStep \/ ReaderStep \/ ClientStep \/ UNCHANGED vars
        => UNCHANGED <<runnerVars, proxyVars>>
  BY DEF StreamThreadStep, ReaderStep, ClientStep, vars
<1> QED
  BY <1>2, <1>3, <1>4, NotDoneYet DEF Next

LEMMA EndHolds == Spec => []EndInv
<1>1. Init => EndInv
  BY DEF Init, Runner!Init, EndInv
<1>2. RunnerView /\ ProxyProofs!ProxyInv /\ EndInv /\ [Next]_vars => EndInv'
  BY EndStep
<1> QED
  BY <1>1, <1>2, RunnerFacts, ComponentsHold, ProxyHolds, PTL DEF Spec

\* A call that has not failed, of a runner that nothing disturbed, has passed
\* on every token that was generated, and has their text.
LEMMA DoneText ==
    ASSUME RunnerView, ProxyProofs!ProxyInv, EndInv, CallDone, Undisturbed
    PROVE  gpc = "end" /\ fullText = FirstTokens(made) /\ passed = FirstTokens(made)
<1>1. /\ ProxyProofs!TypeOK /\ ProxyProofs!WireInv /\ ProxyProofs!ParseInv
      /\ ~ProxyProofs!HasLine /\ closed /\ rcvd = Len(Wire)
  BY DEF ProxyProofs!ProxyInv, ProxyProofs!CallInv, Proxy!Error, ProxyProofs!Error,
         CallDone, Hungup
<1>2. Written /\ aborted
  BY <1>1 DEF EndInv, Undisturbed
<1>3. gpc = "end" /\ text = FirstTokens(made)
  BY <1>2 DEF Written, RunnerView, Undisturbed
<1>4. /\ lines \in Seq(Line) /\ made \in 0 .. MaxTokens /\ made <= Len(lines)
      /\ made + 1 \in 1 .. Len(lines) /\ Len(lines) = made + 1
      /\ \A i \in 1 .. made : lines[i] = TokenLine(i)
      /\ \A i \in 1 .. Len(lines) : i > made => lines[i].kind = "done"
  <2>1. made \in Nat
    BY MaxTokensAssumption, SMT DEF RunnerView
  <2>2. FinalLine(text).kind = "done"
    BY DEF FinalLine
  <2>3. \A i \in 1 .. made + 1 : i > made => i = made + 1
    BY <2>1, SMT
  <2> QED
    BY <1>2, <2>1, <2>2, <2>3 DEF Written, RunnerView
<1>5. /\ Wire[Len(lines) * LineBytes] = <<FinalLine(text), LineBytes>>
      /\ Len(lines) * LineBytes \in 1 .. Len(Wire)
      /\ Wire \in Seq(Line \X (1 .. LineBytes))
      /\ ProxyProofs!TokensUpTo(Len(Wire)) = 1 .. made
      /\ ProxyProofs!Cardinality(1 .. made) = made
  BY <1>2, <1>4, WireTokens DEF Written
<1>6. /\ \A i \in ProxyProofs!Parsed + 1 .. rcvd : ~ProxyProofs!Newline(Wire[i])
      /\ ProxyProofs!TokensUpTo(rcvd) = ProxyProofs!TokensUpTo(ProxyProofs!Parsed)
  BY <1>1, ComponentConstants, ProxyProofs!NoLineLeft
<1>7. passed = FirstTokens(made)
  BY <1>1, <1>5, <1>6 DEF ProxyProofs!ParseInv, ProxyProofs!FirstTokens, FirstTokens
<1>8. fullText = text
  <2> DEFINE p == Len(lines) * LineBytes
             q == ProxyProofs!Parsed
  <2>1. ProxyProofs!Newline(Wire[p]) /\ Wire[p][1] = FinalLine(text)
    BY <1>5 DEF ProxyProofs!Newline
  <2>2. FinalLine(text).kind = "done" /\ FinalLine(text).text = text
    BY DEF FinalLine
  <2>3. ProxyProofs!IsFinalEnd(Wire[p])
    BY <2>1, <2>2 DEF ProxyProofs!IsFinalEnd
  <2>4. /\ p \notin q + 1 .. rcvd /\ p \in 1 .. rcvd /\ q \in 0 .. rcvd /\ rcvd \in Nat
    <3>1. q \in 0 .. rcvd /\ Len(Wire) \in Nat
      BY <1>1, <1>5, LenProperties DEF ProxyProofs!ParseInv
    <3> QED
      BY <1>1, <1>5, <1>6, <2>1, <3>1
  <2>5. p \in 1 .. q
    <3> HIDE DEF p, q
    <3> QED
      BY <2>4, SMT
  <2> QED
    BY <1>1, <2>1, <2>2, <2>3, <2>5 DEF ProxyProofs!ParseInv
<1> QED
  BY <1>3, <1>7, <1>8

\* The text of a call that has succeeded is the whole completion, unless the
\* runner was signalled, has crashed or its generator has thrown: neither the
\* chunks of the connection, nor the pipe and its client, nor the interleaving
\* of the threads cost a token (llama_runner.cpp, stream_completion).
THEOREM PathFullText == Spec => []UndisturbedIsFullText
<1>1. ASSUME RunnerView, ProxyProofs!ProxyInv, EndInv
      PROVE  UndisturbedIsFullText
  <2> SUFFICES ASSUME Succeeded, Undisturbed
               PROVE  FullText
    BY DEF UndisturbedIsFullText
  <2>1. result # None /\ result # Proxy!Error
    BY DEF Succeeded, Proxy!Error
  <2>2. CallDone /\ result = Proxy!Ok(fullText)
    BY <1>1, <2>1 DEF ProxyProofs!ProxyInv, ProxyProofs!CallInv, Proxy!Error,
       ProxyProofs!Error, Proxy!Ok, ProxyProofs!Ok, CallDone, Hungup
  <2>3. gpc = "end" /\ fullText = FirstTokens(made)
    BY <1>1, <2>2, DoneText
  <2> QED
    BY <2>2, <2>3 DEF FullText, Proxy!Ok
<1> QED
  BY <1>1, RunnerFacts, ComponentsHold, ProxyHolds, EndHolds, PTL

-----------------------------------------------------------------------------
(* The events on the pipe. *)

\* The events of the first n tokens.
EventsOf(n) == [k \in 1 .. n |-> Pipe!Token(k)]

\* What was put into the pipe after the last token.
PutEnd == IF wpc \in {"close", "end"} THEN Pipe!Bytes(Pipe!Marker) ELSE <<>>

\* The stream thread has put an event for every token that was passed on, and
\* nothing after them but the marker.
EventsInv ==
    /\ tokens = Len(passed)
    /\ wpc = "role" => tokens = 0
    /\ ~failed /\ wpc \in {"marker", "close", "end"} => CallDone
    /\ ~failed /\ ~gaveUp => IsSuffix(BytesOf(EventsOf(tokens), EventSize) \o PutEnd, put)

\* What the invariant of the pipe says.
Event == PipeProofs!Event
PipeView ==
    /\ put \in Seq(Event \X (1 .. EventSize))
    /\ tokens \in 0 .. MaxTokens
    /\ finished <=> wpc = "end"
    /\ wpc = "error" => failed
    /\ rpc = "eof" => finished /\ put = got

LEMMA PipeFacts == PipeProofs!PipeInv => PipeView
<1> SUFFICES ASSUME PipeProofs!PipeInv
             PROVE  PipeView
  OBVIOUS
<1>1. /\ put \in Seq(Event \X (1 .. EventSize)) /\ tokens \in 0 .. MaxTokens
      /\ got \in Seq(Event \X (1 .. EventSize)) /\ put = got \o buf
  BY DEF PipeProofs!PipeInv, PipeProofs!TypeOK, PipeProofs!Byte, Event
<1>2. /\ finished <=> wpc = "end"
      /\ wpc = "error" => failed
      /\ rpc = "eof" => finished /\ buf = <<>>
  BY DEF PipeProofs!PipeInv, PipeProofs!WrittenInv
<1>3. got \o <<>> = got
  BY <1>1, ConcatEmptySeq
<1> QED
  BY <1>1, <1>2, <1>3 DEF PipeView

\* The events of the pipe and their bytes.
LEMMA PipeEvents ==
    /\ Pipe!Role \in Event /\ Pipe!Marker \in Event
    /\ \A k \in 0 .. MaxTokens : Pipe!Token(k) \in Event
    /\ \A e : Pipe!Bytes(e) = BlockOf(e, EventSize)
<1>1. 0 \in 0 .. MaxTokens
  BY MaxTokensAssumption, SMT
<1> QED
  BY <1>1 DEF Event, PipeProofs!Event, Pipe!Role, Pipe!Marker, Pipe!Token, Pipe!Bytes, BlockOf

LEMMA EventsOfLemma ==
    ASSUME NEW n \in 0 .. MaxTokens
    PROVE  /\ EventsOf(n) \in Seq(Event) /\ Len(EventsOf(n)) = n
           /\ n + 1 \in 0 .. MaxTokens => EventsOf(n + 1) = Append(EventsOf(n), Pipe!Token(n + 1))
<1>1. n \in Nat /\ \A k \in 1 .. n : Pipe!Token(k) \in Event
  BY PipeEvents, MaxTokensAssumption, SMT
<1>2. EventsOf(n) \in [1 .. n -> Event]
  BY <1>1 DEF EventsOf
<1>3. EventsOf(n) \in Seq(Event) /\ Len(EventsOf(n)) = n
  BY <1>1, <1>2, SMT
<1>4. ASSUME n + 1 \in 0 .. MaxTokens
      PROVE  EventsOf(n + 1) = Append(EventsOf(n), Pipe!Token(n + 1))
  <2>1. \A k \in 1 .. n + 1 : Pipe!Token(k) \in Event
    BY <1>1, <1>4, PipeEvents, MaxTokensAssumption, SMT
  <2>2. EventsOf(n + 1) \in [1 .. n + 1 -> Event] /\ n + 1 \in Nat
    BY <1>1, <2>1 DEF EventsOf
  <2>3. EventsOf(n + 1) \in Seq(Event) /\ Len(EventsOf(n + 1)) = n + 1
    BY <2>2, SMT
  <2>4. Pipe!Token(n + 1) \in Event
    BY <1>4, PipeEvents
  <2>5. /\ Append(EventsOf(n), Pipe!Token(n + 1)) \in Seq(Event)
        /\ Len(Append(EventsOf(n), Pipe!Token(n + 1))) = n + 1
        /\ \A k \in 1 .. n : Append(EventsOf(n), Pipe!Token(n + 1))[k] = EventsOf(n)[k]
        /\ Append(EventsOf(n), Pipe!Token(n + 1))[n + 1] = Pipe!Token(n + 1)
    BY <1>3, <2>4, AppendProperties
  <2>6. \A k \in 1 .. n + 1 : k \in 1 .. n \/ k = n + 1
    BY <1>1, SMT
  <2>7. \A k \in 1 .. n + 1 : EventsOf(n + 1)[k] = Append(EventsOf(n), Pipe!Token(n + 1))[k]
    BY <2>5, <2>6 DEF EventsOf
  <2> QED
    BY <2>3, <2>5, <2>7, SeqEqual
<1> QED
  BY <1>3, <1>4

\* A suffix stays one when both sequences are extended.
LEMMA Suffix ==
    ASSUME NEW S, NEW s \in Seq(S), NEW t \in Seq(S), NEW u \in Seq(S)
    PROVE  /\ IsSuffix(u, t \o u)
           /\ IsSuffix(s, t) => IsSuffix(s \o u, t \o u)
<1>1. \A a, b : IsSuffix(a, b) <=> PipeProofs!IsSuffix(a, b)
  BY Zenon DEF IsSuffix, PipeProofs!IsSuffix, IsPrefix, PipeProofs!IsPrefix,
     Reverse, PipeProofs!Reverse
<1> QED
  BY <1>1, ComponentConstants, PipeProofs!SuffixAppend

\* The bytes of the first n tokens, and of one more.
LEMMA TokenBytes ==
    ASSUME NEW n \in 0 .. MaxTokens
    PROVE  /\ BytesOf(EventsOf(n), EventSize) \in Seq(Event \X (1 .. EventSize))
           /\ n = 0 => BytesOf(EventsOf(n), EventSize) = <<>>
           /\ n + 1 \in 0 .. MaxTokens =>
                BytesOf(EventsOf(n + 1), EventSize)
                  = BytesOf(EventsOf(n), EventSize) \o Pipe!Bytes(Pipe!Token(n + 1))
<1>1. EventSize \in Nat \ {0} /\ EventsOf(n) \in Seq(Event) /\ Len(EventsOf(n)) = n
  BY EventsOfLemma, PathAssumption
<1>2. BytesOf(EventsOf(n), EventSize) \in Seq(Event \X (1 .. EventSize))
      /\ Len(BytesOf(EventsOf(n), EventSize)) = Len(EventsOf(n)) * EventSize
  BY <1>1, BytesLemma
<1>3. ASSUME n = 0
      PROVE  BytesOf(EventsOf(n), EventSize) = <<>>
  <2>1. 0 * EventSize = 0
    BY <1>1, SMT
  <2> QED
    BY <1>1, <1>2, <1>3, <2>1, EmptySeq
<1>4. ASSUME n + 1 \in 0 .. MaxTokens
      PROVE  BytesOf(EventsOf(n + 1), EventSize)
               = BytesOf(EventsOf(n), EventSize) \o Pipe!Bytes(Pipe!Token(n + 1))
  <2>1. Pipe!Token(n + 1) \in Event
    BY <1>4, PipeEvents
  <2>2. BytesOf(Append(EventsOf(n), Pipe!Token(n + 1)), EventSize)
          = BytesOf(EventsOf(n), EventSize) \o BlockOf(Pipe!Token(n + 1), EventSize)
    BY <1>1, <2>1, BytesAppend
  <2> QED
    BY <1>4, <2>2, EventsOfLemma, PipeEvents
<1> QED
  BY <1>2, <1>3, <1>4

\* An event that is written when the pipe has not given up.
LEMMA WriteEvent ==
    ASSUME PipeView, NEW e, Pipe!Write(e), wpc # "end", ~gaveUp'
    PROVE  ~gaveUp /\ put' = put \o Pipe!Bytes(e)
  BY DEF PipeView, Pipe!Write, Pipe!Refuses

\* The steps of the stream thread.
LEMMA StreamThreadKeeps ==
    ASSUME PipeView, EventsInv, CallView, [Next]_vars,
           PassToken \/ CallSucceeds \/ CallFails \/ StreamThreadStep
    PROVE  EventsInv'
<1>1. tokens' = Len(passed')
  <2>1. CASE PassToken
    <3>1. Pipe!WriteOk \in BOOLEAN
      BY DEF Pipe!WriteOk
    <3> QED
      BY <2>1, <3>1 DEF PassToken, Pipe!WriteToken, CallView, EventsInv
  <2>2. CASE CallSucceeds \/ CallFails \/ StreamThreadStep
    BY <2>2 DEF CallSucceeds, CallFails, StreamThreadStep, Proxy!BodyEnds, Proxy!RequestFails,
       Proxy!Finish, Pipe!StreamSucceeds, Pipe!StreamFails, Pipe!WriteRole, Pipe!WriteError,
       Pipe!WriteMarker, Pipe!Close, proxyVars, EventsInv
  <2> QED
    BY <2>1, <2>2
<1>2. /\ wpc' # "role"
      /\ failed => failed'
  BY DEF PassToken, CallSucceeds, CallFails, StreamThreadStep, InRequest, Pipe!WriteToken,
         Pipe!StreamSucceeds, Pipe!StreamFails, Pipe!WriteRole, Pipe!WriteError,
         Pipe!WriteMarker, Pipe!Close
<1>3. ASSUME ~failed', wpc' \in {"marker", "close", "end"}
      PROVE  CallDone'
  <2>1. CASE CallSucceeds
    BY <2>1 DEF CallSucceeds, Proxy!BodyEnds, Proxy!Finish, Proxy!Ok, Proxy!Error, CallDone,
       Hungup
  <2>2. CASE StreamThreadStep
    <3>1. CallDone
      BY <1>3, <2>2 DEF StreamThreadStep, Pipe!WriteRole, Pipe!WriteError, Pipe!WriteMarker,
         Pipe!Close, PipeView, EventsInv
    <3> QED
      BY <2>2, <3>1 DEF StreamThreadStep, proxyVars, CallDone, Hungup, Proxy!Error
  <2>3. CASE PassToken \/ CallFails
    BY <1>3, <2>3 DEF PassToken, CallFails, InRequest, Pipe!WriteToken, Pipe!StreamFails
  <2> QED
    BY <2>1, <2>2, <2>3
<1>4. ASSUME ~failed', ~gaveUp'
      PROVE  IsSuffix(BytesOf(EventsOf(tokens), EventSize) \o PutEnd, put)'
  <2> DEFINE B == Event \X (1 .. EventSize)
             b == BytesOf(EventsOf(tokens), EventSize)
  <2>1. put \in Seq(B) /\ b \in Seq(B) /\ <<>> \in Seq(B) /\ tokens \in 0 .. MaxTokens
        /\ b \o <<>> = b
    BY TokenBytes, EmptySeq, ConcatEmptySeq DEF PipeView
  <2>2. \A e \in Event : Pipe!Bytes(e) \in Seq(B)
    BY PathAssumption, PipeEvents, BlockType
  <2>3. ~failed
    BY <1>2, <1>4
  <2>4. CASE Pipe!WriteRole
    <3>1. /\ put' = put \o Pipe!Bytes(Pipe!Role) /\ wpc' = "stream" /\ tokens' = tokens
          /\ tokens = 0
      BY <1>4, <2>4, WriteEvent DEF Pipe!WriteRole, EventsInv
    <3>2. BytesOf(EventsOf(tokens), EventSize)' = <<>> /\ PutEnd' = <<>>
      <4>1. BytesOf(EventsOf(tokens), EventSize)' = b
        BY <3>1 DEF BytesOf, EventsOf, Pipe!Token
      <4>2. b = <<>>
        BY <2>1, <3>1, TokenBytes
      <4>3. PutEnd' = <<>>
        BY <3>1 DEF PutEnd
      <4> QED
        BY <4>1, <4>2, <4>3
    <3>3. <<>> \o <<>> = <<>> /\ put' \in Seq(B) /\ put' \o <<>> = put'
      BY <2>1, <2>2, <3>1, PipeEvents, ConcatEmptySeq, ConcatProperties
    <3>4. IsSuffix(<<>>, put' \o <<>>)
      BY <2>1, <3>3, Suffix
    <3> QED
      BY <3>2, <3>3, <3>4
  <2>5. CASE PassToken
    <3>1. /\ Pipe!Write(Pipe!Token(tokens + 1)) /\ tokens' = tokens + 1 /\ wpc = "stream"
          /\ tokens < MaxTokens /\ wpc' = "stream"
      BY <1>4, <2>5 DEF PassToken, Pipe!WriteToken
    <3>2. ~gaveUp /\ put' = put \o Pipe!Bytes(Pipe!Token(tokens + 1))
      BY <1>4, <3>1, WriteEvent
    <3>3. tokens + 1 \in 0 .. MaxTokens
      BY <2>1, <3>1, MaxTokensAssumption, SMT
    <3>4. Pipe!Bytes(Pipe!Token(tokens + 1)) \in Seq(B)
      BY <2>2, <3>3, PipeEvents
    <3>5. IsSuffix(b, put)
      BY <2>1, <2>3, <3>1, <3>2 DEF EventsInv, PutEnd
    <3>6. IsSuffix(b \o Pipe!Bytes(Pipe!Token(tokens + 1)), put')
      BY <2>1, <3>2, <3>4, <3>5, Suffix
    <3>7. BytesOf(EventsOf(tokens + 1), EventSize) = b \o Pipe!Bytes(Pipe!Token(tokens + 1))
      BY <2>1, <3>3, TokenBytes
    <3>8. BytesOf(EventsOf(tokens), EventSize)' = BytesOf(EventsOf(tokens + 1), EventSize)
      BY <3>1 DEF BytesOf, EventsOf, Pipe!Token
    <3>9. PutEnd' = <<>>
      BY <3>1 DEF PutEnd
    <3>10. b \o Pipe!Bytes(Pipe!Token(tokens + 1)) \in Seq(B)
      BY <2>1, <3>4, ConcatProperties
    <3>11. (b \o Pipe!Bytes(Pipe!Token(tokens + 1))) \o <<>>
             = b \o Pipe!Bytes(Pipe!Token(tokens + 1))
      BY <3>10, ConcatEmptySeq
    <3> QED
      BY <3>6, <3>7, <3>8, <3>9, <3>11
  <2>6. CASE Pipe!WriteMarker
    <3>1. /\ put' = put \o Pipe!Bytes(Pipe!Marker) /\ ~gaveUp /\ tokens' = tokens
          /\ wpc = "marker" /\ wpc' = "close"
      BY <1>4, <2>6, WriteEvent DEF Pipe!WriteMarker
    <3>2. IsSuffix(b, put)
      BY <2>1, <2>3, <3>1 DEF EventsInv, PutEnd
    <3>3. Pipe!Bytes(Pipe!Marker) \in Seq(B)
      BY <2>2, PipeEvents
    <3>4. IsSuffix(b \o Pipe!Bytes(Pipe!Marker), put')
      BY <2>1, <3>1, <3>2, <3>3, Suffix
    <3>5. BytesOf(EventsOf(tokens), EventSize)' = b
      BY <3>1 DEF BytesOf, EventsOf, Pipe!Token
    <3>6. PutEnd' = Pipe!Bytes(Pipe!Marker)
      BY <3>1 DEF PutEnd, Pipe!Bytes, Pipe!Marker
    <3> QED
      BY <3>4, <3>5, <3>6
  <2>7. CASE Pipe!StreamSucceeds \/ Pipe!Close
    <3>1. UNCHANGED <<put, gaveUp, tokens>> /\ PutEnd' = PutEnd
      BY <2>7 DEF Pipe!StreamSucceeds, Pipe!Close, Pipe!pipe, PutEnd, Pipe!Bytes, Pipe!Marker
    <3>2. BytesOf(EventsOf(tokens), EventSize)' = b
      BY <3>1 DEF BytesOf, EventsOf, Pipe!Token
    <3> QED
      BY <1>4, <2>3, <3>1, <3>2 DEF EventsInv
  <2>8. ~Pipe!StreamFails /\ ~Pipe!WriteError
    BY <1>4, <2>3 DEF Pipe!StreamFails, Pipe!WriteError, PipeView
  <2> QED
    BY <2>4, <2>5, <2>6, <2>7, <2>8 DEF CallSucceeds, CallFails, StreamThreadStep
<1> QED
  BY <1>1, <1>2, <1>3, <1>4 DEF EventsInv


\* The steps that neither write to the pipe nor pass on a token.
LEMMA OthersKeepEvents ==
    ASSUME EventsInv, [Next]_vars,
           ~(PassToken \/ CallSucceeds \/ CallFails \/ StreamThreadStep)
    PROVE  EventsInv'
<1> DEFINE writes == <<tokens, wpc, failed, gaveUp, put>>
<1>1. UNCHANGED <<writes, passed>> /\ (CallDone => CallDone')
  <2>1. CASE GeneratorStep \/ ProviderStep \/ ProcessStep \/ UNCHANGED vars
    BY <2>1 DEF GeneratorStep, ProviderStep, ProcessStep, Others, vars, proxyVars, pipeVars,
       CallDone, Hungup, Proxy!Error
  <2>2. CASE Parse \/ CallCancelled
    <3>1. ~CallDone
      BY <2>2, NotDoneYet DEF CallStep, CallDone
    <3> QED
      BY <2>2, <3>1 DEF Parse, CallCancelled, Proxy!Receive, Proxy!ScanFinal, Proxy!ScanEnds,
         Proxy!NextLine, Proxy!Cancelled, Proxy!Finish, pipeVars
  <2>3. CASE ReaderStep \/ ClientStep
    <3>1. UNCHANGED proxyVars
      BY <2>3 DEF ReaderStep, ClientStep
    <3>2. UNCHANGED writes
      BY <2>3 DEF ReaderStep, ClientStep, Pipe!ReaderStep, Pipe!ReadWaits, Pipe!Wake,
         Pipe!Read, Pipe!ReadEnd, Pipe!Sent, Pipe!SpuriousWake, Pipe!ClientGone,
         Pipe!pipe, Pipe!writer
    <3> QED
      BY <3>1, <3>2 DEF proxyVars, CallDone, Hungup, Proxy!Error
  <2> QED
    BY <2>1, <2>2, <2>3 DEF Next, CallStep
<1>2. BytesOf(EventsOf(tokens), EventSize)' = BytesOf(EventsOf(tokens), EventSize)
  BY <1>1 DEF BytesOf, EventsOf, Pipe!Token
<1>3. PutEnd' = PutEnd
  BY <1>1 DEF PutEnd, Pipe!Bytes, Pipe!Marker
<1> QED
  BY <1>1, <1>2, <1>3 DEF EventsInv

LEMMA InitEvents == Init => EventsInv
<1> SUFFICES ASSUME Init
             PROVE  EventsInv
  OBVIOUS
<1>1. tokens = 0 /\ passed = <<>> /\ wpc \in {"role", "stream"} /\ put = <<>>
  BY DEF Init, Pipe!Init, Proxy!InitProxy
<1>2. 0 \in 0 .. MaxTokens
  BY MaxTokensAssumption, SMT
<1>3. BytesOf(EventsOf(tokens), EventSize) = <<>>
  BY <1>1, <1>2, TokenBytes
<1>4. PutEnd = <<>> /\ Len(passed) = 0
  BY <1>1 DEF PutEnd
<1>5. <<>> \in Seq({}) /\ <<>> \o <<>> = <<>>
  BY EmptySeq, ConcatEmptySeq
<1>6. IsSuffix(<<>>, <<>> \o <<>>)
  BY <1>5, Suffix
<1> QED
  BY <1>1, <1>3, <1>4, <1>5, <1>6 DEF EventsInv

LEMMA EventsHold == Spec => []EventsInv
<1>1. ASSUME EventsInv, ProxyProofs!ProxyInv, PipeProofs!PipeInv, [Next]_vars
      PROVE  EventsInv'
  <2>1. CASE PassToken \/ CallSucceeds \/ CallFails \/ StreamThreadStep
    <3>1. UNCHANGED runnerVars
      BY <2>1 DEF PassToken, CallSucceeds, CallFails, StreamThreadStep
    <3>2. CallView /\ PipeView
      BY <1>1, <3>1, CallFacts, PipeFacts
    <3> QED
      BY <1>1, <2>1, <3>2, StreamThreadKeeps
  <2>2. CASE ~(PassToken \/ CallSucceeds \/ CallFails \/ StreamThreadStep)
    BY <1>1, <2>2, OthersKeepEvents
  <2> QED
    BY <2>1, <2>2
<1> QED
  BY <1>1, InitEvents, ProxyHolds, ComponentsHold, PTL DEF Spec

\* A client that has read the response of an undisturbed runner to its end has
\* received an event for every generated token, in order, and the marker,
\* unless there was an error or the pipe gave up on it.
THEOREM PathClientGotAll == Spec => []ClientGotAll
<1>1. ASSUME RunnerView, ProxyProofs!ProxyInv, PipeProofs!PipeInv, EndInv, EventsInv
      PROVE  ClientGotAll
  <2> SUFFICES ASSUME rpc = "eof", ~failed, ~gaveUp, Undisturbed
               PROVE  IsSuffix(TokenEvents \o Pipe!Bytes(Pipe!Marker), got)
    BY DEF ClientGotAll
  <2>1. wpc = "end" /\ put = got
    BY <1>1, PipeFacts DEF PipeView
  <2>2. CallDone
    BY <1>1, <2>1 DEF EventsInv
  <2>3. IsSuffix(BytesOf(EventsOf(tokens), EventSize) \o Pipe!Bytes(Pipe!Marker), got)
    BY <1>1, <2>1 DEF EventsInv, PutEnd
  <2>4. tokens = made
    <3>1. passed = FirstTokens(made)
      BY <1>1, <2>2, DoneText
    <3>2. made \in Nat
      BY <1>1, MaxTokensAssumption, SMT DEF RunnerView
    <3>3. Len(FirstTokens(made)) = made
      BY <3>2 DEF FirstTokens
    <3> QED
      BY <1>1, <3>1, <3>3 DEF EventsInv
  <2> QED
    BY <2>3, <2>4 DEF TokenEvents, EventsOf
<1> QED
  BY <1>1, RunnerFacts, ComponentsHold, ProxyHolds, EndHolds, EventsHold, PTL

=============================================================================
