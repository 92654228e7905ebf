---------------------------- MODULE IOPipeProofs ----------------------------
(***************************************************************************)
(* Proofs about IOPipe, for any watermark, size of the events and reads,   *)
(* and number of tokens: PipeInv is inductive, so no byte is lost or       *)
(* reordered, the buffer is bounded, no wake-up is missed and a response   *)
(* ends as it should; and the pipe implements ByteStream.                  *)
(***************************************************************************)
EXTENDS IOPipe, SequenceTheorems, TLAPS

-----------------------------------------------------------------------------
(* Lemmas about sequences and events. *)

\* The encoding of an event.
LEMMA BytesLemma ==
    ASSUME NEW e \in Event
    PROVE  Bytes(e) \in Seq(Byte) /\ Len(Bytes(e)) = EventSize
<1>1. Bytes(e) \in [1 .. EventSize -> Byte]
  BY DEF Bytes, Byte
<1>2. EventSize \in Nat
  BY SizesAssumption
<1> QED
  BY <1>1, <1>2, SMT

\* The events that the stream thread writes.
LEMMA EventsLemma ==
    /\ Role \in Event
    /\ \A k \in 0 .. MaxTokens : Token(k) \in Event
    /\ ErrorEvent \in Event
    /\ Marker \in Event
  BY SizesAssumption, SMT DEF Event, Role, Token, ErrorEvent, Marker

\* A suffix, by its elements.
LEMMA SuffixElements ==
    ASSUME NEW S, NEW s \in Seq(S), NEW t \in Seq(S)
    PROVE  IsSuffix(s, t) <=> /\ Len(s) <= Len(t)
                              /\ \A i \in 1 .. Len(s) : s[i] = t[i + Len(t) - Len(s)]
<1>1. /\ Reverse(s) \in Seq(S) /\ Len(Reverse(s)) = Len(s)
      /\ \A i \in 1 .. Len(s) : Reverse(s)[i] = s[Len(s) - i + 1]
  BY SMT DEF Reverse
<1>2. /\ Reverse(t) \in Seq(S) /\ Len(Reverse(t)) = Len(t)
      /\ \A i \in 1 .. Len(t) : Reverse(t)[i] = t[Len(t) - i + 1]
  BY SMT DEF Reverse
<1>3. IsSuffix(s, t) <=> /\ Len(s) <= Len(t)
                         /\ \A i \in 1 .. Len(s) : Reverse(s)[i] = Reverse(t)[i]
  BY <1>1, <1>2, SMT DEF IsSuffix, IsPrefix
<1>4. ASSUME Len(s) <= Len(t), \A i \in 1 .. Len(s) : Reverse(s)[i] = Reverse(t)[i],
             NEW i \in 1 .. Len(s)
      PROVE  s[i] = t[i + Len(t) - Len(s)]
  <2>1. Len(s) - i + 1 \in 1 .. Len(s) /\ Len(s) - i + 1 \in 1 .. Len(t)
    BY <1>4, SMT
  <2>2. Reverse(s)[Len(s) - i + 1] = s[i]
    BY <1>1, <2>1, SMT
  <2>3. Reverse(t)[Len(s) - i + 1] = t[i + Len(t) - Len(s)]
    BY <1>2, <2>1, SMT
  <2> QED
    BY <1>4, <2>1, <2>2, <2>3
<1>5. ASSUME Len(s) <= Len(t), \A i \in 1 .. Len(s) : s[i] = t[i + Len(t) - Len(s)],
             NEW i \in 1 .. Len(s)
      PROVE  Reverse(s)[i] = Reverse(t)[i]
  <2>1. Len(s) - i + 1 \in 1 .. Len(s) /\ i \in 1 .. Len(t)
    BY <1>5, SMT
  <2>2. s[Len(s) - i + 1] = t[Len(t) - i + 1]
    BY <1>5, <2>1, SMT
  <2> QED
    BY <1>1, <1>2, <2>1, <2>2
<1> QED
  BY <1>3, <1>4, <1>5

\* What is appended is a suffix, and appending to both sides keeps a suffix.
LEMMA SuffixAppend ==
    ASSUME NEW S, NEW s \in Seq(S), NEW t \in Seq(S), NEW u \in Seq(S)
    PROVE  /\ IsSuffix(u, t \o u)
           /\ IsSuffix(s, t) => IsSuffix(s \o u, t \o u)
<1>1. t \o u \in Seq(S) /\ s \o u \in Seq(S)
  BY SMT
<1>2. IsSuffix(u, t \o u)
  <2>1. /\ Len(t \o u) = Len(t) + Len(u)
        /\ \A i \in 1 .. Len(u) : (t \o u)[i + Len(t)] = u[i]
    BY SMT
  <2>2. /\ Len(u) <= Len(t \o u)
        /\ \A i \in 1 .. Len(u) : u[i] = (t \o u)[i + Len(t \o u) - Len(u)]
    BY <2>1, SMT
  <2> QED
    BY <1>1, <2>2, SuffixElements
<1>3. ASSUME IsSuffix(s, t)
      PROVE  IsSuffix(s \o u, t \o u)
  <2>1. /\ Len(s) <= Len(t)
        /\ \A i \in 1 .. Len(s) : s[i] = t[i + Len(t) - Len(s)]
    BY <1>3, SuffixElements
  <2>2. /\ Len(s \o u) = Len(s) + Len(u) /\ Len(t \o u) = Len(t) + Len(u)
        /\ Len(s) \in Nat /\ Len(t) \in Nat /\ Len(u) \in Nat
    BY SMT
  <2>3. ASSUME NEW i \in 1 .. Len(s \o u)
        PROVE  (s \o u)[i] = (t \o u)[i + Len(t \o u) - Len(s \o u)]
    <3> DEFINE j == i + Len(t) - Len(s)
    <3>1. j \in 1 .. Len(t) + Len(u) /\ i \in 1 .. Len(s) + Len(u)
      BY <2>1, <2>2, SMT
    <3>2. j = i + Len(t \o u) - Len(s \o u)
      BY <2>2, SMT
    <3>3. (s \o u)[i] = IF i <= Len(s) THEN s[i] ELSE u[i - Len(s)]
      BY <3>1, ConcatProperties
    <3>4. (t \o u)[j] = IF j <= Len(t) THEN t[j] ELSE u[j - Len(t)]
      <4> HIDE DEF j
      <4> QED
        BY <3>1, ConcatProperties
    <3>5. CASE i <= Len(s)
      BY <2>1, <2>2, <3>1, <3>2, <3>3, <3>4, <3>5, SMT
    <3>6. CASE ~(i <= Len(s))
      <4>1. ~(j <= Len(t)) /\ j - Len(t) = i - Len(s)
        BY <2>2, <3>1, <3>6, SMT
      <4> QED
        BY <3>2, <3>3, <3>4, <3>6, <4>1
    <3> QED
      BY <3>5, <3>6
  <2>4. Len(s \o u) <= Len(t \o u)
    BY <2>1, <2>2, SMT
  <2> QED
    BY <1>1, <2>3, <2>4, SuffixElements
<1> QED
  BY <1>2, <1>3

\* What follows a sequence does not change that it is a prefix.
LEMMA PrefixAppend ==
    ASSUME NEW S, NEW s \in Seq(S), NEW t \in Seq(S)
    PROVE  IsPrefix(s, s \o t)
  BY SMT DEF IsPrefix

\* A sequence is cut into what a read takes and what it leaves.
LEMMA CutLemma ==
    ASSUME NEW S, NEW s \in Seq(S), NEW n \in 0 .. Len(s)
    PROVE  /\ SubSeq(s, 1, n) \in Seq(S)
           /\ SubSeq(s, n + 1, Len(s)) \in Seq(S)
           /\ Len(SubSeq(s, n + 1, Len(s))) = Len(s) - n
           /\ SubSeq(s, 1, n) \o SubSeq(s, n + 1, Len(s)) = s
<1>1. Len(s) \in Nat /\ n \in Nat /\ n <= Len(s)
  BY SMT
<1>2. /\ SubSeq(s, 1, n) \in Seq(S) /\ Len(SubSeq(s, 1, n)) = n
      /\ \A i \in 1 .. n : SubSeq(s, 1, n)[i] = s[i]
  BY <1>1, SMT
<1>3. /\ SubSeq(s, n + 1, Len(s)) \in Seq(S)
      /\ Len(SubSeq(s, n + 1, Len(s))) = Len(s) - n
      /\ \A i \in 1 .. Len(s) - n : SubSeq(s, n + 1, Len(s))[i] = s[n + i]
  BY <1>1, SMT
<1>4. SubSeq(s, 1, n) \o SubSeq(s, n + 1, Len(s)) = SubSeq(s, 1, Len(s))
  <2>1. /\ 1 \in 1 .. Len(s) + 1
        /\ n \in 1 - 1 .. Len(s)
        /\ Len(s) \in n .. Len(s)
    BY <1>1, SMT
  <2> QED
    BY <2>1, ConcatAdjacentSubSeq, Zenon
<1> QED
  BY <1>2, <1>3, <1>4, SubSeqFull

-----------------------------------------------------------------------------
(* The steps of the pipe. *)

\* PipeInv without what it says about the stream thread.
BufferInv == /\ buf \in Seq(Byte) /\ put \in Seq(Byte) /\ got \in Seq(Byte)
             /\ put = got \o buf
             /\ ~aborted => Len(buf) <= MaxBuffer
             /\ Watermark
             /\ NoLostWakeup
             /\ rpc = "eof" => done /\ buf = <<>>

\* write: an accepted event is appended to the buffer, which stays below the
\* watermark plus one event.
LEMMA WriteLemma ==
    ASSUME PipeInv, NEW e \in Event, Write(e)
    PROVE  /\ BufferInv'
           /\ aborted' \in BOOLEAN /\ woken' \in BOOLEAN
           /\ UNCHANGED <<done, rpc>>
           /\ aborted => aborted'
           /\ put' = IF Refuses THEN put ELSE put \o Bytes(e)
<1> USE DEF PipeInv, TypeOK
<1>1. Bytes(e) \in Seq(Byte) /\ Len(Bytes(e)) = EventSize
  BY BytesLemma
<1>2. CASE Refuses
  BY <1>2 DEF Write, BufferInv, Watermark, NoLostWakeup
<1>3. CASE ~Refuses
  <2>1. /\ buf' = buf \o Bytes(e) /\ put' = put \o Bytes(e)
        /\ aborted' = (Len(buf) + EventSize > MaxBuffer)
        /\ woken' = (rpc = "blocked" \/ woken)
        /\ UNCHANGED <<done, rpc, got>>
        /\ ~aborted /\ ~done
    BY <1>3 DEF Write, Notify, Refuses
  <2>2. buf' \in Seq(Byte) /\ put' \in Seq(Byte) /\ got' \in Seq(Byte)
    BY <1>1, <2>1, ConcatProperties
  <2>3. put' = got' \o buf'
    <3>1. (got \o buf) \o Bytes(e) = got \o (buf \o Bytes(e))
      BY <1>1, ConcatAssociative
    <3> QED
      BY <2>1, <3>1
  <2>4. Len(buf') = Len(buf) + EventSize /\ Len(buf) \in Nat
    BY <1>1, <2>1, ConcatProperties, LenProperties
  <2>5. (aborted' <=> Len(buf') > MaxBuffer) /\ Len(buf) <= MaxBuffer
    BY <2>1, <2>4
  <2>6. (~aborted => Len(buf) <= MaxBuffer)' /\ Watermark'
    BY <2>4, <2>5, SizesAssumption, SMT DEF Watermark
  <2>7. NoLostWakeup' /\ (rpc = "eof" => done /\ buf = <<>>)'
    BY <2>1 DEF NoLostWakeup
  <2> QED
    BY <1>3, <2>1, <2>2, <2>3, <2>6, <2>7 DEF BufferInv
<1> QED
  BY <1>2, <1>3

\* read: what is taken is moved from the buffer to the connection thread.
LEMMA ReadLemma ==
    ASSUME PipeInv, Read
    PROVE  /\ BufferInv'
           /\ IsPrefix(got, got') /\ IsPrefix(got', put)
<1> USE DEF PipeInv, TypeOK
<1>1. Taken \in 0 .. Len(buf)
  BY SizesAssumption, SMT DEF Taken
<1>2. PICK x \in Seq(Byte) : /\ buf' \in Seq(Byte)
                             /\ Len(buf') = Len(buf) - Taken
                             /\ x \o buf' = buf
                             /\ got' = got \o x
  BY <1>1, CutLemma, Zenon DEF Read
<1>3. got \in Seq(Byte) /\ put = got \o buf /\ put' = put
  BY DEF Read
<1>4. got' \in Seq(Byte) /\ put' = got' \o buf'
  <2>1. \A r \in Seq(Byte) : got \o (x \o r) = (got \o x) \o r
    BY <1>3, ConcatAssociative
  <2> QED
    BY <1>2, <1>3, <2>1, ConcatProperties
<1>5. IsPrefix(got, got') /\ IsPrefix(got', put)
  BY <1>2, <1>3, <1>4, PrefixAppend
<1>6. (~aborted => Len(buf) <= MaxBuffer)' /\ Watermark'
  <2>1. Len(buf) \in Nat /\ Len(buf') <= Len(buf)
    BY <1>1, <1>2, SMT
  <2> QED
    BY <1>1, <2>1, SizesAssumption, SMT DEF Watermark, Read
<1>7. NoLostWakeup' /\ (rpc = "eof" => done /\ buf = <<>>)'
  BY DEF NoLostWakeup, Read
<1> QED
  BY <1>2, <1>3, <1>4, <1>5, <1>6, <1>7 DEF BufferInv

\* The end of the response is only lengthened by what is written.
LEMMA EndingLemma ==
    ASSUME PipeInv, ~Refuses
    PROVE  /\ IsSuffix(Bytes(ErrorEvent), put \o Bytes(ErrorEvent))
           /\ wpc = "marker" => IsSuffix(Ending, put \o Bytes(Marker))
<1>1. /\ Bytes(ErrorEvent) \in Seq(Byte) /\ Bytes(Marker) \in Seq(Byte)
      /\ <<>> \in Seq(Byte) /\ put \in Seq(Byte)
  BY EventsLemma, BytesLemma DEF PipeInv, TypeOK
<1>2. IsSuffix(Bytes(ErrorEvent), put \o Bytes(ErrorEvent))
  BY <1>1, SuffixAppend
<1>3. ASSUME wpc = "marker", failed
      PROVE  IsSuffix(Ending, put \o Bytes(Marker))
  <2>1. IsSuffix(Bytes(ErrorEvent), put)
    BY <1>3 DEF PipeInv, WrittenInv, Refuses
  <2> QED
    BY <1>1, <1>3, <2>1, SuffixAppend DEF Ending
<1>4. ASSUME wpc = "marker", ~failed
      PROVE  IsSuffix(Ending, put \o Bytes(Marker))
  <2>1. Ending = Bytes(Marker)
    BY <1>1, <1>4, ConcatEmptySeq DEF Ending
  <2> QED
    BY <1>1, <2>1, SuffixAppend
<1> QED
  BY <1>2, <1>3, <1>4

-----------------------------------------------------------------------------
(* The invariant. *)

LEMMA InitPipe == Init => PipeInv
<1> SUFFICES ASSUME Init
             PROVE  PipeInv
  OBVIOUS
<1>1. <<>> \in Seq(Byte) /\ Len(<<>>) = 0 /\ <<>> \o <<>> = <<>>
  BY EmptySeq, ConcatEmptySeq
<1>2. TypeOK
  <2>1. tokens \in 0 .. MaxTokens
    BY SizesAssumption, SMT DEF Init
  <2> QED
    BY <1>1, <2>1 DEF Init, TypeOK
<1>3. (~aborted => Len(buf) <= MaxBuffer) /\ Watermark
  BY <1>1, SizesAssumption, SMT DEF Init, Watermark
<1> QED
  BY <1>1, <1>2, <1>3 DEF Init, PipeInv, NoLostWakeup, WrittenInv

\* The steps of the stream thread.
LEMMA WriterPreserves == PipeInv /\ WriterStep => PipeInv'
<1> SUFFICES ASSUME PipeInv, WriterStep
             PROVE  PipeInv'
  OBVIOUS
<1>1. TypeOK
  BY DEF PipeInv
<1>2. CASE WriteRole
  <2>1. /\ BufferInv' /\ aborted' \in BOOLEAN /\ woken' \in BOOLEAN
        /\ UNCHANGED <<done, rpc>>
    BY <1>2, EventsLemma, WriteLemma DEF WriteRole
  <2> QED
    BY <1>1, <1>2, <2>1 DEF WriteRole, PipeInv, BufferInv, TypeOK, WrittenInv
<1>3. CASE WriteToken
  <2>1. tokens + 1 \in 0 .. MaxTokens
    BY <1>1, <1>3, SizesAssumption, SMT DEF TypeOK, WriteToken
  <2>2. Write(Token(tokens + 1)) /\ Token(tokens + 1) \in Event
    BY <1>3, <2>1, EventsLemma DEF WriteToken
  <2>3. /\ BufferInv' /\ aborted' \in BOOLEAN /\ woken' \in BOOLEAN
        /\ UNCHANGED <<done, rpc>>
    BY <2>2, WriteLemma
  <2> QED
    BY <1>1, <1>3, <2>1, <2>3 DEF WriteToken, PipeInv, BufferInv, TypeOK, WrittenInv
<1>4. CASE StreamSucceeds \/ StreamFails
  <2>1. UNCHANGED <<pipe, tokens, rpc, woken, put, got>> /\ wpc = "stream" /\ ~failed
    BY <1>4 DEF StreamSucceeds, StreamFails, PipeInv, WrittenInv
  <2>2. TypeOK'
    BY <1>1, <1>4, <2>1 DEF StreamSucceeds, StreamFails, pipe, TypeOK
  <2>3. WrittenInv'
    BY <1>4, <2>1 DEF StreamSucceeds, StreamFails, pipe, PipeInv, WrittenInv
  <2> QED
    BY <2>1, <2>2, <2>3 DEF PipeInv, Watermark, NoLostWakeup, pipe
<1>5. CASE WriteError
  <2>1. /\ BufferInv' /\ aborted' \in BOOLEAN /\ woken' \in BOOLEAN
        /\ UNCHANGED <<done, rpc>> /\ (aborted => aborted')
        /\ put' = IF Refuses THEN put ELSE put \o Bytes(ErrorEvent)
    BY <1>5, EventsLemma, WriteLemma DEF WriteError
  <2>2. ~aborted' => IsSuffix(Bytes(ErrorEvent), put')
    BY <1>5, <2>1, EndingLemma DEF Refuses, PipeInv, WrittenInv, WriteError
  <2> QED
    BY <1>1, <1>5, <2>1, <2>2 DEF WriteError, PipeInv, BufferInv, TypeOK, WrittenInv,
                                  Bytes, ErrorEvent
<1>6. CASE WriteMarker
  <2>1. /\ BufferInv' /\ aborted' \in BOOLEAN /\ woken' \in BOOLEAN
        /\ UNCHANGED <<done, rpc>> /\ (aborted => aborted')
        /\ put' = IF Refuses THEN put ELSE put \o Bytes(Marker)
    BY <1>6, EventsLemma, WriteLemma DEF WriteMarker
  <2>2. ~aborted' => IsSuffix(Ending, put')
    BY <1>6, <2>1, EndingLemma DEF Refuses, PipeInv, WrittenInv, WriteMarker
  <2>3. Ending' = Ending
    BY <1>6 DEF WriteMarker, Ending
  <2> QED
    BY <1>1, <1>6, <2>1, <2>2, <2>3
       DEF WriteMarker, PipeInv, BufferInv, TypeOK, WrittenInv
<1>7. CASE Close
  <2>1. Ending' = Ending /\ put' = put /\ aborted' = aborted
    BY <1>7 DEF Close, Ending
  <2>2. WrittenInv' /\ TypeOK'
    BY <1>1, <1>7, <2>1 DEF Close, Notify, PipeInv, TypeOK, WrittenInv
  <2> QED
    BY <1>7, <2>2 DEF Close, Notify, PipeInv, Watermark, NoLostWakeup
<1> QED
  BY <1>2, <1>3, <1>4, <1>5, <1>6, <1>7 DEF WriterStep

\* The steps of the connection thread.
LEMMA ReaderPreserves == PipeInv /\ (ReaderStep \/ SpuriousWake \/ ClientGone) => PipeInv'
<1> SUFFICES ASSUME PipeInv, ReaderStep \/ SpuriousWake \/ ClientGone
             PROVE  PipeInv'
  OBVIOUS
<1>1. TypeOK
  BY DEF PipeInv
<1>2. CASE Read
  <2>1. BufferInv'
    BY <1>2, ReadLemma
  <2>2. UNCHANGED <<done, aborted, writer, woken, put>> /\ rpc' = "send"
    BY <1>2 DEF Read
  <2>3. WrittenInv'
    BY <2>2 DEF PipeInv, WrittenInv, Ending, writer
  <2> QED
    BY <1>1, <2>1, <2>2, <2>3 DEF PipeInv, BufferInv, TypeOK, writer
<1>3. CASE ReadWaits \/ Wake \/ ReadEnd \/ Sent \/ SpuriousWake \/ ClientGone
  <2>1. UNCHANGED <<pipe, writer, put, got>>
    BY <1>3 DEF ReadWaits, Wake, ReadEnd, Sent, SpuriousWake, ClientGone
  <2>2. WrittenInv'
    BY <2>1 DEF PipeInv, WrittenInv, Ending, writer, pipe
  <2>3. rpc' \in {"read", "blocked", "send", "eof", "gone"} /\ woken' \in BOOLEAN
    BY <1>1, <1>3 DEF ReadWaits, Wake, ReadEnd, Sent, SpuriousWake, ClientGone, TypeOK
  <2>4. NoLostWakeup' /\ (rpc = "eof" => done /\ buf = <<>>)'
    BY <1>3 DEF ReadWaits, Wake, ReadEnd, Sent, SpuriousWake, ClientGone, NoLostWakeup,
                pipe, PipeInv
  <2> QED
    BY <1>1, <2>1, <2>2, <2>3, <2>4 DEF PipeInv, TypeOK, Watermark, pipe, writer
<1> QED
  BY <1>2, <1>3 DEF ReaderStep

\* PipeInv is inductive: whatever the two threads and the client do, IOPipe
\* keeps the bytes in order and the stream thread writes its ending.
THEOREM PipeInvariance == Spec => []PipeInv
<1>1. PipeInv /\ UNCHANGED vars => PipeInv'
  BY DEF PipeInv, TypeOK, Watermark, NoLostWakeup, WrittenInv, Ending, vars, pipe, writer
<1>2. PipeInv /\ [Next]_vars => PipeInv'
  BY <1>1, WriterPreserves, ReaderPreserves DEF Next
<1> QED
  BY <1>2, InitPipe, PTL DEF Spec

\* The state of the pipe and of its two threads keeps its type.
THEOREM PipeTypeCorrect == Spec => []TypeOK
  BY PipeInvariance, PTL DEF PipeInv

\* A connection thread that waits without having been notified has nothing to
\* read: no write and no close is missed (IOPipe::read, write, close).
THEOREM WakeupsKept == Spec => []NoLostWakeup
  BY PipeInvariance, PTL DEF PipeInv

\* The memory of a pipe is bounded by MAX_BUFFER and one event, whether or not
\* the client reads.
THEOREM MemoryBounded == Spec => []Watermark
  BY PipeInvariance, PTL DEF PipeInv

\* A client that reads to the end has received the error, if there was one,
\* and the [DONE] marker, unless the pipe was aborted.
THEOREM EndComplete == Spec => []EofComplete
<1>1. PipeInv => EofComplete
  <2> SUFFICES ASSUME PipeInv, rpc = "eof", ~aborted
               PROVE  IsSuffix(Ending, got)
    BY DEF EofComplete
  <2>1. done /\ buf = <<>> /\ got \in Seq(Byte) /\ put = got \o buf
    BY DEF PipeInv, TypeOK
  <2>2. put = got
    BY <2>1, ConcatEmptySeq
  <2> QED
    BY <2>1, <2>2 DEF PipeInv, WrittenInv
<1> QED
  BY <1>1, PipeInvariance, PTL

\* Nothing enters an aborted pipe (IOPipe::write returns false at once).
THEOREM AbortFinal == Spec => AbortIsFinal
<1>1. ASSUME PipeInv, [Next]_vars, aborted
      PROVE  aborted' /\ put' = put
  <2> USE DEF Write, Refuses, pipe, writer
  <2>1. CASE WriterStep
    BY <1>1, <2>1 DEF WriterStep, WriteRole, WriteToken, StreamSucceeds, StreamFails,
                      WriteError, WriteMarker, Close
  <2>2. CASE ReaderStep \/ SpuriousWake \/ ClientGone \/ UNCHANGED vars
    BY <1>1, <2>2 DEF ReaderStep, ReadWaits, Wake, Read, ReadEnd, Sent, SpuriousWake,
                      ClientGone, vars
  <2> QED
    BY <1>1, <2>1, <2>2 DEF Next
<1>2. PipeInv /\ [Next]_vars => [aborted => aborted' /\ put' = put]_vars
  BY <1>1
<1> QED
  BY <1>2, PipeInvariance, PTL DEF Spec, AbortIsFinal

-----------------------------------------------------------------------------
(* The refinement of ByteStream. *)

\* The prefixes of ByteStream are those of IOPipe.
LEMMA SamePrefix == \A s, t : Stream!IsPrefix(s, t) <=> IsPrefix(s, t)
  BY DEF Stream!IsPrefix, IsPrefix

\* A write is a Send of the abstract stream, or is refused and changes nothing.
LEMMA WriteRefines ==
    ASSUME PipeInv, NEW e \in Event, Write(e)
    PROVE  Stream!Send \/ UNCHANGED Stream!vars
<1>1. /\ UNCHANGED <<done, rpc, got>>
      /\ put' = IF Refuses THEN put ELSE put \o Bytes(e)
  BY WriteLemma DEF Write
<1>2. IsPrefix(put, put \o Bytes(e))
  BY BytesLemma, PrefixAppend DEF PipeInv, TypeOK
<1>3. (rpc = "eof")' = (rpc = "eof")
  BY <1>1
<1>4. CASE Refuses
  BY <1>1, <1>3, <1>4 DEF Stream!vars
<1>5. CASE ~Refuses
  BY <1>1, <1>2, <1>3, <1>5, SamePrefix DEF Stream!Send, Refuses
<1> QED
  BY <1>4, <1>5

\* The pipe delivers the accepted bytes once, in their order, and the end of
\* the stream after the last of them, as ByteStream promises.
THEOREM StreamRefinement == Spec => ImplementsStream
<1>1. Init => Stream!Init
  BY DEF Init, Stream!Init
<1>2. ASSUME PipeInv, WriterStep
      PROVE  [Stream!Next]_(Stream!vars)
  <2>1. CASE WriteRole \/ WriteError \/ WriteMarker
    BY <1>2, <2>1, EventsLemma, WriteRefines
       DEF WriteRole, WriteError, WriteMarker, Stream!Next
  <2>2. CASE WriteToken
    <3>1. tokens + 1 \in 0 .. MaxTokens
      BY <1>2, <2>2, SizesAssumption, SMT DEF PipeInv, TypeOK, WriteToken
    <3> QED
      BY <1>2, <2>2, <3>1, EventsLemma, WriteRefines DEF WriteToken, Stream!Next
  <2>3. CASE StreamSucceeds \/ StreamFails
    BY <2>3 DEF StreamSucceeds, StreamFails, pipe, Stream!vars
  <2>4. CASE Close
    BY <2>4 DEF Close, Stream!Close, Stream!Next
  <2> QED
    BY <1>2, <2>1, <2>2, <2>3, <2>4 DEF WriterStep
<1>3. ASSUME PipeInv, ReaderStep \/ SpuriousWake \/ ClientGone
      PROVE  [Stream!Next]_(Stream!vars)
  <2>1. CASE Read
    <3>1. IsPrefix(got, got') /\ IsPrefix(got', put)
      BY <1>3, <2>1, ReadLemma
    <3>2. rpc # "eof" /\ rpc' # "eof" /\ UNCHANGED <<put, done>>
      BY <2>1 DEF Read
    <3> QED
      BY <3>1, <3>2, SamePrefix DEF Stream!Receive, Stream!Next
  <2>2. CASE ReadEnd
    <3>1. put = got
      BY <1>3, <2>2, ConcatEmptySeq DEF PipeInv, TypeOK, ReadEnd
    <3> QED
      BY <2>2, <3>1 DEF ReadEnd, pipe, Stream!End, Stream!Next
  <2>3. CASE ReadWaits \/ Wake \/ Sent \/ SpuriousWake \/ ClientGone
    BY <2>3 DEF ReadWaits, Wake, Sent, SpuriousWake, ClientGone, pipe, Stream!vars
  <2> QED
    BY <1>3, <2>1, <2>2, <2>3 DEF ReaderStep
<1>4. UNCHANGED vars => UNCHANGED Stream!vars
  BY DEF vars, pipe, Stream!vars
<1>5. PipeInv /\ [Next]_vars => [Stream!Next]_(Stream!vars)
  BY <1>2, <1>3, <1>4 DEF Next
<1> QED
  BY <1>1, <1>5, PipeInvariance, PTL DEF Spec, ImplementsStream, Stream!Spec

=============================================================================
