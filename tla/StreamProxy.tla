---------------------------- MODULE StreamProxy -----------------------------
(***************************************************************************)
(* stream_completion and stream_chat of RunnerManager                      *)
(* (src/src/core/runner_mgr.cpp): the HTTP client hands the body of the    *)
(* runner's response to stream_parse_chunk in chunks that end anywhere,    *)
(* which cuts it into lines and passes each token on.                      *)
(*                                                                         *)
(* A line has LineBytes bytes, of which the last is the newline.  The      *)
(* flags got_done and got_error are left out: the first is never read, and *)
(* when the second is set the receiver returns false, which the HTTP       *)
(* client reports as a failed connection before the flag would be read.    *)
(***************************************************************************)
EXTENDS TokenLines, SequencesExt

CONSTANTS
    LineBytes,  \* bytes of a line
    None        \* no result yet

VARIABLES
    wire,       \* the bytes the runner has sent
    ended,      \* the runner has closed the connection
    rcvd,       \* how many of these bytes were received
    leftover,   \* leftover: received bytes after the last line that was parsed
    passed,     \* history: the tokens that on_token has answered
    refused,    \* history: on_token has returned false
    fullText,   \* full_text
    spc,        \* where the thread is
    result      \* what the call returns

sender == <<wire, ended>>
proxy == <<rcvd, leftover, passed, refused, fullText, spc, result>>
vars == <<sender, proxy>>

ASSUME LineAssumption == LineBytes \in Nat \ {0}

\* A line that is no NDJSON of a runner, or an error line.
OtherLine == [kind |-> "other", text |-> <<>>]
Lines == {OtherLine} \cup {TokenLine(k) : k \in Tokens} \cup {FinalLine(s) : s \in Texts}

Byte == Lines \X (1 .. LineBytes)
Bytes(line) == [i \in 1 .. LineBytes |-> <<line, i>>]
Newline(b) == b[2] = LineBytes

Ok(s) == [kind |-> "ok", text |-> s]
Error == [kind |-> "error", text |-> <<>>]

TypeOK == /\ wire \in Seq(Byte)
          /\ ended \in BOOLEAN
          /\ rcvd \in 0 .. Len(wire)
          /\ leftover \in Seq(Byte)
          /\ passed \in Seq(Tokens)
          /\ refused \in BOOLEAN
          /\ fullText \in Texts
          /\ spc \in {"receive", "scan", "cancel", "end"}
          /\ result \in {None, Error} \cup {Ok(s) : s \in Texts}

InitProxy == /\ rcvd = 0
             /\ leftover = <<>>
             /\ passed = <<>>
             /\ refused = FALSE
             /\ fullText = <<>>
             /\ spc = "receive"
             /\ result = None

-----------------------------------------------------------------------------
(* The request. *)

\* A chunk of the body arrives.
Receive ==
    /\ spc = "receive"
    /\ \E n \in 1 .. Len(wire) - rcvd :
         /\ leftover' = leftover \o SubSeq(wire, rcvd + 1, rcvd + n)
         /\ rcvd' = rcvd + n
    /\ spc' = "scan"
    /\ UNCHANGED <<passed, refused, fullText, result>>

HasLine == \E i \in DOMAIN leftover : Newline(leftover[i])
LineEnd == CHOOSE i \in DOMAIN leftover :
             Newline(leftover[i]) /\ \A j \in 1 .. i - 1 : ~Newline(leftover[j])
FirstLine == leftover[LineEnd][1]
Parses == FirstLine # OtherLine /\ SubSeq(leftover, 1, LineEnd) = Bytes(FirstLine)
NextLine == spc = "scan" /\ HasLine /\ Parses
SkipLine == leftover' = SubSeq(leftover, LineEnd + 1, Len(leftover))

\* Faulty variant: the answer of on_token is ignored.
ScanTokenAnyway(goOn) ==
    /\ NextLine
    /\ FirstLine.kind = "token"
    /\ passed' = passed \o FirstLine.text
    /\ refused' = (refused \/ ~goOn)
    /\ SkipLine
    /\ UNCHANGED <<rcvd, fullText, spc, result>>

\* Faulty variant: only one line of each chunk is looked at.
ScanTokenOnce(goOn) ==
    /\ NextLine
    /\ FirstLine.kind = "token"
    /\ passed' = passed \o FirstLine.text
    /\ refused' = ~goOn
    /\ SkipLine
    /\ spc' = IF goOn THEN "receive" ELSE "cancel"
    /\ UNCHANGED <<rcvd, fullText, result>>

\* A token: on_token returns whether to go on.
ScanToken(goOn) ==
    /\ NextLine
    /\ FirstLine.kind = "token"
    /\ passed' = passed \o FirstLine.text
    /\ refused' = ~goOn
    /\ SkipLine
    /\ IF goOn THEN UNCHANGED spc ELSE spc' = "cancel"
    /\ UNCHANGED <<rcvd, fullText, result>>

\* on_token throws instead of returning.
ScanThrows ==
    /\ NextLine
    /\ FirstLine.kind = "token"
    /\ spc' = "cancel"
    /\ UNCHANGED <<rcvd, leftover, passed, refused, fullText, result>>

\* Faulty variant: the text is put together from the tokens.
ScanFinalTokens ==
    /\ NextLine
    /\ FirstLine.kind = "done"
    /\ fullText' = passed
    /\ SkipLine
    /\ UNCHANGED <<rcvd, passed, refused, spc, result>>

\* The final line repeats the text.
ScanFinal ==
    /\ NextLine
    /\ FirstLine.kind = "done"
    /\ fullText' = FirstLine.text
    /\ SkipLine
    /\ UNCHANGED <<rcvd, passed, refused, spc, result>>

\* Invalid NDJSON from runner.
ScanGarbage ==
    /\ spc = "scan"
    /\ HasLine
    /\ ~Parses
    /\ spc' = "cancel"
    /\ UNCHANGED <<rcvd, leftover, passed, refused, fullText, result>>

ScanEnds ==
    /\ spc = "scan"
    /\ ~HasLine
    /\ spc' = "receive"
    /\ UNCHANGED <<rcvd, leftover, passed, refused, fullText, result>>

Finish(r) == /\ result' = r
             /\ spc' = "end"
             /\ UNCHANGED <<rcvd, leftover, passed, refused, fullText>>

\* Faulty variant: what was not received when the connection ends is lost.
BodyEndsEarly == /\ spc = "receive"
                 /\ ended
                 /\ Finish(Ok(fullText))

\* The body has no length: the end of the connection is the end of the body,
\* and the call succeeds with the text it has.
BodyEnds == /\ spc = "receive"
            /\ ended
            /\ rcvd = Len(wire)
            /\ Finish(Ok(fullText))

\* The receiver returned false: the client closes the connection.
Cancelled == spc = "cancel" /\ Finish(Error)

\* The connection is refused or reset, a read times out, or the status is
\* not 200.
RequestFails == spc = "receive" /\ Finish(Error)

-----------------------------------------------------------------------------
(* The same response in a call that is not streamed: generate_completion   *)
(* and chat_completion wait for the whole body and hand it to parse_ndjson. *)

WholeLines == [i \in 1 .. Len(wire) \div LineBytes |-> wire[i * LineBytes][1]]
Cut == Len(wire) % LineBytes

\* A last line without its newline is a line of getline.
BodyLines == IF Cut > 0 /\ Cut = LineBytes - 1
             THEN Append(WholeLines, wire[Len(wire)][1]) ELSE WholeLines

Finals == {i \in DOMAIN BodyLines : BodyLines[i].kind = "done"}

\* What parse_ndjson makes of the body: the text of the last final line.  A
\* line that is cut off is invalid.
ParseNdjson == IF OtherLine \in ToSet(BodyLines) \/ Cut \in 1 .. LineBytes - 2
               THEN Error
               ELSE Ok(IF Finals = {} THEN <<>> ELSE BodyLines[Max(Finals)].text)

-----------------------------------------------------------------------------
(* The other end of the connection: it sends token lines and at most one   *)
(* final line, or something else if it is not a runner, possibly only a    *)
(* part of the last line, and closes the connection.                       *)

\* The lines that were sent completely.
Sent == {wire[i][1] : i \in {j \in DOMAIN wire : Newline(wire[j])}}
SentTokens == Sent \cap {TokenLine(k) : k \in Tokens}
SentFinal == \E line \in Sent : line.kind = "done"

NextLines ==
    LET k == Cardinality(SentTokens)
    IN  {OtherLine, FinalLine(FirstTokens(k)), FinalLine(What)}
           \cup (IF k < MaxTokens THEN {TokenLine(k + 1)} ELSE {})

Send == /\ ~ended
        /\ ~SentFinal
        /\ OtherLine \notin Sent
        /\ \E line \in NextLines : wire' = wire \o Bytes(line)
        /\ UNCHANGED ended

Hangup == /\ ~ended
          /\ ended' = TRUE
          /\ \/ UNCHANGED wire
             \/ /\ ~SentFinal /\ OtherLine \notin Sent
                /\ \E line \in NextLines, n \in 1 .. LineBytes - 1 :
                     wire' = wire \o SubSeq(Bytes(line), 1, n)

-----------------------------------------------------------------------------

Init == wire = <<>> /\ ended = FALSE /\ InitProxy

Request == \/ Receive
           \/ \E goOn \in BOOLEAN : ScanToken(goOn)
           \/ ScanThrows \/ ScanFinal \/ ScanEnds \/ ScanGarbage
           \/ BodyEnds \/ Cancelled \/ RequestFails

Next == \/ Request /\ UNCHANGED sender
        \/ (Send \/ Hangup) /\ UNCHANGED proxy

Spec == Init /\ [][Next]_vars

-----------------------------------------------------------------------------
(* Properties. *)

\* However the body is cut into chunks, whenever the parser waits for the next
\* one it has passed on exactly the tokens whose lines have arrived.
Arrived == {k \in Tokens : \E i \in 1 .. rcvd : wire[i] = <<TokenLine(k), LineBytes>>}
ChunkingIrrelevant == spc = "receive" => passed = FirstTokens(Cardinality(Arrived))

\* A call that succeeds has passed on every token that was sent, and its text
\* is the one of the final line if there was one.
SuccessIsComplete == result # None /\ result.kind = "ok" =>
    /\ passed = FirstTokens(Cardinality(SentTokens))
    /\ SentFinal => result.text \in {passed, What}

\* A streamed call and one that is not make the same text of the same body, if
\* the body ends with a line.  A body that is cut within a line is an error for
\* the latter only.
BufferedAgrees == result # None /\ result.kind = "ok" /\ Cut = 0 => ParseNdjson = result

\* Once on_token has refused a token, no other token is passed to it, and the
\* call fails.
RefusalIsFinal == [][refused => passed' = passed /\ result' \in {None, Error}]_vars

=============================================================================
