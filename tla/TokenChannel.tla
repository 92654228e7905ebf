---------------------------- MODULE TokenChannel ----------------------------
(***************************************************************************)
(* What a runner promises about the response to a streamed completion: a   *)
(* line for each token, in order, and then at most one final line, which   *)
(* repeats the text of exactly these tokens or reports an exception.  The  *)
(* response may end before the final line.                                 *)
(***************************************************************************)
EXTENDS TokenLines

VARIABLES
    lines,  \* the lines of the response
    ended   \* the connection was closed

vars == <<lines, ended>>

\* The final line was written.
Final == lines # <<>> /\ lines[Len(lines)].kind = "done"

Init == lines = <<>> /\ ended = FALSE

PutToken == /\ ~ended
            /\ ~Final
            /\ lines' = Append(lines, TokenLine(Len(lines) + 1))
            /\ UNCHANGED ended

PutFinal == /\ ~ended
            /\ ~Final
            /\ \E s \in {What, FirstTokens(Len(lines))} :
                 lines' = Append(lines, FinalLine(s))
            /\ UNCHANGED ended

End == /\ ended' = TRUE
       /\ UNCHANGED lines

Next == PutToken \/ PutFinal \/ End

Spec == Init /\ [][Next]_vars

=============================================================================
