----------------------------- MODULE ByteStream -----------------------------
(***************************************************************************)
(* What IOPipe promises to the reader of a streamed response: the bytes    *)
(* that were accepted, in order, and the end of the stream only after the  *)
(* last of them.                                                           *)
(***************************************************************************)
EXTENDS SequencesExt

VARIABLES
    sent,    \* the bytes accepted so far
    rcvd,    \* those of them that were handed to the reader
    closed,  \* no byte will be accepted any more
    eof      \* the reader was told that the stream has ended

vars == <<sent, rcvd, closed, eof>>

Init == /\ sent = <<>>
        /\ rcvd = <<>>
        /\ closed = FALSE
        /\ eof = FALSE

Send == /\ ~closed
        /\ IsPrefix(sent, sent')
        /\ UNCHANGED <<rcvd, closed, eof>>

\* The reader gets some of the bytes it did not get yet.
Receive == /\ ~eof
           /\ IsPrefix(rcvd, rcvd')
           /\ IsPrefix(rcvd', sent)
           /\ UNCHANGED <<sent, closed, eof>>

Close == /\ closed' = TRUE
         /\ UNCHANGED <<sent, rcvd, eof>>

End == /\ closed
       /\ rcvd = sent
       /\ eof' = TRUE
       /\ UNCHANGED <<sent, rcvd, closed>>

Next == Send \/ Receive \/ Close \/ End

Spec == Init /\ [][Next]_vars

=============================================================================
