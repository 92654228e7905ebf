----------------------------- MODULE TokenLines -----------------------------
(***************************************************************************)
(* The lines of a streamed response of a runner.  A text is the sequence   *)
(* of the tokens it consists of; the tokens of a completion are numbered   *)
(* from 1.                                                                 *)
(***************************************************************************)
EXTENDS Naturals, Sequences

CONSTANT MaxTokens  \* max_tokens of the request

ASSUME MaxTokensAssumption == MaxTokens \in Nat

Tokens == 1 .. MaxTokens

FirstTokens(k) == [i \in 1 .. k |-> i]

\* The message of an exception, where the text of a completion is expected.
What == <<0>>

Texts == {What} \cup {FirstTokens(k) : k \in 0 .. MaxTokens}

TokenLine(k) == [kind |-> "token", text |-> <<k>>]
FinalLine(s) == [kind |-> "done", text |-> s]

=============================================================================
