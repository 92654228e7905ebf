---------------------------- MODULE RunnerFaults ----------------------------
(***************************************************************************)
(* What may go wrong in the runner during a streamed response.             *)
(***************************************************************************)
EXTENDS TokenLines

CONSTANTS
    SplitTokens,  \* tokens that end within a character
    Throws,       \* may the generation throw an exception?
    Stops,        \* may the runner be told to terminate?
    Crashes       \* may it crash?

ASSUME FaultsAssumption == /\ SplitTokens \subseteq Tokens
                           /\ Throws \in BOOLEAN
                           /\ Stops \in BOOLEAN
                           /\ Crashes \in BOOLEAN

=============================================================================
