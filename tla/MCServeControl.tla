--------------------------- MODULE MCServeControl ---------------------------
(***************************************************************************)
(* Small instances of ServeControl.                                        *)
(***************************************************************************)
EXTENDS ServeControl, TLC

CONSTANTS n1, f1

Named == [name |-> n1, pidfile |-> None]
Given == [name |-> n1, pidfile |-> f1]

\* Servers with a name, and servers with neither name nor pidfile.
NamedOrNot == {Named, NoOptions}
\* Servers with a name only.
NamedLaunches == {Named}

\* A larger instance: servers with a name, of which some are given a pidfile as
\* well, up to the exchange of process ids (without liveness).
NamedOrGiven == {Named, Given}
Symmetry == Permutations(Pids)

=============================================================================
