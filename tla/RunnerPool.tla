----------------------------- MODULE RunnerPool -----------------------------
(***************************************************************************)
(* What RunnerManager promises about the child processes of the server,    *)
(* without locks, polling, signals or ports: a pool of children, each of   *)
(* them registered under a runner name except for the one, if any, that is *)
(* still being started or given up.                                        *)
(***************************************************************************)
CONSTANTS
    Names,  \* runner names
    Pids,   \* process ids
    None    \* "no process"

VARIABLES
    reg,    \* reg[n]: the child registered under name n, or None
    kids    \* the children not reaped yet

vars == <<reg, kids>>

Adopted == {reg[n] : n \in Names} \ {None}
Unadopted == kids \ Adopted

Init == /\ reg = [n \in Names |-> None]
        /\ kids = {}

\* A child is forked; only one is being started at any time.
Birth(c) == /\ Unadopted = {}
            /\ c \notin kids
            /\ kids' = kids \cup {c}
            /\ UNCHANGED reg

\* The child being started is registered under a name that was free.
Adopt(n, c) == /\ c \in Unadopted
               /\ reg[n] = None
               /\ reg' = [reg EXCEPT ![n] = c]
               /\ UNCHANGED kids

\* The child being started is given up: reaped without being registered.
Bury(c) == /\ c \in Unadopted
           /\ kids' = kids \ {c}
           /\ UNCHANGED reg

\* A registered child is reaped and its name becomes free.
Retire(n) == /\ reg[n] # None
             /\ kids' = kids \ {reg[n]}
             /\ reg' = [reg EXCEPT ![n] = None]

Next == \/ \E c \in Pids : Birth(c) \/ Bury(c)
        \/ \E n \in Names, c \in Pids : Adopt(n, c)
        \/ \E n \in Names : Retire(n)

Spec == Init /\ [][Next]_vars

=============================================================================
