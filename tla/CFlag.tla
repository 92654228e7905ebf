------------------------------- MODULE CFlag -------------------------------
(***************************************************************************)
(* App::parse of the command line parser (src/include/cllama/util/         *)
(* cflag.hpp): it walks down the tree of commands, then reads options and  *)
(* positional arguments from left to right, and exits at the first error.  *)
(*                                                                         *)
(* An argument is a word, "--id", "--id=value" or "-id"; what else starts  *)
(* with a dash is a word.  What an argument looks like says nothing of the *)
(* value it may be: "-1" is "-id" where an option is expected, and a       *)
(* number where a value is.  A command is the sequence of the words that   *)
(* lead to it.  What is printed before an exit is left out.                *)
(***************************************************************************)
EXTENDS Naturals, Sequences, FiniteSetsExt

CONSTANTS
    Commands,      \* the commands
    Default,       \* the command that is meant if none is named
    Declarations,  \* the options that each command declares, in order
    Required,      \* how many positional arguments each command requires
    Words,         \* words
    LongNames, ShortNames,  \* names of options, given or only declared
    Assigned,      \* what may stand after "=", of any form
    Numbers,       \* the arguments and assigned values that std::stoi accepts
    MaxArgs,       \* the number of arguments
    None           \* no value, no name

\* The default command of main.cpp has no subcommands.
ASSUME CommandsAssumption ==
    /\ Commands \subseteq (Seq(STRING) \ {<<>>})
    /\ \A c \in Commands : Len(c) > 1 => SubSeq(c, 1, Len(c) - 1) \in Commands
    /\ Default \in Commands /\ \A w \in Words : Append(Default, w) \notin Commands

ASSUME OptionsAssumption ==
    /\ \A c \in Commands : /\ Len(Declarations[c]) \in Nat
                           /\ DOMAIN Declarations[c] = 1 .. Len(Declarations[c])
                           /\ Required[c] \in Nat
    /\ MaxArgs \in Nat

Word(w) == [form |-> "word", id |-> w, value |-> None]
Long(n, v) == [form |-> "long", id |-> n, value |-> v]
Short(n) == [form |-> "short", id |-> n, value |-> None]

Arguments == {Word(w) : w \in Words} \cup {Short(n) : n \in ShortNames}
                \cup {Long(n, v) : n \in LongNames, v \in Assigned \cup {None}}

IsHelp(a) == a \in {Long("help", None), Short("h")}

\* add_option and add_flag of "first" or "first,second", the names of the
\* option.  The long name is the first one even if only the second is long,
\* and a second long name is dropped.
Option(d) ==
    [lname |-> d.names[1],
     sname |-> IF Len(d.names) = 2 /\ \E i \in 1 .. 2 : d.names[i].form = "short"
               THEN d.names[CHOOSE i \in 1 .. 2 :
                       /\ d.names[i].form = "short"
                       /\ i = 2 => d.names[1].form # "short"].id
               ELSE None,
     type |-> d.type,
     required |-> d.required]

VARIABLES
    args,   \* args
    cmd,    \* cmd: the command so far
    idx,    \* idx: the next argument
    step,   \* which part of parse comes next
    vals,   \* the values of the options of the command
    words,  \* positional
    out     \* how parse ends

vars == <<args, cmd, idx, step, vals, words, out>>

Options(c) == [i \in DOMAIN Declarations[c] |-> Option(Declarations[c][i])]

Errors == {"unknown option", "no value", "invalid number", "missing argument",
           "missing option"}

Value == Arguments \cup Assigned \cup {None, Word("true")}

ASSUME NoneAssumption ==
    /\ None \notin Arguments \cup Assigned \cup {Word("true")} /\ None \notin Commands
    /\ None \notin Words \cup Errors \cup {"ok"}

TypeOK == /\ args \in Seq(Arguments)
          /\ cmd \in Commands \cup {None}
          /\ idx \in 1 .. Len(args) + 1
          /\ step \in {"command", "descend", "options", "end"}
          /\ vals \in Seq(Value)
          /\ words \in Seq({Word(w) : w \in Words})
          /\ out \in {None, "ok", "help"} \cup Errors

Init == /\ \E n \in 0 .. MaxArgs : args \in [1 .. n -> Arguments]
        /\ cmd = None
        /\ idx = 1
        /\ step = "command"
        /\ vals = <<>>
        /\ words = <<>>
        /\ out = None

-----------------------------------------------------------------------------

Here == args[idx]
More == idx <= Len(args)

End(o) == step' = "end" /\ out' = o

\* Without arguments the default command is returned as it is.
NoArguments == /\ step = "command"
               /\ ~More
               /\ cmd' = Default
               /\ End("ok")
               /\ UNCHANGED <<args, idx, vals, words>>

\* "help", "--help" or "-h" before any command.
GlobalHelp == /\ step = "command"
              /\ More
              /\ Here = Word("help") \/ IsHelp(Here)
              /\ End("help")
              /\ UNCHANGED <<args, cmd, idx, vals, words>>

Leads(c) == Here.form = "word" /\ c = Append(IF cmd = None THEN <<>> ELSE cmd, Here.id)

FindCommand ==
    /\ step = "command"
    /\ More
    /\ Here # Word("help") /\ ~IsHelp(Here)
    /\ \/ \E c \in Commands : Leads(c) /\ cmd' = c /\ idx' = idx + 1
       \/ /\ \A c \in Commands : ~Leads(c)
          /\ cmd' = Default
          /\ UNCHANGED idx
    /\ step' = "descend"
    /\ UNCHANGED <<args, vals, words, out>>

Descend == /\ step = "descend"
           /\ More
           /\ \E c \in Commands : Leads(c) /\ cmd' = c
           /\ idx' = idx + 1
           /\ UNCHANGED <<args, step, vals, words, out>>

\* "--help" or "-h" directly after the command.
CommandHelp == /\ step = "descend"
               /\ More
               /\ IsHelp(Here)
               /\ End("help")
               /\ UNCHANGED <<args, cmd, idx, vals, words>>

StartOptions ==
    /\ step = "descend"
    /\ More => ~IsHelp(Here) /\ \A c \in Commands : ~Leads(c)
    /\ step' = "options"
    /\ vals' = [i \in DOMAIN Options(cmd) |-> None]
    /\ UNCHANGED <<args, cmd, idx, words, out>>

-----------------------------------------------------------------------------
(* The loop over the options and positional arguments. *)

\* The options of command c that argument a names; the first one is meant.
Matches(c, a) == {i \in DOMAIN Options(c) :
    \/ a.form = "long" /\ Options(c)[i].lname = [form |-> "long", id |-> a.id]
    \/ a.form = "short" /\ Options(c)[i].sname = a.id}

Reading == step = "options" /\ More
Named == Matches(cmd, Here)
Opt == Options(cmd)[Min(Named)]

\* opt->val->set(raw)
Set(raw) ==
    IF Opt.type = "int" /\ raw \notin Numbers
    THEN End("invalid number") /\ UNCHANGED vals
    ELSE vals' = [vals EXCEPT ![Min(Named)] = raw] /\ UNCHANGED <<step, out>>

UnknownOption == /\ Reading
                 /\ Here.form # "word"
                 /\ Named = {}
                 /\ End("unknown option")
                 /\ UNCHANGED <<args, cmd, idx, vals, words>>

\* A flag is set, even by "--flag=false".
GiveFlag == /\ Reading
            /\ Named # {}
            /\ Opt.type = "flag"
            /\ Set(Word("true"))
            /\ idx' = idx + 1
            /\ UNCHANGED <<args, cmd, words>>

GiveAssigned == /\ Reading
                /\ Named # {}
                /\ Opt.type # "flag"
                /\ Here.value # None
                /\ Set(Here.value)
                /\ idx' = idx + 1
                /\ UNCHANGED <<args, cmd, words>>

\* Faulty variant: the value is not skipped.
GiveNextAgain == /\ Reading
                 /\ Named # {}
                 /\ Opt.type # "flag"
                 /\ Here.value = None
                 /\ idx < Len(args)
                 /\ Set(args[idx + 1])
                 /\ idx' = idx + 1
                 /\ UNCHANGED <<args, cmd, words>>

\* The next argument is the value, even if it looks like an option.
GiveNext == /\ Reading
            /\ Named # {}
            /\ Opt.type # "flag"
            /\ Here.value = None
            /\ idx < Len(args)
            /\ Set(args[idx + 1])
            /\ idx' = idx + 2
            /\ UNCHANGED <<args, cmd, words>>

NoValue == /\ Reading
           /\ Named # {}
           /\ Opt.type # "flag"
           /\ Here.value = None
           /\ idx = Len(args)
           /\ End("no value")
           /\ UNCHANGED <<args, cmd, idx, vals, words>>

Positional == /\ Reading
              /\ Here.form = "word"
              /\ words' = Append(words, Here)
              /\ idx' = idx + 1
              /\ UNCHANGED <<args, cmd, step, vals, out>>

\* Faulty variant: an option that was not given is not missed.
CheckArguments == /\ step = "options"
                  /\ ~More
                  /\ End(IF Len(words) < Required[cmd] THEN "missing argument" ELSE "ok")
                  /\ UNCHANGED <<args, cmd, idx, vals, words>>

\* Superfluous words are dropped.
Check == /\ step = "options"
         /\ ~More
         /\ End(IF Len(words) < Required[cmd] THEN "missing argument"
                ELSE IF \E i \in DOMAIN vals : Options(cmd)[i].required /\ vals[i] = None
                THEN "missing option"
                ELSE "ok")
         /\ UNCHANGED <<args, cmd, idx, vals, words>>

-----------------------------------------------------------------------------

Next == \/ NoArguments \/ GlobalHelp \/ FindCommand
        \/ Descend \/ CommandHelp \/ StartOptions
        \/ UnknownOption \/ GiveFlag \/ GiveAssigned \/ GiveNext \/ NoValue
        \/ Positional \/ Check

Spec == Init /\ [][Next]_vars

-----------------------------------------------------------------------------
(***************************************************************************)
(* The grammar, independently of the order in which parse reads: which     *)
(* arguments name the command, which are values of the option before them, *)
(* and what every option and positional argument is.                       *)
(***************************************************************************)
Path(k) == [i \in 1 .. k |-> args[i].id]
Depths == {k \in 1 .. Len(args) :
              Path(k) \in Commands /\ \A i \in 1 .. k : args[i].form = "word"}
Depth == IF Depths = {} THEN 0 ELSE Max(Depths)
Meant == IF Depth = 0 THEN Default ELSE Path(Depth)

Rest == Depth + 1 .. Len(args)
OptionAt(i) == Options(Meant)[Min(Matches(Meant, args[i]))]

\* Argument i, if it is not a value itself, is an option that takes the next.
Takes(i) == /\ Matches(Meant, args[i]) # {}
            /\ OptionAt(i).type # "flag"
            /\ args[i].value = None

\* The arguments that are values of the one before.
Taken == CHOOSE V \in SUBSET Rest :
    \A i \in Rest : i \in V <=> i - 1 \in Rest \ V /\ Takes(i - 1)

Free == Rest \ Taken
ValueAt(i) == IF OptionAt(i).type = "flag" THEN Word("true")
              ELSE IF Takes(i) THEN args[i + 1] ELSE args[i].value

Naming(o) == {i \in Free : Matches(Meant, args[i]) # {} /\ Min(Matches(Meant, args[i])) = o}

\* Argument i may be where it is, if it is not a value.
Fits(i) == /\ args[i].form = "word" \/ Matches(Meant, args[i]) # {}
           /\ Takes(i) => i < Len(args)
           /\ Matches(Meant, args[i]) # {} /\ OptionAt(i).type = "int" =>
                 ValueAt(i) \in Numbers

WellFormed ==
    /\ \A i \in Free : Fits(i)
    /\ Cardinality({i \in Free : args[i].form = "word"}) >= Required[Meant]
    /\ \A o \in DOMAIN Options(Meant) : Options(Meant)[o].required => Naming(o) # {}

(* Properties. *)

\* parse accepts only what the grammar allows, finds the command that is
\* meant, and gives each option the value of its last occurrence.
AcceptsAsMeant == out = "ok" /\ args # <<>> =>
    /\ WellFormed
    /\ cmd = Meant
    /\ \A o \in DOMAIN vals :
         vals[o] = IF Naming(o) = {} THEN None ELSE ValueAt(Max(Naming(o)))

\* parse rejects only what the grammar does not allow.
RejectsOnlyMalformed == out \in Errors => ~WellFormed

=============================================================================
