------------------------------ MODULE MCCFlag ------------------------------
(***************************************************************************)
(* A small instance of CFlag: a tree of two levels like that of main.cpp,  *)
(* with a required option, a number, a flag with both names, and an option *)
(* with two long names like "--impl,--router".  "-1" is a number and looks *)
(* like an option; "--models=--port" assigns what looks like one.          *)
(***************************************************************************)
EXTENDS CFlag

LongName(n) == [form |-> "long", id |-> n]
ShortName(n) == [form |-> "short", id |-> n]

MCCommands == {<<"_global">>, <<"serve">>, <<"serve", "start">>}
MCDefault == <<"_global">>

Declare(names, type, required) ==
    [names |-> names, type |-> type, required |-> required]

MCDeclarations == [c \in MCCommands |->
    IF Len(c) = 2
    THEN <<Declare(<<LongName("models")>>, "string", TRUE),
           Declare(<<LongName("port"), ShortName("p")>>, "int", FALSE),
           Declare(<<LongName("daemon"), ShortName("d")>>, "flag", FALSE)>>
    ELSE <<Declare(<<LongName("port"), LongName("models")>>, "int", FALSE)>>]

MCAssigned == {Word("8080"), Word("serve"), Short("1"), Long("port", None)}
MCNumbers == {Word("8080"), Short("1")}

MCRequired == [c \in MCCommands |-> IF c = <<"serve">> THEN 1 ELSE 0]

=============================================================================
