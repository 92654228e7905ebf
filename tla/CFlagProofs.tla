---------------------------- MODULE CFlagProofs ----------------------------
(***************************************************************************)
(* Proofs about CFlag, for any commands, declarations and arguments: what  *)
(* parse has read so far is what the grammar says of the arguments before  *)
(* idx (ParseInv), so it accepts exactly what the grammar allows, and it   *)
(* prints help exactly if it is asked to (HelpInv).                        *)
(***************************************************************************)
EXTENDS CFlag, SequenceTheorems, FiniteSetTheorems, WellFoundedInduction, TLAPS

-----------------------------------------------------------------------------
(* The invariant. *)

AtCommand == step = "command" => cmd = None /\ idx = 1 /\ words = <<>>

\* The words before idx are a command, or none begins here.
AtDescend == step = "descend" =>
    /\ words = <<>>
    /\ idx = 1 => cmd = Default /\ Depths = {}
    /\ idx > 1 => idx - 1 \in Depths /\ cmd = Path(idx - 1)

Before(S) == {i \in S : i < idx}
WordsOf(S) == {i \in S : args[i].form = "word"}

\* The value that the occurrences S of an option give it.
LastValue(S) == IF S = {} THEN None ELSE ValueAt(Max(S))

\* The arguments before idx fit, and are in vals and words; the next one is
\* not a value.
AtOptions == step = "options" =>
    /\ cmd = Meant /\ idx > Depth
    /\ More => idx \in Free
    /\ DOMAIN vals = DOMAIN Options(Meant)
    /\ \A o \in DOMAIN vals : vals[o] = LastValue(Before(Naming(o)))
    /\ Len(words) = Cardinality(WordsOf(Before(Free)))
    /\ \A i \in Before(Free) : Fits(i)

ParseInv == /\ TypeOK
            /\ step # "end" => out = None
            /\ AtCommand /\ AtDescend /\ AtOptions
            /\ AcceptsAsMeant /\ RejectsOnlyMalformed

\* The first argument, or the first one after the command, asks for help.
AsksHelp == /\ args # <<>>
            /\ \/ args[1] = Word("help")
               \/ Depth < Len(args) /\ IsHelp(args[Depth + 1])

\* How parse must end, for every command line.
Decided == step = "end" =>
    /\ out = "help" <=> AsksHelp
    /\ out = "ok" <=> ~AsksHelp /\ (args = <<>> \/ WellFormed)

HelpInv == /\ step \in {"descend", "options"} => args # <<>> /\ args[1] # Word("help")
           /\ step = "options" => ~AsksHelp
           /\ Decided

-----------------------------------------------------------------------------
(* The grammar depends on the arguments only. *)

LEMMA SameGrammar ==
    ASSUME args' = args
    PROVE  /\ Depth' = Depth /\ Meant' = Meant /\ Free' = Free
           /\ \A k : Path(k)' = Path(k)
           /\ Depths' = Depths
           /\ \A i : Fits(i)' <=> Fits(i)
           /\ \A i : ValueAt(i)' = ValueAt(i)
           /\ \A o : Naming(o)' = Naming(o)
           /\ \A S : WordsOf(S)' = WordsOf(S)
           /\ WellFormed' <=> WellFormed
<1>1. \A k : Path(k)' = Path(k)
  BY DEF Path
<1>2. Depths' = Depths
  BY <1>1 DEF Depths
<1>3. Depth' = Depth /\ Meant' = Meant
  BY <1>1, <1>2 DEF Depth, Meant
<1>4. Rest' = Rest
  BY <1>3 DEF Rest
<1>5. \A i : OptionAt(i)' = OptionAt(i)
  BY <1>3 DEF OptionAt
<1>6. \A i : Takes(i)' <=> Takes(i)
  BY <1>3, <1>5 DEF Takes
<1>7. Taken' = Taken
  BY <1>4, <1>6 DEF Taken
<1>8. Free' = Free
  BY <1>4, <1>7 DEF Free
<1>9. \A i : ValueAt(i)' = ValueAt(i)
  BY <1>5, <1>6 DEF ValueAt
<1>10. \A i : Fits(i)' <=> Fits(i)
  BY <1>3, <1>5, <1>6, <1>9 DEF Fits
<1>11. \A o : Naming(o)' = Naming(o)
  BY <1>3, <1>8 DEF Naming
<1>12. \A S : WordsOf(S)' = WordsOf(S)
  BY DEF WordsOf
<1>13. WellFormed' <=> WellFormed
  BY <1>3, <1>8, <1>10, <1>11 DEF WellFormed
<1> QED
  BY <1>1, <1>2, <1>3, <1>8, <1>9, <1>10, <1>11, <1>12, <1>13

-----------------------------------------------------------------------------
(* Lemmas about sets of numbers. *)

LEMMA LeastElement ==
    ASSUME NEW T, T \subseteq Nat, T # {}
    PROVE  \E x \in T : \A y \in T : x <= y
<1> DEFINE R == {ss \in Nat \X Nat : ss[1] < ss[2]}
<1>1. IsWellFoundedOn(R, Nat)
  BY NatLessThanWellFounded DEF OpToRel
<1>2. <<1, 2>> \in R <=> 1 < 2
  OBVIOUS
<1>3. \A x, y \in Nat : y < x => <<y, x>> \in R
  OBVIOUS
<1>4. \E x \in T : \A y \in T : ~ (<<y, x>> \in R)
  <2> HIDE DEF R
  <2> QED
    BY <1>1, WFMin
<1> HIDE DEF R
<1>5. PICK x \in T : \A y \in T : ~ (<<y, x>> \in R)
  BY <1>4
<1>6. \A y \in T : ~(y < x)
  BY <1>3, <1>5
<1>7. x \in Nat /\ T \subseteq Nat
  OBVIOUS
<1>8. \A y \in T : x <= y
  BY <1>6, <1>7, SMT
<1> QED
  BY <1>8

LEMMA MinIsElement ==
    ASSUME NEW T, T \subseteq Nat, T # {}
    PROVE  Min(T) \in T
  BY LeastElement DEF Min

\* The greatest number is the one that no other exceeds.
LEMMA MaxIs ==
    ASSUME NEW T, T \subseteq Nat, NEW x \in T, \A y \in T : y <= x
    PROVE  Max(T) = x
<1>1. Max(T) \in T /\ \A y \in T : Max(T) >= y
  BY DEF Max
<1>2. Max(T) \in Nat /\ x \in Nat
  BY <1>1
<1>3. Max(T) <= x /\ Max(T) >= x
  BY <1>1
<1> HIDE DEF Max
<1> QED
  BY <1>2, <1>3, SMT

LEMMA MaxIsElement ==
    ASSUME NEW T, T \subseteq Nat, T # {}, NEW n \in Nat, \A y \in T : y <= n
    PROVE  Max(T) \in T
<1> DEFINE Bounds == {m \in Nat : \A y \in T : y <= m}
<1>1. PICK m \in Bounds : \A k \in Bounds : m <= k
  <2>1. Bounds \subseteq Nat /\ n \in Bounds
    OBVIOUS
  <2> HIDE DEF Bounds
  <2> QED
    BY <2>1, LeastElement
<1>2. m \in T
  <2> SUFFICES ASSUME m \notin T
               PROVE  FALSE
    OBVIOUS
  <2>1. PICK y \in T : y <= m
    BY <1>1
  <2>2. m \in Nat /\ m # 0
    BY <1>1, <2>1
  <2>3. \A z \in T : z <= m - 1
    BY <1>1, <2>2
  <2>4. m - 1 \in Bounds
    BY <2>2, <2>3
  <2>5. m <= m - 1
    BY <1>1, <2>4
  <2> QED
    BY <2>2, <2>5
<1>3. Max(T) = m
  BY <1>1, <1>2, MaxIs
<1> QED
  BY <1>2, <1>3

-----------------------------------------------------------------------------
(* The command that is meant. *)

\* The words before a word of a command are a command as well.
LEMMA DepthsClosed ==
    ASSUME args \in Seq(Arguments), NEW k \in Depths, k # 1
    PROVE  k - 1 \in Depths
<1>1. k \in 1 .. Len(args) /\ Path(k) \in Commands /\ \A i \in 1 .. k : args[i].form = "word"
  BY DEF Depths
<1>2. Len(args) \in Nat /\ k \in Nat /\ k > 1
  BY <1>1, LenProperties
<1>3. Path(k) \in Seq(STRING) /\ DOMAIN Path(k) = 1 .. k
  BY <1>1, CommandsAssumption DEF Path
<1>4. Len(Path(k)) = k
  BY <1>2, <1>3, LenProperties
<1>5. SubSeq(Path(k), 1, k - 1) \in Commands
  BY <1>1, <1>2, <1>4, CommandsAssumption
<1>6. SubSeq(Path(k), 1, k - 1) = Path(k - 1)
  <2>1. SubSeq(Path(k), 1, k - 1) = [i \in 1 .. k - 1 |-> Path(k)[i]]
    BY <1>2, <1>3, <1>4, SubSeqRestrict
  <2> QED
    BY <1>2, <2>1 DEF Path
<1>7. k - 1 \in 1 .. Len(args) /\ \A i \in 1 .. k - 1 : i \in 1 .. k
  BY <1>1, <1>2
<1> QED
  BY <1>1, <1>5, <1>6, <1>7 DEF Depths

\* The command ends where the next word does not lead on.
LEMMA DepthIs ==
    ASSUME args \in Seq(Arguments), NEW n \in Nat, n + 1 \notin Depths, n # 0 => n \in Depths
    PROVE  Depth = n /\ (n = 0 => Depths = {})
<1>1. Len(args) \in Nat /\ Depths \subseteq 1 .. Len(args) /\ Depths \subseteq Nat
  BY LenProperties DEF Depths
<1> DEFINE Beyond == {k \in Depths : k > n}
<1>2. Beyond = {}
  <2> SUFFICES ASSUME Beyond # {}
               PROVE  FALSE
    OBVIOUS
  <2>1. PICK k \in Beyond : \A j \in Beyond : k <= j
    <3>1. Beyond \subseteq Nat
      BY <1>1
    <3> HIDE DEF Beyond
    <3> QED
      BY <3>1, LeastElement
  <2>2. k \in Depths /\ k \in Nat /\ k > n /\ k # n + 1 /\ k # 1
    BY <1>1, <2>1
  <2>3. k - 1 \in Depths
    BY <2>2, DepthsClosed
  <2>4. k - 1 \in Beyond
    BY <2>2, <2>3
  <2> QED
    BY <2>1, <2>2, <2>4
<1>3. CASE n = 0
  <2>1. Depths = {}
    BY <1>1, <1>2, <1>3
  <2> QED
    BY <1>3, <2>1 DEF Depth
<1>4. CASE n # 0
  <2>1. n \in Depths /\ \A k \in Depths : k <= n
    BY <1>1, <1>2, <1>4
  <2> QED
    BY <1>1, <1>4, <2>1, MaxIs DEF Depth
<1> QED
  BY <1>3, <1>4

-----------------------------------------------------------------------------
(* The arguments that are values. *)

\* The rule for argument i, if V are the values.
Rule(V, i) == i \in V <=> i - 1 \in Rest \ V /\ Takes(i - 1)

LEMMA TakenLemma ==
    ASSUME args \in Seq(Arguments), Depth \in Nat
    PROVE  Taken \subseteq Rest /\ \A i \in Rest : Rule(Taken, i)
<1>1. Len(args) \in Nat /\ Rest = Depth + 1 .. Len(args) /\ Rest \subseteq Nat \ {0}
  BY LenProperties DEF Rest
<1> DEFINE Good(n) == \E V \in SUBSET Rest : \A i \in Rest : i <= n => Rule(V, i)
           Bad == {n \in Nat : ~Good(n)}
<1>2. Bad = {}
  <2> SUFFICES ASSUME Bad # {}
               PROVE  FALSE
    OBVIOUS
  <2>1. PICK n \in Bad : \A m \in Bad : n <= m
    <3>1. Bad \subseteq Nat
      OBVIOUS
    <3> HIDE DEF Bad
    <3> QED
      BY <3>1, LeastElement
  <2>2. n \in Nat /\ ~Good(n)
    BY <2>1
  <2>3. n # 0
    <3>1. {} \in SUBSET Rest /\ \A i \in Rest : ~(i <= 0)
      BY <1>1
    <3>2. Good(0)
      BY <3>1
    <3> QED
      BY <2>2, <3>2
  <2>4. Good(n - 1)
    <3>1. n - 1 \in Nat /\ n - 1 \notin Bad
      BY <2>1, <2>2, <2>3
    <3> QED
      BY <3>1
  <2>5. PICK V \in SUBSET Rest : \A i \in Rest : i <= n - 1 => Rule(V, i)
    BY <2>4
  <2> DEFINE W == {i \in Rest : IF i = n THEN i - 1 \in Rest \ V /\ Takes(i - 1) ELSE i \in V}
  <2>6. \A i \in Rest : i <= n => Rule(W, i)
    <3> SUFFICES ASSUME NEW i \in Rest, i <= n
                 PROVE  Rule(W, i)
      OBVIOUS
    <3>1. i \in Nat /\ i - 1 # n
      BY <1>1, <2>2
    <3>2. i - 1 \in Rest \ W <=> i - 1 \in Rest \ V
      BY <3>1
    <3>3. CASE i = n
      BY <3>2, <3>3 DEF Rule
    <3>4. CASE i # n
      <4>1. Rule(V, i)
        BY <2>2, <2>5, <3>1, <3>4
      <4> QED
        BY <3>2, <3>4, <4>1 DEF Rule
    <3> QED
      BY <3>3, <3>4
  <2>7. W \in SUBSET Rest
    OBVIOUS
  <2> HIDE DEF W
  <2> QED
    BY <2>2, <2>6, <2>7
<1>3. \E V \in SUBSET Rest : \A i \in Rest : Rule(V, i)
  <2>1. Good(Len(args))
    BY <1>1, <1>2
  <2> QED
    BY <1>1, <2>1
<1> QED
  BY <1>3, Zenon DEF Taken, Rule

LEMMA DepthType ==
    ASSUME args \in Seq(Arguments)
    PROVE  /\ Len(args) \in Nat /\ Depth \in 0 .. Len(args) /\ Meant \in Commands
           /\ Rest = Depth + 1 .. Len(args)
           /\ Free \subseteq Rest
           /\ \A i \in Rest : i \in Free <=> i \notin Taken
<1>1. Len(args) \in Nat /\ Depths \subseteq 1 .. Len(args) /\ Depths \subseteq Nat
  BY LenProperties DEF Depths
<1>2. CASE Depths = {}
  <2>1. Depth = 0 /\ Meant = Default
    BY <1>2 DEF Depth, Meant
  <2> QED
    BY <1>1, <2>1, CommandsAssumption DEF Rest, Free
<1>3. CASE Depths # {}
  <2>1. Max(Depths) \in Depths
    <3>1. \A k \in Depths : k <= Len(args)
      BY <1>1
    <3> QED
      BY <1>1, <1>3, <3>1, MaxIsElement
  <2>2. Depth \in Depths /\ Depth # 0
    <3>1. Depth = Max(Depths)
      BY <1>3 DEF Depth
    <3> QED
      BY <1>1, <2>1, <3>1
  <2>3. Path(Depth) \in Commands
    BY <2>2 DEF Depths
  <2> QED
    BY <1>1, <2>2, <2>3 DEF Meant, Rest, Free
<1> QED
  BY <1>2, <1>3

\* Directly after the command comes no value.
LEMMA FirstIsFree ==
    ASSUME args \in Seq(Arguments), Depth + 1 <= Len(args)
    PROVE  Depth + 1 \in Free
<1>1. Depth + 1 \in Rest /\ Depth + 1 - 1 \notin Rest
  BY DepthType
<1>2. Rule(Taken, Depth + 1)
  BY <1>1, DepthType, TakenLemma
<1> QED
  BY <1>1, <1>2, DepthType DEF Rule

\* After an argument that takes no value comes no value, and after one that
\* takes one comes one value.
LEMMA NextIsFree ==
    ASSUME args \in Seq(Arguments), NEW i \in Free
    PROVE  /\ ~Takes(i) /\ i + 1 <= Len(args) => i + 1 \in Free
           /\ Takes(i) /\ i < Len(args) => i + 1 \notin Free
           /\ Takes(i) /\ i + 2 <= Len(args) => i + 2 \in Free
<1>1. i \in Rest \ Taken /\ i \in Nat /\ Len(args) \in Nat /\ Depth \in Nat
  BY DepthType
<1>2. \A j \in Rest, k \in Nat : k = j - 1 => (j \in Taken <=> k \in Rest \ Taken /\ Takes(k))
  <2>1. \A j \in Rest : Rule(Taken, j)
    BY DepthType, TakenLemma
  <2> QED
    BY <2>1, Zenon DEF Rule
<1>3. ASSUME i + 1 <= Len(args)
      PROVE  i + 1 \in Free <=> ~Takes(i)
  <2>1. i + 1 \in Rest /\ i = (i + 1) - 1
    BY <1>1, <1>3, DepthType
  <2>2. i + 1 \in Taken <=> i \in Rest \ Taken /\ Takes(i)
    BY <1>1, <1>2, <2>1
  <2> QED
    BY <1>1, <2>1, <2>2, DepthType
<1>4. ASSUME i + 2 <= Len(args), Takes(i)
      PROVE  i + 2 \in Free
  <2>1. /\ i + 2 \in Rest /\ i + 1 = (i + 2) - 1
        /\ i + 1 \in Nat /\ i + 1 \notin Free /\ i + 1 \in Rest
    BY <1>1, <1>3, <1>4, DepthType
  <2>2. i + 2 \in Taken <=> i + 1 \in Rest \ Taken /\ Takes(i + 1)
    BY <1>1, <1>2, <2>1
  <2> QED
    BY <2>1, <2>2, DepthType
<1> QED
  BY <1>1, <1>3, <1>4

-----------------------------------------------------------------------------
(* The options. *)

\* What an argument can be.
LEMMA ArgumentLemma ==
    ASSUME NEW a \in Arguments
    PROVE  /\ a.form \in {"word", "long", "short"}
           /\ a.value \in Assigned \cup {None}
           /\ a.form = "word" => /\ a.value = None /\ a.id \in Words
                                 /\ a \in {Word(w) : w \in Words}
           /\ a.value # None => a.value \in Assigned
  BY DEF Arguments, Word, Long, Short

LEMMA MatchesLemma ==
    ASSUME NEW c \in Commands, NEW a
    PROVE  /\ DOMAIN Options(c) = 1 .. Len(Declarations[c]) /\ Len(Declarations[c]) \in Nat
           /\ Matches(c, a) \subseteq DOMAIN Options(c)
           /\ Matches(c, a) # {} => Min(Matches(c, a)) \in DOMAIN Options(c)
           /\ a.form = "word" => Matches(c, a) = {}
<1>1. DOMAIN Options(c) = 1 .. Len(Declarations[c]) /\ Len(Declarations[c]) \in Nat
  BY OptionsAssumption DEF Options
<1>2. Matches(c, a) \subseteq DOMAIN Options(c)
  BY DEF Matches
<1>3. Matches(c, a) # {} => Min(Matches(c, a)) \in Matches(c, a)
  BY <1>1, <1>2, MinIsElement
<1>4. a.form = "word" => Matches(c, a) = {}
  BY DEF Matches
<1> QED
  BY <1>1, <1>2, <1>3, <1>4

\* A value that an option gets is not the lack of one.
LEMMA ValueLemma ==
    ASSUME args \in Seq(Arguments), NEW i \in Free, Takes(i) => i < Len(args),
           Matches(Meant, args[i]) # {}
    PROVE  ValueAt(i) \in Value \ {None}
<1>1. i \in 1 .. Len(args) /\ args[i] \in Arguments
  BY DepthType, ElementOfSeq
<1>2. CASE OptionAt(i).type = "flag"
  BY <1>2, NoneAssumption DEF ValueAt, Value
<1>3. CASE OptionAt(i).type # "flag" /\ Takes(i)
  <2>1. i + 1 \in 1 .. Len(args)
    BY <1>1, <1>3, DepthType
  <2>2. args[i + 1] \in Arguments
    BY <2>1, ElementOfSeq
  <2> QED
    BY <1>3, <2>2, NoneAssumption DEF ValueAt, Value
<1>4. CASE OptionAt(i).type # "flag" /\ ~Takes(i)
  <2>1. args[i].value # None
    BY <1>4 DEF Takes
  <2>2. args[i].value \in Assigned
    BY <1>1, <2>1, ArgumentLemma
  <2> QED
    BY <1>4, <2>2, NoneAssumption DEF ValueAt, Value
<1> QED
  BY <1>2, <1>3, <1>4

-----------------------------------------------------------------------------
(* The steps that find the command. *)

LEMMA InitParse == Init => ParseInv
<1> SUFFICES ASSUME Init
             PROVE  ParseInv
  OBVIOUS
<1>1. PICK n \in 0 .. MaxArgs : args \in [1 .. n -> Arguments]
  BY DEF Init
<1>2. args \in Seq(Arguments) /\ Len(args) \in Nat
  BY <1>1, OptionsAssumption, SeqDef, LenProperties
<1>3. TypeOK
  BY <1>2, EmptySeq DEF Init, TypeOK
<1> QED
  BY <1>3, NoneAssumption
     DEF Init, ParseInv, AtCommand, AtDescend, AtOptions, AcceptsAsMeant, RejectsOnlyMalformed

\* While parse goes on, and after help, it has accepted and rejected nothing.
LEMMA NoVerdict ==
    ASSUME out' \in {None, "help"}
    PROVE  AcceptsAsMeant' /\ RejectsOnlyMalformed'
<1>1. out' # "ok" /\ out' \notin Errors
  BY NoneAssumption DEF Errors
<1> QED
  BY <1>1 DEF AcceptsAsMeant, RejectsOnlyMalformed

LEMMA NoArgumentsKeeps == ParseInv /\ NoArguments => ParseInv'
<1> SUFFICES ASSUME ParseInv, NoArguments
             PROVE  ParseInv'
  OBVIOUS
<1>1. /\ cmd' = Default /\ step' = "end" /\ out' = "ok"
      /\ UNCHANGED <<args, idx, vals, words>>
      /\ idx = 1 /\ ~(idx <= Len(args)) /\ args \in Seq(Arguments)
  BY DEF NoArguments, End, ParseInv, AtCommand, More, TypeOK
<1>2. args' = <<>>
  BY <1>1, LenProperties, EmptySeq
<1>3. TypeOK'
  BY <1>1, CommandsAssumption DEF ParseInv, TypeOK
<1>4. RejectsOnlyMalformed'
  BY <1>1 DEF RejectsOnlyMalformed, Errors
<1> QED
  BY <1>1, <1>2, <1>3, <1>4 DEF ParseInv, AtCommand, AtDescend, AtOptions, AcceptsAsMeant

LEMMA HelpKeeps == ParseInv /\ (GlobalHelp \/ CommandHelp) => ParseInv'
<1> SUFFICES ASSUME ParseInv, GlobalHelp \/ CommandHelp
             PROVE  ParseInv'
  OBVIOUS
<1>1. step' = "end" /\ out' = "help" /\ UNCHANGED <<args, cmd, idx, vals, words>>
  BY DEF GlobalHelp, CommandHelp, End
<1>2. TypeOK'
  BY <1>1 DEF ParseInv, TypeOK
<1> QED
  BY <1>1, <1>2, NoVerdict DEF ParseInv, AtCommand, AtDescend, AtOptions

\* A word that leads to a command is the next one of its path.
LEMMA LeadsLemma ==
    ASSUME args \in Seq(Arguments), idx \in 1 .. Len(args), NEW c \in Commands,
           idx = 1 => cmd = None,
           idx > 1 => idx - 1 \in Depths /\ cmd = Path(idx - 1)
    PROVE  /\ Leads(c) => idx \in Depths /\ c = Path(idx)
           /\ idx \in Depths => Leads(Path(idx)) /\ Path(idx) \in Commands
<1>1. idx \in Nat /\ Here \in Arguments /\ Here = args[idx]
  BY ElementOfSeq, LenProperties DEF Here
<1> DEFINE before == IF cmd = None THEN <<>> ELSE cmd
<1>2. before = Path(idx - 1)
  <2>1. CASE idx = 1
    BY <2>1 DEF Path
  <2>2. CASE idx > 1
    <3>1. cmd = Path(idx - 1) /\ Path(idx - 1) \in Commands
      BY <2>2 DEF Depths
    <3> QED
      BY <3>1, NoneAssumption
  <2> QED
    BY <1>1, <2>1, <2>2
<1>3. Append(before, Here.id) = Path(idx)
  <2> DEFINE Ids == {args[i].id : i \in 1 .. Len(args)}
  <2>1. Path(idx - 1) \in Seq(Ids) /\ Len(Path(idx - 1)) = idx - 1 /\ Here.id \in Ids
    <3>1. \A i \in 1 .. idx - 1 : i \in 1 .. Len(args)
      BY <1>1, LenProperties
    <3>2. Path(idx - 1) \in [1 .. idx - 1 -> Ids]
      BY <3>1 DEF Path
    <3>3. idx - 1 \in Nat
      BY <1>1
    <3>4. Path(idx - 1) \in Seq(Ids)
      <4> HIDE DEF Ids
      <4> QED
        BY <3>2, <3>3, SeqDef
    <3>5. Len(Path(idx - 1)) = idx - 1
      <4>1. DOMAIN Path(idx - 1) = 1 .. Len(Path(idx - 1)) /\ Len(Path(idx - 1)) \in Nat
        BY <3>4, LenProperties
      <4>2. DOMAIN Path(idx - 1) = 1 .. idx - 1
        BY <3>2
      <4> QED
        BY <3>3, <4>1, <4>2
    <3> QED
      BY <1>1, <3>4, <3>5
  <2> HIDE DEF Ids
  <2>2. /\ Append(Path(idx - 1), Here.id) \in Seq(Ids)
        /\ Len(Append(Path(idx - 1), Here.id)) = idx
        /\ \A i \in 1 .. idx - 1 : Append(Path(idx - 1), Here.id)[i] = Path(idx - 1)[i]
        /\ Append(Path(idx - 1), Here.id)[idx] = Here.id
    BY <1>1, <2>1, AppendProperties
  <2>3. \A i \in 1 .. idx : Append(Path(idx - 1), Here.id)[i] = args[i].id
    BY <1>1, <2>2 DEF Path
  <2>4. Append(Path(idx - 1), Here.id) = [i \in 1 .. idx |-> args[i].id]
    BY <2>2, <2>3, LenProperties
  <2> QED
    BY <1>2, <2>4 DEF Path
<1>4. Leads(c) <=> Here.form = "word" /\ c = Path(idx)
  BY <1>3 DEF Leads
<1>5. Leads(Path(idx)) <=> Here.form = "word"
  BY <1>3 DEF Leads
<1>6. \A i \in 1 .. idx - 1 : args[i].form = "word"
  BY <1>1 DEF Depths
<1>7. idx \in Depths <=> Path(idx) \in Commands /\ Here.form = "word"
  <2>1. \A i \in 1 .. idx : i \in 1 .. idx - 1 \/ i = idx
    BY <1>1
  <2>2. idx \in 1 .. idx
    BY <1>1
  <2> QED
    BY <1>1, <1>6, <2>1, <2>2 DEF Depths
<1> QED
  BY <1>4, <1>5, <1>7

LEMMA FindCommandKeeps == ParseInv /\ FindCommand => ParseInv'
<1> SUFFICES ASSUME ParseInv, FindCommand
             PROVE  ParseInv'
  OBVIOUS
<1>1. /\ args \in Seq(Arguments) /\ idx = 1 /\ cmd = None /\ words = <<>> /\ out = None
      /\ step' = "descend" /\ UNCHANGED <<args, vals, words, out>>
      /\ idx \in 1 .. Len(args)
  BY LenProperties DEF FindCommand, More, ParseInv, AtCommand, TypeOK
<1>2. AcceptsAsMeant' /\ RejectsOnlyMalformed'
  BY <1>1, NoVerdict
<1>3. Depths' = Depths /\ \A k : Path(k)' = Path(k)
  BY <1>1, SameGrammar
<1>4. \A c \in Commands : /\ Leads(c) => 1 \in Depths /\ c = Path(1)
                          /\ 1 \in Depths => Leads(Path(1)) /\ Path(1) \in Commands
  BY <1>1, LeadsLemma
<1>5. CASE \E c \in Commands : Leads(c) /\ cmd' = c /\ idx' = idx + 1
  <2>1. idx' = 2 /\ 1 \in Depths /\ cmd' = Path(1) /\ cmd' \in Commands
    BY <1>1, <1>4, <1>5
  <2>2. AtDescend'
    BY <1>1, <1>3, <2>1 DEF AtDescend
  <2>3. TypeOK'
    BY <1>1, <2>1, LenProperties DEF ParseInv, TypeOK
  <2> QED
    BY <1>1, <1>2, <2>2, <2>3 DEF ParseInv, AtCommand, AtOptions
<1>6. CASE (\A c \in Commands : ~Leads(c)) /\ cmd' = Default /\ UNCHANGED idx
  <2>1. 0 + 1 \notin Depths
    BY <1>4, <1>6, CommandsAssumption
  <2>2. Depths = {}
    BY <1>1, <2>1, DepthIs
  <2>3. AtDescend'
    BY <1>1, <1>3, <1>6, <2>2 DEF AtDescend
  <2>4. TypeOK'
    BY <1>1, <1>6, CommandsAssumption DEF ParseInv, TypeOK
  <2> QED
    BY <1>1, <1>2, <2>3, <2>4 DEF ParseInv, AtCommand, AtOptions
<1> QED
  BY <1>5, <1>6 DEF FindCommand

\* The default command has no subcommands.
LEMMA NoSubcommand ==
    ASSUME TypeOK, idx \in 1 .. Len(args), cmd = Default, NEW c \in Commands
    PROVE  ~Leads(c)
<1> SUFFICES ASSUME Leads(c)
             PROVE  FALSE
  OBVIOUS
<1>1. Here \in Arguments /\ Here.form = "word"
  BY ElementOfSeq DEF Here, Leads, TypeOK
<1>2. Here.id \in Words
  BY <1>1, ArgumentLemma
<1>3. cmd # None /\ c = Append(Default, Here.id)
  BY CommandsAssumption, NoneAssumption DEF Leads
<1> QED
  BY <1>2, <1>3, CommandsAssumption

LEMMA DescendKeeps == ParseInv /\ Descend => ParseInv'
<1> SUFFICES ASSUME ParseInv, Descend
             PROVE  ParseInv'
  OBVIOUS
<1>1. /\ args \in Seq(Arguments) /\ words = <<>> /\ out = None /\ TypeOK
      /\ idx' = idx + 1 /\ UNCHANGED <<args, step, vals, words, out>> /\ step = "descend"
      /\ idx \in 1 .. Len(args)
      /\ idx = 1 => cmd = Default /\ Depths = {}
      /\ idx > 1 => idx - 1 \in Depths /\ cmd = Path(idx - 1)
  BY LenProperties DEF Descend, More, ParseInv, AtDescend, TypeOK
<1>2. PICK c \in Commands : Leads(c) /\ cmd' = c
  BY DEF Descend
<1>3. idx > 1
  BY <1>1, <1>2, NoSubcommand
<1>4. idx \in Depths /\ cmd' = Path(idx) /\ cmd' \in Commands
  BY <1>1, <1>2, <1>3, LeadsLemma
<1>5. Depths' = Depths /\ \A k : Path(k)' = Path(k)
  BY <1>1, SameGrammar
<1>6. idx' > 1 /\ idx' - 1 = idx /\ idx' \in 1 .. Len(args) + 1
  BY <1>1, LenProperties
<1>7. AtDescend'
  BY <1>1, <1>4, <1>5, <1>6 DEF AtDescend
<1>8. TypeOK'
  BY <1>1, <1>4, <1>6 DEF TypeOK
<1> QED
  BY <1>1, <1>7, <1>8, NoVerdict DEF ParseInv, AtCommand, AtOptions

\* Where no command leads on, the command that is meant is found.
LEMMA CommandFound ==
    ASSUME args \in Seq(Arguments), idx \in 1 .. Len(args) + 1,
           idx = 1 => cmd = Default /\ Depths = {},
           idx > 1 => idx - 1 \in Depths /\ cmd = Path(idx - 1),
           idx \notin Depths
    PROVE  Depth = idx - 1 /\ cmd = Meant
<1>1. Len(args) \in Nat
  BY LenProperties
<1>2. CASE idx = 1
  BY <1>2 DEF Depth, Meant
<1>3. CASE idx > 1
  <2>1. idx - 1 \in Nat /\ (idx - 1) + 1 = idx /\ idx - 1 \in Depths
    BY <1>1, <1>3
  <2>2. Depth = idx - 1
    BY <2>1, DepthIs
  <2> QED
    BY <1>1, <1>3, <2>2 DEF Meant
<1> QED
  BY <1>1, <1>2, <1>3

\* StartOptions finds no command for argument idx.
LEMMA NoneLeads ==
    ASSUME ParseInv, StartOptions
    PROVE  idx \notin Depths
<1> SUFFICES ASSUME idx \in Depths
             PROVE  FALSE
  OBVIOUS
<1>1. /\ args \in Seq(Arguments)
      /\ idx = 1 => Depths = {}
      /\ idx > 1 => idx - 1 \in Depths /\ cmd = Path(idx - 1)
  BY DEF StartOptions, ParseInv, AtDescend, TypeOK
<1>2. idx \in 1 .. Len(args) /\ Path(idx) \in Commands /\ idx # 1
  BY <1>1 DEF Depths
<1>3. Leads(Path(idx))
  BY <1>1, <1>2, LeadsLemma
<1>4. More
  BY <1>1, <1>2, LenProperties DEF More
<1> QED
  BY <1>2, <1>3, <1>4 DEF StartOptions

LEMMA StartOptionsKeeps == ParseInv /\ StartOptions => ParseInv'
<1> SUFFICES ASSUME ParseInv, StartOptions
             PROVE  ParseInv'
  OBVIOUS
<1>1. /\ args \in Seq(Arguments) /\ words = <<>> /\ out = None /\ TypeOK
      /\ step' = "options" /\ vals' = [i \in DOMAIN Options(cmd) |-> None]
      /\ UNCHANGED <<args, cmd, idx, words, out>> /\ step = "descend"
      /\ idx \in 1 .. Len(args) + 1 /\ Len(args) \in Nat
      /\ idx = 1 => cmd = Default /\ Depths = {}
      /\ idx > 1 => idx - 1 \in Depths /\ cmd = Path(idx - 1)
  BY LenProperties DEF StartOptions, ParseInv, AtDescend, TypeOK
<1>2. Depth = idx - 1 /\ cmd = Meant
  BY <1>1, NoneLeads, CommandFound
<1>3. More => idx \in Free
  BY <1>1, <1>2, FirstIsFree DEF More
<1>4. \A i \in Free : ~(i < idx)
  BY <1>1, <1>2, DepthType
<1>5. Before(Free) = {} /\ \A o : Before(Naming(o)) = {}
  BY <1>4 DEF Before, Naming
<1>6. WordsOf(Before(Free)) = {}
  BY <1>5 DEF WordsOf
<1>7. AtOptions'
  <2>1. /\ Depth' = Depth /\ Meant' = Meant /\ Free' = Free
        /\ More' <=> More
    BY <1>1, SameGrammar DEF More
  <2>2. \A o : Before(Naming(o))' = {}
    BY <1>1, <1>5, SameGrammar DEF Before
  <2>3. Before(Free)' = {} /\ WordsOf(Before(Free))' = {}
    BY <1>1, <1>5, <1>6, SameGrammar DEF Before, WordsOf
  <2>4. \A o : LastValue(Before(Naming(o)))' = None
    BY <2>2 DEF LastValue
  <2>5. Len(words') = Cardinality({})
    BY <1>1, EmptySeq, FS_EmptySet
  <2>6. idx > Depth
    BY <1>1, <1>2
  <2>7. DOMAIN vals' = DOMAIN Options(Meant) /\ \A o \in DOMAIN vals' : vals'[o] = None
    BY <1>1, <1>2
  <2> QED
    BY <1>1, <1>2, <1>3, <2>1, <2>3, <2>4, <2>5, <2>6, <2>7 DEF AtOptions
<1>8. TypeOK'
  <2>1. cmd \in Commands
    BY <1>2, <1>1, DepthType
  <2>2. vals' \in Seq(Value)
    <3>1. DOMAIN Options(cmd) = 1 .. Len(Declarations[cmd]) /\ Len(Declarations[cmd]) \in Nat
      BY <2>1, MatchesLemma
    <3>2. vals' \in [1 .. Len(Declarations[cmd]) -> Value]
      BY <1>1, <3>1 DEF Value
    <3> QED
      BY <3>1, <3>2, SeqDef
  <2> QED
    BY <1>1, <2>2 DEF TypeOK
<1> QED
  BY <1>1, <1>7, <1>8, NoVerdict DEF ParseInv, AtCommand, AtDescend

-----------------------------------------------------------------------------
(* The steps that read the options and positional arguments. *)

\* The command is the one that is meant, so each argument means to parse what
\* it means in the grammar.
LEMMA ReadingLemma ==
    ASSUME ParseInv, Reading
    PROVE  /\ args \in Seq(Arguments) /\ Len(args) \in Nat /\ idx \in 1 .. Len(args)
           /\ step = "options" /\ out = None /\ AtOptions /\ idx \in Free /\ idx \in Nat
           /\ cmd = Meant /\ Meant \in Commands
           /\ Here = args[idx] /\ Here \in Arguments
           /\ Named = Matches(Meant, args[idx])
           /\ Opt = OptionAt(idx)
           /\ Takes(idx) <=> Named # {} /\ Opt.type # "flag" /\ Here.value = None
           /\ DOMAIN vals = DOMAIN Options(Meant) /\ DOMAIN vals \subseteq Nat
<1>1. /\ args \in Seq(Arguments) /\ Len(args) \in Nat /\ idx \in 1 .. Len(args) /\ idx \in Nat
      /\ step = "options" /\ out = None /\ AtOptions /\ idx \in Free /\ cmd = Meant
      /\ DOMAIN vals = DOMAIN Options(Meant)
  BY LenProperties DEF Reading, More, ParseInv, TypeOK, AtOptions
<1>2. Here = args[idx] /\ Here \in Arguments /\ Meant \in Commands
  BY <1>1, ElementOfSeq, DepthType DEF Here
<1>3. Named = Matches(Meant, args[idx]) /\ Opt = OptionAt(idx)
  BY <1>1, <1>2 DEF Named, Opt, OptionAt
<1>4. Takes(idx) <=> Named # {} /\ Opt.type # "flag" /\ Here.value = None
  BY <1>2, <1>3 DEF Takes
<1>5. DOMAIN Options(Meant) \subseteq Nat
  BY <1>2, MatchesLemma
<1> QED
  BY <1>1, <1>2, <1>3, <1>4, <1>5

\* An argument that does not fit is the reason of an error.
LEMMA ReadingFails ==
    ASSUME ParseInv, Reading, ~Fits(idx), step' = "end", out' \in Errors,
           idx' \in 1 .. Len(args) + 1, UNCHANGED <<args, cmd, vals, words>>
    PROVE  ParseInv'
<1>1. ~WellFormed
  BY ReadingLemma DEF WellFormed
<1>2. ~WellFormed'
  BY <1>1, SameGrammar
<1>3. TypeOK'
  BY DEF ParseInv, TypeOK
<1>4. out' # "ok"
  BY DEF Errors
<1> QED
  BY <1>2, <1>3, <1>4
     DEF ParseInv, AtCommand, AtDescend, AtOptions, AcceptsAsMeant, RejectsOnlyMalformed

\* With argument idx, parse has read one more argument that is not a value,
\* and it comes to the next one of these.
LEMMA Advance ==
    ASSUME ParseInv, Reading, Fits(idx), idx' = IF Takes(idx) THEN idx + 2 ELSE idx + 1
    PROVE  /\ idx' \in 1 .. Len(args) + 1 /\ idx' > idx
           /\ idx' <= Len(args) => idx' \in Free
           /\ \A S : S \subseteq Free => {i \in S : i < idx'} = Before(S) \cup (S \cap {idx})
<1>1. /\ idx \in Free /\ idx \in 1 .. Len(args) /\ Len(args) \in Nat /\ args \in Seq(Arguments)
      /\ Takes(idx) => idx < Len(args)
  BY ReadingLemma DEF Fits
<1>2. /\ idx' \in 1 .. Len(args) + 1 /\ idx' > idx
      /\ idx' <= Len(args) => idx' \in Free
  BY <1>1, NextIsFree
<1>3. \A i \in Free : i < idx' <=> i < idx \/ i = idx
  <2>1. Takes(idx) => idx + 1 \notin Free
    BY <1>1, NextIsFree
  <2>2. Free \subseteq Nat
    BY <1>1, DepthType
  <2> QED
    BY <1>1, <2>1, <2>2
<1> QED
  BY <1>2, <1>3 DEF Before

\* The occurrences of the options.
LEMMA NamingLemma ==
    ASSUME ParseInv, Reading, NEW o
    PROVE  /\ Naming(o) \subseteq Free
           /\ Naming(o) \cap {idx} = IF Named # {} /\ Min(Named) = o THEN {idx} ELSE {}
  BY ReadingLemma DEF Naming

\* An argument that fits is read as what it means.
LEMMA ReadingGoesOn ==
    ASSUME ParseInv, Reading, Fits(idx),
           idx' = IF Takes(idx) THEN idx + 2 ELSE idx + 1,
           IF Here.form = "word"
           THEN vals' = vals /\ words' = Append(words, Here)
           ELSE vals' = [vals EXCEPT ![Min(Named)] = ValueAt(idx)] /\ words' = words,
           UNCHANGED <<args, cmd, step, out>>
    PROVE  ParseInv'
<1> DEFINE o1 == Min(Named)
<1>1. /\ args \in Seq(Arguments) /\ Len(args) \in Nat /\ idx \in 1 .. Len(args)
      /\ step = "options" /\ out = None /\ AtOptions /\ idx \in Free /\ idx \in Nat
      /\ cmd = Meant /\ Meant \in Commands /\ TypeOK
      /\ Here = args[idx] /\ Here \in Arguments
      /\ Named = Matches(Meant, args[idx])
      /\ DOMAIN vals = DOMAIN Options(Meant)
      /\ vals \in Seq(Value) /\ words \in Seq({Word(w) : w \in Words})
  BY ReadingLemma DEF ParseInv, TypeOK
<1>2. /\ idx' \in 1 .. Len(args) + 1 /\ idx' > idx
      /\ idx' <= Len(args) => idx' \in Free
      /\ \A S : S \subseteq Free => {i \in S : i < idx'} = Before(S) \cup (S \cap {idx})
  BY Advance
<1>3. /\ Depth' = Depth /\ Meant' = Meant /\ Free' = Free
      /\ \A i : Fits(i)' <=> Fits(i)
      /\ \A i : ValueAt(i)' = ValueAt(i)
      /\ \A o : Naming(o)' = Naming(o)
      /\ \A S : WordsOf(S)' = WordsOf(S)
  BY SameGrammar
<1>4. IF Here.form = "word" THEN Named = {} ELSE Named # {} /\ o1 \in DOMAIN vals
  BY <1>1, MatchesLemma DEF Fits
<1>5. Before(Free)' = Before(Free) \cup {idx}
  BY <1>1, <1>2, <1>3 DEF Before
<1>6. \A o : Before(Naming(o))' =
               IF Named # {} /\ o1 = o THEN Before(Naming(o)) \cup {idx}
                                       ELSE Before(Naming(o))
  <2> SUFFICES ASSUME NEW o
               PROVE  Before(Naming(o))' = IF Named # {} /\ o1 = o
                        THEN Before(Naming(o)) \cup {idx} ELSE Before(Naming(o))
    OBVIOUS
  <2>1. Before(Naming(o))' = {i \in Naming(o) : i < idx'}
    BY <1>3 DEF Before
  <2>2. Before(Naming(o))' = Before(Naming(o)) \cup (Naming(o) \cap {idx})
    BY <1>2, <2>1, NamingLemma
  <2>3. Naming(o) \cap {idx} = IF Named # {} /\ o1 = o THEN {idx} ELSE {}
    BY NamingLemma
  <2> QED
    BY <2>2, <2>3
<1>7. \A o : LastValue(Before(Naming(o)))' =
               IF Named # {} /\ o1 = o THEN ValueAt(idx) ELSE LastValue(Before(Naming(o)))
  <2> SUFFICES ASSUME NEW o
               PROVE  LastValue(Before(Naming(o)))' = IF Named # {} /\ o1 = o
                        THEN ValueAt(idx) ELSE LastValue(Before(Naming(o)))
    OBVIOUS
  <2>1. CASE Named # {} /\ o1 = o
    <3> DEFINE T == Before(Naming(o)) \cup {idx}
    <3>1. Before(Naming(o))' = T /\ T # {}
      BY <1>6, <2>1
    <3>2. T \subseteq Nat /\ idx \in T /\ \A y \in T : y <= idx
      <4>1. Free \subseteq Nat
        BY <1>1, DepthType
      <4>2. Naming(o) \subseteq Free
        BY NamingLemma
      <4>3. \A y \in Before(Naming(o)) : y \in Naming(o) /\ y < idx
        BY DEF Before
      <4>4. idx \in Nat
        BY <1>1
      <4>5. \A y \in Before(Naming(o)) : y \in Nat /\ y <= idx
        <5> SUFFICES ASSUME NEW y \in Before(Naming(o))
                     PROVE  y \in Nat /\ y <= idx
          OBVIOUS
        <5>1. y \in Free /\ y < idx
          BY <4>2, <4>3, Zenon
        <5>2. y \in Nat
          BY <4>1, <5>1
        <5> QED
          BY <4>4, <5>1, <5>2
      <4>6. idx <= idx
        BY <4>4
      <4> QED
        BY <4>4, <4>5, <4>6
    <3>3. Max(T) = idx
      <4> HIDE DEF T
      <4> QED
        BY <1>1, <3>2, MaxIs
    <3>4. /\ Before(Naming(o))' # {} /\ Max(Before(Naming(o)))' = idx
          /\ args' = args /\ Meant' = Meant
      <4> HIDE DEF T
      <4> QED
        BY <1>3, <3>1, <3>3
    <3>5. LastValue(Before(Naming(o)))' = ValueAt(idx)
      BY <3>4 DEF LastValue, ValueAt, OptionAt, Takes
    <3> QED
      BY <2>1, <3>5
  <2>2. CASE ~(Named # {} /\ o1 = o)
    <3>1. Before(Naming(o))' = Before(Naming(o))
      BY <1>6, <2>2
    <3> QED
      BY <1>3, <2>2, <3>1 DEF LastValue
  <2> QED
    BY <2>1, <2>2
<1>8. /\ DOMAIN vals' = DOMAIN vals
      /\ \A o \in DOMAIN vals :
           vals'[o] = IF Named # {} /\ o1 = o THEN ValueAt(idx) ELSE vals[o]
  BY <1>4
<1>9. \A o \in DOMAIN vals : vals[o] = LastValue(Before(Naming(o)))
  BY <1>1 DEF AtOptions
<1>10. Len(words') = Cardinality(WordsOf(Before(Free)))'
  <2>1. WordsOf(Before(Free))' =
          IF Here.form = "word" THEN WordsOf(Before(Free)) \cup {idx}
                                ELSE WordsOf(Before(Free))
    BY <1>1, <1>3, <1>5 DEF WordsOf
  <2>2. IsFiniteSet(WordsOf(Before(Free))) /\ idx \notin WordsOf(Before(Free))
    <3>1. Free \subseteq 1 .. Len(args)
      BY <1>1, DepthType
    <3>2. WordsOf(Before(Free)) \in SUBSET (1 .. Len(args))
      BY <3>1 DEF WordsOf, Before
    <3>3. IsFiniteSet(1 .. Len(args))
      BY <1>1, FS_Interval
    <3>4. idx \notin WordsOf(Before(Free))
      BY <1>1 DEF WordsOf, Before
    <3> QED
      BY <3>2, <3>3, <3>4, FS_Subset
  <2>3. Cardinality(WordsOf(Before(Free)) \cup {idx}) = Cardinality(WordsOf(Before(Free))) + 1
    BY <2>2, FS_AddElement
  <2>4. Len(words') = IF Here.form = "word" THEN Len(words) + 1 ELSE Len(words)
    BY <1>1, AppendProperties, ArgumentLemma
  <2>5. Len(words) = Cardinality(WordsOf(Before(Free)))
    BY <1>1 DEF AtOptions
  <2> QED
    BY <2>1, <2>3, <2>4, <2>5
<1>11. \A i \in Before(Free)' : Fits(i)
  BY <1>1, <1>5 DEF AtOptions
<1>12. idx' > Depth
  BY <1>1, <1>2, DepthType DEF AtOptions
<1>13. AtOptions'
  <2>1. DOMAIN vals' = DOMAIN Options(Meant)'
    BY <1>1, <1>3, <1>8
  <2>2. \A o \in DOMAIN vals' : vals'[o] = LastValue(Before(Naming(o)))'
    BY <1>7, <1>8, <1>9
  <2> QED
    BY <1>1, <1>2, <1>3, <1>10, <1>11, <1>12, <2>1, <2>2 DEF AtOptions, More
<1>14. TypeOK'
  <2>1. words' \in Seq({Word(w) : w \in Words})
    <3>1. CASE Here.form = "word"
      <4>1. Here \in {Word(w) : w \in Words} /\ words' = Append(words, Here)
        BY <1>1, <3>1, ArgumentLemma
      <4> QED
        BY <1>1, <4>1, AppendProperties
    <3>2. CASE Here.form # "word"
      BY <1>1, <3>2
    <3> QED
      BY <3>1, <3>2
  <2>2. vals' \in Seq(Value)
    <3>1. CASE Here.form = "word"
      BY <1>1, <3>1
    <3>2. CASE Here.form # "word"
      <4>1. ValueAt(idx) \in Value
        BY <1>1, <1>4, <3>2, ValueLemma DEF Fits
      <4>2. o1 \in 1 .. Len(vals)
        BY <1>1, <1>4, <3>2, LenProperties
      <4>3. vals' = [vals EXCEPT ![o1] = ValueAt(idx)]
        BY <3>2
      <4> HIDE DEF o1
      <4> QED
        BY <1>1, <4>1, <4>2, <4>3, ExceptSeq
    <3> QED
      BY <3>1, <3>2
  <2> QED
    BY <1>1, <1>2, <2>1, <2>2 DEF TypeOK
<1> QED
  BY <1>1, <1>13, <1>14, NoVerdict DEF ParseInv, AtCommand, AtDescend

LEMMA UnknownOptionKeeps == ParseInv /\ UnknownOption => ParseInv'
<1> SUFFICES ASSUME ParseInv, UnknownOption
             PROVE  ParseInv'
  OBVIOUS
<1>1. /\ Reading /\ Here.form # "word" /\ Named = {} /\ step' = "end"
      /\ out' = "unknown option" /\ UNCHANGED <<args, cmd, idx, vals, words>>
  BY DEF UnknownOption, End
<1>2. ~Fits(idx)
  BY <1>1, ReadingLemma DEF Fits
<1>3. idx' \in 1 .. Len(args) + 1 /\ out' \in Errors
  BY <1>1 DEF ParseInv, TypeOK, Errors
<1> QED
  BY <1>1, <1>2, <1>3, ReadingFails

\* Setting the option that argument idx names to what the grammar says.
LEMMA SetLemma ==
    ASSUME ParseInv, Reading, Named # {}, Takes(idx) => idx < Len(args), Set(ValueAt(idx)),
           idx' = IF Takes(idx) THEN idx + 2 ELSE idx + 1,
           UNCHANGED <<args, cmd, words>>
    PROVE  ParseInv'
<1>1. /\ Here = args[idx] /\ Named = Matches(Meant, args[idx]) /\ Opt = OptionAt(idx)
      /\ Here.form # "word" /\ idx \in 1 .. Len(args) /\ Len(args) \in Nat
      /\ Meant \in Commands
  BY ReadingLemma, MatchesLemma
<1>2. CASE Opt.type = "int" /\ ValueAt(idx) \notin Numbers
  <2>1. step' = "end" /\ out' \in Errors /\ vals' = vals
    BY <1>2 DEF Set, End, Errors
  <2>2. ~Fits(idx)
    BY <1>1, <1>2 DEF Fits
  <2>3. idx' \in 1 .. Len(args) + 1
    BY <1>1
  <2> QED
    BY <2>1, <2>2, <2>3, ReadingFails
<1>3. CASE ~(Opt.type = "int" /\ ValueAt(idx) \notin Numbers)
  <2>1. vals' = [vals EXCEPT ![Min(Named)] = ValueAt(idx)] /\ UNCHANGED <<step, out>>
    BY <1>3 DEF Set
  <2>2. Fits(idx)
    BY <1>1, <1>3 DEF Fits
  <2> QED
    BY <1>1, <2>1, <2>2, ReadingGoesOn
<1> QED
  BY <1>2, <1>3

LEMMA GiveKeeps == ParseInv /\ (GiveFlag \/ GiveAssigned \/ GiveNext) => ParseInv'
<1> SUFFICES ASSUME ParseInv, GiveFlag \/ GiveAssigned \/ GiveNext
             PROVE  ParseInv'
  OBVIOUS
<1>1. Reading /\ Named # {} /\ UNCHANGED <<args, cmd, words>>
  BY DEF GiveFlag, GiveAssigned, GiveNext
<1>2. /\ Here = args[idx] /\ Opt = OptionAt(idx)
      /\ Takes(idx) <=> Named # {} /\ Opt.type # "flag" /\ Here.value = None
  BY <1>1, ReadingLemma
<1>3. CASE GiveFlag
  <2>1. Opt.type = "flag" /\ Set(Word("true")) /\ idx' = idx + 1
    BY <1>3 DEF GiveFlag
  <2>2. ~Takes(idx) /\ ValueAt(idx) = Word("true")
    BY <1>2, <2>1 DEF ValueAt
  <2> QED
    BY <1>1, <2>1, <2>2, SetLemma
<1>4. CASE GiveAssigned
  <2>1. Opt.type # "flag" /\ Here.value # None /\ Set(Here.value) /\ idx' = idx + 1
    BY <1>4 DEF GiveAssigned
  <2>2. ~Takes(idx) /\ ValueAt(idx) = Here.value
    BY <1>2, <2>1 DEF ValueAt
  <2> QED
    BY <1>1, <2>1, <2>2, SetLemma
<1>5. CASE GiveNext
  <2>1. /\ Opt.type # "flag" /\ Here.value = None /\ idx < Len(args)
        /\ Set(args[idx + 1]) /\ idx' = idx + 2
    BY <1>5 DEF GiveNext
  <2>2. Takes(idx) /\ ValueAt(idx) = args[idx + 1]
    BY <1>1, <1>2, <2>1 DEF ValueAt
  <2> QED
    BY <1>1, <2>1, <2>2, SetLemma
<1> QED
  BY <1>3, <1>4, <1>5

LEMMA NoValueKeeps == ParseInv /\ NoValue => ParseInv'
<1> SUFFICES ASSUME ParseInv, NoValue
             PROVE  ParseInv'
  OBVIOUS
<1>1. /\ Reading /\ Named # {} /\ Opt.type # "flag" /\ Here.value = None /\ idx = Len(args)
      /\ step' = "end" /\ out' = "no value" /\ UNCHANGED <<args, cmd, idx, vals, words>>
  BY DEF NoValue, End
<1>2. Takes(idx) /\ ~(idx < Len(args))
  <2>1. Takes(idx)
    BY <1>1, ReadingLemma
  <2>2. Len(args) \in Nat /\ idx = Len(args)
    BY <1>1, ReadingLemma
  <2>3. ~(idx < Len(args))
    BY <2>2
  <2> QED
    BY <2>1, <2>3
<1>3. ~Fits(idx)
  BY <1>2 DEF Fits
<1>4. idx' \in 1 .. Len(args) + 1 /\ out' \in Errors
  BY <1>1 DEF ParseInv, TypeOK, Errors
<1> QED
  BY <1>1, <1>3, <1>4, ReadingFails

LEMMA PositionalKeeps == ParseInv /\ Positional => ParseInv'
<1> SUFFICES ASSUME ParseInv, Positional
             PROVE  ParseInv'
  OBVIOUS
<1>1. /\ Reading /\ Here.form = "word" /\ words' = Append(words, Here) /\ idx' = idx + 1
      /\ UNCHANGED <<args, cmd, step, vals, out>>
  BY DEF Positional
<1>2. Here = args[idx] /\ Matches(Meant, args[idx]) = {}
  BY <1>1, ReadingLemma, MatchesLemma
<1>3. ~Takes(idx) /\ Fits(idx)
  BY <1>1, <1>2 DEF Takes, Fits
<1> QED
  BY <1>1, <1>3, ReadingGoesOn

\* After the last argument, vals and words tell all that the grammar asks for.
LEMMA CheckKeeps == ParseInv /\ Check => ParseInv'
<1> SUFFICES ASSUME ParseInv, Check
             PROVE  ParseInv'
  OBVIOUS
<1>1. /\ step = "options" /\ ~More /\ AtOptions /\ TypeOK /\ step' = "end" /\ out = None
      /\ args \in Seq(Arguments) /\ Len(args) \in Nat
      /\ idx = Len(args) + 1 /\ cmd = Meant /\ DOMAIN vals = DOMAIN Options(Meant)
      /\ UNCHANGED <<args, cmd, idx, vals, words>>
  <2>1. /\ step = "options" /\ ~More /\ step' = "end"
        /\ UNCHANGED <<args, cmd, idx, vals, words>>
    BY DEF Check, End
  <2>2. /\ AtOptions /\ TypeOK /\ out = None /\ args \in Seq(Arguments)
        /\ idx \in 1 .. Len(args) + 1
    BY <2>1 DEF ParseInv, TypeOK
  <2>3. Len(args) \in Nat /\ idx = Len(args) + 1
    BY <2>1, <2>2, LenProperties DEF More
  <2>4. cmd = Meant /\ DOMAIN vals = DOMAIN Options(Meant)
    BY <2>1, <2>2 DEF AtOptions
  <2> QED
    BY <2>1, <2>2, <2>3, <2>4
<1>2. Free \subseteq 1 .. Len(args) /\ Free \subseteq Nat /\ Meant \in Commands
  BY <1>1, DepthType
<1>3. \A S : S \subseteq Free => Before(S) = S
  <2>1. \A i \in Free : i < idx
    BY <1>1, <1>2
  <2> QED
    BY <2>1 DEF Before
<1>4. \A o : Naming(o) \subseteq Free
  BY DEF Naming
<1>5. \A o \in DOMAIN vals : vals[o] = LastValue(Naming(o))
  <2>1. \A o : Before(Naming(o)) = Naming(o)
    BY <1>3, <1>4
  <2>2. \A o \in DOMAIN vals : vals[o] = LastValue(Before(Naming(o)))
    BY <1>1 DEF AtOptions
  <2> QED
    BY <2>1, <2>2
<1>6. Before(Free) = Free
  BY <1>3
<1>7. \A i \in Free : Fits(i)
  BY <1>1, <1>6 DEF AtOptions
<1>8. Len(words) = Cardinality(WordsOf(Free)) /\ Len(words) \in Nat /\ Required[Meant] \in Nat
  BY <1>1, <1>2, <1>6, LenProperties, OptionsAssumption DEF AtOptions, TypeOK
<1>9. \A o \in DOMAIN vals : vals[o] = None <=> Naming(o) = {}
  <2> SUFFICES ASSUME NEW o \in DOMAIN vals, Naming(o) # {}
               PROVE  LastValue(Naming(o)) # None
    BY <1>5 DEF LastValue
  <2>1. Naming(o) \subseteq Nat /\ \A y \in Naming(o) : y <= Len(args)
    <3>1. \A y \in Free : y \in Nat /\ y <= Len(args)
      BY <1>1, <1>2
    <3> QED
      BY <1>4, <3>1
  <2>2. Max(Naming(o)) \in Naming(o)
    BY <1>1, <2>1, MaxIsElement
  <2>3. PICK m \in Naming(o) : m = Max(Naming(o))
    BY <2>2
  <2>4. m \in Free /\ Matches(Meant, args[m]) # {}
    BY <2>3 DEF Naming
  <2>5. Takes(m) => m < Len(args)
    BY <1>7, <2>4 DEF Fits
  <2>6. ValueAt(m) # None
    BY <1>1, <2>4, <2>5, ValueLemma
  <2> QED
    BY <2>3, <2>6 DEF LastValue
<1>10. WellFormed <=>
         /\ ~(Len(words) < Required[Meant])
         /\ ~\E o \in DOMAIN vals : Options(Meant)[o].required /\ vals[o] = None
  <2>1. Cardinality({i \in Free : args[i].form = "word"}) >= Required[Meant]
          <=> ~(Len(words) < Required[Meant])
    BY <1>8 DEF WordsOf
  <2>2. (\A o \in DOMAIN Options(Meant) : Options(Meant)[o].required => Naming(o) # {})
          <=> ~\E o \in DOMAIN vals : Options(Meant)[o].required /\ vals[o] = None
    BY <1>1, <1>9
  <2> QED
    BY <1>7, <2>1, <2>2 DEF WellFormed
<1>11. out' = IF Len(words) < Required[Meant] THEN "missing argument"
              ELSE IF \E o \in DOMAIN vals : Options(Meant)[o].required /\ vals[o] = None
              THEN "missing option"
              ELSE "ok"
  BY <1>1 DEF Check, End
<1>12. out' = "ok" => WellFormed
  BY <1>10, <1>11
<1>13. out' \in Errors => ~WellFormed
  BY <1>10, <1>11 DEF Errors
<1>14. AcceptsAsMeant'
  <2>1. /\ Meant' = Meant /\ WellFormed' <=> WellFormed
        /\ \A o : Naming(o)' = Naming(o) /\ \A i : ValueAt(i)' = ValueAt(i)
    BY <1>1, SameGrammar
  <2>2. \A o \in DOMAIN vals :
          vals[o] = IF Naming(o) = {} THEN None ELSE ValueAt(Max(Naming(o)))
    BY <1>5 DEF LastValue
  <2> QED
    BY <1>1, <1>12, <2>1, <2>2 DEF AcceptsAsMeant
<1>15. RejectsOnlyMalformed'
  BY <1>1, <1>13, SameGrammar DEF RejectsOnlyMalformed
<1>16. TypeOK'
  BY <1>1, <1>11 DEF TypeOK, Errors
<1> QED
  BY <1>1, <1>14, <1>15, <1>16 DEF ParseInv, AtCommand, AtDescend, AtOptions

-----------------------------------------------------------------------------
(* The verdict. *)

LEMMA InitHelp == Init => HelpInv
  BY DEF Init, HelpInv, Decided

\* While parse has not ended nothing is decided.
LEMMA NotDecidedYet ==
    ASSUME step' # "end"
    PROVE  Decided'
  BY DEF Decided

LEMMA SameHelp ==
    ASSUME args' = args
    PROVE  AsksHelp' <=> AsksHelp
<1>1. Depth' = Depth
  BY SameGrammar
<1> QED
  BY <1>1 DEF AsksHelp

\* Help is no word, so no command goes beyond it.
LEMMA HelpIsNoCommand ==
    ASSUME args \in Seq(Arguments), NEW k \in 1 .. Len(args), IsHelp(args[k])
    PROVE  k \notin Depths
<1>1. k \in 1 .. k
  BY LenProperties
<1>2. args[k].form # "word"
  BY DEF IsHelp, Long, Short
<1> QED
  BY <1>1, <1>2 DEF Depths

LEMMA NoArgumentsHelp == ParseInv /\ NoArguments => HelpInv'
<1> SUFFICES ASSUME ParseInv, NoArguments
             PROVE  HelpInv'
  OBVIOUS
<1>1. /\ step' = "end" /\ out' = "ok" /\ args' = args
      /\ idx = 1 /\ ~(idx <= Len(args)) /\ args \in Seq(Arguments)
  BY DEF NoArguments, End, ParseInv, AtCommand, More, TypeOK
<1>2. args' = <<>>
  BY <1>1, LenProperties, EmptySeq
<1>3. ~AsksHelp'
  BY <1>2 DEF AsksHelp
<1> QED
  BY <1>1, <1>2, <1>3 DEF HelpInv, Decided

LEMMA HelpHelp == ParseInv /\ (GlobalHelp \/ CommandHelp) => HelpInv'
<1> SUFFICES ASSUME ParseInv, GlobalHelp \/ CommandHelp
             PROVE  HelpInv'
  OBVIOUS
<1>1. /\ step' = "end" /\ out' = "help" /\ args' = args /\ args \in Seq(Arguments)
      /\ idx \in 1 .. Len(args) /\ Len(args) \in Nat /\ Here = args[idx]
      /\ idx \in 1 .. Len(args) + 1
  BY LenProperties DEF GlobalHelp, CommandHelp, End, Here, More, ParseInv, TypeOK
<1>2. args # <<>>
  BY <1>1, EmptySeq
<1>3. AsksHelp
  <2>1. CASE GlobalHelp
    <3>1. idx = 1 /\ (args[1] = Word("help") \/ IsHelp(args[1]))
      BY <1>1, <2>1 DEF GlobalHelp, ParseInv, AtCommand
    <3>2. CASE IsHelp(args[1])
      <4>1. 0 + 1 \notin Depths
        BY <1>1, <3>1, <3>2, HelpIsNoCommand
      <4>2. Depth = 0
        BY <1>1, <4>1, DepthIs
      <4> QED
        BY <1>1, <1>2, <3>1, <3>2, <4>2 DEF AsksHelp
    <3> QED
      BY <1>2, <3>1, <3>2 DEF AsksHelp
  <2>2. CASE CommandHelp
    <3>1. /\ idx = 1 => cmd = Default /\ Depths = {}
          /\ idx > 1 => idx - 1 \in Depths /\ cmd = Path(idx - 1)
          /\ IsHelp(args[idx])
      BY <1>1, <2>2 DEF CommandHelp, ParseInv, AtDescend
    <3>2. Depth = idx - 1
      BY <1>1, <3>1, HelpIsNoCommand, CommandFound
    <3>3. Depth < Len(args) /\ Depth + 1 = idx
      BY <1>1, <3>2
    <3> QED
      BY <1>2, <3>1, <3>3 DEF AsksHelp
  <2> QED
    BY <2>1, <2>2
<1> QED
  BY <1>1, <1>3, SameHelp DEF HelpInv, Decided

LEMMA CommandStepsHelp == ParseInv /\ HelpInv /\ (FindCommand \/ Descend) => HelpInv'
<1> SUFFICES ASSUME ParseInv, HelpInv, FindCommand \/ Descend
             PROVE  HelpInv'
  OBVIOUS
<1>1. step' = "descend" /\ args' = args /\ args \in Seq(Arguments)
  BY DEF FindCommand, Descend, ParseInv, TypeOK
<1>2. args # <<>> /\ args[1] # Word("help")
  <2>1. CASE FindCommand
    <3>1. idx = 1 /\ idx <= Len(args) /\ Here # Word("help")
      BY <2>1 DEF FindCommand, More, ParseInv, AtCommand
    <3> QED
      BY <1>1, <3>1, EmptySeq DEF Here
  <2>2. CASE Descend
    BY <2>2 DEF Descend, HelpInv
  <2> QED
    BY <2>1, <2>2
<1> QED
  BY <1>1, <1>2 DEF HelpInv, Decided

LEMMA StartOptionsHelp == ParseInv /\ HelpInv /\ StartOptions => HelpInv'
<1> SUFFICES ASSUME ParseInv, HelpInv, StartOptions
             PROVE  HelpInv'
  OBVIOUS
<1>1. /\ step' = "options" /\ args' = args /\ args \in Seq(Arguments)
      /\ args # <<>> /\ args[1] # Word("help")
      /\ idx \in 1 .. Len(args) + 1 /\ Len(args) \in Nat
      /\ idx = 1 => cmd = Default /\ Depths = {}
      /\ idx > 1 => idx - 1 \in Depths /\ cmd = Path(idx - 1)
  BY LenProperties DEF StartOptions, ParseInv, AtDescend, TypeOK, HelpInv
<1>2. Depth = idx - 1
  BY <1>1, NoneLeads, CommandFound
<1>3. ~(Depth < Len(args) /\ IsHelp(args[Depth + 1]))
  <2> SUFFICES ASSUME Depth < Len(args)
               PROVE  ~IsHelp(args[Depth + 1])
    OBVIOUS
  <2>1. idx <= Len(args) /\ Depth + 1 = idx
    BY <1>1, <1>2
  <2> QED
    BY <2>1 DEF StartOptions, More, Here
<1>4. ~AsksHelp
  BY <1>1, <1>3 DEF AsksHelp
<1> QED
  BY <1>1, <1>4, SameHelp DEF HelpInv, Decided

\* After the command, parse goes on or ends with an error or with "ok", and
\* the properties tell which.
LEMMA OptionStepsHelp ==
    ASSUME ParseInv', HelpInv, step = "options", args' = args,
           \/ step' = "options"
           \/ step' = "end" /\ out' \in {"ok"} \cup Errors
    PROVE  HelpInv'
<1>1. args # <<>> /\ args[1] # Word("help") /\ ~AsksHelp /\ ~AsksHelp'
  BY SameHelp DEF HelpInv
<1>2. CASE step' = "options"
  BY <1>1, <1>2 DEF HelpInv, Decided
<1>3. CASE step' = "end" /\ out' \in {"ok"} \cup Errors
  <2>1. out' # "help" /\ (out' \in Errors => out' # "ok")
    BY <1>3 DEF Errors
  <2>2. out' = "ok" => WellFormed'
    BY <1>1 DEF ParseInv, AcceptsAsMeant
  <2>3. out' \in Errors => ~WellFormed'
    BY DEF ParseInv, RejectsOnlyMalformed
  <2> QED
    BY <1>1, <1>3, <2>1, <2>2, <2>3 DEF HelpInv, Decided
<1> QED
  BY <1>2, <1>3

LEMMA OptionOutcomes ==
    ASSUME \/ UnknownOption \/ NoValue \/ Positional \/ Check
           \/ GiveFlag \/ GiveAssigned \/ GiveNext
    PROVE  /\ step = "options" /\ args' = args
           /\ \/ step' = "options"
              \/ step' = "end" /\ out' \in {"ok"} \cup Errors
<1>1. CASE GiveFlag \/ GiveAssigned \/ GiveNext
  <2>1. PICK raw : Reading /\ Set(raw) /\ args' = args
    BY <1>1 DEF GiveFlag, GiveAssigned, GiveNext
  <2> QED
    BY <2>1 DEF Reading, Set, End, Errors
<1>2. CASE UnknownOption \/ NoValue \/ Positional
  BY <1>2 DEF UnknownOption, NoValue, Positional, Reading, End, Errors
<1>3. CASE Check
  <2>1. /\ step = "options" /\ args' = args /\ step' = "end"
        /\ out' \in {"missing argument", "missing option", "ok"}
    BY <1>3 DEF Check, End
  <2> QED
    BY <2>1 DEF Errors
<1> QED
  BY <1>1, <1>2, <1>3

LEMMA StutterHelp == HelpInv /\ UNCHANGED vars => HelpInv'
<1> SUFFICES ASSUME HelpInv, UNCHANGED vars
             PROVE  HelpInv'
  OBVIOUS
<1>1. step' = step /\ args' = args /\ out' = out
  BY DEF vars
<1>2. (AsksHelp' <=> AsksHelp) /\ (WellFormed' <=> WellFormed)
  BY <1>1, SameHelp, SameGrammar
<1> QED
  BY <1>1, <1>2 DEF HelpInv, Decided

LEMMA NextHelp == ParseInv /\ ParseInv' /\ HelpInv /\ [Next]_vars => HelpInv'
<1> SUFFICES ASSUME ParseInv, ParseInv', HelpInv, [Next]_vars
             PROVE  HelpInv'
  OBVIOUS
<1>1. CASE \/ UnknownOption \/ NoValue \/ Positional \/ Check
           \/ GiveFlag \/ GiveAssigned \/ GiveNext
  BY <1>1, OptionOutcomes, OptionStepsHelp
<1> QED
  BY <1>1, NoArgumentsHelp, HelpHelp, CommandStepsHelp, StartOptionsHelp, StutterHelp DEF Next

-----------------------------------------------------------------------------
(* The theorems. *)

\* Without a step nothing changes.
LEMMA StutterKeeps == ParseInv /\ UNCHANGED vars => ParseInv'
<1> SUFFICES ASSUME ParseInv, UNCHANGED vars
             PROVE  ParseInv'
  OBVIOUS
<1>1. UNCHANGED <<args, cmd, idx, step, vals, words, out>>
  BY DEF vars
<1>2. /\ Depth' = Depth /\ Meant' = Meant /\ Free' = Free /\ Depths' = Depths
      /\ \A k : Path(k)' = Path(k)
      /\ \A i : (Fits(i)' <=> Fits(i)) /\ ValueAt(i)' = ValueAt(i)
      /\ \A o : Naming(o)' = Naming(o)
      /\ \A S : WordsOf(S)' = WordsOf(S)
      /\ WellFormed' <=> WellFormed
  BY <1>1, SameGrammar
<1>3. TypeOK'
  BY <1>1 DEF ParseInv, TypeOK
<1>4. AtCommand' /\ AtDescend'
  BY <1>1, <1>2 DEF ParseInv, AtCommand, AtDescend
<1>5. AtOptions'
  <2>1. \A o : LastValue(Before(Naming(o)))' = LastValue(Before(Naming(o)))
    BY <1>1, <1>2 DEF LastValue, Before, ValueAt, OptionAt, Takes
  <2>2. Before(Free)' = Before(Free) /\ WordsOf(Before(Free))' = WordsOf(Before(Free))
    BY <1>1, <1>2 DEF Before, WordsOf
  <2> QED
    BY <1>1, <1>2, <2>1, <2>2 DEF ParseInv, AtOptions, More
<1>6. AcceptsAsMeant' /\ RejectsOnlyMalformed'
  <2>1. \A o : ValueAt(Max(Naming(o)))' = ValueAt(Max(Naming(o)))
    BY <1>1, <1>2 DEF ValueAt, OptionAt, Takes
  <2> QED
    BY <1>1, <1>2, <2>1 DEF ParseInv, AcceptsAsMeant, RejectsOnlyMalformed
<1> QED
  BY <1>1, <1>3, <1>4, <1>5, <1>6 DEF ParseInv

\* ParseInv is inductive.
LEMMA NextParse == ParseInv /\ [Next]_vars => ParseInv'
  BY NoArgumentsKeeps, HelpKeeps, FindCommandKeeps, DescendKeeps, StartOptionsKeeps,
     UnknownOptionKeeps, GiveKeeps, NoValueKeeps, PositionalKeeps, CheckKeeps, StutterKeeps
     DEF Next

\* What parse has read is at every step what the grammar says of the arguments
\* before idx, which is never the value of an option.
THEOREM ParseInvariance == Spec => []ParseInv
  BY InitParse, NextParse, PTL DEF Spec

\* The state of parse keeps its type: idx never passes the end of args.
THEOREM ParseTypeCorrect == Spec => []TypeOK
  BY ParseInvariance, PTL DEF ParseInv

\* parse accepts only what the grammar allows, with the command that is meant
\* and with the value of the last occurrence of each option (App::parse).
THEOREM ParseAccepts == Spec => []AcceptsAsMeant
  BY ParseInvariance, PTL DEF ParseInv

\* parse rejects only what the grammar does not allow: an error message is
\* never about arguments that fit (App::parse).
THEOREM ParseRejects == Spec => []RejectsOnlyMalformed
  BY ParseInvariance, PTL DEF ParseInv

\* How parse ends is a matter of the grammar alone: with help exactly if the
\* first argument or the first one after the command asks for it, else with
\* the command exactly if the arguments are well-formed (App::parse).
THEOREM ParseDecides == Spec => []Decided
<1>1. Spec => []HelpInv
  BY ParseInvariance, InitHelp, NextHelp, PTL DEF Spec
<1>2. HelpInv => Decided
  BY DEF HelpInv
<1> QED
  BY <1>1, <1>2, PTL

=============================================================================
