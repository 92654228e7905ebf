------------------------- MODULE StreamProxyProofs --------------------------
(***************************************************************************)
(* Proofs about StreamProxy, for any number of tokens, bytes of a line and *)
(* cutting of the body into chunks: ProxyInv is inductive, so the tokens   *)
(* passed on are exactly those whose lines have arrived, a call that       *)
(* succeeds is complete, and a refused token is the last one.  With        *)
(* BodyInv a streamed call and a buffered one make the same text of the    *)
(* body, and with LinesInv no line is garbled by the cutting.              *)
(***************************************************************************)
EXTENDS StreamProxy, SequenceTheorems, FiniteSetTheorems, WellFoundedInduction, TLAPS

-----------------------------------------------------------------------------
(* The invariant. *)

\* The last byte of the line of token k.
EndOf(k) == <<TokenLine(k), LineBytes>>

\* The tokens whose lines end within the first p bytes.
TokensUpTo(p) == {k \in Tokens : \E i \in 1 .. p : wire[i] = EndOf(k)}

IsFinalEnd(b) == Newline(b) /\ b[1].kind = "done"

\* The lines of the body: tokens in order from the first one, and nothing
\* after a line that is not one of a token.
WireInv ==
    /\ \E n \in 0 .. MaxTokens : TokensUpTo(Len(wire)) = 1 .. n
    /\ \A i, j \in 1 .. Len(wire), a, b \in Tokens :
         i < j /\ wire[i] = EndOf(a) /\ wire[j] = EndOf(b) => a < b
    /\ \A i, j \in 1 .. Len(wire) :
         i < j /\ Newline(wire[i]) /\ Newline(wire[j]) => wire[i][1].kind = "token"
    /\ \A i \in 1 .. Len(wire) :
         IsFinalEnd(wire[i]) => wire[i][1].text \in
                                  {What, FirstTokens(Cardinality(TokensUpTo(Len(wire))))}

\* How many bytes the parser is done with.
Parsed == rcvd - Len(leftover)

\* What was received and is not parsed is left over; what is parsed was passed
\* on and is in full_text.
ParseInv ==
    /\ Parsed \in 0 .. rcvd
    /\ \A i \in 1 .. Len(leftover) : leftover[i] = wire[Parsed + i]
    /\ passed = FirstTokens(Cardinality(TokensUpTo(Parsed)))
    /\ \A i \in 1 .. Parsed : IsFinalEnd(wire[i]) => fullText = wire[i][1].text
    /\ (\A i \in 1 .. Parsed : ~IsFinalEnd(wire[i])) => fullText = <<>>

CallInv == /\ spc = "receive" => ~HasLine
           /\ refused => spc = "cancel" \/ (spc = "end" /\ result = Error)
           /\ result # None => spc = "end" /\ result \in {Error, Ok(fullText)}
           /\ spc = "end" /\ result # Error => ~HasLine /\ ended /\ rcvd = Len(wire)

ProxyInv == TypeOK /\ WireInv /\ ParseInv /\ CallInv

-----------------------------------------------------------------------------
(* Lemmas about numbers and sets. *)

\* Every nonempty set of numbers has a least element.
LEMMA LeastElement ==
    ASSUME NEW T, T \subseteq Nat, T # {}
    PROVE  \E x \in T : \A y \in T : x <= y
<1> DEFINE R == {ss \in Nat \X Nat : ss[1] < ss[2]}
<1>1. IsWellFoundedOn(R, Nat)
  BY NatLessThanWellFounded DEF OpToRel
<1>2. <<1, 2>> \in R <=> 1 < 2
  OBVIOUS
<1>3. \A x, y \in Nat : y < x => <<y, x>> \in R
  OBVIOUS
<1>4. \E x \in T : \A y \in T : ~ (<<y, x>> \in R)
  <2> HIDE DEF R
  <2> QED
    BY <1>1, WFMin
<1> HIDE DEF R
<1>5. PICK x \in T : \A y \in T : ~ (<<y, x>> \in R)
  BY <1>4
<1>6. \A y \in T : ~(y < x)
  BY <1>3, <1>5
<1>7. x \in Nat /\ T \subseteq Nat
  OBVIOUS
<1>8. \A y \in T : x <= y
  BY <1>6, <1>7, SMT
<1> QED
  BY <1>8

\* A set of numbers from 1 without gaps is an interval.
LEMMA NoGaps ==
    ASSUME NEW n \in Nat, NEW T, T \subseteq 1 .. n,
           \A x \in T, y \in 1 .. n : y < x => y \in T
    PROVE  \E m \in 0 .. n : T = 1 .. m
<1> DEFINE U == {k \in Nat : k + 1 \notin T}
<1>1. n \in U /\ U \subseteq Nat
  BY SMT
<1>2. PICK m \in U : \A y \in U : m <= y
  <2> HIDE DEF U
  <2> QED
    BY <1>1, LeastElement
<1>3. m \in 0 .. n /\ m + 1 \notin T
  BY <1>1, <1>2, SMT
<1>4. ASSUME NEW x \in 1 .. m
      PROVE  x \in T
  <2>1. x - 1 \in Nat /\ x - 1 < m /\ (x - 1) + 1 = x
    BY <1>3, SMT
  <2>2. x - 1 \notin U
    BY <1>2, <1>3, <2>1, SMT
  <2> QED
    BY <2>1, <2>2
<1>5. ASSUME NEW x \in T
      PROVE  x \in 1 .. m
  <2>1. x \in 1 .. n
    OBVIOUS
  <2>2. ~(m + 1 < x) /\ x # m + 1
    BY <1>3, <2>1, SMT
  <2> QED
    BY <1>3, <2>1, <2>2, SMT
<1> QED
  BY <1>3, <1>4, <1>5

LEMMA CountInterval ==
    ASSUME NEW n \in Nat
    PROVE  Cardinality(1 .. n) = n
<1>1. Cardinality(1 .. n) = IF 1 > n THEN 0 ELSE n - 1 + 1
  BY FS_Interval, SMT
<1> QED
  BY <1>1, SMT

-----------------------------------------------------------------------------
(* Lemmas about the lines. *)

\* The lines differ by their kind, and those of tokens by the token.
LEMMA LinesDiffer ==
    /\ \A a, b \in Tokens : EndOf(a) = EndOf(b) => a = b
    /\ \A a \in Tokens : /\ TokenLine(a).kind = "token" /\ TokenLine(a).text = <<a>>
                         /\ TokenLine(a) # OtherLine
                         /\ EndOf(a) \in Byte /\ Newline(EndOf(a))
    /\ \A s \in Texts : FinalLine(s).kind = "done" /\ FinalLine(s).text = s
    /\ OtherLine.kind = "other"
<1>1. ASSUME NEW a \in Tokens, NEW b \in Tokens, EndOf(a) = EndOf(b)
      PROVE  a = b
  <2>1. TokenLine(a) = TokenLine(b)
    BY <1>1 DEF EndOf
  <2>2. <<a>> = <<b>>
    BY <2>1 DEF TokenLine
  <2> QED
    BY <2>2
<1>2. ASSUME NEW a \in Tokens
      PROVE  /\ TokenLine(a).kind = "token" /\ TokenLine(a).text = <<a>>
             /\ TokenLine(a) # OtherLine
             /\ EndOf(a) \in Byte /\ Newline(EndOf(a))
  <2>1. LineBytes \in 1 .. LineBytes
    BY LineAssumption, SMT
  <2>2. TokenLine(a) \in Lines
    BY DEF Lines
  <2>3. EndOf(a) \in Byte /\ Newline(EndOf(a))
    BY <2>1, <2>2 DEF EndOf, Byte, Newline
  <2> QED
    BY <2>3 DEF TokenLine, OtherLine
<1>3. \A s \in Texts : FinalLine(s).kind = "done" /\ FinalLine(s).text = s
  BY DEF FinalLine
<1>4. OtherLine.kind = "other"
  BY DEF OtherLine
<1> QED
  BY <1>1, <1>2, <1>3, <1>4, Zenon

\* A byte of a line of the body.
LEMMA ByteLemma ==
    ASSUME NEW b \in Byte
    PROVE  /\ b[1] \in Lines /\ b[2] \in 1 .. LineBytes
           /\ Newline(b) => b = <<b[1], LineBytes>>
           /\ Newline(b) /\ b[1].kind = "token" => \E k \in Tokens : b = EndOf(k)
           /\ Newline(b) /\ b[1].kind = "done" => b[1].text \in Texts
<1>1. b[1] \in Lines /\ b[2] \in 1 .. LineBytes /\ b = <<b[1], b[2]>>
  BY DEF Byte
<1>2. Newline(b) => b = <<b[1], LineBytes>>
  BY <1>1 DEF Newline
<1>3. ASSUME Newline(b), b[1].kind = "token"
      PROVE  \E k \in Tokens : b = EndOf(k)
  <2>1. PICK k \in Tokens : b[1] = TokenLine(k)
    BY <1>1, <1>3 DEF Lines, OtherLine, FinalLine
  <2> QED
    BY <1>2, <1>3, <2>1 DEF EndOf
<1>4. ASSUME Newline(b), b[1].kind = "done"
      PROVE  b[1].text \in Texts
  BY <1>1, <1>4 DEF Lines, OtherLine, TokenLine, FinalLine
<1> QED
  BY <1>1, <1>2, <1>3, <1>4

\* The tokens whose lines have ended by some byte are the first ones.
LEMMA UpToLemma ==
    ASSUME TypeOK, WireInv, NEW p \in 0 .. Len(wire)
    PROVE  /\ Cardinality(TokensUpTo(p)) \in 0 .. MaxTokens
           /\ TokensUpTo(p) = 1 .. Cardinality(TokensUpTo(p))
<1>1. Len(wire) \in Nat
  BY LenProperties DEF TypeOK
<1>2. PICK n \in 0 .. MaxTokens : TokensUpTo(Len(wire)) = 1 .. n
  BY DEF WireInv
<1>3. n \in Nat /\ n <= MaxTokens
  BY <1>2, MaxTokensAssumption, SMT
<1>4. TokensUpTo(p) \subseteq 1 .. n
  <2>1. TokensUpTo(p) \subseteq TokensUpTo(Len(wire))
    BY <1>1, SMT DEF TokensUpTo
  <2> QED
    BY <1>2, <2>1
<1>5. ASSUME NEW x \in TokensUpTo(p), NEW y \in 1 .. n, y < x
      PROVE  y \in TokensUpTo(p)
  <2>1. PICK i \in 1 .. p : wire[i] = EndOf(x)
    BY DEF TokensUpTo
  <2>2. y \in Tokens /\ x \in Tokens /\ y \in TokensUpTo(Len(wire))
    BY <1>2 DEF TokensUpTo
  <2>3. PICK j \in 1 .. Len(wire) : wire[j] = EndOf(y)
    BY <2>2 DEF TokensUpTo
  <2>4. i \in 1 .. Len(wire)
    BY <1>1, SMT
  <2>5. ~(i < j)
    <3>1. x \in Nat /\ y \in Nat
      BY <2>2, SMT DEF Tokens
    <3>2. i < j => x < y
      BY <2>1, <2>2, <2>3, <2>4 DEF WireInv
    <3> QED
      BY <1>5, <3>1, <3>2, SMT
  <2>6. j \in 1 .. p
    BY <1>1, <2>5, SMT
  <2> QED
    BY <2>2, <2>3, <2>6 DEF TokensUpTo
<1>6. PICK m \in 0 .. n : TokensUpTo(p) = 1 .. m
  <2> HIDE DEF TokensUpTo
  <2> QED
    BY <1>3, <1>4, <1>5, NoGaps, SMT
<1>7. m \in Nat /\ m \in 0 .. MaxTokens
  BY <1>3, MaxTokensAssumption, SMT
<1>8. Cardinality(TokensUpTo(p)) = m
  BY <1>6, <1>7, CountInterval
<1> QED
  BY <1>6, <1>7, <1>8

\* As many tokens were sent as lines of tokens have ended.
LEMMA SentLemma ==
    ASSUME TypeOK, WireInv
    PROVE  /\ SentTokens = {TokenLine(k) : k \in TokensUpTo(Len(wire))}
           /\ Cardinality(SentTokens) = Cardinality(TokensUpTo(Len(wire)))
<1> DEFINE T == TokensUpTo(Len(wire))
<1>1. DOMAIN wire = 1 .. Len(wire) /\ Len(wire) \in Nat
      /\ \A i \in 1 .. Len(wire) : wire[i] \in Byte
  BY LenProperties, ElementOfSeq DEF TypeOK
<1>2. T \subseteq Tokens /\ IsFiniteSet(T)
  <2>1. PICK n \in 0 .. MaxTokens : T = 1 .. n
    BY DEF WireInv
  <2>2. IsFiniteSet(1 .. n)
    BY MaxTokensAssumption, FS_Interval, SMT
  <2> QED
    BY <2>1, <2>2 DEF TokensUpTo
<1>3. SentTokens = {TokenLine(k) : k \in T}
  <2>1. ASSUME NEW k \in T
        PROVE  TokenLine(k) \in SentTokens
    <3>1. PICK i \in 1 .. Len(wire) : wire[i] = EndOf(k)
      BY DEF TokensUpTo
    <3>2. Newline(wire[i]) /\ wire[i][1] = TokenLine(k) /\ k \in Tokens
      BY <1>2, <3>1, LinesDiffer DEF EndOf
    <3> QED
      BY <1>1, <3>1, <3>2 DEF SentTokens, Sent
  <2>2. ASSUME NEW line \in SentTokens
        PROVE  \E k \in T : line = TokenLine(k)
    <3>1. PICK i \in 1 .. Len(wire) : Newline(wire[i]) /\ line = wire[i][1]
      BY <1>1 DEF SentTokens, Sent
    <3>2. PICK k \in Tokens : line = TokenLine(k)
      BY DEF SentTokens
    <3>3. wire[i] = EndOf(k)
      BY <1>1, <3>1, <3>2, ByteLemma DEF EndOf
    <3> QED
      BY <3>1, <3>2, <3>3 DEF TokensUpTo
  <2> QED
    BY <2>1, <2>2
<1>4. ExistsBijection(T, SentTokens)
  <2> DEFINE f == [k \in T |-> TokenLine(k)]
  <2>1. f \in [T -> SentTokens]
    BY <1>3
  <2>2. \A a, b \in T : f[a] = f[b] => a = b
    <3>1. \A a, b \in Tokens : TokenLine(a) = TokenLine(b) => a = b
      BY LinesDiffer DEF EndOf
    <3> QED
      BY <1>2, <3>1
  <2>3. \A t \in SentTokens : \E k \in T : f[k] = t
    BY <1>3
  <2> HIDE DEF f, T
  <2>4. f \in Bijection(T, SentTokens)
    BY <2>1, <2>2, <2>3 DEF Bijection, Injection, Surjection, IsInjective
  <2> QED
    BY <2>4 DEF ExistsBijection
<1> HIDE DEF T
<1>5. Cardinality(SentTokens) = Cardinality(T)
  BY <1>2, <1>4, FS_Bijection
<1> QED
  BY <1>3, <1>5 DEF T

\* The first line that is left over.
LEMMA LineEndLemma ==
    ASSUME TypeOK, HasLine
    PROVE  /\ LineEnd \in 1 .. Len(leftover)
           /\ Newline(leftover[LineEnd])
           /\ \A j \in 1 .. LineEnd - 1 : ~Newline(leftover[j])
<1> DEFINE E == {i \in 1 .. Len(leftover) : Newline(leftover[i])}
<1>1. DOMAIN leftover = 1 .. Len(leftover) /\ Len(leftover) \in Nat
  BY LenProperties DEF TypeOK
<1>2. E \subseteq Nat /\ E # {}
  <2>1. E # {}
    BY <1>1 DEF HasLine
  <2> QED
    BY <1>1, <2>1, SMT
<1>3. PICK e \in E : \A y \in E : e <= y
  <2> HIDE DEF E
  <2> QED
    BY <1>2, LeastElement
<1>4. \A j \in 1 .. e - 1 : ~Newline(leftover[j])
  <2> SUFFICES ASSUME NEW j \in 1 .. e - 1, Newline(leftover[j])
               PROVE  FALSE
    OBVIOUS
  <2>1. j \in 1 .. Len(leftover) /\ j < e /\ j \in Nat /\ e \in Nat
    BY <1>1, <1>3, SMT
  <2>2. e <= j
    BY <1>3, <2>1
  <2> QED
    BY <2>1, <2>2, SMT
<1>5. \E i \in DOMAIN leftover :
        Newline(leftover[i]) /\ \A j \in 1 .. i - 1 : ~Newline(leftover[j])
  BY <1>1, <1>3, <1>4
<1>6. /\ LineEnd \in DOMAIN leftover
      /\ Newline(leftover[LineEnd]) /\ \A j \in 1 .. LineEnd - 1 : ~Newline(leftover[j])
  BY <1>5, Zenon DEF LineEnd
<1> QED
  BY <1>1, <1>6

\* A text of tokens.
LEMMA FirstTokensType ==
    ASSUME NEW k \in 0 .. MaxTokens
    PROVE  FirstTokens(k) \in Seq(Tokens) /\ Len(FirstTokens(k)) = k
<1>1. k \in Nat /\ k <= MaxTokens /\ MaxTokens \in Nat
  BY MaxTokensAssumption, SMT
<1>2. FirstTokens(k) \in [1 .. k -> Tokens]
  BY <1>1, SMT DEF FirstTokens, Tokens
<1> QED
  BY <1>1, <1>2, SMT

\* A text is lengthened by the next token.
LEMMA NextToken ==
    ASSUME NEW m \in Nat
    PROVE  FirstTokens(m) \o <<m + 1>> = FirstTokens(m + 1)
<1>1. FirstTokens(m) \in Seq(Nat) /\ Len(FirstTokens(m)) = m
      /\ \A i \in 1 .. m : FirstTokens(m)[i] = i
  BY SMT DEF FirstTokens
<1>2. FirstTokens(m + 1) \in Seq(Nat) /\ Len(FirstTokens(m + 1)) = m + 1
      /\ \A i \in 1 .. m + 1 : FirstTokens(m + 1)[i] = i
  BY SMT DEF FirstTokens
<1>3. FirstTokens(m) \o <<m + 1>> = Append(FirstTokens(m), m + 1)
  BY <1>1, AppendIsConcat
<1>4. /\ Append(FirstTokens(m), m + 1) \in Seq(Nat)
      /\ Len(Append(FirstTokens(m), m + 1)) = m + 1
      /\ \A i \in 1 .. m : Append(FirstTokens(m), m + 1)[i] = i
      /\ Append(FirstTokens(m), m + 1)[m + 1] = m + 1
  BY <1>1, AppendProperties, SMT
<1>5. \A i \in 1 .. m + 1 : Append(FirstTokens(m), m + 1)[i] = FirstTokens(m + 1)[i]
  <2>1. \A i \in 1 .. m + 1 : i \in 1 .. m \/ i = m + 1
    BY SMT
  <2> QED
    BY <1>2, <1>4, <2>1
<1>6. Append(FirstTokens(m), m + 1) = FirstTokens(m + 1)
  BY <1>2, <1>4, <1>5, SeqEqual
<1> QED
  BY <1>3, <1>6

-----------------------------------------------------------------------------
(* The steps of the parser. *)

\* Skipping the first line that is left over: the parser is done with its
\* bytes, of which the last is the only newline.
LEMMA SkipLemma ==
    ASSUME ProxyInv, HasLine, SkipLine, UNCHANGED <<sender, rcvd>>
    PROVE  /\ LineEnd \in Nat \ {0}
           /\ Parsed' = Parsed + LineEnd
           /\ Parsed' \in 0 .. rcvd'
           /\ leftover' \in Seq(Byte)
           /\ \A i \in 1 .. Len(leftover') : leftover'[i] = wire'[Parsed' + i]
           /\ Parsed + LineEnd \in 1 .. Len(wire)
           /\ Newline(wire[Parsed + LineEnd]) /\ wire[Parsed + LineEnd] \in Byte
           /\ wire[Parsed + LineEnd][1] = FirstLine
           /\ \A i \in Parsed + 1 .. (Parsed + LineEnd) - 1 : ~Newline(wire[i])
<1>1. TypeOK /\ ParseInv
  BY DEF ProxyInv
<1>2. /\ LineEnd \in 1 .. Len(leftover) /\ Newline(leftover[LineEnd])
      /\ \A j \in 1 .. LineEnd - 1 : ~Newline(leftover[j])
  BY <1>1, LineEndLemma
<1> DEFINE e == LineEnd
<1>3. /\ leftover \in Seq(Byte) /\ Len(leftover) \in Nat /\ Len(wire) \in Nat
      /\ rcvd \in 0 .. Len(wire) /\ Parsed = rcvd - Len(leftover) /\ Parsed \in 0 .. rcvd
      /\ \A i \in 1 .. Len(leftover) : leftover[i] = wire[Parsed + i]
      /\ e \in 1 .. Len(leftover)
      /\ \A i \in 1 .. Len(wire) : wire[i] \in Byte
  BY <1>1, <1>2, LenProperties, ElementOfSeq DEF TypeOK, ParseInv, Parsed
<1>4. leftover' = SubSeq(leftover, e + 1, Len(leftover)) /\ wire' = wire /\ rcvd' = rcvd
  BY DEF SkipLine, sender
<1> HIDE DEF e
<1>5. /\ leftover' \in Seq(Byte) /\ Len(leftover') = Len(leftover) - e
      /\ \A i \in 1 .. Len(leftover) - e : leftover'[i] = leftover[e + i]
  BY <1>3, <1>4, SMT
<1>6. Parsed' = Parsed + e /\ Parsed' \in 0 .. rcvd'
  <2>1. Parsed' = rcvd - (Len(leftover) - e)
    BY <1>4, <1>5 DEF Parsed
  <2> QED
    BY <1>3, <1>4, <2>1, SMT
<1>7. \A i \in 1 .. Len(leftover') : leftover'[i] = wire'[Parsed' + i]
  <2> SUFFICES ASSUME NEW i \in 1 .. Len(leftover) - e
               PROVE  leftover'[i] = wire[Parsed' + i]
    BY <1>4, <1>5
  <2>1. e + i \in 1 .. Len(leftover) /\ Parsed' + i = Parsed + (e + i)
    BY <1>3, <1>6, SMT
  <2> QED
    BY <1>3, <1>5, <2>1
<1>8. leftover[e] = wire[Parsed + e] /\ Parsed + e \in 1 .. Len(wire)
  BY <1>3, SMT
<1>9. \A i \in Parsed + 1 .. (Parsed + e) - 1 : ~Newline(wire[i])
  <2> SUFFICES ASSUME NEW i \in Parsed + 1 .. (Parsed + e) - 1
               PROVE  ~Newline(wire[i])
    OBVIOUS
  <2>1. /\ i - Parsed \in 1 .. e - 1 /\ i - Parsed \in 1 .. Len(leftover)
        /\ Parsed + (i - Parsed) = i
    BY <1>3, SMT
  <2>2. leftover[i - Parsed] = wire[i]
    BY <1>3, <2>1
  <2> QED
    BY <1>2, <2>1, <2>2 DEF e
<1> QED
  BY <1>2, <1>3, <1>5, <1>6, <1>7, <1>8, <1>9 DEF e, FirstLine

\* The tokens up to the end of a skipped line: one more for that of a token.
LEMMA SkipTokens ==
    ASSUME ProxyInv, HasLine, SkipLine, UNCHANGED <<sender, rcvd>>
    PROVE  LET m == Cardinality(TokensUpTo(Parsed))
           IN  /\ m \in 0 .. MaxTokens
               /\ FirstLine.kind = "token" =>
                    /\ m + 1 \in Tokens /\ FirstLine = TokenLine(m + 1)
                    /\ Cardinality(TokensUpTo(Parsed))' = m + 1
               /\ FirstLine.kind # "token" => Cardinality(TokensUpTo(Parsed))' = m
<1> DEFINE m == Cardinality(TokensUpTo(Parsed))
           n == Cardinality(TokensUpTo(Parsed + LineEnd))
           e == Parsed + LineEnd
<1>1. TypeOK /\ WireInv
  BY DEF ProxyInv
<1>2. Parsed \in Nat /\ LineEnd \in Nat \ {0} /\ e \in 1 .. Len(wire) /\ Parsed \in 0 .. Len(wire)
      /\ Len(wire) \in Nat
  <2>1. Parsed \in 0 .. rcvd /\ rcvd \in 0 .. Len(wire) /\ Len(wire) \in Nat
    BY <1>1, LenProperties DEF ProxyInv, TypeOK, ParseInv
  <2> QED
    BY <2>1, SkipLemma, SMT
<1>3. /\ m \in 0 .. MaxTokens /\ TokensUpTo(Parsed) = 1 .. m
      /\ n \in 0 .. MaxTokens /\ TokensUpTo(e) = 1 .. n
  <2>1. e \in 0 .. Len(wire)
    BY <1>2, SMT
  <2> QED
    BY <1>1, <1>2, <2>1, UpToLemma
<1>4. Cardinality(TokensUpTo(Parsed))' = n
  <2>1. TokensUpTo(Parsed)' = TokensUpTo(e)
    BY SkipLemma DEF TokensUpTo, sender
  <2> QED
    BY <2>1
<1>5. \A i \in 1 .. e : i \in 1 .. Parsed \/ i \in Parsed + 1 .. e - 1 \/ i = e
  BY <1>2, SMT
<1>6. \A k \in Tokens, i \in Parsed + 1 .. e - 1 : wire[i] # EndOf(k)
  <2>1. \A i \in Parsed + 1 .. e - 1 : ~Newline(wire[i])
    BY SkipLemma, Zenon
  <2>2. \A k \in Tokens : Newline(EndOf(k))
    BY LinesDiffer
  <2> QED
    BY <2>1, <2>2, Zenon
<1>7. CASE FirstLine.kind = "token"
  <2>1. PICK k \in Tokens : wire[e] = EndOf(k)
    BY <1>7, SkipLemma, ByteLemma
  <2>2. FirstLine = TokenLine(k)
    BY <2>1, SkipLemma DEF EndOf
  <2>3. TokensUpTo(e) = TokensUpTo(Parsed) \cup {k}
    <3>1. k \in TokensUpTo(e) /\ TokensUpTo(Parsed) \subseteq TokensUpTo(e)
      <4>1. e \in 1 .. e /\ \A i \in 1 .. Parsed : i \in 1 .. e
        BY <1>2, SMT
      <4> QED
        BY <2>1, <4>1 DEF TokensUpTo
    <3>2. ASSUME NEW x \in TokensUpTo(e)
          PROVE  x \in TokensUpTo(Parsed) \cup {k}
      <4>1. PICK i \in 1 .. e : x \in Tokens /\ wire[i] = EndOf(x)
        BY DEF TokensUpTo
      <4>2. CASE i = e
        BY <2>1, <4>1, <4>2, LinesDiffer
      <4>3. CASE i \in 1 .. Parsed
        BY <4>1, <4>3 DEF TokensUpTo
      <4> QED
        BY <1>5, <1>6, <4>1, <4>2, <4>3
    <3> QED
      BY <3>1, <3>2
  <2>4. k \notin TokensUpTo(Parsed)
    <3> SUFFICES ASSUME NEW i \in 1 .. Parsed, wire[i] = EndOf(k)
                 PROVE  FALSE
      BY DEF TokensUpTo
    <3>1. i < e /\ i \in 1 .. Len(wire) /\ e \in 1 .. Len(wire)
      BY <1>2, SMT
    <3>2. k < k
      BY <1>1, <2>1, <3>1 DEF WireInv
    <3> QED
      BY <3>2, MaxTokensAssumption, SMT DEF Tokens
  <2>5. k = m + 1 /\ n = m + 1
    <3> HIDE DEF m, n
    <3>1. m \in Nat /\ n \in Nat /\ k \in Nat /\ k >= 1 /\ ~(k <= m)
      BY <1>3, <2>4, MaxTokensAssumption, SMT DEF Tokens
    <3>2. 1 .. n = 1 .. m \cup {k}
      BY <1>3, <2>3
    <3>3. \A x \in Nat : x >= 1 => ((x <= n) <=> (x <= m \/ x = k))
      BY <3>1, <3>2, SMT
    <3>4. k <= n /\ (m + 1 <= n <=> m + 1 = k) /\ (n >= 1 => n <= m \/ n = k)
      BY <3>1, <3>3, SMT
    <3> QED
      BY <3>1, <3>4, SMT
  <2> QED
    BY <1>3, <1>4, <1>7, <2>2, <2>5
<1>8. CASE FirstLine.kind # "token"
  <2>1. \A k \in Tokens : wire[e] # EndOf(k)
    <3>1. wire[e][1].kind # "token"
      BY <1>8, SkipLemma
    <3>2. \A k \in Tokens : EndOf(k)[1].kind = "token"
      BY DEF EndOf, TokenLine
    <3> QED
      BY <3>1, <3>2, Zenon
  <2>2. TokensUpTo(e) = TokensUpTo(Parsed)
    <3>1. \A i \in 1 .. Parsed : i \in 1 .. e
      BY <1>2, SMT
    <3> QED
      BY <1>5, <1>6, <2>1, <3>1 DEF TokensUpTo
  <2> QED
    BY <1>3, <1>4, <1>8, <2>2
<1> QED
  BY <1>7, <1>8

\* A token is passed on when its line is skipped.
LEMMA ScanTokenKeeps ==
    ASSUME ProxyInv, NEW goOn \in BOOLEAN, ScanToken(goOn), UNCHANGED sender
    PROVE  ProxyInv'
<1> DEFINE m == Cardinality(TokensUpTo(Parsed))
           e == Parsed + LineEnd
<1>1. /\ HasLine /\ SkipLine /\ FirstLine.kind = "token" /\ spc = "scan"
      /\ passed' = passed \o FirstLine.text
      /\ refused' = ~goOn
      /\ spc' = IF goOn THEN "scan" ELSE "cancel"
      /\ UNCHANGED <<rcvd, fullText, result>> /\ UNCHANGED <<wire, ended>>
  BY DEF ScanToken, NextLine, sender
<1>2. UNCHANGED <<sender, rcvd>>
  BY <1>1
<1>3. /\ m + 1 \in Tokens /\ FirstLine = TokenLine(m + 1) /\ m \in 0 .. MaxTokens
      /\ Cardinality(TokensUpTo(Parsed))' = m + 1
  BY <1>1, <1>2, SkipTokens
<1>4. /\ LineEnd \in Nat \ {0} /\ Parsed' = e /\ Parsed' \in 0 .. rcvd'
      /\ leftover' \in Seq(Byte)
      /\ \A i \in 1 .. Len(leftover') : leftover'[i] = wire'[Parsed' + i]
      /\ Newline(wire[e]) /\ wire[e][1] = FirstLine
      /\ \A i \in Parsed + 1 .. e - 1 : ~Newline(wire[i])
  BY <1>1, <1>2, SkipLemma, Zenon
<1>5. TypeOK /\ WireInv /\ ParseInv /\ CallInv
  BY DEF ProxyInv
<1> HIDE DEF m, e
<1>6. passed' = FirstTokens(m + 1)
  <2>1. passed = FirstTokens(m) /\ FirstLine.text = <<m + 1>> /\ m \in Nat
    BY <1>3, <1>5, MaxTokensAssumption, SMT DEF ParseInv, m, TokenLine
  <2> QED
    BY <1>1, <2>1, NextToken
<1>7. TypeOK'
  <2>1. passed' \in Seq(Tokens)
    <3>1. m + 1 \in 0 .. MaxTokens
      BY <1>3, SMT DEF Tokens
    <3> QED
      BY <1>6, <3>1, FirstTokensType
  <2> QED
    BY <1>1, <1>4, <1>5, <2>1 DEF TypeOK
<1>8. WireInv'
  BY <1>1, <1>5 DEF WireInv, TokensUpTo
<1>9. ParseInv'
  <2>1. Parsed \in Nat
    BY <1>5, SMT DEF ParseInv, TypeOK
  <2>2. \A i \in 1 .. e : i \in 1 .. Parsed \/ i \in Parsed + 1 .. e - 1 \/ i = e
    BY <1>4, <2>1, SMT DEF e
  <2>3. \A i \in 1 .. Parsed : i \in 1 .. e
    BY <1>4, <2>1, SMT DEF e
  <2>4. \A i \in 1 .. e : IsFinalEnd(wire[i]) => i \in 1 .. Parsed
    BY <1>1, <1>4, <2>2 DEF IsFinalEnd
  <2>5. \A i \in 1 .. e : IsFinalEnd(wire[i]) => fullText = wire[i][1].text
    BY <1>5, <2>4 DEF ParseInv
  <2>6. (\A i \in 1 .. e : ~IsFinalEnd(wire[i])) => fullText = <<>>
    BY <1>5, <2>3 DEF ParseInv
  <2> QED
    BY <1>1, <1>3, <1>4, <1>6, <2>5, <2>6 DEF ParseInv
<1>10. CallInv'
  BY <1>1, <1>5 DEF CallInv
<1> QED
  BY <1>7, <1>8, <1>9, <1>10 DEF ProxyInv

\* The final line is the last one, and repeats the text.
LEMMA ScanFinalKeeps ==
    ASSUME ProxyInv, ScanFinal, UNCHANGED sender
    PROVE  ProxyInv'
<1> DEFINE m == Cardinality(TokensUpTo(Parsed))
           e == Parsed + LineEnd
<1>1. /\ HasLine /\ SkipLine /\ FirstLine.kind = "done" /\ spc = "scan"
      /\ fullText' = FirstLine.text
      /\ UNCHANGED <<rcvd, passed, refused, spc, result>> /\ UNCHANGED <<wire, ended>>
  BY DEF ScanFinal, NextLine, sender
<1>2. UNCHANGED <<sender, rcvd>>
  BY <1>1
<1>3. Cardinality(TokensUpTo(Parsed))' = m
  BY <1>1, <1>2, SkipTokens
<1>4. /\ LineEnd \in Nat \ {0} /\ Parsed' = e /\ Parsed' \in 0 .. rcvd'
      /\ leftover' \in Seq(Byte)
      /\ \A i \in 1 .. Len(leftover') : leftover'[i] = wire'[Parsed' + i]
      /\ Newline(wire[e]) /\ wire[e][1] = FirstLine
      /\ e \in 1 .. Len(wire) /\ wire[e] \in Byte
  BY <1>1, <1>2, SkipLemma, Zenon
<1>5. TypeOK /\ WireInv /\ ParseInv /\ CallInv
  BY DEF ProxyInv
<1> HIDE DEF m, e
<1>6. TypeOK'
  <2>1. fullText' \in Texts
    BY <1>1, <1>4, ByteLemma
  <2> QED
    BY <1>1, <1>4, <1>5, <2>1 DEF TypeOK
<1>7. WireInv'
  BY <1>1, <1>5 DEF WireInv, TokensUpTo
<1>8. ParseInv'
  <2>1. Len(wire) \in Nat
    BY <1>5, LenProperties DEF TypeOK
  <2>2. \A i \in 1 .. e : i = e \/ (i \in 1 .. Len(wire) /\ i < e)
    BY <1>4, <2>1, SMT
  <2>3. \A i \in 1 .. e : IsFinalEnd(wire[i]) => i = e
    <3> SUFFICES ASSUME NEW i \in 1 .. e, i \in 1 .. Len(wire), i < e, IsFinalEnd(wire[i])
                 PROVE  FALSE
      BY <2>2
    <3>1. wire[i][1].kind = "token"
      BY <1>4, <1>5 DEF WireInv, IsFinalEnd
    <3> QED
      BY <3>1 DEF IsFinalEnd
  <2>4. e \in 1 .. e /\ IsFinalEnd(wire[e]) /\ fullText' = wire[e][1].text
    BY <1>1, <1>4, SMT DEF IsFinalEnd
  <2>5. passed' = FirstTokens(Cardinality(TokensUpTo(Parsed))')
    BY <1>1, <1>3, <1>5 DEF ParseInv, m
  <2> QED
    BY <1>1, <1>4, <2>3, <2>4, <2>5 DEF ParseInv
<1>9. CallInv'
  BY <1>1, <1>5 DEF CallInv
<1> QED
  BY <1>6, <1>7, <1>8, <1>9 DEF ProxyInv

\* A chunk is added to what is left over.
LEMMA ReceiveKeeps ==
    ASSUME ProxyInv, Receive, UNCHANGED sender
    PROVE  ProxyInv'
<1>1. PICK n \in 1 .. Len(wire) - rcvd :
        /\ leftover' = leftover \o SubSeq(wire, rcvd + 1, rcvd + n)
        /\ rcvd' = rcvd + n
  BY DEF Receive
<1>2. /\ spc = "receive" /\ spc' = "scan"
      /\ UNCHANGED <<passed, refused, fullText, result, wire, ended>>
  BY DEF Receive, sender
<1>3. TypeOK /\ WireInv /\ ParseInv /\ CallInv
  BY DEF ProxyInv
<1> DEFINE t == SubSeq(wire, rcvd + 1, rcvd + n)
<1>4. /\ wire \in Seq(Byte) /\ Len(wire) \in Nat /\ leftover \in Seq(Byte)
      /\ Len(leftover) \in Nat /\ rcvd \in 0 .. Len(wire) /\ n \in Nat
      /\ rcvd + n \in 0 .. Len(wire) /\ rcvd \in Nat
  BY <1>1, <1>3, LenProperties, SMT DEF TypeOK
<1>5. t \in Seq(Byte) /\ Len(t) = n /\ \A i \in 1 .. n : t[i] = wire[rcvd + i]
  BY <1>4, SMT
<1> HIDE DEF t
<1>6. /\ leftover' \in Seq(Byte) /\ Len(leftover') = Len(leftover) + n
      /\ \A i \in 1 .. Len(leftover) + n :
           leftover'[i] = IF i <= Len(leftover) THEN leftover[i] ELSE t[i - Len(leftover)]
  BY <1>1, <1>4, <1>5, ConcatProperties DEF t
<1>7. Parsed' = Parsed /\ Parsed \in 0 .. rcvd' /\ Parsed = rcvd - Len(leftover)
  <2>1. Parsed \in 0 .. rcvd
    BY <1>3 DEF ParseInv
  <2> QED
    BY <1>1, <1>4, <1>6, <2>1, SMT DEF Parsed
<1>8. \A i \in 1 .. Len(leftover') : leftover'[i] = wire[Parsed + i]
  <2> SUFFICES ASSUME NEW i \in 1 .. Len(leftover) + n
               PROVE  leftover'[i] = wire[Parsed + i]
    BY <1>6
  <2>1. CASE i <= Len(leftover)
    <3>1. i \in 1 .. Len(leftover)
      BY <1>4, <2>1, SMT
    <3> QED
      BY <1>3, <1>6, <2>1, <3>1 DEF ParseInv
  <2>2. CASE ~(i <= Len(leftover))
    <3>1. i - Len(leftover) \in 1 .. n /\ rcvd + (i - Len(leftover)) = Parsed + i
      BY <1>4, <1>7, <2>2, SMT
    <3> QED
      BY <1>5, <1>6, <2>2, <3>1
  <2> QED
    BY <2>1, <2>2
<1>9. TypeOK'
  BY <1>1, <1>2, <1>3, <1>4, <1>6 DEF TypeOK
<1>10. WireInv'
  BY <1>2, <1>3 DEF WireInv, TokensUpTo
<1>11. ParseInv'
  <2>1. TokensUpTo(Parsed)' = TokensUpTo(Parsed)
    BY <1>2, <1>7 DEF TokensUpTo
  <2> QED
    BY <1>2, <1>3, <1>7, <1>8, <2>1 DEF ParseInv
<1>12. CallInv'
  BY <1>2, <1>3 DEF CallInv
<1> QED
  BY <1>9, <1>10, <1>11, <1>12 DEF ProxyInv

\* The steps that take nothing from the connection.
LEMMA EndingsKeep ==
    ASSUME ProxyInv, UNCHANGED sender,
           ScanEnds \/ ScanThrows \/ ScanGarbage \/ BodyEnds \/ Cancelled \/ RequestFails
    PROVE  ProxyInv'
<1>1. UNCHANGED <<wire, ended, rcvd, leftover, passed, refused, fullText>>
  BY DEF ScanEnds, ScanThrows, ScanGarbage, BodyEnds, Cancelled, RequestFails, Finish, sender
<1>2. TypeOK /\ WireInv /\ ParseInv /\ CallInv
  BY DEF ProxyInv
<1>3. TypeOK'
  <2>1. /\ spc' \in {"receive", "scan", "cancel", "end"}
        /\ result' \in {None, Error} \cup {Ok(s) : s \in Texts}
    BY <1>2 DEF TypeOK, ScanEnds, ScanThrows, ScanGarbage, BodyEnds, Cancelled, RequestFails, Finish
  <2> QED
    BY <1>1, <1>2, <2>1 DEF TypeOK
<1>4. WireInv'
  BY <1>1, <1>2 DEF WireInv, TokensUpTo
<1>5. ParseInv'
  <2>1. Parsed' = Parsed /\ TokensUpTo(Parsed)' = TokensUpTo(Parsed)
    BY <1>1 DEF Parsed, TokensUpTo
  <2> QED
    BY <1>1, <1>2, <2>1 DEF ParseInv
<1>6. CallInv'
  <2>1. HasLine' = HasLine
    BY <1>1 DEF HasLine
  <2>2. CASE ScanEnds
    BY <1>1, <1>2, <2>1, <2>2 DEF CallInv, ScanEnds
  <2>3. CASE ScanGarbage \/ ScanThrows
    BY <1>1, <1>2, <2>1, <2>3 DEF CallInv, ScanGarbage, ScanThrows, NextLine
  <2>4. CASE BodyEnds
    BY <1>1, <1>2, <2>1, <2>4 DEF CallInv, BodyEnds, Finish
  <2>5. CASE Cancelled \/ RequestFails
    BY <1>1, <1>2, <2>1, <2>5 DEF CallInv, Cancelled, RequestFails, Finish
  <2> QED
    BY <2>2, <2>3, <2>4, <2>5
<1> QED
  BY <1>3, <1>4, <1>5, <1>6 DEF ProxyInv

-----------------------------------------------------------------------------
(* The steps of the other end. *)

\* What is on the connection is lengthened by the first bytes of a line; only
\* the last byte of the line is a newline.
LEMMA GrowLemma ==
    ASSUME TypeOK, WireInv, ~SentFinal, OtherLine \notin Sent,
           NEW line \in NextLines, NEW s, NEW n \in 1 .. LineBytes,
           wire' = wire \o s, s \in Seq(Byte), Len(s) = n,
           \A i \in 1 .. n : s[i] = <<line, i>>
    PROVE  /\ wire' \in Seq(Byte) /\ Len(wire') = Len(wire) + n
           /\ \A i \in 1 .. Len(wire) : wire'[i] = wire[i]
           /\ WireInv'
<1> DEFINE len == Len(wire)
           m == Cardinality(TokensUpTo(Len(wire)))
<1>1. /\ len \in Nat /\ n \in Nat \ {0} /\ n <= LineBytes /\ LineBytes \in Nat
      /\ \A i \in 1 .. len : wire[i] \in Byte
      /\ DOMAIN wire = 1 .. len /\ wire \in Seq(Byte)
  BY LineAssumption, LenProperties, ElementOfSeq, SMT DEF TypeOK
<1> HIDE DEF len
<1>2. /\ wire' \in Seq(Byte) /\ Len(wire') = len + n
      /\ \A i \in 1 .. len : wire'[i] = wire[i]
      /\ \A i \in len + 1 .. len + n : wire'[i] = <<line, i - len>>
  <2>1. /\ wire' \in Seq(Byte) /\ Len(wire') = len + n
        /\ \A i \in 1 .. len + n : wire'[i] = IF i <= len THEN wire[i] ELSE s[i - len]
    BY <1>1, ConcatProperties DEF len
  <2>2. \A i \in 1 .. len : i \in 1 .. len + n /\ i <= len
    BY <1>1, SMT
  <2>3. \A i \in len + 1 .. len + n : i \in 1 .. len + n /\ ~(i <= len) /\ i - len \in 1 .. n
    BY <1>1, SMT
  <2> QED
    BY <2>1, <2>2, <2>3
<1>3. \A i \in 1 .. len + n : i \in 1 .. len \/ i \in len + 1 .. len + n
  BY <1>1, SMT
<1>4. \A i \in 1 .. len : Newline(wire[i]) => wire[i][1].kind = "token"
  <2> SUFFICES ASSUME NEW i \in 1 .. len, Newline(wire[i])
               PROVE  wire[i][1].kind = "token"
    OBVIOUS
  <2>1. wire[i][1] \in Sent /\ wire[i][1] \in Lines
    BY <1>1, ByteLemma DEF Sent
  <2>2. wire[i][1].kind # "done" /\ wire[i][1] # OtherLine
    BY <2>1 DEF SentFinal
  <2> QED
    BY <2>1, <2>2, LinesDiffer DEF Lines
<1>5. \A i \in len + 1 .. len + n : Newline(wire'[i]) => i = len + LineBytes /\ n = LineBytes
  <2> SUFFICES ASSUME NEW i \in len + 1 .. len + n, Newline(wire'[i])
               PROVE  i = len + LineBytes /\ n = LineBytes
    OBVIOUS
  <2>1. i - len = LineBytes
    <3>1. wire'[i] = <<line, i - len>>
      BY <1>2
    <3>2. \A x, y : <<x, y>>[2] = y
      OBVIOUS
    <3>3. wire'[i][2] = i - len
      BY <3>1, <3>2, Zenon
    <3> QED
      BY <3>3 DEF Newline
  <2> QED
    BY <1>1, <2>1, SMT
<1>6. /\ m \in 0 .. MaxTokens /\ TokensUpTo(len) = 1 .. m
      /\ m = Cardinality(SentTokens)
  <2>1. len \in 0 .. Len(wire)
    BY <1>1, SMT DEF len
  <2> QED
    BY <2>1, UpToLemma, SentLemma DEF len
<1> HIDE DEF m
<1>7. line \in {OtherLine, FinalLine(FirstTokens(m)), FinalLine(What)}
        \/ (m < MaxTokens /\ line = TokenLine(m + 1))
  BY <1>6 DEF NextLines
<1>8. \A k \in Tokens, i \in len + 1 .. len + n :
        wire'[i] = EndOf(k) => line = TokenLine(k) /\ i = len + n /\ n = LineBytes
  <2> SUFFICES ASSUME NEW k \in Tokens, NEW i \in len + 1 .. len + n, wire'[i] = EndOf(k)
               PROVE  line = TokenLine(k) /\ i = len + n /\ n = LineBytes
    OBVIOUS
  <2>1. i = len + LineBytes /\ n = LineBytes
    BY <1>5, LinesDiffer
  <2> QED
    BY <1>2, <2>1 DEF EndOf
<1>9. TokensUpTo(Len(wire))' = IF line.kind = "token" /\ n = LineBytes
                               THEN 1 .. m + 1 ELSE 1 .. m
  <2>1. TokensUpTo(Len(wire))' = {k \in Tokens : \E i \in 1 .. len + n : wire'[i] = EndOf(k)}
    BY <1>2 DEF TokensUpTo, EndOf
  <2>2. TokensUpTo(len) \subseteq TokensUpTo(Len(wire))'
    <3>1. \A i \in 1 .. len : i \in 1 .. len + n
      BY <1>1, SMT
    <3> QED
      BY <1>2, <2>1, <3>1 DEF TokensUpTo
  <2>3. ASSUME NEW k \in TokensUpTo(Len(wire))', k \notin TokensUpTo(len)
        PROVE  k \in Tokens /\ line = TokenLine(k) /\ n = LineBytes
    <3>1. PICK i \in 1 .. len + n : k \in Tokens /\ wire'[i] = EndOf(k)
      BY <2>1
    <3>2. i \in len + 1 .. len + n
      BY <1>2, <1>3, <2>3, <3>1 DEF TokensUpTo
    <3> QED
      BY <1>8, <3>1, <3>2
  <2>4. CASE line.kind = "token" /\ n = LineBytes
    <3>1. m < MaxTokens /\ line = TokenLine(m + 1)
      BY <1>7, <2>4 DEF OtherLine, FinalLine
    <3>2. m + 1 \in Tokens /\ m \in Nat
      BY <1>6, <3>1, MaxTokensAssumption, SMT DEF Tokens
    <3>3. len + n \in len + 1 .. len + n /\ len + n \in 1 .. len + n /\ (len + n) - len = n
      BY <1>1, SMT
    <3>4. wire'[len + n] = EndOf(m + 1)
      BY <1>2, <2>4, <3>1, <3>3 DEF EndOf
    <3>5. m + 1 \in TokensUpTo(Len(wire))'
      BY <2>1, <3>2, <3>3, <3>4
    <3>6. \A k \in Tokens : TokenLine(k) = TokenLine(m + 1) => k = m + 1
      BY <3>2, LinesDiffer DEF EndOf
    <3>7. TokensUpTo(Len(wire))' = TokensUpTo(len) \cup {m + 1}
      BY <2>2, <2>3, <3>1, <3>5, <3>6
    <3>8. 1 .. m + 1 = 1 .. m \cup {m + 1}
      BY <3>2, SMT
    <3> QED
      BY <1>6, <2>4, <3>7, <3>8
  <2>5. CASE ~(line.kind = "token" /\ n = LineBytes)
    <3>1. TokensUpTo(Len(wire))' = TokensUpTo(len)
      <4>1. \A k \in Tokens : TokenLine(k).kind = "token"
        BY LinesDiffer
      <4>2. \A k \in TokensUpTo(Len(wire))' : k \in TokensUpTo(len)
        BY <2>3, <2>5, <4>1, Zenon
      <4> QED
        BY <2>2, <4>2, Zenon
    <3> QED
      BY <1>6, <2>5, <3>1
  <2> QED
    BY <2>4, <2>5
<1>10. \E k \in 0 .. MaxTokens : TokensUpTo(Len(wire))' = 1 .. k
  <2>1. line.kind = "token" => m + 1 \in 0 .. MaxTokens
    BY <1>6, <1>7, MaxTokensAssumption, SMT DEF OtherLine, FinalLine
  <2> QED
    BY <1>6, <1>9, <2>1
<1>11. ASSUME NEW i \in 1 .. len + n, NEW j \in 1 .. len + n, NEW a \in Tokens, NEW b \in Tokens,
              i < j, wire'[i] = EndOf(a), wire'[j] = EndOf(b)
       PROVE  a < b
  <2>1. CASE i \in 1 .. len /\ j \in 1 .. len
    BY <1>2, <1>11, <2>1 DEF WireInv, len
  <2>2. CASE i \in 1 .. len /\ j \in len + 1 .. len + n
    <3>1. a \in TokensUpTo(len)
      BY <1>2, <1>11, <2>2 DEF TokensUpTo
    <3>2. line = TokenLine(b)
      BY <1>8, <1>11, <2>2
    <3>3. line = TokenLine(m + 1) /\ m < MaxTokens
      BY <1>7, <3>2 DEF OtherLine, FinalLine, TokenLine
    <3>4. m + 1 \in Tokens
      BY <1>6, <3>3, MaxTokensAssumption, SMT DEF Tokens
    <3>5. b = m + 1
      BY <3>2, <3>3, <3>4, LinesDiffer DEF EndOf
    <3> QED
      BY <1>6, <3>1, <3>5, MaxTokensAssumption, SMT
  <2>3. CASE i \in len + 1 .. len + n
    <3>1. i = len + n
      BY <1>8, <1>11, <2>3
    <3> QED
      BY <1>1, <1>11, <3>1, SMT
  <2> QED
    BY <1>3, <2>1, <2>2, <2>3
<1>12. ASSUME NEW i \in 1 .. len + n, NEW j \in 1 .. len + n,
              i < j, Newline(wire'[i]), Newline(wire'[j])
       PROVE  wire'[i][1].kind = "token"
  <2>1. CASE i \in 1 .. len
    BY <1>2, <1>4, <1>12, <2>1
  <2>2. CASE i \in len + 1 .. len + n
    <3>1. i = len + n
      BY <1>5, <1>12, <2>2
    <3> QED
      BY <1>1, <1>12, <3>1, SMT
  <2> QED
    BY <1>3, <2>1, <2>2
<1>13. ASSUME NEW i \in 1 .. len + n, IsFinalEnd(wire'[i])
       PROVE  wire'[i][1].text \in {What, FirstTokens(Cardinality(TokensUpTo(Len(wire)))')}
  <2>1. i \in len + 1 .. len + n
    BY <1>2, <1>3, <1>4, <1>13 DEF IsFinalEnd
  <2>2. wire'[i][1] = line /\ line.kind = "done"
    BY <1>2, <1>13, <2>1 DEF IsFinalEnd
  <2>3. line.text \in {What, FirstTokens(m)}
    BY <1>7, <2>2 DEF OtherLine, TokenLine, FinalLine
  <2>4. Cardinality(TokensUpTo(Len(wire)))' = m
    <3>1. m \in Nat /\ TokensUpTo(Len(wire))' = 1 .. m
      BY <1>6, <1>9, <2>2, MaxTokensAssumption, SMT
    <3> QED
      BY <3>1, CountInterval
  <2> QED
    BY <2>2, <2>3, <2>4
<1>14. WireInv'
  <2>1. \A b : IsFinalEnd(b)' = IsFinalEnd(b) /\ Newline(b)' = Newline(b)
    BY DEF IsFinalEnd, Newline
  <2> QED
    BY <1>2, <1>10, <1>11, <1>12, <1>13, <2>1 DEF WireInv
<1> QED
  BY <1>2, <1>14 DEF len

\* The parser is not disturbed by what is sent later.
LEMMA SenderKeeps ==
    ASSUME ProxyInv, Send \/ Hangup, UNCHANGED proxy
    PROVE  ProxyInv'
<1>1. TypeOK /\ WireInv /\ ParseInv /\ CallInv /\ ~ended
  BY DEF ProxyInv, Send, Hangup
<1>2. UNCHANGED <<rcvd, leftover, passed, refused, fullText, spc, result>>
  BY DEF proxy
<1>3. ended' \in BOOLEAN /\ (ended => ended')
  BY <1>1 DEF Send, Hangup, TypeOK
<1>4. CASE wire' = wire
  <2>1. WireInv' /\ ParseInv'
    <3>1. TokensUpTo(Parsed)' = TokensUpTo(Parsed) /\ Parsed' = Parsed
      BY <1>2, <1>4 DEF TokensUpTo, Parsed
    <3> QED
      BY <1>1, <1>2, <1>4, <3>1 DEF WireInv, ParseInv, TokensUpTo
  <2>2. CallInv'
    BY <1>1, <1>2, <1>3, <1>4 DEF CallInv, HasLine
  <2> QED
    BY <1>1, <1>2, <1>3, <1>4, <2>1, <2>2 DEF ProxyInv, TypeOK
<1>5. CASE wire' # wire
  <2>1. PICK line \in NextLines, n \in 1 .. LineBytes :
          /\ ~SentFinal /\ OtherLine \notin Sent
          /\ wire' = wire \o SubSeq(Bytes(line), 1, n)
    <3>1. CASE Send
      <4>1. PICK line \in NextLines : wire' = wire \o Bytes(line) /\ ~SentFinal /\ OtherLine \notin Sent
        BY <3>1 DEF Send
      <4>2. LineBytes \in 1 .. LineBytes
        BY LineAssumption, SMT
      <4>3. SubSeq(Bytes(line), 1, LineBytes) = Bytes(line)
        BY LineAssumption, SMT DEF Bytes
      <4> QED
        BY <4>1, <4>2, <4>3
    <3>2. CASE Hangup
      <4>1. PICK line \in NextLines, n \in 1 .. LineBytes - 1 :
              /\ ~SentFinal /\ OtherLine \notin Sent
              /\ wire' = wire \o SubSeq(Bytes(line), 1, n)
        BY <1>5, <3>2 DEF Hangup
      <4>2. n \in 1 .. LineBytes
        BY LineAssumption, SMT
      <4> QED
        BY <4>1, <4>2
    <3> QED
      BY <3>1, <3>2
  <2> DEFINE s == SubSeq(Bytes(line), 1, n)
  <2>2. line \in Lines
    <3>1. Cardinality(SentTokens) \in 0 .. MaxTokens
      <4>1. Len(wire) \in 0 .. Len(wire)
        BY <1>1, LenProperties, SMT DEF TypeOK
      <4> QED
        BY <1>1, <4>1, SentLemma, UpToLemma
    <3>2. Cardinality(SentTokens) < MaxTokens => Cardinality(SentTokens) + 1 \in Tokens
      BY <3>1, MaxTokensAssumption, SMT DEF Tokens
    <3>3. FirstTokens(Cardinality(SentTokens)) \in Texts /\ What \in Texts
      BY <3>1 DEF Texts
    <3> QED
      BY <3>2, <3>3 DEF NextLines, Lines
  <2>3. s \in Seq(Byte) /\ Len(s) = n /\ \A i \in 1 .. n : s[i] = <<line, i>>
    <3>1. Bytes(line) \in [1 .. LineBytes -> Byte]
      BY <2>2 DEF Bytes, Byte
    <3>2. LineBytes \in Nat /\ n \in Nat /\ n <= LineBytes
      BY LineAssumption, SMT
    <3>3. /\ Bytes(line) \in Seq(Byte) /\ Len(Bytes(line)) = LineBytes
          /\ \A i \in 1 .. LineBytes : Bytes(line)[i] = <<line, i>>
      BY <3>1, <3>2, SMT DEF Bytes
    <3>4. s \in Seq(Byte) /\ Len(s) = n /\ \A i \in 1 .. n : s[i] = Bytes(line)[i]
      BY <3>2, <3>3, SMT
    <3>5. \A i \in 1 .. n : i \in 1 .. LineBytes
      BY <3>2, SMT
    <3> QED
      BY <3>3, <3>4, <3>5
  <2> HIDE DEF s
  <2>4. /\ wire' \in Seq(Byte) /\ Len(wire') = Len(wire) + n
        /\ \A i \in 1 .. Len(wire) : wire'[i] = wire[i]
        /\ WireInv'
    BY <1>1, <2>1, <2>3, GrowLemma DEF s
  <2>5. /\ Len(wire) \in Nat /\ rcvd \in 0 .. Len(wire) /\ Parsed \in 0 .. rcvd
        /\ leftover \in Seq(Byte) /\ Len(leftover) \in Nat /\ Parsed = rcvd - Len(leftover)
    BY <1>1, LenProperties DEF TypeOK, ParseInv, Parsed
  <2>6. TypeOK'
    <3>1. rcvd \in 0 .. Len(wire')
      BY <2>4, <2>5, SMT
    <3> QED
      BY <1>1, <1>2, <1>3, <2>4, <3>1 DEF TypeOK
  <2>7. ParseInv'
    <3>1. \A i \in 1 .. Parsed : i \in 1 .. Len(wire)
      BY <2>5, SMT
    <3>2. \A i \in 1 .. Len(leftover) : Parsed + i \in 1 .. Len(wire)
      BY <2>5, SMT
    <3>3. Parsed' = Parsed
      BY <1>2 DEF Parsed
    <3>4. \A i \in 1 .. Parsed : wire'[i] = wire[i]
      BY <2>4, <3>1
    <3>5. TokensUpTo(Parsed)' = TokensUpTo(Parsed)
      BY <3>3, <3>4 DEF TokensUpTo, EndOf
    <3>6. \A i \in 1 .. Len(leftover) : wire'[Parsed + i] = wire[Parsed + i]
      BY <2>4, <3>2
    <3>7. \A b : IsFinalEnd(b)' = IsFinalEnd(b)
      BY DEF IsFinalEnd, Newline
    <3> QED
      BY <1>1, <1>2, <3>3, <3>4, <3>5, <3>6, <3>7 DEF ParseInv
  <2>8. CallInv'
    BY <1>1, <1>2 DEF CallInv, HasLine
  <2> QED
    BY <2>4, <2>6, <2>7, <2>8 DEF ProxyInv
<1> QED
  BY <1>4, <1>5

-----------------------------------------------------------------------------
(* The theorems. *)

LEMMA InitProxyInv == Init => ProxyInv
<1> SUFFICES ASSUME Init
             PROVE  ProxyInv
  OBVIOUS
<1>1. /\ wire = <<>> /\ ended = FALSE /\ rcvd = 0 /\ leftover = <<>> /\ passed = <<>>
      /\ refused = FALSE /\ fullText = <<>> /\ spc = "receive" /\ result = None
  BY DEF Init, InitProxy
<1>2. Len(<<>>) = 0 /\ 1 .. 0 = {} /\ 0 \in 0 .. 0
  BY EmptySeq, SMT
<1>3. FirstTokens(0) = <<>>
  BY SMT DEF FirstTokens
<1>4. 0 \in 0 .. MaxTokens
  BY MaxTokensAssumption, SMT
<1>5. \A p : p = 0 => TokensUpTo(p) = {}
  BY <1>2 DEF TokensUpTo
<1>6. Cardinality({}) = 0
  BY FS_EmptySet
<1>7. Parsed = 0
  <2>1. rcvd = 0 /\ Len(leftover) = 0
    BY <1>1, <1>2
  <2> QED
    BY <2>1, SMT DEF Parsed
<1>8. TypeOK
  BY <1>1, <1>2, <1>3, <1>4, EmptySeq DEF TypeOK, Texts
<1>9. WireInv
  BY <1>1, <1>2, <1>4, <1>5 DEF WireInv
<1>10. ParseInv
  BY <1>1, <1>2, <1>3, <1>5, <1>6, <1>7 DEF ParseInv
<1>11. CallInv
  BY <1>1, <1>2, EmptySeq DEF CallInv, HasLine
<1> QED
  BY <1>8, <1>9, <1>10, <1>11 DEF ProxyInv

\* A step of the request.
LEMMA RequestKeeps ==
    ASSUME ProxyInv, Request, UNCHANGED sender
    PROVE  ProxyInv'
  BY ReceiveKeeps, ScanTokenKeeps, ScanFinalKeeps, EndingsKeep DEF Request

\* Nothing happens.
LEMMA StutterProxy == ProxyInv /\ UNCHANGED vars => ProxyInv'
<1> SUFFICES ASSUME ProxyInv, UNCHANGED vars
             PROVE  ProxyInv'
  OBVIOUS
<1>1. UNCHANGED <<wire, ended, rcvd, leftover, passed, refused, fullText, spc, result>>
  BY DEF vars, sender, proxy
<1>2. WireInv' /\ ParseInv'
  <2>1. TokensUpTo(Parsed)' = TokensUpTo(Parsed) /\ Parsed' = Parsed
    BY <1>1 DEF TokensUpTo, Parsed
  <2> QED
    BY <1>1, <2>1 DEF ProxyInv, WireInv, ParseInv, TokensUpTo
<1>3. TypeOK' /\ CallInv'
  BY <1>1 DEF ProxyInv, TypeOK, CallInv, HasLine
<1> QED
  BY <1>2, <1>3 DEF ProxyInv

LEMMA NextProxy == ProxyInv /\ [Next]_vars => ProxyInv'
  BY RequestKeeps, SenderKeeps, StutterProxy DEF Next

\* Between any two bytes of the body: what was parsed was passed on and is in
\* full_text, and the rest of what was received is left over, however the
\* body is cut into chunks (stream_parse_chunk).
THEOREM ProxyInvariance == Spec => []ProxyInv
  BY InitProxyInv, NextProxy, PTL DEF Spec

\* The state of a streamed call keeps its type.
THEOREM ProxyTypeCorrect == Spec => []TypeOK
  BY ProxyInvariance, PTL DEF ProxyInv

\* While no whole line is left over, the parser is done with every line that
\* ends in what was received.
LEMMA NoLineLeft ==
    ASSUME ProxyInv, ~HasLine
    PROVE  /\ \A i \in Parsed + 1 .. rcvd : ~Newline(wire[i])
           /\ TokensUpTo(rcvd) = TokensUpTo(Parsed)
<1>1. /\ rcvd \in Nat /\ Len(leftover) \in Nat /\ Parsed = rcvd - Len(leftover)
      /\ Parsed \in 0 .. rcvd /\ DOMAIN leftover = 1 .. Len(leftover)
  <2>1. Len(wire) \in Nat /\ rcvd \in 0 .. Len(wire)
    BY LenProperties DEF ProxyInv, TypeOK
  <2> QED
    BY <2>1, LenProperties, SMT DEF ProxyInv, TypeOK, ParseInv, Parsed
<1>2. \A i \in Parsed + 1 .. rcvd : ~Newline(wire[i])
  <2> SUFFICES ASSUME NEW i \in Parsed + 1 .. rcvd
               PROVE  ~Newline(wire[i])
    OBVIOUS
  <2>1. i - Parsed \in 1 .. Len(leftover) /\ Parsed + (i - Parsed) = i
    BY <1>1, SMT
  <2>2. leftover[i - Parsed] = wire[i]
    BY <2>1 DEF ProxyInv, ParseInv
  <2> QED
    BY <1>1, <2>1, <2>2 DEF HasLine
<1>3. \A i \in 1 .. rcvd : i \in 1 .. Parsed \/ i \in Parsed + 1 .. rcvd
  BY <1>1, SMT
<1>4. \A i \in 1 .. Parsed : i \in 1 .. rcvd
  BY <1>1, SMT
<1>5. \A k \in Tokens : Newline(EndOf(k))
  BY LinesDiffer
<1>6. TokensUpTo(rcvd) = TokensUpTo(Parsed)
  BY <1>2, <1>3, <1>4, <1>5, Zenon DEF TokensUpTo
<1> QED
  BY <1>2, <1>6

\* ChunkingIrrelevant follows from the invariant.
LEMMA ChunkingHolds == ProxyInv => ChunkingIrrelevant
<1> SUFFICES ASSUME ProxyInv, spc = "receive"
             PROVE  passed = FirstTokens(Cardinality(Arrived))
  BY DEF ChunkingIrrelevant
<1>1. Arrived = TokensUpTo(rcvd)
  BY DEF Arrived, TokensUpTo, EndOf
<1>2. ~HasLine
  BY DEF ProxyInv, CallInv
<1> QED
  BY <1>1, <1>2, NoLineLeft DEF ProxyInv, ParseInv

\* SuccessIsComplete follows from the invariant.
LEMMA SuccessHolds == ProxyInv => SuccessIsComplete
<1> SUFFICES ASSUME ProxyInv, result # None, result.kind = "ok"
             PROVE  /\ passed = FirstTokens(Cardinality(SentTokens))
                    /\ SentFinal => result.text \in {passed, What}
  BY DEF SuccessIsComplete
<1>1. result # Error
  BY DEF Error
<1>2. spc = "end" /\ result = Ok(fullText) /\ ~HasLine /\ rcvd = Len(wire)
  BY <1>1 DEF ProxyInv, CallInv
<1>3. passed = FirstTokens(Cardinality(SentTokens))
  BY <1>2, NoLineLeft, SentLemma DEF ProxyInv, ParseInv
<1>4. ASSUME SentFinal
      PROVE  result.text \in {passed, What}
  <2>1. DOMAIN wire = 1 .. Len(wire)
    BY LenProperties DEF ProxyInv, TypeOK
  <2>2. PICK i \in 1 .. Len(wire) : IsFinalEnd(wire[i])
    BY <1>4, <2>1 DEF SentFinal, Sent, IsFinalEnd
  <2>3. i \in 1 .. Parsed
    <3>1. i \notin Parsed + 1 .. rcvd
      BY <1>2, <2>2, NoLineLeft DEF IsFinalEnd
    <3>2. Len(wire) \in Nat /\ Parsed \in 0 .. rcvd
      BY LenProperties DEF ProxyInv, TypeOK, ParseInv
    <3> QED
      BY <1>2, <3>1, <3>2, SMT
  <2>4. fullText = wire[i][1].text
    BY <2>2, <2>3 DEF ProxyInv, ParseInv
  <2>5. wire[i][1].text \in {What, FirstTokens(Cardinality(TokensUpTo(Len(wire))))}
    BY <2>2 DEF ProxyInv, WireInv
  <2>6. Cardinality(TokensUpTo(Len(wire))) = Cardinality(SentTokens)
    BY SentLemma DEF ProxyInv
  <2> QED
    BY <1>2, <1>3, <2>4, <2>5, <2>6 DEF Ok
<1> QED
  BY <1>3, <1>4

\* However the body is cut into chunks, whenever the parser waits for the next
\* one it has passed on exactly the tokens whose lines have arrived.
THEOREM ProxyChunking == Spec => []ChunkingIrrelevant
  BY ProxyInvariance, ChunkingHolds, PTL

\* A call that succeeds has passed on every token that was sent, and its text is
\* that of the final line, if there was one.
THEOREM ProxyCompleteness == Spec => []SuccessIsComplete
  BY ProxyInvariance, SuccessHolds, PTL

\* After a refusal the only step of the call is to fail.
LEMMA RefusalStep == ProxyInv /\ [Next]_vars =>
                       [refused => passed' = passed /\ result' \in {None, Error}]_vars
<1> SUFFICES ASSUME ProxyInv, Next, refused
             PROVE  passed' = passed /\ result' \in {None, Error}
  BY DEF vars
<1>1. spc \in {"cancel", "end"} /\ (spc = "cancel" => result = None)
      /\ (spc = "end" => result = Error)
  BY DEF ProxyInv, CallInv
<1>2. CASE Request
  BY <1>1, <1>2 DEF Request, Receive, ScanToken, ScanThrows, ScanFinal, ScanEnds, ScanGarbage, NextLine,
                    BodyEnds, Cancelled, RequestFails, Finish
<1>3. CASE UNCHANGED proxy
  BY <1>1, <1>3 DEF proxy
<1> QED
  BY <1>2, <1>3 DEF Next

\* Once on_token has refused a token, no other token is passed to it, and the
\* call fails.
THEOREM ProxyRefusal == Spec => RefusalIsFinal
  BY ProxyInvariance, RefusalStep, PTL DEF Spec, RefusalIsFinal

-----------------------------------------------------------------------------
(* A streamed call and a buffered one agree. *)

\* The newlines of the body are the ends of its lines, what was sent before the
\* end consists of whole lines, and no line was parsed that is not a runner's.
BodyInv ==
    /\ \A i \in 1 .. Len(wire) : Newline(wire[i]) <=> i % LineBytes = 0
    /\ ~ended => Len(wire) % LineBytes = 0
    /\ \A i \in 1 .. Parsed : Newline(wire[i]) => wire[i][1] # OtherLine

\* Division of natural numbers.
LEMMA DivMod ==
    ASSUME NEW a \in Nat, NEW b \in Nat \ {0}
    PROVE  a \div b \in Nat /\ a % b \in 0 .. (b - 1) /\ a = b * (a \div b) + (a % b)
  BY SMTT(20)

\* A multiple has no remainder.
LEMMA Multiple ==
    ASSUME NEW q \in Nat, NEW b \in Nat \ {0}
    PROVE  (q * b) % b = 0
  BY SMTT(20)

\* The remainder of a number that is up to a line beyond a number of lines.
LEMMA NextMultiple ==
    ASSUME NEW len \in Nat, len % LineBytes = 0, NEW k \in 1 .. LineBytes
    PROVE  (len + k) % LineBytes = 0 <=> k = LineBytes
<1>1. LineBytes \in Nat /\ LineBytes > 0 /\ k \in Nat /\ k <= LineBytes /\ k >= 1
  BY LineAssumption, SMT
<1>2. PICK q \in Nat : len = q * LineBytes
  <2>1. PICK d \in Nat : len = LineBytes * d + (len % LineBytes)
    BY DivMod, LineAssumption, Zenon
  <2>2. len = d * LineBytes
    BY <1>1, <2>1, SMTT(20)
  <2> QED
    BY <2>2
<1>3. CASE k = LineBytes
  <2>1. len + k = (q + 1) * LineBytes
    BY <1>1, <1>2, <1>3, SMTT(20)
  <2>2. ((q + 1) * LineBytes) % LineBytes = 0
    BY <1>1, <1>2, SMTT(20)
  <2> QED
    BY <1>3, <2>1, <2>2
<1>4. CASE k < LineBytes
  <2>1. (q * LineBytes + k) % LineBytes = k
    BY <1>1, <1>2, <1>4, SMTT(20)
  <2> QED
    BY <1>1, <1>2, <1>4, <2>1, SMT
<1> QED
  BY <1>1, <1>3, <1>4, SMT

\* What a step of the other end adds is a part of a line, and all of it unless
\* the connection is closed.
LEMMA SentBytes ==
    ASSUME TypeOK, Send \/ Hangup, wire' # wire
    PROVE  \E line \in NextLines, n \in 1 .. LineBytes :
             /\ ~ended /\ (n = LineBytes \/ ended')
             /\ Len(wire') = Len(wire) + n
             /\ \A i \in 1 .. Len(wire) : wire'[i] = wire[i]
             /\ \A i \in 1 .. n : wire'[Len(wire) + i] = <<line, i>>
<1>1. PICK line \in NextLines, n \in 1 .. LineBytes :
        /\ ~ended /\ (n = LineBytes \/ ended')
        /\ wire' = wire \o SubSeq(Bytes(line), 1, n)
  <2>1. CASE Send
    <3>1. PICK line \in NextLines : wire' = wire \o Bytes(line) /\ ~ended
      BY <2>1 DEF Send
    <3>2. LineBytes \in 1 .. LineBytes /\ SubSeq(Bytes(line), 1, LineBytes) = Bytes(line)
      BY LineAssumption, SMT DEF Bytes
    <3> QED
      BY <3>1, <3>2
  <2>2. CASE Hangup
    <3>1. PICK line \in NextLines, n \in 1 .. LineBytes - 1 :
            ~ended /\ ended' /\ wire' = wire \o SubSeq(Bytes(line), 1, n)
      BY <2>2 DEF Hangup
    <3>2. n \in 1 .. LineBytes
      BY LineAssumption, SMT
    <3> QED
      BY <3>1, <3>2
  <2> QED
    BY <2>1, <2>2
<1> DEFINE s == SubSeq(Bytes(line), 1, n)
<1>2. s \in Seq({line} \X Nat) /\ Len(s) = n /\ \A i \in 1 .. n : s[i] = <<line, i>>
  <2>1. LineBytes \in Nat /\ n \in Nat /\ n <= LineBytes
    BY LineAssumption, SMT
  <2>2. /\ Bytes(line) \in Seq({line} \X Nat) /\ Len(Bytes(line)) = LineBytes
        /\ \A i \in 1 .. LineBytes : Bytes(line)[i] = <<line, i>>
    <3>1. Bytes(line) \in [1 .. LineBytes -> {line} \X Nat]
      BY <2>1 DEF Bytes
    <3> QED
      BY <2>1, <3>1, SMT DEF Bytes
  <2>3. s \in Seq({line} \X Nat) /\ Len(s) = n /\ \A i \in 1 .. n : s[i] = Bytes(line)[i]
    BY <2>1, <2>2, SMT
  <2>4. \A i \in 1 .. n : i \in 1 .. LineBytes
    BY <2>1, SMT
  <2> QED
    BY <2>2, <2>3, <2>4
<1> HIDE DEF s
<1>3. /\ Len(wire') = Len(wire) + n
      /\ \A i \in 1 .. Len(wire) : wire'[i] = wire[i]
      /\ \A i \in 1 .. n : wire'[Len(wire) + i] = s[i]
  <2>1. Len(wire) \in Nat /\ wire \in Seq(Byte) /\ n \in Nat
    BY LenProperties, LineAssumption, SMT DEF TypeOK
  <2>2. wire \in Seq(Byte \cup {line} \X Nat) /\ s \in Seq(Byte \cup {line} \X Nat)
    BY <1>2, <2>1, SMT
  <2>3. Len(wire \o s) = Len(wire) + Len(s)
        /\ \A i \in 1 .. Len(wire) + Len(s) :
             (wire \o s)[i] = IF i <= Len(wire) THEN wire[i] ELSE s[i - Len(wire)]
    BY <2>2, ConcatProperties
  <2>4. wire' = wire \o s
    BY <1>1 DEF s
  <2>5. \A i \in 1 .. Len(wire) : i \in 1 .. Len(wire) + n /\ i <= Len(wire)
    BY <2>1, SMT
  <2>6. \A i \in 1 .. n : /\ Len(wire) + i \in 1 .. Len(wire) + n /\ ~(Len(wire) + i <= Len(wire))
                          /\ (Len(wire) + i) - Len(wire) = i
    BY <2>1, SMT
  <2> QED
    BY <1>2, <2>3, <2>4, <2>5, <2>6
<1>4. \A i \in 1 .. n : wire'[Len(wire) + i] = <<line, i>>
  BY <1>2, <1>3
<1> QED
  BY <1>1, <1>3, <1>4, Zenon

LEMMA InitBody == Init => BodyInv
<1> SUFFICES ASSUME Init
             PROVE  BodyInv
  OBVIOUS
<1>1. wire = <<>> /\ rcvd = 0 /\ leftover = <<>>
  BY DEF Init, InitProxy
<1>2. Len(<<>>) = 0 /\ 1 .. 0 = {}
  BY EmptySeq, SMT
<1>3. Parsed = 0
  <2>1. rcvd = 0 /\ Len(leftover) = 0
    BY <1>1, <1>2
  <2> QED
    BY <2>1, SMT DEF Parsed
<1>4. 0 % LineBytes = 0
  BY LineAssumption, SMTT(20)
<1> QED
  BY <1>1, <1>2, <1>3, <1>4 DEF BodyInv

\* The other end sends whole lines until it closes the connection.
LEMMA SenderKeepsBody ==
    ASSUME ProxyInv, BodyInv, Send \/ Hangup, UNCHANGED proxy
    PROVE  BodyInv'
<1>1. /\ TypeOK /\ Len(wire) \in Nat /\ Parsed \in 0 .. Len(wire)
      /\ Parsed' = Parsed /\ ~ended /\ ended' \in BOOLEAN
      /\ Len(wire) % LineBytes = 0
  <2>1. Len(wire) \in Nat /\ rcvd \in 0 .. Len(wire) /\ Parsed \in 0 .. rcvd
    BY LenProperties DEF ProxyInv, TypeOK, ParseInv
  <2>2. Parsed \in 0 .. Len(wire)
    BY <2>1, SMT
  <2>3. Parsed' = Parsed
    BY DEF Parsed, proxy
  <2>4. TypeOK /\ ~ended /\ ended' \in BOOLEAN
    BY DEF Send, Hangup, ProxyInv, TypeOK
  <2> QED
    BY <2>1, <2>2, <2>3, <2>4 DEF BodyInv
<1>2. CASE wire' = wire
  BY <1>1, <1>2 DEF BodyInv
<1>3. CASE wire' # wire
  <2>1. PICK line \in NextLines, n \in 1 .. LineBytes :
          /\ (n = LineBytes \/ ended')
          /\ Len(wire') = Len(wire) + n
          /\ \A i \in 1 .. Len(wire) : wire'[i] = wire[i]
          /\ \A i \in 1 .. n : wire'[Len(wire) + i] = <<line, i>>
    BY <1>1, <1>3, SentBytes
  <2>2. LineBytes \in Nat /\ n \in Nat /\ n >= 1 /\ n <= LineBytes
    BY LineAssumption, SMT
  <2>3. ASSUME NEW i \in 1 .. Len(wire) + n
        PROVE  Newline(wire'[i]) <=> i % LineBytes = 0
    <3>1. CASE i \in 1 .. Len(wire)
      BY <2>1, <3>1 DEF BodyInv
    <3>2. CASE i \notin 1 .. Len(wire)
      <4> DEFINE k == i - Len(wire)
      <4>1. k \in 1 .. n /\ k \in 1 .. LineBytes /\ i = Len(wire) + k
        BY <1>1, <2>2, <3>2, SMT
      <4> HIDE DEF k
      <4>2. Newline(wire'[i]) <=> k = LineBytes
        BY <2>1, <4>1 DEF Newline
      <4>3. i % LineBytes = 0 <=> k = LineBytes
        BY <1>1, <4>1, NextMultiple
      <4> QED
        BY <4>2, <4>3
    <3> QED
      BY <3>1, <3>2
  <2>4. ~ended' => Len(wire') % LineBytes = 0
    <3>1. (Len(wire) + n) % LineBytes = 0 <=> n = LineBytes
      BY <1>1, NextMultiple
    <3> QED
      BY <2>1, <3>1
  <2>5. \A i \in 1 .. Parsed : wire'[i] = wire[i]
    <3>1. \A i \in 1 .. Parsed : i \in 1 .. Len(wire)
      BY <1>1, SMT
    <3> QED
      BY <2>1, <3>1
  <2> QED
    BY <1>1, <2>1, <2>3, <2>4, <2>5 DEF BodyInv, Newline
<1> QED
  BY <1>2, <1>3

\* The parser is only done with lines of a runner.
LEMMA RequestKeepsBody ==
    ASSUME ProxyInv, BodyInv, Request, UNCHANGED sender
    PROVE  BodyInv'
<1>1. UNCHANGED <<wire, ended>>
  BY DEF sender
<1>2. CASE ScanFinal \/ \E goOn \in BOOLEAN : ScanToken(goOn)
  <2>1. HasLine /\ SkipLine /\ FirstLine # OtherLine /\ rcvd' = rcvd
    BY <1>2 DEF ScanFinal, ScanToken, NextLine, Parses
  <2>2. /\ Parsed' = Parsed + LineEnd /\ LineEnd \in Nat \ {0}
        /\ wire[Parsed + LineEnd][1] = FirstLine
        /\ \A i \in Parsed + 1 .. (Parsed + LineEnd) - 1 : ~Newline(wire[i])
    BY <1>1, <2>1, SkipLemma, Zenon DEF sender
  <2>3. Parsed \in Nat
    BY SMT DEF ProxyInv, ParseInv, TypeOK
  <2>4. \A i \in 1 .. Parsed + LineEnd :
          i \in 1 .. Parsed \/ i \in Parsed + 1 .. (Parsed + LineEnd) - 1 \/ i = Parsed + LineEnd
    BY <2>2, <2>3, SMT
  <2>5. \A i \in 1 .. Parsed + LineEnd : Newline(wire[i]) => wire[i][1] # OtherLine
    BY <2>1, <2>2, <2>4 DEF BodyInv
  <2> QED
    BY <1>1, <2>2, <2>5 DEF BodyInv, Newline
<1>3. CASE Receive
  <2>1. PICK n \in 1 .. Len(wire) - rcvd :
          /\ leftover' = leftover \o SubSeq(wire, rcvd + 1, rcvd + n)
          /\ rcvd' = rcvd + n
    BY <1>3 DEF Receive
  <2>2. /\ wire \in Seq(Byte) /\ Len(wire) \in Nat /\ leftover \in Seq(Byte)
        /\ Len(leftover) \in Nat /\ rcvd \in 0 .. Len(wire)
    BY LenProperties DEF ProxyInv, TypeOK
  <2>3. /\ SubSeq(wire, rcvd + 1, rcvd + n) \in Seq(Byte)
        /\ Len(SubSeq(wire, rcvd + 1, rcvd + n)) = n
    BY <2>2, SMT
  <2>4. Len(leftover') = Len(leftover) + n
    BY <2>1, <2>2, <2>3, ConcatProperties
  <2>5. Parsed' = Parsed
    BY <2>1, <2>2, <2>4, SMT DEF Parsed
  <2> QED
    BY <1>1, <2>5 DEF BodyInv, Newline
<1>4. CASE ScanEnds \/ ScanThrows \/ ScanGarbage \/ BodyEnds \/ Cancelled \/ RequestFails
  <2>1. UNCHANGED <<rcvd, leftover>>
    BY <1>4 DEF ScanEnds, ScanThrows, ScanGarbage, BodyEnds, Cancelled, RequestFails, Finish
  <2>2. Parsed' = Parsed
    BY <2>1 DEF Parsed
  <2> QED
    BY <1>1, <2>2 DEF BodyInv, Newline
<1> QED
  BY <1>2, <1>3, <1>4 DEF Request

LEMMA NextBody == ProxyInv /\ BodyInv /\ [Next]_vars => BodyInv'
<1> SUFFICES ASSUME ProxyInv, BodyInv, [Next]_vars
             PROVE  BodyInv'
  OBVIOUS
<1>1. CASE UNCHANGED vars
  BY <1>1 DEF vars, sender, proxy, BodyInv, Newline, Parsed
<1> QED
  BY <1>1, RequestKeepsBody, SenderKeepsBody DEF Next

\* Every line of a body without a rest was parsed, so that parse_ndjson sees no
\* other lines, and at most one final line.
LEMMA AgreeHolds == ProxyInv /\ BodyInv => BufferedAgrees
<1> SUFFICES ASSUME ProxyInv, BodyInv, result # None, result.kind = "ok", Cut = 0
             PROVE  ParseNdjson = result
  BY DEF BufferedAgrees
<1> DEFINE N == Len(wire) \div LineBytes
<1>1. /\ LineBytes \in Nat /\ LineBytes > 0 /\ Len(wire) \in Nat /\ N \in Nat
      /\ Len(wire) = LineBytes * N + Cut
  <2>1. Len(wire) \in Nat
    BY LenProperties DEF ProxyInv, TypeOK
  <2> QED
    BY <2>1, LineAssumption, SMTT(20) DEF Cut
<1>2. result = Ok(fullText) /\ ~HasLine /\ rcvd = Len(wire)
  BY DEF ProxyInv, CallInv, Error
<1>3. BodyLines = WholeLines /\ DOMAIN WholeLines = 1 .. N
      /\ \A i \in 1 .. N : WholeLines[i] = wire[i * LineBytes][1]
  <2>1. ~(Cut > 0)
    BY SMT
  <2> QED
    BY <2>1 DEF BodyLines, WholeLines
<1> HIDE DEF N
\* The lines of the body are those that were parsed.
<1>4. \A p \in 1 .. Len(wire) : Newline(wire[p]) => p \in 1 .. Parsed
  <2>1. \A p \in Parsed + 1 .. Len(wire) : ~Newline(wire[p])
    BY <1>2, NoLineLeft
  <2>2. Parsed \in 0 .. Len(wire)
    BY <1>2 DEF ProxyInv, ParseInv
  <2> QED
    BY <1>1, <2>1, <2>2, SMT
<1>5. ASSUME NEW i \in 1 .. N
      PROVE  i * LineBytes \in 1 .. Parsed /\ i * LineBytes \in 1 .. Len(wire)
             /\ Newline(wire[i * LineBytes])
  <2>1. i * LineBytes \in 1 .. Len(wire)
    BY <1>1, SMTT(20)
  <2>2. (i * LineBytes) % LineBytes = 0
    BY <1>1, SMTT(20)
  <2> QED
    BY <1>4, <2>1, <2>2 DEF BodyInv
<1>6. ASSUME NEW p \in 1 .. Parsed, Newline(wire[p])
      PROVE  \E i \in 1 .. N : p = i * LineBytes
  <2>1. p \in 1 .. Len(wire)
    <3>1. Parsed \in 0 .. Len(wire)
      BY <1>2 DEF ProxyInv, ParseInv
    <3> QED
      BY <1>1, <3>1, SMT
  <2>2. p % LineBytes = 0 /\ p \in Nat /\ p >= 1 /\ p <= Len(wire)
    BY <1>1, <1>6, <2>1 DEF BodyInv
  <2>3. PICK i \in Nat : p = LineBytes * i + (p % LineBytes)
    BY <2>2, DivMod, LineAssumption, Zenon
  <2>4. i >= 1 /\ i <= N /\ p = i * LineBytes
    <3>1. p = LineBytes * i /\ Len(wire) = LineBytes * N
      BY <1>1, <2>2, <2>3, SMTT(20)
    <3> QED
      BY <1>1, <2>2, <3>1, SMTT(20)
  <2> QED
    BY <1>1, <2>3, <2>4, SMT
<1>7. OtherLine \notin ToSet(BodyLines)
  <2> SUFFICES ASSUME NEW i \in 1 .. N, WholeLines[i] = OtherLine
               PROVE  FALSE
    BY <1>3 DEF ToSet
  <2> QED
    BY <1>3, <1>5 DEF BodyInv
<1>8. Cut \notin 1 .. LineBytes - 2
  BY <1>1, SMT
<1>9. \A i \in Finals : /\ i \in 1 .. N /\ BodyLines[i].text = fullText
                        /\ IsFinalEnd(wire[i * LineBytes])
  <2> SUFFICES ASSUME NEW i \in 1 .. N, WholeLines[i].kind = "done"
               PROVE  WholeLines[i].text = fullText /\ IsFinalEnd(wire[i * LineBytes])
    BY <1>3 DEF Finals
  <2>1. IsFinalEnd(wire[i * LineBytes])
    BY <1>3, <1>5 DEF IsFinalEnd
  <2>2. wire[i * LineBytes][1].text = fullText
    BY <1>5, <2>1 DEF ProxyInv, ParseInv
  <2> QED
    BY <1>3, <2>1, <2>2
<1>10. CASE Finals = {}
  <2>1. \A p \in 1 .. Parsed : ~IsFinalEnd(wire[p])
    <3> SUFFICES ASSUME NEW p \in 1 .. Parsed, IsFinalEnd(wire[p])
                 PROVE  FALSE
      OBVIOUS
    <3>1. PICK i \in 1 .. N : p = i * LineBytes
      BY <1>6 DEF IsFinalEnd
    <3>2. i \in Finals
      BY <1>3, <3>1 DEF Finals, IsFinalEnd
    <3> QED
      BY <1>10, <3>2
  <2>2. fullText = <<>>
    BY <2>1 DEF ProxyInv, ParseInv
  <2> QED
    BY <1>2, <1>7, <1>8, <1>10, <2>2 DEF ParseNdjson
<1>11. CASE Finals # {}
  <2>1. \A i, j \in Finals : i >= j
    <3> SUFFICES ASSUME NEW i \in Finals, NEW j \in Finals, ~(i >= j)
                 PROVE  FALSE
      OBVIOUS
    <3>1. i \in 1 .. N /\ j \in 1 .. N /\ i < j
      BY <1>1, <1>9, SMT
    <3>2. i * LineBytes < j * LineBytes
      BY <1>1, <3>1, SMTT(20)
    <3>3. wire[i * LineBytes][1].kind = "token"
      BY <1>5, <3>1, <3>2 DEF ProxyInv, WireInv
    <3> QED
      BY <1>9, <3>3 DEF IsFinalEnd
  <2>2. Max(Finals) \in Finals
    BY <1>11, <2>1 DEF Max
  <2>3. BodyLines[Max(Finals)].text = fullText
    BY <1>9, <2>2
  <2> QED
    BY <1>2, <1>7, <1>8, <1>11, <2>3 DEF ParseNdjson
<1> QED
  BY <1>10, <1>11

\* A call that is streamed and one that is not make the same text of a body that
\* ends with a line (stream_parse_chunk and parse_ndjson of runner_mgr.cpp).
THEOREM ProxyAgrees == Spec => []BufferedAgrees
<1>1. Spec => []BodyInv
  BY ProxyInvariance, InitBody, NextBody, PTL DEF Spec
<1> QED
  BY <1>1, ProxyInvariance, AgreeHolds, PTL

-----------------------------------------------------------------------------
(* The lines survive the cutting into chunks. *)

\* The body is made of lines, and the parser stands at the beginning of one.
LinesInv ==
    /\ \A q \in 0 .. Len(wire), j \in 1 .. LineBytes :
         q * LineBytes + j \in 1 .. Len(wire) =>
           wire[q * LineBytes + j] = <<wire[q * LineBytes + 1][1], j>>
    /\ \E q \in 0 .. Parsed : Parsed = q * LineBytes

\* What the parser takes for a line is one that was sent, and it is invalid
\* only if it was sent so.
LinesIntact == HasLine => FirstLine \in Sent /\ (Parses <=> FirstLine # OtherLine)

\* The place of a byte of a line within whole lines and a last one.
LEMMA LineOrder ==
    ASSUME NEW b \in Nat \ {0}, NEW q \in Nat, NEW d \in Nat,
           NEW n \in 1 .. b, NEW j \in 1 .. b, q * b + j <= d * b + n
    PROVE  \/ q < d /\ q * b + j <= d * b
           \/ q = d /\ j <= n
<1>1. CASE q < d
  <2>1. PICK r \in Nat : d = q + 1 + r
    <3>1. d - q - 1 \in Nat /\ d = q + 1 + (d - q - 1)
      BY <1>1, SMT
    <3> QED
      BY <3>1
  <2>2. d * b = q * b + b + r * b /\ r * b \in Nat
    BY <2>1, SMTT(20)
  <2>3. q * b \in Nat
    BY SMTT(20)
  <2> DEFINE x == q * b
             y == r * b
             z == d * b
  <2>4. x \in Nat /\ y \in Nat /\ z = x + b + y
    BY <2>2, <2>3
  <2> HIDE DEF x, y, z
  <2>5. x + j <= z
    BY <2>4, SMT
  <2>6. q * b + j <= d * b
    BY <2>5, Zenon DEF x, z
  <2> QED
    BY <1>1, <2>6, Zenon
<1>2. CASE q = d
  <2>1. d * b \in Nat
    BY SMTT(20)
  <2> QED
    BY <1>2, <2>1, SMT
<1>3. CASE q > d
  <2>1. PICK r \in Nat : q = d + 1 + r
    <3>1. q - d - 1 \in Nat /\ q = d + 1 + (q - d - 1)
      BY <1>3, SMT
    <3> QED
      BY <3>1
  <2>2. q * b = d * b + b + r * b /\ r * b \in Nat
    BY <2>1, SMTT(20)
  <2>3. d * b \in Nat
    BY SMTT(20)
  <2> QED
    BY <2>2, <2>3, SMT
<1> QED
  BY <1>1, <1>2, <1>3, SMT

\* A number without a remainder is a multiple.
LEMMA NoRemainder ==
    ASSUME NEW a \in Nat, a % LineBytes = 0
    PROVE  \E q \in 0 .. a : a = q * LineBytes
<1>1. PICK q \in Nat : a = LineBytes * q + (a % LineBytes)
  BY DivMod, LineAssumption, Zenon
<1>2. LineBytes \in Nat /\ LineBytes >= 1
  BY LineAssumption, SMT
<1>3. a = q * LineBytes /\ q <= a
  BY <1>1, <1>2, SMTT(20)
<1> QED
  BY <1>3, SMT

LEMMA InitLines == Init => LinesInv
<1> SUFFICES ASSUME Init
             PROVE  LinesInv
  OBVIOUS
<1>1. wire = <<>> /\ rcvd = 0 /\ leftover = <<>>
  BY DEF Init, InitProxy
<1>2. Len(<<>>) = 0 /\ 1 .. 0 = {}
  BY EmptySeq, SMT
<1>3. Parsed = 0
  <2>1. rcvd = 0 /\ Len(leftover) = 0
    BY <1>1, <1>2
  <2> QED
    BY <2>1, SMT DEF Parsed
<1>4. 0 * LineBytes = 0 /\ 0 \in 0 .. 0
  BY LineAssumption, SMT
<1> QED
  BY <1>1, <1>2, <1>3, <1>4 DEF LinesInv

\* The other end sends line after line.
LEMMA SenderKeepsLines ==
    ASSUME ProxyInv, BodyInv, LinesInv, Send \/ Hangup, UNCHANGED proxy
    PROVE  LinesInv'
<1>1. /\ TypeOK /\ Len(wire) \in Nat /\ Parsed' = Parsed /\ ~ended
      /\ Len(wire) % LineBytes = 0
  <2>1. Len(wire) \in Nat
    BY LenProperties DEF ProxyInv, TypeOK
  <2>2. Parsed' = Parsed
    BY DEF Parsed, proxy
  <2>3. TypeOK /\ ~ended
    BY DEF Send, Hangup, ProxyInv
  <2> QED
    BY <2>1, <2>2, <2>3 DEF BodyInv
<1>2. CASE wire' = wire
  BY <1>1, <1>2 DEF LinesInv
<1>3. CASE wire' # wire
  <2>1. PICK line \in NextLines, n \in 1 .. LineBytes :
          /\ Len(wire') = Len(wire) + n
          /\ \A i \in 1 .. Len(wire) : wire'[i] = wire[i]
          /\ \A i \in 1 .. n : wire'[Len(wire) + i] = <<line, i>>
    BY <1>1, <1>3, SentBytes
  <2>2. PICK d \in 0 .. Len(wire) : Len(wire) = d * LineBytes
    BY <1>1, NoRemainder
  <2>3. LineBytes \in Nat \ {0} /\ d \in Nat /\ n \in Nat /\ n >= 1 /\ 1 \in 1 .. n
    BY <1>1, LineAssumption, SMT
  <2>4. ASSUME NEW q \in 0 .. Len(wire'), NEW j \in 1 .. LineBytes,
               q * LineBytes + j \in 1 .. Len(wire')
        PROVE  wire'[q * LineBytes + j] = <<wire'[q * LineBytes + 1][1], j>>
    <3>1. q \in Nat /\ q * LineBytes \in Nat
      <4>1. q \in Nat
        BY <1>1, <2>1, <2>3, SMT
      <4> QED
        BY <2>3, <4>1, SMTT(20)
    <3>2. q * LineBytes + j <= d * LineBytes + n
      BY <2>1, <2>2, <2>4, SMT
    <3>3. \/ q < d /\ q * LineBytes + j <= d * LineBytes
          \/ q = d /\ j <= n
      BY <2>3, <3>1, <3>2, LineOrder
    <3>4. CASE q < d /\ q * LineBytes + j <= d * LineBytes
      <4>1. /\ q \in 0 .. Len(wire)
            /\ q * LineBytes + j \in 1 .. Len(wire) /\ q * LineBytes + 1 \in 1 .. Len(wire)
        BY <1>1, <2>2, <3>1, <3>4, SMT
      <4>2. /\ wire'[q * LineBytes + j] = wire[q * LineBytes + j]
            /\ wire'[q * LineBytes + 1] = wire[q * LineBytes + 1]
        BY <2>1, <4>1, Zenon
      <4>3. wire[q * LineBytes + j] = <<wire[q * LineBytes + 1][1], j>>
        BY <4>1, Zenon DEF LinesInv
      <4> QED
        BY <4>2, <4>3, Zenon
    <3>5. CASE q = d /\ j <= n
      <4>1. j \in 1 .. n /\ q * LineBytes = Len(wire)
        BY <2>2, <2>3, <3>5, SMT
      <4>2. wire'[Len(wire) + j] = <<line, j>> /\ wire'[Len(wire) + 1] = <<line, 1>>
        BY <2>1, <2>3, <4>1, Zenon
      <4>3. /\ wire'[q * LineBytes + j] = <<line, j>>
            /\ wire'[q * LineBytes + 1] = <<line, 1>>
        BY <4>1, <4>2, Zenon
      <4>4. <<line, 1>>[1] = line
        OBVIOUS
      <4> QED
        BY <4>3, <4>4, Zenon
    <3> QED
      BY <3>3, <3>4, <3>5, Zenon
  <2> QED
    BY <1>1, <2>4 DEF LinesInv
<1> QED
  BY <1>2, <1>3

\* The first line that is left over is as long as a line.
LEMMA WholeLine ==
    ASSUME ProxyInv, BodyInv, LinesInv, HasLine
    PROVE  /\ LineEnd = LineBytes
           /\ Parsed + LineBytes \in 1 .. Len(wire)
           /\ \A j \in 1 .. LineBytes : /\ leftover[j] = wire[Parsed + j]
                                        /\ Parsed + j \in 1 .. Len(wire)
<1> DEFINE e == LineEnd
<1>1. e \in 1 .. Len(leftover) /\ Newline(leftover[e]) /\ \A j \in 1 .. e - 1 : ~Newline(leftover[j])
  BY LineEndLemma DEF ProxyInv
<1> HIDE DEF e
<1>2. /\ Len(leftover) \in Nat /\ Len(wire) \in Nat /\ rcvd \in 0 .. Len(wire)
      /\ Parsed = rcvd - Len(leftover) /\ Parsed \in 0 .. rcvd
      /\ \A i \in 1 .. Len(leftover) : leftover[i] = wire[Parsed + i]
  BY LenProperties DEF ProxyInv, TypeOK, ParseInv, Parsed
<1>3. LineBytes \in Nat /\ LineBytes >= 1 /\ LineBytes \in 1 .. LineBytes
  BY LineAssumption, SMT
<1>4. \A j \in 1 .. Len(leftover) : Parsed + j \in 1 .. Len(wire) /\ Parsed \in Nat
  BY <1>2, SMT
<1>5. Parsed % LineBytes = 0
  <2>1. PICK q \in Nat : Parsed = q * LineBytes
    <3>1. PICK q \in 0 .. Parsed : Parsed = q * LineBytes
      BY DEF LinesInv
    <3>2. q \in Nat
      BY <1>2, SMT
    <3> QED
      BY <3>1, <3>2
  <2>2. (q * LineBytes) % LineBytes = 0
    BY Multiple, LineAssumption
  <2> QED
    BY <2>1, <2>2
<1>6. \A j \in 1 .. Len(leftover) : Newline(leftover[j]) <=> (Parsed + j) % LineBytes = 0
  BY <1>2, <1>4 DEF BodyInv
<1>7. \A j \in 1 .. LineBytes : (Parsed + j) % LineBytes = 0 <=> j = LineBytes
  BY <1>1, <1>4, <1>5, NextMultiple
<1>8. ~(e < LineBytes)
  <2> SUFFICES ASSUME e < LineBytes
               PROVE  FALSE
    OBVIOUS
  <2>1. e \in 1 .. LineBytes /\ e # LineBytes
    BY <1>1, <1>2, <1>3, SMT
  <2> QED
    BY <1>1, <1>6, <1>7, <2>1
<1>9. ~(e > LineBytes)
  <2> SUFFICES ASSUME e > LineBytes
               PROVE  FALSE
    OBVIOUS
  <2>1. LineBytes \in 1 .. Len(leftover) /\ LineBytes \in 1 .. e - 1
    BY <1>1, <1>2, <1>3, SMT
  <2> QED
    BY <1>1, <1>3, <1>6, <1>7, <2>1
<1>10. e = LineBytes
  BY <1>1, <1>2, <1>3, <1>8, <1>9, SMT
<1>11. \A j \in 1 .. LineBytes : j \in 1 .. Len(leftover)
  BY <1>1, <1>2, <1>3, <1>10, SMT
<1> QED
  BY <1>2, <1>3, <1>4, <1>10, <1>11 DEF e

\* The parser goes on from line to line.
LEMMA RequestKeepsLines ==
    ASSUME ProxyInv, BodyInv, LinesInv, Request, UNCHANGED sender
    PROVE  LinesInv'
<1>1. UNCHANGED <<wire, ended>>
  BY DEF sender
<1>2. CASE ScanFinal \/ \E goOn \in BOOLEAN : ScanToken(goOn)
  <2>1. HasLine /\ SkipLine /\ rcvd' = rcvd
    BY <1>2 DEF ScanFinal, ScanToken, NextLine
  <2>2. Parsed' = Parsed + LineBytes
    <3>1. Parsed' = Parsed + LineEnd
      BY <1>1, <2>1, SkipLemma, Zenon DEF sender
    <3> QED
      BY <2>1, <3>1, WholeLine
  <2>3. PICK q \in 0 .. Parsed : Parsed = q * LineBytes
    BY DEF LinesInv
  <2>4. Parsed \in Nat /\ LineBytes \in Nat /\ LineBytes >= 1
    BY LineAssumption, SMT DEF ProxyInv, ParseInv, TypeOK
  <2>5. q + 1 \in 0 .. Parsed'
    BY <2>2, <2>4, SMT
  <2>6. Parsed' = (q + 1) * LineBytes
    BY <2>2, <2>3, <2>4, SMTT(20)
  <2> QED
    BY <1>1, <2>5, <2>6 DEF LinesInv
<1>3. CASE Receive
  <2>1. PICK n \in 1 .. Len(wire) - rcvd :
          /\ leftover' = leftover \o SubSeq(wire, rcvd + 1, rcvd + n)
          /\ rcvd' = rcvd + n
    BY <1>3 DEF Receive
  <2>2. /\ wire \in Seq(Byte) /\ Len(wire) \in Nat /\ leftover \in Seq(Byte)
        /\ Len(leftover) \in Nat /\ rcvd \in 0 .. Len(wire)
    BY LenProperties DEF ProxyInv, TypeOK
  <2>3. /\ SubSeq(wire, rcvd + 1, rcvd + n) \in Seq(Byte)
        /\ Len(SubSeq(wire, rcvd + 1, rcvd + n)) = n
    BY <2>2, SMT
  <2>4. Len(leftover') = Len(leftover) + n
    BY <2>1, <2>2, <2>3, ConcatProperties
  <2>5. Parsed' = Parsed
    BY <2>1, <2>2, <2>4, SMT DEF Parsed
  <2> QED
    BY <1>1, <2>5 DEF LinesInv
<1>4. CASE ScanEnds \/ ScanThrows \/ ScanGarbage \/ BodyEnds \/ Cancelled \/ RequestFails
  <2>1. UNCHANGED <<rcvd, leftover>>
    BY <1>4 DEF ScanEnds, ScanThrows, ScanGarbage, BodyEnds, Cancelled, RequestFails, Finish
  <2>2. Parsed' = Parsed
    BY <2>1 DEF Parsed
  <2> QED
    BY <1>1, <2>2 DEF LinesInv
<1> QED
  BY <1>2, <1>3, <1>4 DEF Request

LEMMA NextLinesInv == ProxyInv /\ BodyInv /\ LinesInv /\ [Next]_vars => LinesInv'
<1> SUFFICES ASSUME ProxyInv, BodyInv, LinesInv, [Next]_vars
             PROVE  LinesInv'
  OBVIOUS
<1>1. CASE UNCHANGED vars
  BY <1>1 DEF vars, sender, proxy, LinesInv, Parsed
<1> QED
  BY <1>1, RequestKeepsLines, SenderKeepsLines DEF Next

\* LinesIntact follows from the invariants.
LEMMA IntactHolds == ProxyInv /\ BodyInv /\ LinesInv => LinesIntact
<1> SUFFICES ASSUME ProxyInv, BodyInv, LinesInv, HasLine
             PROVE  FirstLine \in Sent /\ (Parses <=> FirstLine # OtherLine)
  BY DEF LinesIntact
<1>1. /\ LineEnd = LineBytes
      /\ \A j \in 1 .. LineBytes : /\ leftover[j] = wire[Parsed + j]
                                   /\ Parsed + j \in 1 .. Len(wire)
  BY WholeLine
<1>2. LineBytes \in Nat /\ LineBytes >= 1 /\ LineBytes \in 1 .. LineBytes /\ 1 \in 1 .. LineBytes
  BY LineAssumption, SMT
<1>3. /\ leftover \in Seq(Byte) /\ wire \in Seq(Byte)
      /\ LineBytes \in 1 .. Len(leftover) /\ Len(leftover) \in Nat /\ Len(wire) \in Nat
      /\ Newline(leftover[LineBytes]) /\ DOMAIN wire = 1 .. Len(wire)
  BY <1>1, LineEndLemma, LenProperties DEF ProxyInv, TypeOK
<1>4. PICK q \in 0 .. Parsed : Parsed = q * LineBytes
  BY DEF LinesInv
<1>5. q \in 0 .. Len(wire)
  <2>1. Parsed \in 0 .. rcvd /\ rcvd \in 0 .. Len(wire)
    BY DEF ProxyInv, TypeOK, ParseInv
  <2> QED
    BY <1>3, <2>1, SMT
<1> DEFINE line == wire[Parsed + 1][1]
<1>6. \A j \in 1 .. LineBytes : leftover[j] = <<line, j>>
  BY <1>1, <1>4, <1>5 DEF LinesInv
<1> HIDE DEF line
<1>7. FirstLine = line
  BY <1>1, <1>2, <1>6 DEF FirstLine
<1>8. line \in Sent
  BY <1>1, <1>2, <1>3, <1>6 DEF Sent
<1>9. SubSeq(leftover, 1, LineBytes) = Bytes(line)
  <2> DEFINE s == SubSeq(leftover, 1, LineBytes)
  <2>1. s \in Seq(Byte) /\ Len(s) = LineBytes /\ \A j \in 1 .. LineBytes : s[j] = leftover[j]
    BY <1>2, <1>3, SMT
  <2>2. s = [j \in 1 .. LineBytes |-> s[j]]
    <3> HIDE DEF s
    <3>1. s \in [1 .. Len(s) -> Byte]
      BY <2>1, LenProperties
    <3> QED
      BY <2>1, <3>1
  <2>3. \A j \in 1 .. LineBytes : s[j] = <<line, j>>
    BY <1>6, <2>1
  <2> HIDE DEF s
  <2>4. s = [j \in 1 .. LineBytes |-> <<line, j>>]
    BY <2>2, <2>3
  <2> QED
    BY <2>4 DEF s, Bytes
<1> QED
  BY <1>1, <1>7, <1>8, <1>9 DEF Parses

\* However the body is cut into chunks, what the parser takes for a line is a
\* line that was sent, and none is invalid but one that was sent so
\* (stream_parse_chunk of runner_mgr.cpp).
THEOREM ProxyLinesIntact == Spec => []LinesIntact
<1>1. Spec => []BodyInv
  BY ProxyInvariance, InitBody, NextBody, PTL DEF Spec
<1>2. Spec => []LinesInv
  BY <1>1, ProxyInvariance, InitLines, NextLinesInv, PTL DEF Spec
<1> QED
  BY <1>1, <1>2, ProxyInvariance, IntactHolds, PTL

=============================================================================
