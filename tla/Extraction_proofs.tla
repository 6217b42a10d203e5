-------------------------- MODULE Extraction_proofs --------------------------
(***************************************************************************)
(* Proofs about Extraction: the types of its state, what the chunker       *)
(* promises for whatever the parsers hand over, that chunks point to the   *)
(* lines of their text and carry the headings around it, that the chunks   *)
(* of a log stand alone, that no line of a file's body is left out of its  *)
(* chunks, and that a document comes to the outcome it deserves.           *)
(*                                                                         *)
(* Elements come from the parsers' loops in the order of the lines they    *)
(* begin with, and hold what they point to (Good, Lists). Reading and      *)
(* RowsReading add what a loop is in the middle of; Control says which     *)
(* phase knows what; Chunker, with AllSourced, takes over from there.      *)
(* Deserving adds, on top of all that, what has been seen of the file and  *)
(* where each of its lines is, and InContext where its headings stand.     *)
(***************************************************************************)
EXTENDS Extraction, Chunking_proofs, SequenceTheorems, FiniteSetTheorems

-----------------------------------------------------------------------------
(* The operators of the library. *)

\* A sequence of sequences laid end to end: its entries are theirs, all of them, and it
\* begins as the first of them does.
LEMMA Flattened ==
    ASSUME NEW S, NEW ss \in Seq(Seq(S))
    PROVE  /\ FlattenSeq(ss) \in Seq(S)
           /\ \A p \in DOMAIN FlattenSeq(ss) :
                  \E j \in DOMAIN ss : \E q \in DOMAIN ss[j] : FlattenSeq(ss)[p] = ss[j][q]
           /\ \A j \in DOMAIN ss : \A q \in DOMAIN ss[j] :
                  \E p \in DOMAIN FlattenSeq(ss) : FlattenSeq(ss)[p] = ss[j][q]
           /\ ss # <<>> /\ ss[1] # <<>> =>
                  FlattenSeq(ss) # <<>> /\ FlattenSeq(ss)[1] = ss[1][1]
<1> DEFINE n == Len(ss)
           Next(f, i) == IF i = 1 THEN ss[i] ELSE f[i - 1] \o ss[i]
           Solves(f, k) == f = [i \in 1 .. k |-> Next(f, i)]
<1>0. n \in Nat /\ DOMAIN ss = 1 .. n /\ (n = 0 <=> ss = <<>>) OBVIOUS
<1>1. CASE n = 0
    <2>1. FlattenSeq(ss) = <<>> BY <1>0, <1>1 DEF FlattenSeq
    <2> QED BY <2>1, <1>0, <1>1
<1>2. CASE n # 0
    <2>1. \E f : Solves(f, n)
        <3> DEFINE K == {k \in Nat : \E f : Solves(f, k)}
        <3>1. 0 \in K
            <4>1. Solves(<<>>, 0) OBVIOUS
            <4> QED BY <4>1
        <3>2. ASSUME NEW k \in Nat, k \in K PROVE k + 1 \in K
            <4>1. PICK f : Solves(f, k) BY <3>2
            <4> DEFINE g == [i \in 1 .. k + 1 |-> IF i = k + 1 THEN Next(f, i) ELSE f[i]]
            <4>2. ASSUME NEW i \in 1 .. k + 1 PROVE g[i] = Next(g, i)
                <5>1. CASE i = 1
                    <6>1. f[1] = ss[1] \/ k = 0 BY <4>1
                    <6> QED BY <5>1, <6>1
                <5>2. CASE i # 1
                    <6>1. i - 1 \in 1 .. k /\ g[i - 1] = f[i - 1] BY <5>2
                    <6>2. g[i] = Next(f, i)
                        <7>1. CASE i = k + 1 BY <7>1
                        <7>2. CASE i # k + 1
                            <8>1. i \in 1 .. k /\ g[i] = f[i] BY <7>2
                            <8> HIDE DEF g, Next
                            <8> QED BY <8>1, <4>1
                        <7> QED BY <7>1, <7>2
                    <6> QED BY <5>2, <6>1, <6>2
                <5> QED BY <5>1, <5>2
            <4>3. g = [i \in 1 .. k + 1 |-> g[i]] OBVIOUS
            <4> HIDE DEF g, Next
            <4>4. g = [i \in 1 .. k + 1 |-> Next(g, i)] BY <4>2, <4>3
            <4> QED BY <4>4
        <3> HIDE DEF Solves
        <3>3. Nat \subseteq K
            <4> HIDE DEF K
            <4> QED BY <3>1, <3>2, Counting, Zenon
        <3> QED BY <3>3, <1>0
    <2>2. PICK f : Solves(f, n) /\ FlattenSeq(ss) = f[n]
        <3> DEFINE f == CHOOSE f : f = [i \in 1 .. n |-> Next(f, i)]
        <3>1. FlattenSeq(ss) = f[n] BY <1>2, Zenon DEF FlattenSeq
        <3>2. Solves(f, n) BY <2>1
        <3> QED BY <3>1, <3>2
    <2>3. \A i \in 1 .. n : f[i] = Next(f, i)
        <3> HIDE DEF Next
        <3> QED BY <2>2
    <2> DEFINE Good(i) ==
            /\ f[i] \in Seq(S)
            /\ \A p \in DOMAIN f[i] : \E j \in DOMAIN ss : \E q \in DOMAIN ss[j] : f[i][p] = ss[j][q]
            /\ \A j \in 1 .. i : \A q \in DOMAIN ss[j] : \E p \in DOMAIN f[i] : f[i][p] = ss[j][q]
            /\ ss[1] # <<>> => f[i] # <<>> /\ f[i][1] = ss[1][1]
        K == {k \in Nat : k + 1 \in 1 .. n => Good(k + 1)}
    <2>4. 0 \in K
        <3>1. f[1] = ss[1] /\ 1 \in DOMAIN ss BY <2>3, <1>0, <1>2
        <3>2. Good(1) BY <3>1
        <3> HIDE DEF Good
        <3> QED BY <3>2
    <2>5. ASSUME NEW k \in Nat, k \in K PROVE k + 1 \in K
        <3> SUFFICES ASSUME k + 2 \in 1 .. n PROVE Good(k + 2)
            <4> HIDE DEF Good
            <4>1. k + 1 + 1 = k + 2 OBVIOUS
            <4> QED BY <4>1
        <3>1. Good(k + 1)
            <4> HIDE DEF Good
            <4> QED BY <2>5
        <3> DEFINE a == f[k + 1]
                   b == ss[k + 2]
        <3>2. f[k + 2] = a \o b
            <4> DEFINE i == k + 2
            <4>1. i \in 1 .. n /\ i # 1 /\ i - 1 = k + 1 OBVIOUS
            <4>2. f[i] = f[i - 1] \o ss[i]
                <5> HIDE DEF i
                <5> QED BY <2>3, <4>1
            <4> QED BY <4>1, <4>2
        <3>3. a \in Seq(S) /\ b \in Seq(S) /\ k + 2 \in DOMAIN ss BY <3>1, <1>0
        <3>4. a \o b \in Seq(S) BY <3>3
        <3>5. ASSUME NEW p \in DOMAIN (a \o b)
              PROVE  \E j \in DOMAIN ss : \E q \in DOMAIN ss[j] : (a \o b)[p] = ss[j][q]
            <4>1. CASE p <= Len(a)
                <5>1. p \in DOMAIN a /\ (a \o b)[p] = a[p] BY <3>3, <4>1
                <5> QED BY <5>1, <3>1
            <4>2. CASE p > Len(a)
                <5>1. p - Len(a) \in DOMAIN b /\ (a \o b)[p] = b[p - Len(a)]
                    <6> HIDE DEF a, b
                    <6> QED BY <3>3, <3>5, <4>2, SMTT(30)
                <5> QED BY <5>1, <3>3
            <4>3. p \in Nat /\ Len(a) \in Nat BY <3>3
            <4> QED BY <4>1, <4>2, <4>3
        <3>6. ASSUME ss[1] # <<>> PROVE a \o b # <<>> /\ (a \o b)[1] = ss[1][1]
            <4>1. a # <<>> /\ a[1] = ss[1][1] BY <3>1, <3>6
            <4> HIDE DEF a, b
            <4> QED BY <4>1, <3>3
        <3>7. ASSUME NEW j \in 1 .. k + 2, NEW q \in DOMAIN ss[j]
              PROVE  \E p \in DOMAIN (a \o b) : (a \o b)[p] = ss[j][q]
            <4>1. CASE j \in 1 .. k + 1
                <5>1. PICK p \in DOMAIN a : a[p] = ss[j][q] BY <3>1, <4>1
                <5>2. p \in DOMAIN (a \o b) /\ (a \o b)[p] = a[p]
                    <6> HIDE DEF a, b
                    <6> QED BY <3>3
                <5> QED BY <5>1, <5>2
            <4>2. CASE j = k + 2
                <5>1. q \in DOMAIN b /\ b[q] = ss[j][q] BY <4>2
                <5>2. Len(a) + q \in DOMAIN (a \o b) /\ (a \o b)[Len(a) + q] = b[q]
                    <6> HIDE DEF a, b
                    <6> QED BY <3>3, <5>1, SMTT(30)
                <5> QED BY <5>1, <5>2
            <4>3. j \in 1 .. k + 1 \/ j = k + 2 OBVIOUS
            <4> QED BY <4>1, <4>2, <4>3
        <3>8. /\ f[k + 2] \in Seq(S)
              /\ \A p \in DOMAIN f[k + 2] :
                    \E j \in DOMAIN ss : \E q \in DOMAIN ss[j] : f[k + 2][p] = ss[j][q]
              /\ \A j \in 1 .. k + 2 : \A q \in DOMAIN ss[j] :
                    \E p \in DOMAIN f[k + 2] : f[k + 2][p] = ss[j][q]
              /\ ss[1] # <<>> => f[k + 2] # <<>> /\ f[k + 2][1] = ss[1][1]
            <4> DEFINE c == a \o b
            <4>1. /\ c \in Seq(S)
                  /\ \A p \in DOMAIN c : \E j \in DOMAIN ss : \E q \in DOMAIN ss[j] : c[p] = ss[j][q]
                  /\ \A j \in 1 .. k + 2 : \A q \in DOMAIN ss[j] :
                        \E p \in DOMAIN c : c[p] = ss[j][q]
                  /\ ss[1] # <<>> => c # <<>> /\ c[1] = ss[1][1]
                BY <3>4, <3>5, <3>6, <3>7
            <4>2. f[k + 2] = c BY <3>2
            <4> HIDE DEF c
            <4> QED BY <4>1, <4>2
        <3> QED BY <3>8
    <2>6. Nat \subseteq K
        <3> HIDE DEF K
        <3> QED BY <2>4, <2>5, Counting
    <2>7. Good(n)
        <3>1. n - 1 \in Nat /\ n - 1 + 1 = n /\ n \in 1 .. n BY <1>0, <1>2
        <3> HIDE DEF Good
        <3> QED BY <2>6, <3>1
    <2> HIDE DEF Solves
    <2> QED BY <2>2, <2>7, <1>2, <1>0
<1> QED BY <1>1, <1>2
-----------------------------------------------------------------------------
(* The tokens of a file. *)

\* The lines of a file, and the tokens they are made of.
LEMMA FileTokens ==
    ASSUME doc \in Files
    PROVE  /\ doc.format \in Formats /\ doc.lines \in Seq(Kinds)
           /\ Len(doc.lines) \in Nat /\ Lines = 1 .. Len(doc.lines)
           /\ \A l \in 0 .. Len(doc.lines), k \in -1 .. LongTokens + 1 :
                  <<l, k>> \in Token /\ <<l, k>> # Whitespace
<1>L. LongTokens \in Nat BY ParsersAssumption
<1>1. /\ doc \in [format : Formats, lines : Seq(Kinds)]
      /\ (0 .. Len(doc.lines)) \X (-1 .. LongTokens + 1) \subseteq Token
    BY DEF Files
<1>2. doc.format \in Formats /\ doc.lines \in Seq(Kinds) BY <1>1
<1>3. Len(doc.lines) \in Nat /\ Lines = 1 .. Len(doc.lines) BY <1>2 DEF Lines
<1>4. ASSUME NEW l \in 0 .. Len(doc.lines), NEW k \in -1 .. LongTokens + 1
      PROVE  <<l, k>> \in Token /\ <<l, k>> # Whitespace
    <2>1. <<l, k>> \in (0 .. Len(doc.lines)) \X (-1 .. LongTokens + 1) OBVIOUS
    <2>2. <<l, k>> \in Nat \X Int BY <1>L
    <2> QED BY <2>1, <2>2, <1>1, ParsersAssumption
<1> QED BY <1>2, <1>3, <1>4

\* The tokens line l may have, white space left aside.
Marks(l) == {<<l, k>> : k \in {j \in 1 .. LongTokens + 1 : j > LongTokens => Special(l)}}

\* Those of some lines.
MarksOf(L) == UNION {Marks(l) : l \in L}

\* What they are.
LEMMA MarkFacts ==
    ASSUME doc \in Files, NEW l \in Lines, NEW t \in Marks(l)
    PROVE  /\ t \in Token /\ t # Whitespace /\ t[1] = l /\ t[2] \in Nat /\ t[2] > 0
           /\ t \in Nat \X (Nat \ {0})
           /\ t \in Reserved => Special(l)
<1>L. LongTokens \in Nat /\ LongTokens > 1 /\ Len(doc.lines) \in Nat /\ Lines = 1 .. Len(doc.lines)
    BY FileTokens, ParsersAssumption
<1>1. PICK k \in 1 .. LongTokens + 1 : t = <<l, k>> /\ (k > LongTokens => Special(l)) BY DEF Marks
<1>2. l \in 0 .. Len(doc.lines) /\ k \in -1 .. LongTokens + 1 BY <1>L
<1>3. t \in Token /\ t # Whitespace BY <1>1, <1>2, FileTokens
<1>4. t[1] = l /\ t[2] = k /\ k \in Nat \ {0} /\ l \in Nat BY <1>1, <1>L
<1>5. ASSUME t \in Reserved PROVE Special(l)
    <2>1. t \in Nat \X {-1, LongTokens + 1} BY <1>5, ParsersAssumption
    <2>2. k = -1 \/ k = LongTokens + 1 BY <1>4, <2>1
    <2> QED BY <1>1, <1>L, <2>2
<1> QED BY <1>1, <1>3, <1>4, <1>5

\* Where tokens come from.
LEMMA SourceOf ==
    ASSUME doc \in Files, NEW L \in SUBSET Lines, NEW T
    PROVE  /\ T \subseteq MarksOf(L) \cup {Whitespace} => SourceLines(T) \subseteq L
           /\ \A l \in L : T \cap Marks(l) # {} => l \in SourceLines(T)
<1>1. ASSUME T \subseteq MarksOf(L) \cup {Whitespace}, NEW l \in SourceLines(T) PROVE l \in L
    <2>1. PICK t \in T : t # Whitespace /\ l = t[1] BY DEF SourceLines
    <2>2. PICK h \in L : t \in Marks(h) BY <1>1, <2>1 DEF MarksOf
    <2> QED BY <2>1, <2>2, MarkFacts
<1>2. ASSUME NEW l \in L, NEW t \in T \cap Marks(l) PROVE l \in SourceLines(T)
    <2>1. t # Whitespace /\ t[1] = l /\ t[2] > 0 BY MarkFacts
    <2> QED BY <2>1 DEF SourceLines
<1> QED BY <1>1, <1>2

\* A line gives at least one token: white space, or one of its own.
LEMMA TokensOfLine ==
    ASSUME doc \in Files, NEW l \in Lines
    PROVE  /\ LineTokens(l) \in Seq(Token) /\ LineTokens(l) # <<>>
           /\ Solid(l) => LineTokens(l)[1] \in Marks(l) \ Unlocated \/ Kind(l) = "unplaced"
           /\ Solid(l) => LineTokens(l)[1] \in Marks(l)
           /\ TokensOf(LineTokens(l)) \subseteq Marks(l) \cup {Whitespace}
<1>L. LongTokens \in Nat /\ LongTokens > 1 /\ Whitespace \in Token BY ParsersAssumption
<1>T. Marks(l) \subseteq Token BY MarkFacts
<1>1. \A k \in 1 .. LongTokens : <<l, k>> \in Marks(l) BY <1>L DEF Marks
<1>2. \A k \in 1 .. LongTokens + 1 : k # 2 /\ Kind(l) # "unplaced" => <<l, k>> \notin Unlocated
    BY <1>L DEF Unlocated
<1>3. CASE Kind(l) = "blank"
    <2>1. LineTokens(l) = <<Whitespace>> BY <1>3 DEF LineTokens, Special
    <2>2. /\ <<Whitespace>> \in Seq(Token) /\ <<Whitespace>> # <<>>
          /\ DOMAIN <<Whitespace>> = {1} /\ <<Whitespace>>[1] = Whitespace
        BY <1>L
    <2> QED BY <2>1, <2>2, <1>3 DEF Solid, TokensOf
<1>4. CASE Kind(l) = "long"
    <2> DEFINE t == [k \in 1 .. LongTokens |-> <<l, k>>]
    <2>1. LineTokens(l) = t BY <1>4 DEF LineTokens, Special
    <2>2. DOMAIN t = 1 .. LongTokens /\ \A k \in 1 .. LongTokens : t[k] = <<l, k>> OBVIOUS
    <2>3. t \in [1 .. LongTokens -> Token] BY <1>1, <1>T
    <2> HIDE DEF t
    <2>4. t \in Seq(Token) /\ 1 \in DOMAIN t BY <2>2, <2>3, <1>L
    <2>5. t # <<>> BY <2>4
    <2>6. t[1] = <<l, 1>> /\ TokensOf(t) \subseteq Marks(l)
        BY <2>2, <2>4, <1>1 DEF TokensOf
    <2>7. t[1] \in Marks(l) \ Unlocated BY <2>6, <1>1, <1>2, <1>4, <1>L
    <2> QED BY <2>1, <2>4, <2>5, <2>6, <2>7
<1>5. CASE Kind(l) = "spread"
    <2> DEFINE a == <<l, 1>>
               b == <<l, 2>>
    <2>1. LineTokens(l) = <<a, b>> BY <1>5 DEF LineTokens, Special
    <2>2. a \in Marks(l) /\ b \in Marks(l) /\ a \notin Unlocated BY <1>1, <1>2, <1>5, <1>L
    <2> HIDE DEF a, b
    <2>3. /\ <<a, b>> \in Seq(Token) /\ <<a, b>> # <<>> /\ <<a, b>>[1] = a
          /\ TokensOf(<<a, b>>) \subseteq {a, b}
        BY <2>2, <1>T DEF TokensOf
    <2> QED BY <2>1, <2>2, <2>3
<1>6. CASE Kind(l) \notin {"blank", "long", "spread"}
    <2>1. PICK k \in 1 .. LongTokens + 1 : /\ LineTokens(l) = <<<<l, k>>>> /\ k # 2
                                          /\ (k > LongTokens => Special(l))
        <3>1. CASE Special(l) BY <1>6, <3>1, <1>L DEF LineTokens, Special
        <3>2. CASE ~ Special(l)
            <4>1. LineTokens(l) = <<<<l, 1>>>> BY <1>6, <3>2 DEF LineTokens
            <4>2. 1 \in 1 .. LongTokens + 1 /\ ~ (1 > LongTokens) BY <1>L
            <4> QED BY <4>1, <4>2
        <3> QED BY <3>1, <3>2
    <2> DEFINE a == <<l, k>>
    <2>2. a \in Marks(l) /\ (a \notin Unlocated \/ Kind(l) = "unplaced")
        BY <2>1, <1>2 DEF Marks
    <2>3. LineTokens(l) = <<a>> BY <2>1
    <2> HIDE DEF a
    <2>4. <<a>> \in Seq(Token) /\ <<a>> # <<>> /\ <<a>>[1] = a /\ TokensOf(<<a>>) = {a}
        BY <2>2, <1>T DEF TokensOf
    <2> QED BY <2>2, <2>3, <2>4
<1> QED BY <1>3, <1>4, <1>5, <1>6

\* A text that starts with a token of line l, and comes from the lines in L.
MadeOf(text, l, L) ==
    /\ text \in Seq(Token) /\ text # <<>>
    /\ l \in Lines /\ text[1] \in Marks(l)
    /\ L \subseteq Lines
    /\ TokensOf(text) \subseteq MarksOf(L) \cup {Whitespace}

\* The texts of some lines, laid end to end, without those of lines that are left out.
LEMMA TokensOfSome ==
    ASSUME doc \in Files, NEW ls \in Seq(Lines), ls # <<>>, Solid(ls[1]),
           NEW out, \A l \in out : ~ Solid(l),
           NEW text,
           text = FlattenSeq([j \in DOMAIN ls |-> IF ls[j] \in out THEN <<>> ELSE LineTokens(ls[j])])
    PROVE  /\ MadeOf(text, ls[1], ToSet(ls)) /\ text[1] = LineTokens(ls[1])[1]
           /\ \A j \in DOMAIN ls :
                  Solid(ls[j]) => TokensOf(LineTokens(ls[j])) \subseteq TokensOf(text)
<1> DEFINE ss == [j \in DOMAIN ls |-> IF ls[j] \in out THEN <<>> ELSE LineTokens(ls[j])]
<1>1. \A j \in DOMAIN ls : ls[j] \in Lines OBVIOUS
<1>2. DOMAIN ls = 1 .. Len(ls) /\ Len(ls) \in Nat /\ 1 \in DOMAIN ls OBVIOUS
<1>3. ss \in Seq(Seq(Token)) BY <1>1, <1>2, TokensOfLine
<1>4. ss # <<>> /\ ss[1] = LineTokens(ls[1]) /\ ls[1] \in Lines BY <1>1, <1>2
<1>5. ss[1] # <<>> /\ ss[1][1] \in Marks(ls[1]) BY <1>4, TokensOfLine
<1>6. text = FlattenSeq(ss) OBVIOUS
<1>7. /\ DOMAIN ss = DOMAIN ls
      /\ \A j \in DOMAIN ls : Solid(ls[j]) => ss[j] = LineTokens(ls[j])
      /\ \A j \in DOMAIN ls : \A q \in DOMAIN ss[j] :
            q \in DOMAIN LineTokens(ls[j]) /\ ss[j][q] = LineTokens(ls[j])[q]
    OBVIOUS
<1> HIDE DEF ss
<1>F. /\ \A p \in DOMAIN text : \E j \in DOMAIN ss : \E q \in DOMAIN ss[j] : text[p] = ss[j][q]
      /\ \A j \in DOMAIN ss : \A q \in DOMAIN ss[j] : \E p \in DOMAIN text : text[p] = ss[j][q]
    <2> DEFINE S == Token
               f == FlattenSeq(ss)
    <2>1. ss \in Seq(Seq(S)) BY <1>3
    <2> HIDE DEF S
    <2>2. /\ f \in Seq(S)
          /\ \A p \in DOMAIN f : \E j \in DOMAIN ss : \E q \in DOMAIN ss[j] : f[p] = ss[j][q]
          /\ \A j \in DOMAIN ss : \A q \in DOMAIN ss[j] : \E p \in DOMAIN f : f[p] = ss[j][q]
        BY <2>1, Flattened
    <2>3. f = text BY <1>6
    <2> HIDE DEF f
    <2> QED BY <2>2, <2>3
<1>8. text \in Seq(Token) /\ text # <<>> /\ text[1] = LineTokens(ls[1])[1]
    BY <1>3, <1>4, <1>5, <1>6, Flattened
<1>9. ASSUME NEW p \in DOMAIN text
      PROVE  text[p] \in MarksOf(ToSet(ls)) \cup {Whitespace}
    <2>1. PICK j \in DOMAIN ls : \E q \in DOMAIN LineTokens(ls[j]) : text[p] = LineTokens(ls[j])[q]
        BY <1>7, <1>F
    <2>2. text[p] \in Marks(ls[j]) \cup {Whitespace} BY <1>1, <2>1, TokensOfLine DEF TokensOf
    <2>3. ls[j] \in ToSet(ls) BY DEF ToSet
    <2> QED BY <2>2, <2>3 DEF MarksOf
<1>10. ASSUME NEW j \in DOMAIN ls, Solid(ls[j])
       PROVE  TokensOf(LineTokens(ls[j])) \subseteq TokensOf(text)
    <2>1. \A q \in DOMAIN ss[j] : \E p \in DOMAIN text : text[p] = ss[j][q]
        BY <1>7, <1>F
    <2> QED BY <1>7, <1>10, <2>1 DEF TokensOf
<1>11. ToSet(ls) \subseteq Lines BY <1>1 DEF ToSet
<1>12. MadeOf(text, ls[1], ToSet(ls)) BY <1>4, <1>5, <1>8, <1>9, <1>11 DEF MadeOf, TokensOf
<1> QED BY <1>8, <1>10, <1>12

\* The text of some lines starts with the first of them, if that is not blank, and has
\* all of theirs.
LEMMA TokensOfLines ==
    ASSUME doc \in Files, NEW ls \in Seq(Lines), ls # <<>>, Solid(ls[1])
    PROVE  /\ MadeOf(TextOf(ls), ls[1], ToSet(ls)) /\ TextOf(ls)[1] = LineTokens(ls[1])[1]
           /\ \A j \in DOMAIN ls :
                  Solid(ls[j]) => TokensOf(LineTokens(ls[j])) \subseteq TokensOf(TextOf(ls))
<1> DEFINE out == {}
<1>1. /\ \A l \in out : ~ Solid(l)
      /\ TextOf(ls) = FlattenSeq([j \in DOMAIN ls |-> IF ls[j] \in out THEN <<>> ELSE LineTokens(ls[j])])
    BY DEF TextOf
<1> HIDE DEF out
<1> QED BY <1>1, TokensOfSome

\* Two quotes and nothing else.
Quotes(row) == Len(row) = 1 /\ Kind(row[1]) = "empty"

\* So does a row's, if it is not just two quotes.
LEMMA TokensOfRow ==
    ASSUME doc \in Files, NEW row \in Seq(Lines), row # <<>>, Solid(row[1]), ~ Quotes(row)
    PROVE  /\ MadeOf(RowText(row), row[1], ToSet(row)) /\ RowText(row)[1] = LineTokens(row[1])[1]
           /\ \A j \in DOMAIN row :
                  Solid(row[j]) => TokensOf(LineTokens(row[j])) \subseteq TokensOf(RowText(row))
<1> DEFINE out == {l \in Lines : ~ Solid(l)}
           ss == [j \in DOMAIN row |-> IF Solid(row[j]) THEN LineTokens(row[j]) ELSE <<>>]
           tt == [j \in DOMAIN row |-> IF row[j] \in out THEN <<>> ELSE LineTokens(row[j])]
<1>1. \A j \in DOMAIN row : row[j] \in Lines OBVIOUS
<1>2. ss = tt BY <1>1
<1>3. RowText(row) = FlattenSeq(ss) BY DEF RowText, Quotes
<1>4. RowText(row) = FlattenSeq(tt) BY <1>2, <1>3
<1>5. \A l \in out : ~ Solid(l) OBVIOUS
<1> HIDE DEF out
<1> QED BY <1>4, <1>5, TokensOfSome

\* What is left of a text when it is cut to the limit of an element starts as it did.
LEMMA BoundedText ==
    ASSUME NEW text \in Seq(Token), text # <<>>
    PROVE  /\ Bounded(text) \in Seq(Token) /\ Bounded(text) # <<>>
           /\ Bounded(text)[1] = text[1]
           /\ TokensOf(Bounded(text)) \subseteq TokensOf(text)
           /\ Len(Bounded(text)) = MaxElementTokens \/ Bounded(text) = text
<1> DEFINE most == Min({Len(text), MaxElementTokens})
           b == SubSeq(text, 1, most)
<1>M. MaxElementTokens \in Nat /\ MaxElementTokens > 0 BY ParsersAssumption
<1>T. Len(text) \in Nat /\ Len(text) > 0 OBVIOUS
<1>1. most \in 1 .. Len(text) /\ (most = Len(text) \/ most = MaxElementTokens)
    <2>1. {Len(text), MaxElementTokens} \in SUBSET Nat /\ {Len(text), MaxElementTokens} # {}
        BY <1>M, <1>T
    <2>2. most \in {Len(text), MaxElementTokens} /\ most <= Len(text) BY <2>1, MinIsLeast
    <2> QED BY <2>2, <1>M, <1>T
<1>2. Bounded(text) = b BY DEF Bounded
<1> HIDE DEF most
<1>3. /\ b \in Seq(Token) /\ DOMAIN b = 1 .. most /\ Len(b) = most /\ b # <<>>
      /\ \A p \in 1 .. most : b[p] = text[p] /\ p \in DOMAIN text
    BY <1>1, <1>T
<1>4. most = Len(text) => b = text BY <1>3
<1> HIDE DEF b
<1>5. b[1] = text[1] /\ TokensOf(b) \subseteq TokensOf(text) BY <1>1, <1>3 DEF TokensOf
<1> QED BY <1>1, <1>2, <1>3, <1>4, <1>5
-----------------------------------------------------------------------------
(* Elements. *)

\* The context of an element is made of the headings' tokens.
HeadingTokens ==
    {t \in (0 .. Len(doc.lines)) \X {-1, 0} : t[2] = -1 => t[1] \in Lines /\ Special(t[1])}

\* An element whose text starts with a token of a line.
Sound(el) ==
    /\ el \in Elements /\ el.text # <<>>
    /\ el.text[1] \in MarksOf(Lines)
    /\ TokensOf(el.text) \subseteq MarksOf(Lines) \cup {Whitespace}
    /\ el.path \in Seq(HeadingTokens)

\* That line.
Home(el) == el.text[1][1]

\* It points to the lines of its text, unless their place is not known, the one it starts
\* with first, and holds all there is in them unless it was cut.
Traced(el) ==
    /\ el.first = 0 => el.last = 0
    /\ el.first <= el.last
    /\ IF el.text[1] \in Unlocated
       THEN el.first = 0
       ELSE el.first > 0 /\ Home(el) \in Cited([first |-> el.first, last |-> el.first])
    /\ SourceLines(TokensOf(el.text) \ Unlocated) \subseteq Cited(el)
    /\ Cut(el) \/ {l \in Cited(el) : Solid(l)} \subseteq SourceLines(TokensOf(el.text))

\* It starts with a line that has to be in a chunk.
OfBody(el) == Home(el) \in BodyLines

\* It is a record of a log, from its stamp, or the first line, to the next.
OfRecord(el) ==
    /\ el.type = "log_record"
    /\ \A l \in SourceLines(TokensOf(el.text)) : l # Home(el) => Kind(l) # "stamp"
    /\ Kind(Home(el)) = "stamp" \/ \A l \in 1 .. Home(el) - 1 : ~ Solid(l)
    /\ el.last + 1 \in Lines => Kind(el.last + 1) = "stamp"

Good(el) ==
    /\ Sound(el) /\ Traced(el)
    /\ el.type # "heading" => OfBody(el)
    /\ doc.format = "csv" => el.type = "table_row"
    /\ doc.format = "log" => OfRecord(el)

\* What a text is made into.
LEMMA MadeElement ==
    ASSUME doc \in Files, NEW type \in ElementType, NEW path \in Seq(HeadingTokens),
           NEW first \in Nat, NEW last \in Nat,
           NEW text, NEW l, NEW L, MadeOf(text, l, L),
           NEW el, el = Element(type, text, path, first, last)
    PROVE  /\ Sound(el) /\ el.text[1] = text[1] /\ Home(el) = l
           /\ el.type = type /\ el.path = path /\ el.first = first /\ el.last = last
           /\ TokensOf(el.text) \subseteq TokensOf(text)
           /\ SourceLines(TokensOf(el.text)) \subseteq L
           /\ Cut(el) \/ el.text = text
<1>L. LongTokens \in Nat /\ Len(doc.lines) \in Nat /\ Lines = 1 .. Len(doc.lines)
    BY FileTokens, ParsersAssumption
<1>0. /\ text \in Seq(Token) /\ text # <<>>
      /\ l \in Lines /\ text[1] \in Marks(l) /\ L \in SUBSET Lines
      /\ TokensOf(text) \subseteq MarksOf(L) \cup {Whitespace}
    BY DEF MadeOf
<1>1. /\ el.type = type /\ el.path = path /\ el.first = first /\ el.last = last
      /\ el.text = Bounded(text)
      /\ el = [type |-> type, text |-> Bounded(text), path |-> path, first |-> first, last |-> last]
    BY DEF Element
<1>2. text[1][1] = l BY <1>0, MarkFacts
<1>3. /\ Bounded(text) \in Seq(Token) /\ Bounded(text) # <<>>
      /\ Bounded(text)[1] = text[1]
      /\ TokensOf(Bounded(text)) \subseteq TokensOf(text)
      /\ Len(Bounded(text)) = MaxElementTokens \/ Bounded(text) = text
    BY <1>0, BoundedText
<1>4. path \in Seq(Token)
    <2>1. HeadingTokens \subseteq Token
        <3> SUFFICES ASSUME NEW t \in HeadingTokens PROVE t \in Token OBVIOUS
        <3>1. PICK h \in 0 .. Len(doc.lines), k \in {-1, 0} : t = <<h, k>> BY DEF HeadingTokens
        <3>2. k \in -1 .. LongTokens + 1 BY <1>L
        <3> QED BY <1>L, <3>1, <3>2, FileTokens
    <2> QED BY <2>1
<1>5. el \in Elements BY <1>1, <1>3, <1>4 DEF Elements
<1>6. MarksOf(L) \subseteq MarksOf(Lines) /\ Marks(l) \subseteq MarksOf(Lines)
    BY <1>0 DEF MarksOf
<1>7. Sound(el) BY <1>0, <1>1, <1>3, <1>5, <1>6 DEF Sound
<1>8. TokensOf(el.text) \subseteq MarksOf(L) \cup {Whitespace} BY <1>0, <1>1, <1>3
<1>9. SourceLines(TokensOf(el.text)) \subseteq L BY <1>0, <1>8, SourceOf
<1> QED BY <1>1, <1>2, <1>3, <1>7, <1>9 DEF Home, Cut

\* It holds a line whose tokens are all in the text, unless it was cut.
LEMMA HoldsLine ==
    ASSUME doc \in Files, NEW text, NEW el, Cut(el) \/ el.text = text,
           NEW l, Solid(l), TokensOf(LineTokens(l)) \subseteq TokensOf(text)
    PROVE  Cut(el) \/ l \in SourceLines(TokensOf(el.text))
<1>1. l \in Lines BY DEF Solid
<1>2. LineTokens(l) \in Seq(Token) /\ LineTokens(l) # <<>> /\ LineTokens(l)[1] \in Marks(l)
    BY <1>1, TokensOfLine
<1>3. 1 \in DOMAIN LineTokens(l) BY <1>2
<1>4. LineTokens(l)[1] \in TokensOf(text) BY <1>3 DEF TokensOf
<1>5. {l} \in SUBSET Lines /\ (TokensOf(text) \cap Marks(l) # {}) BY <1>1, <1>2, <1>4
<1>6. l \in SourceLines(TokensOf(text)) BY <1>5, SourceOf
<1> QED BY <1>6

\* Outside PDFs and CSV files locations are lines, and all are known.
LEMMA LinesCited ==
    ASSUME doc.format \in {"text", "markdown", "log"}
    PROVE  Unlocated = {} /\ \A at : Cited(at) = at.first .. at.last
BY DEF Unlocated, Cited

\* Lines that are being gathered from line n on.
Begun(ls, n) ==
    /\ ls \in Seq(Lines) /\ ls # <<>> /\ ls[1] = n /\ Solid(n)
    /\ \A j \in 2 .. Len(ls) : n < ls[j]
    /\ doc.format = "markdown" => ~ IsHeading(Kind(n))
    /\ doc.format = "log" =>
           /\ \A j \in 2 .. Len(ls) : Kind(ls[j]) # "stamp"
           /\ Kind(n) = "stamp" \/ \A l \in 1 .. n - 1 : ~ Solid(l)

\* They are all there are up to line m, blank ones left aside.
AllTo(ls, n, m) == \A l \in n .. m : Solid(l) => l \in ToSet(ls)

\* They make an element up to any line that none of them is after.
LEMMA ElementOfLines ==
    ASSUME doc \in Files, doc.format \in {"text", "markdown", "log"},
           NEW type \in {"paragraph", "code", "log_record"},
           NEW path \in Seq(HeadingTokens), NEW n \in Nat, NEW last \in Nat,
           doc.format = "log" => /\ type = "log_record"
                                 /\ last + 1 \in Lines => Kind(last + 1) = "stamp",
           NEW ls, Begun(ls, n), \A j \in DOMAIN ls : ls[j] <= last, AllTo(ls, n, last),
           NEW el, el = Element(type, TextOf(ls), path, n, last)
    PROVE  Good(el) /\ Home(el) = n
<1>L. LongTokens \in Nat /\ LongTokens > 1 /\ Len(doc.lines) \in Nat /\ Lines = 1 .. Len(doc.lines)
    BY FileTokens, ParsersAssumption
<1>1. ls \in Seq(Lines) /\ ls # <<>> /\ ls[1] = n /\ Solid(n) /\ n \in Lines
    BY <1>L DEF Begun, Solid
<1> DEFINE L == ToSet(ls)
<1>2. /\ MadeOf(TextOf(ls), n, L) /\ TextOf(ls)[1] = LineTokens(n)[1]
      /\ \A j \in DOMAIN ls : Solid(ls[j]) => TokensOf(LineTokens(ls[j])) \subseteq TokensOf(TextOf(ls))
    BY <1>1, TokensOfLines
<1>4. type \in ElementType BY DEF ElementType
<1>5. /\ Sound(el) /\ Home(el) = n /\ el.type = type /\ el.first = n /\ el.last = last
      /\ SourceLines(TokensOf(el.text)) \subseteq L /\ (Cut(el) \/ el.text = TextOf(ls))
    <2> HIDE DEF L
    <2> QED BY <1>2, <1>4, MadeElement
<1>6. ASSUME NEW h \in L
      PROVE  /\ h \in n .. last
             /\ doc.format = "log" /\ h # n => Kind(h) # "stamp"
    <2>1. PICK j \in DOMAIN ls : h = ls[j] BY DEF ToSet
    <2>2. j = 1 \/ j \in 2 .. Len(ls) BY <1>1
    <2>3. h \in Nat /\ h <= last BY <2>1, <1>1, <1>L
    <2> QED BY <2>1, <2>2, <2>3, <1>1 DEF Begun
<1>7. ASSUME NEW l \in n .. last, Solid(l) PROVE Cut(el) \/ l \in SourceLines(TokensOf(el.text))
    <2>1. PICK j \in DOMAIN ls : l = ls[j] BY <1>7 DEF AllTo, ToSet
    <2> QED BY <1>2, <1>5, <1>7, <2>1, HoldsLine
<1>8. n \in L /\ n > 0
    <2>1. 1 \in DOMAIN ls BY <1>1
    <2> QED BY <1>1, <1>L, <2>1 DEF ToSet
<1> HIDE DEF L
<1>9. Traced(el)
    <2>1. Unlocated = {} /\ Cited(el) = n .. last /\ Cited([first |-> el.first, last |-> el.first]) = n .. n
        BY <1>5, LinesCited
    <2>2. n <= last BY <1>6, <1>8
    <2>3. SourceLines(TokensOf(el.text) \ Unlocated) \subseteq n .. last BY <1>5, <1>6, <2>1
    <2> QED BY <1>5, <1>7, <1>8, <2>1, <2>2, <2>3 DEF Traced
<1>10. doc.format = "log" => OfRecord(el) BY <1>5, <1>6 DEF OfRecord, Begun
<1>11. n \in BodyLines BY <1>1 DEF BodyLines, HeadingLines, Begun
<1> QED BY <1>5, <1>9, <1>10, <1>11 DEF Good, OfBody

\* One line makes a heading, or a paragraph if it is none.
LEMMA ElementOfLine ==
    ASSUME doc \in Files, doc.format \in {"markdown", "pdf"}, NEW l \in Lines, Solid(l),
           NEW type \in {"heading", "paragraph"}, type = "paragraph" => ~ IsHeading(Kind(l)),
           NEW place, place = IF doc.format = "pdf" THEN Place(l) ELSE l,
           NEW path \in Seq(HeadingTokens),
           NEW el, el = Element(type, LineTokens(l), path, place, place)
    PROVE  Good(el) /\ Home(el) = l
<1>L. LongTokens \in Nat /\ LongTokens > 1 /\ Len(doc.lines) \in Nat /\ Lines = 1 .. Len(doc.lines)
    BY FileTokens, ParsersAssumption
<1> DEFINE L == {l}
<1>1. /\ LineTokens(l) \in Seq(Token) /\ LineTokens(l) # <<>> /\ LineTokens(l)[1] \in Marks(l)
      /\ LineTokens(l)[1] \in Unlocated => Kind(l) = "unplaced"
      /\ TokensOf(LineTokens(l)) \subseteq MarksOf(L) \cup {Whitespace}
    BY TokensOfLine DEF MarksOf
<1>2. type \in ElementType /\ l \in Nat /\ l > 0 /\ place \in {0, l} /\ place \in Nat
    BY <1>L DEF ElementType, Place
<1>3. MadeOf(LineTokens(l), l, L) BY <1>1 DEF MadeOf
<1> HIDE DEF L
<1>4. /\ Sound(el) /\ el.text[1] = LineTokens(l)[1] /\ Home(el) = l /\ el.type = type
      /\ el.first = place /\ el.last = place
      /\ TokensOf(el.text) \subseteq TokensOf(LineTokens(l))
      /\ SourceLines(TokensOf(el.text)) \subseteq L /\ (Cut(el) \/ el.text = LineTokens(l))
    BY <1>2, <1>3, MadeElement
<1>5. Cut(el) \/ l \in SourceLines(TokensOf(el.text)) BY <1>4, HoldsLine
<1>6. \A at : Cited(at) = at.first .. at.last BY DEF Cited
<1>7. Cited(el) = place .. place /\ Cited([first |-> el.first, last |-> el.first]) = place .. place
    BY <1>4, <1>6
<1>8. {h \in Cited(el) : Solid(h)} \subseteq {l}
    BY <1>7, <1>2, <1>L DEF Solid
<1>W. Cut(el) \/ \A h \in Cited(el) : Solid(h) => h \in SourceLines(TokensOf(el.text))
    BY <1>5, <1>8
<1>9. Traced(el)
    <2>1. CASE doc.format = "pdf" /\ Kind(l) = "unplaced"
        <3>1. place = 0 BY <2>1 DEF Place
        <3>2. LineTokens(l) = <<<<l, 1>>>> BY <2>1 DEF LineTokens, Special
        <3>3. <<l, 1>> \in Unlocated BY <2>1 DEF Unlocated
        <3> DEFINE t == <<l, 1>>
        <3>4. LineTokens(l) = <<t>> /\ t \in Unlocated BY <3>2, <3>3
        <3> HIDE DEF t
        <3>5. <<t>>[1] = t /\ TokensOf(<<t>>) = {t} BY DEF TokensOf
        <3>6. el.text[1] \in Unlocated /\ TokensOf(el.text) \ Unlocated = {} BY <1>4, <3>4, <3>5
        <3>7. SourceLines(TokensOf(el.text) \ Unlocated) = {} BY <3>6 DEF SourceLines
        <3>8. SourceLines(TokensOf(el.text) \ Unlocated) \subseteq Cited(el) BY <3>7
        <3>9. el.first = 0 /\ el.last = 0 /\ el.first <= el.last BY <1>4, <3>1
        <3>10. Cut(el) \/ {h \in Cited(el) : Solid(h)} \subseteq SourceLines(TokensOf(el.text)) BY <1>W
        <3> HIDE DEF L
        <3> QED BY <3>6, <3>8, <3>9, <3>10 DEF Traced
    <2>2. CASE ~ (doc.format = "pdf" /\ Kind(l) = "unplaced")
        <3>1. place = l BY <2>2 DEF Place
        <3>2. el.text[1] \notin Unlocated BY <1>1, <1>4, <2>2 DEF Unlocated
        <3>3. SourceLines(TokensOf(el.text) \ Unlocated) \subseteq {l} BY <1>4 DEF SourceLines, L
        <3>4. Cited(el) = {l} /\ Cited([first |-> el.first, last |-> el.first]) = {l}
            BY <1>2, <1>7, <3>1
        <3>5. SourceLines(TokensOf(el.text) \ Unlocated) \subseteq Cited(el) BY <3>3, <3>4
        <3>6. /\ el.first = l /\ el.last = l /\ el.first <= el.last /\ el.first > 0
              /\ Home(el) \in Cited([first |-> el.first, last |-> el.first])
            BY <1>2, <1>4, <3>1, <3>4
        <3>7. Cut(el) \/ {h \in Cited(el) : Solid(h)} \subseteq SourceLines(TokensOf(el.text)) BY <1>W
        <3> QED BY <1>2, <3>2, <3>5, <3>6, <3>7 DEF Traced
    <2> QED BY <2>1, <2>2
<1>10. type = "paragraph" => l \in BodyLines BY DEF BodyLines, HeadingLines
<1> QED BY <1>4, <1>9, <1>10 DEF Good, OfBody

\* Each of the two rows of a PDF's table makes one.
LEMMA ElementOfTable ==
    ASSUME doc \in Files, doc.format = "pdf", NEW l \in Lines, Kind(l) = "table",
           hierarchy \in Seq(HeadingTokens), NEW k \in 1 .. 2
    PROVE  Good(TableRows(l)[k]) /\ Home(TableRows(l)[k]) = l
<1>L. LongTokens \in Nat /\ LongTokens > 1 /\ Len(doc.lines) \in Nat /\ Lines = 1 .. Len(doc.lines)
    BY FileTokens, ParsersAssumption
<1> DEFINE t == <<l, k>>
           el == Element("table_row", <<t>>, hierarchy, l, l)
           L == {l}
<1>1. TableRows(l)[k] = el BY DEF TableRows
<1>2. t \in Marks(l) /\ t \in Token /\ t \notin Unlocated
    <2>1. t \in Marks(l) BY <1>L DEF Marks
    <2>2. t \notin Unlocated BY DEF Unlocated
    <2> HIDE DEF t
    <2> QED BY <2>1, <2>2, MarkFacts
<1> HIDE DEF t
<1>3. <<t>> \in Seq(Token) /\ <<t>> # <<>> /\ <<t>>[1] = t /\ TokensOf(<<t>>) = {t}
    BY <1>2 DEF TokensOf
<1>4. MadeOf(<<t>>, l, L) BY <1>2, <1>3 DEF MadeOf, MarksOf
<1>5. "table_row" \in ElementType /\ l \in Nat /\ l > 0 BY <1>L DEF ElementType
<1>6. el = Element("table_row", <<t>>, hierarchy, l, l) OBVIOUS
<1> HIDE DEF el, L
<1>7. /\ Sound(el) /\ el.text[1] = t /\ Home(el) = l /\ el.type = "table_row"
      /\ el.first = l /\ el.last = l
      /\ SourceLines(TokensOf(el.text)) \subseteq L /\ (Cut(el) \/ el.text = <<t>>)
    BY <1>3, <1>4, <1>5, <1>6, MadeElement
<1>8. Cut(el) \/ l \in SourceLines(TokensOf(el.text))
    <2>1. ASSUME el.text = <<t>> PROVE l \in SourceLines(TokensOf(el.text))
        <3>1. t \in TokensOf(el.text) /\ t # Whitespace /\ t[1] = l /\ t[2] > 0
            BY <2>1, <1>2, <1>3, MarkFacts
        <3> QED BY <3>1 DEF SourceLines
    <2> QED BY <1>7, <2>1
<1>9. Traced(el)
    <2>1. \A at : Cited(at) = at.first .. at.last BY DEF Cited
    <2>2. Cited(el) = {l} /\ Cited([first |-> el.first, last |-> el.first]) = {l}
        BY <1>5, <1>7, <2>1
    <2>3. SourceLines(TokensOf(el.text) \ Unlocated) \subseteq {l} BY <1>7 DEF SourceLines, L
    <2>4. Cut(el) \/ \A h \in Cited(el) : Solid(h) => h \in SourceLines(TokensOf(el.text))
        BY <1>8, <2>2
    <2>5. SourceLines(TokensOf(el.text) \ Unlocated) \subseteq Cited(el) BY <2>2, <2>3
    <2>6. /\ el.first = l /\ el.last = l /\ el.first <= el.last /\ el.first > 0
          /\ Home(el) \in Cited([first |-> el.first, last |-> el.first])
        BY <1>5, <1>7, <2>2
    <2>7. Cut(el) \/ {h \in Cited(el) : Solid(h)} \subseteq SourceLines(TokensOf(el.text)) BY <2>4
    <2>8. el.text[1] \notin Unlocated BY <1>2, <1>7
    <2> QED BY <1>5, <2>5, <2>6, <2>7, <2>8 DEF Traced
<1>10. l \in BodyLines BY DEF BodyLines, HeadingLines, Solid, IsHeading
<1> QED BY <1>1, <1>7, <1>9, <1>10 DEF Good, OfBody

\* A row of a CSV file makes one that points to the row's number.
LEMMA ElementOfRow ==
    ASSUME doc \in Files, doc.format = "csv", rows \in Seq(Seq(Nat)),
           NEW n \in DOMAIN rows, NEW row \in Seq(Lines), row = rows[n],
           row # <<>>, Solid(row[1]), ~ Quotes(row),
           NEW el, el = Element("table_row", RowText(row), CsvPath, n, n)
    PROVE  Good(el) /\ Home(el) = row[1] /\ el.first = n /\ el.last = n
<1>L. /\ LongTokens \in Nat /\ LongTokens > 1 /\ Len(doc.lines) \in Nat
      /\ Lines = 1 .. Len(doc.lines) /\ n \in Nat /\ n > 0
    BY FileTokens, ParsersAssumption
<1> DEFINE L == ToSet(row)
<1>1. /\ MadeOf(RowText(row), row[1], L) /\ RowText(row)[1] = LineTokens(row[1])[1]
      /\ \A j \in DOMAIN row : Solid(row[j]) => TokensOf(LineTokens(row[j])) \subseteq TokensOf(RowText(row))
    BY TokensOfRow
<1>2. CsvPath \in Seq(HeadingTokens)
    <2> DEFINE t == <<0, 0>>
    <2>1. t \in HeadingTokens BY <1>L DEF HeadingTokens
    <2>2. CsvPath = <<t>> BY DEF CsvPath
    <2> HIDE DEF t
    <2> QED BY <2>1, <2>2
<1>3. "table_row" \in ElementType BY DEF ElementType
<1>4. 1 \in DOMAIN row /\ row[1] \in L
    <2>1. 1 \in DOMAIN row OBVIOUS
    <2> QED BY <2>1 DEF ToSet
<1>5. \A l \in L : \E j \in DOMAIN row : l = row[j] BY DEF ToSet
<1> HIDE DEF L
<1>6. /\ Sound(el) /\ Home(el) = row[1] /\ el.type = "table_row"
      /\ el.first = n /\ el.last = n
      /\ SourceLines(TokensOf(el.text)) \subseteq L /\ (Cut(el) \/ el.text = RowText(row))
    BY <1>1, <1>2, <1>3, <1>L, MadeElement
<1>7. \A l \in L : Solid(l) => Cut(el) \/ l \in SourceLines(TokensOf(el.text))
    BY <1>1, <1>5, <1>6, HoldsLine
<1>8. \A at : at.first = n /\ at.last = n => Cited(at) = L
    <2> TAKE at
    <2> HAVE at.first = n /\ at.last = n
    <2>1. (at.first .. at.last) \cap DOMAIN rows = {n} BY <1>L
    <2> QED BY <2>1 DEF Cited, L
<1>9. Cited(el) = L /\ Cited([first |-> el.first, last |-> el.first]) = L BY <1>6, <1>8
<1>10. Unlocated = {} BY DEF Unlocated
<1>11. Traced(el) BY <1>4, <1>6, <1>7, <1>9, <1>10, <1>L DEF Traced
<1>12. row[1] \in BodyLines BY DEF BodyLines, HeadingLines, Solid
<1> QED BY <1>6, <1>11, <1>12 DEF Good, OfBody
-----------------------------------------------------------------------------
(* The control state: the file at work, the phases and the threads. *)

Phases == {"idle", "reading", "converting", "parsing", "rows",
           "parsed", "chunking", "chunked", "failed"}
Warnings == {"unclosed_code_fence", "unstructured_log_record", "ragged_csv_row"}

\* The file at work, and those to come, are among the files that were given.
FileAtWork ==
    /\ batch \in Seq(Files)
    /\ IF phase = "idle" THEN doc = NoFile ELSE doc \in Files

\* Nothing has been read of the file.
Untouched ==
    /\ elements = <<>> /\ line = 1 /\ buffer = <<>> /\ fenced = FALSE
    /\ hierarchy = <<>> /\ rows = <<>>

PhasesOK ==
    /\ phase \in Phases
    /\ phase \in {"idle", "reading", "converting"} => Untouched
    /\ phase = "reading" => doc.format # "pdf"
    /\ phase = "converting" => doc.format = "pdf"
    /\ phase = "rows" => doc.format = "csv"
    /\ index \in Nat
    /\ index = 0 => Idle /\ phase \notin {"chunking", "chunked"}
    /\ index > 0 => phase \in {"chunking", "chunked", "failed"}

\* A conversion that may still run out of time has a thread to leave behind.
ThreadHeld ==
    /\ abandoned \in 0 .. Threads
    /\ phase = "converting" \/ Parsing("pdf") => abandoned < Threads

Control == FileAtWork /\ PhasesOK /\ ThreadHeld

-----------------------------------------------------------------------------
(* The parsers' loops. *)

\* What orders elements: the lines they start with, or the numbers of their rows.
Key(el) == IF doc.format = "csv" THEN el.first ELSE Home(el)

\* Elements in this order.
Lists(es) ==
    /\ es \in Seq(Elements)
    /\ \A e \in DOMAIN es : Good(es[e])
    /\ \A e, f \in DOMAIN es : e <= f => Key(es[e]) <= Key(es[f])

Below(es, n) == \A e \in DOMAIN es : Key(es[e]) < n

\* The elements so far are from before the lines being gathered, or the current line.
Ahead ==
    IF buffer = <<>>
    THEN Below(elements, line) /\ (doc.format = "log" => \A l \in 1 .. line - 1 : ~ Solid(l))
    ELSE Begun(buffer, from) /\ AllTo(buffer, from, line - 1) /\ Below(elements, from)

Reading ==
    /\ line \in Nat /\ from \in Nat /\ fenced \in BOOLEAN
    /\ buffer \in Seq(Nat) /\ hierarchy \in Seq(HeadingTokens) /\ rows \in Seq(Seq(Nat))
    /\ warnings \subseteq Warnings
    /\ Lists(elements)
    /\ phase = "parsing" =>
        /\ line \in 1 .. Len(doc.lines) + 1 /\ buffer \in Seq(1 .. line - 1)
        /\ fenced => buffer # <<>> /\ doc.format = "markdown"
        /\ doc.format = "pdf" => buffer = <<>>
        /\ doc.format = "csv" => elements = <<>>
        /\ doc.format # "csv" => Ahead

\* Where the elements of a list start.
LEMMA KeyOfGood ==
    ASSUME doc \in Files, NEW el, Good(el)
    PROVE  /\ Key(el) \in Nat /\ Home(el) \in Lines /\ el.first \in Nat /\ el.last \in Nat
           /\ el.first > 0 => el.first = Key(el)
<1>1. /\ el \in Elements /\ el.text[1] \in MarksOf(Lines) /\ Traced(el)
    BY DEF Good, Sound
<1>2. PICK l \in Lines : el.text[1] \in Marks(l) BY <1>1 DEF MarksOf
<1>3. Home(el) = l BY <1>2, MarkFacts DEF Home
<1>4. Lines = 1 .. Len(doc.lines) /\ Len(doc.lines) \in Nat BY FileTokens
<1>5. el.first \in Nat /\ el.last \in Nat BY <1>1 DEF Elements
<1>6. ASSUME el.first > 0, doc.format # "csv" PROVE el.first = Home(el)
    <2>1. Home(el) \in Cited([first |-> el.first, last |-> el.first]) BY <1>1, <1>5, <1>6 DEF Traced
    <2>2. Home(el) \in el.first .. el.first BY <1>6, <2>1 DEF Cited
    <2> QED BY <1>5, <2>2
<1> QED BY <1>3, <1>4, <1>5, <1>6 DEF Key

LEMMA ListedKey ==
    ASSUME doc \in Files, NEW es, Lists(es), NEW e \in DOMAIN es
    PROVE  Key(es[e]) \in Nat
BY KeyOfGood DEF Lists

\* What is below a line is below the next.
LEMMA BelowNext ==
    ASSUME doc \in Files, NEW es, Lists(es), NEW n \in Nat, Below(es, n)
    PROVE  Below(es, n + 1)
BY ListedKey DEF Below

\* A list that takes in an element from after all others.
LEMMA Listed ==
    ASSUME doc \in Files, NEW es, Lists(es), NEW el, Good(el),
           \A e \in DOMAIN es : Key(es[e]) <= Key(el)
    PROVE  /\ Lists(Append(es, el))
           /\ \A n \in Nat : Below(es, n) /\ Key(el) < n => Below(Append(es, el), n)
<1>1. es \in Seq(Elements) /\ el \in Elements BY DEF Lists, Good, Sound
<1>2. /\ Append(es, el) \in Seq(Elements)
      /\ \A e \in DOMAIN Append(es, el) :
             (e \in DOMAIN es /\ Append(es, el)[e] = es[e])
             \/ (e = Len(es) + 1 /\ Append(es, el)[e] = el)
      /\ Len(es) \in Nat /\ DOMAIN es = 1 .. Len(es)
    BY <1>1
<1>4. Key(el) \in Nat /\ \A e \in DOMAIN es : Key(es[e]) \in Nat BY KeyOfGood, ListedKey
<1> DEFINE more == Append(es, el)
<1>5. /\ more \in Seq(Elements)
      /\ \A e \in DOMAIN more :
             (e \in DOMAIN es /\ more[e] = es[e]) \/ (e = Len(es) + 1 /\ more[e] = el)
    BY <1>2
<1> HIDE DEF more
<1>6. \A e \in DOMAIN more : Good(more[e]) BY <1>5 DEF Lists
<1>7. ASSUME NEW e \in DOMAIN more, NEW f \in DOMAIN more, e <= f
      PROVE  Key(more[e]) <= Key(more[f])
    <2>1. CASE e \in DOMAIN es /\ more[e] = es[e] /\ f \in DOMAIN es /\ more[f] = es[f]
        BY <2>1, <1>7 DEF Lists
    <2>2. CASE e \in DOMAIN es /\ more[e] = es[e] /\ f = Len(es) + 1 /\ more[f] = el
        BY <2>2
    <2>3. CASE e = Len(es) + 1 /\ more[e] = el /\ f \in DOMAIN es /\ more[f] = es[f]
        BY <2>3, <1>2, <1>7
    <2>4. CASE more[e] = el /\ more[f] = el
        BY <2>4, <1>4
    <2> QED BY <1>5, <2>1, <2>2, <2>3, <2>4
<1>8. Lists(more) BY <1>5, <1>6, <1>7 DEF Lists
<1>9. \A n \in Nat : Below(es, n) /\ Key(el) < n => Below(more, n)
    BY <1>5 DEF Below
<1> QED BY <1>8, <1>9 DEF more

\* What depends on the file alone does not change while it is at work.
LEMMA SameFile ==
    ASSUME doc' = doc
    PROVE  /\ HeadingTokens' = HeadingTokens /\ Lines' = Lines
           /\ \A ls, n : Begun(ls, n)' <=> Begun(ls, n)
           /\ \A ls, n, m : AllTo(ls, n, m)' <=> AllTo(ls, n, m)
           /\ \A es, n : Below(es, n)' <=> Below(es, n)
           /\ \A l : Solid(l)' <=> Solid(l)
BY DEF HeadingTokens, Lines, Begun, AllTo, Below, Key, Home, Solid, Special, Kind

\* So do lists of elements while the rows stay.
LEMMA SameLists ==
    ASSUME doc' = doc, rows' = rows
    PROVE  \A es : Lists(es)' <=> Lists(es)
<1>1. /\ Lines' = Lines /\ HeadingTokens' = HeadingTokens /\ BodyLines' = BodyLines
      /\ Unlocated' = Unlocated /\ \A at : Cited(at)' = Cited(at)
      /\ \A l : (Solid(l)' <=> Solid(l)) /\ Kind(l)' = Kind(l) /\ Marks(l)' = Marks(l)
    BY DEF Lines, HeadingTokens, BodyLines, HeadingLines, Unlocated, Cited, Solid, Kind, Marks, Special
<1>2. MarksOf(Lines)' = MarksOf(Lines) BY <1>1 DEF MarksOf
<1>3. \A el : (Sound(el)' <=> Sound(el)) /\ (Traced(el)' <=> Traced(el))
    BY <1>1, <1>2 DEF Sound, Traced, SourceLines, TokensOf, Cut, Home
<1>4. \A el : (OfBody(el)' <=> OfBody(el)) /\ (OfRecord(el)' <=> OfRecord(el))
    BY <1>1 DEF OfBody, OfRecord, SourceLines, TokensOf, Home
<1>5. \A el : (Good(el)' <=> Good(el)) /\ Key(el)' = Key(el) BY <1>3, <1>4 DEF Good, Key, Home
<1> QED BY <1>5 DEF Lists

\* A sequence over a smaller set.
LEMMA FewerInSeq == ASSUME NEW S, NEW T, S \subseteq T PROVE Seq(S) \subseteq Seq(T)
OBVIOUS

\* What a step over the lines of any file but a CSV file has to leave behind.
LEMMA LinesRead ==
    ASSUME doc \in Files, doc' = doc, doc.format # "csv", Reading, phase = "parsing", rows' = rows,
           line' \in {line, line + 1}, fenced' \in BOOLEAN, from' \in Nat,
           hierarchy' \in Seq(HeadingTokens), warnings' \subseteq Warnings,
           buffer' \in Seq(1 .. line' - 1),
           Lists(elements'),
           phase' = "parsing" =>
               /\ line' <= Len(doc.lines) + 1
               /\ fenced' => buffer' # <<>> /\ doc.format = "markdown"
               /\ doc.format = "pdf" => buffer' = <<>>
               /\ IF buffer' = <<>>
                  THEN /\ Below(elements', line')
                       /\ doc.format = "log" => \A l \in 1 .. line' - 1 : ~ Solid(l)
                  ELSE /\ Begun(buffer', from') /\ AllTo(buffer', from', line' - 1)
                       /\ Below(elements', from')
    PROVE  Reading'
<1>1. Len(doc.lines) \in Nat /\ line \in Nat /\ line \in 1 .. Len(doc.lines) + 1
    BY FileTokens DEF Reading
<1>2. line' \in Nat /\ line' >= 1 BY <1>1
<1>3. buffer' \in Seq(Nat)
    <2> DEFINE n == line' - 1
               S == 1 .. n
    <2>0. n \in Nat
        <3>1. \A m \in Nat : m >= 1 => m - 1 \in Nat OBVIOUS
        <3> QED BY <1>2, <3>1, Zenon
    <2> HIDE DEF n
    <2>1. S \subseteq Nat BY <2>0
    <2> USE DEF n
    <2>2. buffer' \in Seq(S) OBVIOUS
    <2> HIDE DEF S
    <2> QED BY <2>1, <2>2, FewerInSeq
<1>4. Lists(elements)'
    <2>1. Lists(elements)' <=> Lists(elements') BY SameLists DEF Lists
    <2> QED BY <2>1
<1>5. phase' = "parsing" => Ahead' BY SameFile DEF Ahead, Below
<1>6. hierarchy' \in Seq(HeadingTokens') BY SameFile
<1>7. rows' \in Seq(Seq(Nat)) BY DEF Reading
<1>8. phase' = "parsing" =>
          /\ line' \in 1 .. Len(doc'.lines) + 1 /\ buffer' \in Seq(1 .. line' - 1)
          /\ fenced' => buffer' # <<>> /\ doc'.format = "markdown"
          /\ doc'.format = "pdf" => buffer' = <<>>
          /\ doc'.format # "csv"
    BY <1>1, <1>2, SMTT(30)
<1> QED BY <1>1, <1>2, <1>3, <1>4, <1>5, <1>6, <1>7, <1>8, SMTT(30) DEF Reading

\* The line a loop has reached.
LEMMA AtLine ==
    ASSUME doc \in Files, Reading, phase = "parsing"
    PROVE  /\ line \in Nat /\ line > 0 /\ Len(doc.lines) \in Nat /\ line <= Len(doc.lines) + 1
           /\ line <= Len(doc.lines) => line \in Lines
           /\ Lines = 1 .. Len(doc.lines)
           /\ buffer \in Seq(1 .. line - 1) /\ buffer \in Seq(Lines)
<1>1. Len(doc.lines) \in Nat /\ Lines = 1 .. Len(doc.lines) BY FileTokens
<1>2. line \in 1 .. Len(doc.lines) + 1 /\ buffer \in Seq(1 .. line - 1) BY DEF Reading
<1>3. line \in Nat /\ line > 0 /\ line <= Len(doc.lines) + 1 BY <1>1, <1>2
<1>4. 1 .. line - 1 \subseteq Lines BY <1>1, <1>3
<1>5. buffer \in Seq(Lines)
    <2> DEFINE S == 1 .. line - 1
    <2>1. S \subseteq Lines /\ buffer \in Seq(S) BY <1>2, <1>4
    <2> HIDE DEF S
    <2> QED BY <2>1, FewerInSeq
<1> QED BY <1>1, <1>2, <1>3, <1>5

\* The lines gathered so far, as an element.
LEMMA FlushedLists ==
    ASSUME doc \in Files, doc.format \in {"text", "markdown", "log"}, Reading, phase = "parsing",
           NEW type \in {"paragraph", "code", "log_record"},
           doc.format = "log" => type = "log_record" /\ (line \in Lines => Kind(line) = "stamp")
    PROVE  Lists(Flushed(type, line - 1)) /\ Below(Flushed(type, line - 1), line)
<1>1. /\ line \in Nat /\ line > 0 /\ buffer \in Seq(1 .. line - 1)
    BY AtLine
<1>2. Lists(elements) /\ Ahead /\ hierarchy \in Seq(HeadingTokens) /\ from \in Nat
    BY DEF Reading
<1>3. CASE buffer = <<>>
    BY <1>2, <1>3 DEF Flushed, Ahead
<1>4. CASE buffer # <<>>
    <2> DEFINE last == line - 1
               el == Element(type, TextOf(buffer), hierarchy, from, last)
    <2>1. Begun(buffer, from) /\ AllTo(buffer, from, last) /\ Below(elements, from)
        BY <1>2, <1>4 DEF Ahead
    <2>2. \A j \in DOMAIN buffer : buffer[j] <= last /\ buffer[j] < line BY <1>1
    <2>3. from < line
        <3>1. 1 \in DOMAIN buffer /\ buffer[1] = from BY <1>1, <1>4, <2>1 DEF Begun
        <3> QED BY <2>2, <3>1
    <2>4. Good(el) /\ Home(el) = from
        <3>1. el = Element(type, TextOf(buffer), hierarchy, from, last) OBVIOUS
        <3>2. last \in Nat /\ last + 1 = line BY <1>1
        <3> HIDE DEF el, last
        <3>3. doc.format = "log" => /\ type = "log_record"
                                    /\ last + 1 \in Lines => Kind(last + 1) = "stamp"
            BY <3>2
        <3> QED BY <1>2, <2>1, <2>2, <3>1, <3>2, <3>3, ElementOfLines
    <2>5. Flushed(type, line - 1) = Append(elements, el) BY <1>4 DEF Flushed
    <2>6. Key(el) = from BY <2>4 DEF Key
    <2> HIDE DEF el
    <2>7. \A e \in DOMAIN elements : Key(elements[e]) \in Nat BY <1>2, ListedKey
    <2>8. \A e \in DOMAIN elements : Key(elements[e]) <= Key(el) /\ Key(elements[e]) < line
        BY <1>1, <1>2, <2>1, <2>3, <2>6, <2>7 DEF Below
    <2> QED BY <1>1, <1>2, <2>3, <2>4, <2>5, <2>6, <2>8, Listed DEF Below
<1> QED BY <1>3, <1>4

\* A line joins those being gathered, or is the first of them.
LEMMA GatheredLine ==
    ASSUME doc \in Files, doc.format # "csv", Reading, phase = "parsing", line <= Len(doc.lines),
           buffer = <<>> => Solid(line) /\ (doc.format = "markdown" => ~ IsHeading(Kind(line))),
           buffer # <<>> /\ doc.format = "log" => Kind(line) # "stamp",
           NEW n, n = IF buffer = <<>> THEN line ELSE from
    PROVE  /\ Append(buffer, line) \in Seq(1 .. line) /\ Append(buffer, line) # <<>>
           /\ n \in Nat /\ Begun(Append(buffer, line), n) /\ AllTo(Append(buffer, line), n, line)
           /\ Below(elements, n)
<1>1. /\ line \in Nat /\ line > 0 /\ line \in Lines
      /\ buffer \in Seq(1 .. line - 1) /\ buffer \in Seq(Lines)
    BY AtLine
<1>2. Ahead /\ from \in Nat BY DEF Reading
<1> DEFINE more == Append(buffer, line)
<1>3. more \in Seq(1 .. line) /\ more # <<>>
    <2>1. 1 .. line - 1 \subseteq 1 .. line /\ line \in 1 .. line BY <1>1
    <2> DEFINE S == 1 .. line - 1
               T == 1 .. line
    <2>2. S \subseteq T /\ line \in T /\ buffer \in Seq(S) BY <1>1, <2>1
    <2> HIDE DEF S
    <2> HIDE DEF T
    <2>3. buffer \in Seq(T) BY <2>2, FewerInSeq
    <2>4. more \in Seq(T) /\ more # <<>> BY <2>2, <2>3, Longer
    <2> QED BY <2>4 DEF T
<1>4. more \in Seq(Lines) BY <1>1
<1>5. CASE buffer = <<>>
    <2>1. more = <<line>> /\ n = line BY <1>5
    <2>2. more[1] = line /\ Len(more) = 1 BY <2>1
    <2>3. Below(elements, n) /\ (doc.format = "log" => \A l \in 1 .. n - 1 : ~ Solid(l))
        BY <1>2, <1>5, <2>1 DEF Ahead
    <2>5. line \in ToSet(more)
        <3>1. 1 \in DOMAIN more BY <2>1
        <3> QED BY <2>2, <3>1 DEF ToSet
    <2> HIDE DEF more
    <2>4. Begun(more, n) BY <1>3, <1>4, <1>5, <2>1, <2>2, <2>3 DEF Begun
    <2>6. AllTo(more, n, line) BY <1>1, <2>1, <2>5 DEF AllTo
    <2> QED BY <1>1, <1>3, <2>1, <2>3, <2>4, <2>6 DEF more
<1>6. CASE buffer # <<>>
    <2>1. Begun(buffer, n) /\ AllTo(buffer, n, line - 1) /\ n = from /\ Below(elements, n)
        BY <1>2, <1>6 DEF Ahead
    <2>2. /\ more[1] = buffer[1] /\ Len(more) = Len(buffer) + 1 /\ Len(buffer) \in Nat
          /\ Len(buffer) > 0
          /\ \A j \in 1 .. Len(buffer) : more[j] = buffer[j]
          /\ more[Len(buffer) + 1] = line
        BY <1>1, <1>6
    <2>3. n < line
        <3>1. buffer[1] \in 1 .. line - 1 BY <1>1, <1>6
        <3> QED BY <1>1, <2>1, <3>1 DEF Begun
    <2> HIDE DEF more
    <2>4. ASSUME NEW j \in 2 .. Len(more)
          PROVE  n < more[j] /\ (doc.format = "log" => Kind(more[j]) # "stamp")
        <3>1. j \in 2 .. Len(buffer) \/ j = Len(buffer) + 1 BY <2>2
        <3>2. CASE j \in 2 .. Len(buffer)
            <4>1. more[j] = buffer[j] BY <2>2, <3>2
            <4> QED BY <2>1, <3>2, <4>1 DEF Begun
        <3>3. CASE j = Len(buffer) + 1 BY <1>6, <2>2, <2>3, <3>3
        <3> QED BY <3>1, <3>2, <3>3
    <2>5. Begun(more, n) BY <1>3, <1>4, <2>1, <2>2, <2>4 DEF Begun
    <2>6. ASSUME NEW l \in n .. line, Solid(l) PROVE l \in ToSet(more)
        <3>1. CASE l = line
            <4>1. Len(buffer) + 1 \in DOMAIN more BY <1>4, <2>2
            <4> QED BY <2>2, <3>1, <4>1 DEF ToSet
        <3>2. CASE l # line
            <4>1. l \in n .. line - 1 BY <1>1, <1>2, <2>1, <3>2
            <4>2. PICK j \in DOMAIN buffer : l = buffer[j] BY <2>1, <2>6, <4>1 DEF AllTo, ToSet
            <4>3. j \in 1 .. Len(buffer) BY <1>1, <4>2
            <4>4. j \in DOMAIN more BY <1>4, <2>2, <4>3
            <4> QED BY <2>2, <4>2, <4>3, <4>4 DEF ToSet
        <3> QED BY <3>1, <3>2
    <2>7. AllTo(more, n, line) BY <2>6 DEF AllTo
    <2> QED BY <1>2, <1>3, <2>1, <2>5, <2>7 DEF more
<1> QED BY <1>5, <1>6

\* A paragraph ends where its lines do.
LEMMA PlainTextReads ==
    ASSUME doc \in Files, doc' = doc, Reading, PlainText \/ PlainTextEnd
    PROVE  Reading'
<1>P. phase = "parsing" /\ doc.format = "text" BY DEF PlainText, PlainTextEnd, Parsing
<1>L. /\ line \in Nat /\ line > 0 /\ Len(doc.lines) \in Nat /\ line <= Len(doc.lines) + 1
      /\ line - 1 \in Nat /\ line - 1 <= line - 1
      /\ Lists(elements) /\ from \in Nat /\ fenced \in BOOLEAN
      /\ hierarchy \in Seq(HeadingTokens) /\ warnings \subseteq Warnings
      /\ ~ fenced
    BY <1>P, AtLine DEF Reading
<1>F. Lists(Flushed("paragraph", line - 1)) /\ Below(Flushed("paragraph", line - 1), line)
    BY <1>P, <1>L, FlushedLists
<1> DEFINE flushed == Flushed("paragraph", line - 1)
<1>1. CASE PlainText /\ Solid(line)
    <2>1. /\ buffer' = Append(buffer, line) /\ from' = (IF buffer = <<>> THEN line ELSE from)
          /\ elements' = elements /\ line' = line + 1 /\ rows' = rows /\ line <= Len(doc.lines)
          /\ fenced' = fenced /\ hierarchy' = hierarchy /\ warnings' = warnings
        BY <1>1 DEF PlainText, Gathered, NextLine
    <2>2. /\ buffer' \in Seq(1 .. line) /\ buffer' # <<>>
          /\ from' \in Nat /\ Begun(buffer', from') /\ AllTo(buffer', from', line)
          /\ Below(elements, from')
        BY <1>P, <1>1, <2>1, GatheredLine
    <2>3. line' - 1 = line BY <1>L, <2>1
    <2> QED BY <1>P, <1>L, <2>1, <2>2, <2>3, LinesRead
<1>2. CASE PlainText /\ ~ Solid(line)
    <2>1. /\ buffer' = <<>> /\ from' = from /\ elements' = flushed
          /\ line' = line + 1 /\ rows' = rows /\ line <= Len(doc.lines)
          /\ fenced' = fenced /\ hierarchy' = hierarchy /\ warnings' = warnings
        BY <1>2 DEF PlainText, NextLine
    <2>2. Below(elements', line') BY <1>L, <1>F, <2>1, BelowNext
    <2> HIDE DEF flushed
    <2>3. Lists(elements') /\ buffer' \in Seq(1 .. line' - 1) BY <1>F, <2>1 DEF flushed
    <2> QED BY <1>P, <1>L, <2>1, <2>2, <2>3, LinesRead
<1>3. CASE PlainTextEnd
    <2>1. /\ buffer' = <<>> /\ from' = from /\ elements' = flushed /\ phase' # "parsing"
          /\ line' = line /\ rows' = rows
          /\ fenced' = fenced /\ hierarchy' = hierarchy /\ warnings' = warnings
        BY <1>3 DEF PlainTextEnd, Parsed, Fail
    <2>2. Lists(elements') /\ buffer' \in Seq(1 .. line' - 1) BY <1>F, <2>1
    <2> QED BY <1>P, <1>L, <2>1, <2>2, LinesRead
<1> QED BY <1>1, <1>2, <1>3

\* What the steps over lines start from.
LEMMA AtWork ==
    ASSUME doc \in Files, Reading, phase = "parsing"
    PROVE  /\ line \in Nat /\ line > 0 /\ Len(doc.lines) \in Nat /\ line <= Len(doc.lines) + 1
           /\ line - 1 \in Nat /\ line - 1 <= line - 1 /\ line + 1 - 1 = line
           /\ Lists(elements) /\ from \in Nat /\ fenced \in BOOLEAN
           /\ hierarchy \in Seq(HeadingTokens) /\ warnings \subseteq Warnings
           /\ fenced => buffer # <<>> /\ doc.format = "markdown"
           /\ doc.format = "pdf" => buffer = <<>>
           /\ doc.format # "csv" => Ahead
           /\ \A n : <<>> \in Seq(1 .. n)
BY AtLine DEF Reading

\* A heading has a level.
LEMMA LevelOfHeading == \A k : IsHeading(k) => Level(k) \in 1 .. 6
<1> SUFFICES ASSUME NEW k, IsHeading(k) PROVE Level(k) \in 1 .. 6 OBVIOUS
<1>1. CASE k = "hs" BY <1>1 DEF Level
<1>2. CASE k # "hs"
    <2>1. \E n \in 1 .. 6 : k = <<"h1", "h2", "h3", "h4", "h5", "h6">>[n]
        <3> DEFINE s == <<"h1", "h2", "h3", "h4", "h5", "h6">>
        <3>1. /\ s[1] = "h1" /\ s[2] = "h2" /\ s[3] = "h3"
              /\ s[4] = "h4" /\ s[5] = "h5" /\ s[6] = "h6"
            OBVIOUS
        <3> HIDE DEF s
        <3>2. \E n \in 1 .. 6 : k = s[n] BY <1>2, <3>1 DEF IsHeading
        <3> QED BY <3>2 DEF s
    <2>2. Level(k) = CHOOSE n \in 1 .. 6 : k = <<"h1", "h2", "h3", "h4", "h5", "h6">>[n]
        BY <1>2 DEF Level
    <2> QED BY <2>1, <2>2, Zenon
<1> QED BY <1>1, <1>2

\* The path of a heading ends with its token.
LEMMA DescendPath ==
    ASSUME doc \in Files, hierarchy \in Seq(HeadingTokens), line \in Lines, IsHeading(Kind(line))
    PROVE  Descend(Level(Kind(line))) \in Seq(HeadingTokens)
<1> DEFINE level == Level(Kind(line))
           kept == Min({level - 1, Len(hierarchy)})
           path == SubSeq(hierarchy, 1, kept)
           t == HeadingToken(line)
<1>1. level \in 1 .. 6 BY LevelOfHeading
<1>2. Len(hierarchy) \in Nat OBVIOUS
<1>3. kept \in 0 .. Len(hierarchy)
    <2> DEFINE S == {level - 1, Len(hierarchy)}
    <2>1. level - 1 \in Nat
        <3> HIDE DEF level
        <3> QED BY <1>1
    <2> HIDE DEF level
    <2>2. S \in SUBSET Nat /\ S # {} /\ Len(hierarchy) \in S BY <1>2, <2>1
    <2> HIDE DEF S
    <2>3. Min(S) \in S /\ Min(S) <= Len(hierarchy) BY <2>2, MinIsLeast
    <2> QED BY <2>2, <2>3, <1>2 DEF S
<1>4. path \in Seq(HeadingTokens)
    <2> HIDE DEF kept
    <2> QED BY <1>2, <1>3
<1>5. t \in HeadingTokens
    <2>1. line \in 0 .. Len(doc.lines) BY FileTokens
    <2>2. Special(line) \/ ~ Special(line) OBVIOUS
    <2> QED BY <2>1, <2>2 DEF HeadingToken, HeadingTokens
<1>6. Descend(level) = Append(path, t) BY DEF Descend
<1> HIDE DEF path
<1> HIDE DEF t
<1> QED BY <1>4, <1>5, <1>6, Longer

\* Headings, code and paragraphs of a Markdown file.
LEMMA MarkdownReads ==
    ASSUME doc \in Files, doc' = doc, Reading,
           MarkdownFence \/ MarkdownCode \/ MarkdownHeading \/ MarkdownText \/ MarkdownEnd
    PROVE  Reading'
<1>P. phase = "parsing" /\ doc.format = "markdown"
    BY DEF MarkdownFence, MarkdownCode, MarkdownHeading, MarkdownText, MarkdownEnd, AtMarkdown, Parsing
<1>L. /\ line \in Nat /\ line > 0 /\ Len(doc.lines) \in Nat /\ line <= Len(doc.lines) + 1
      /\ line - 1 \in Nat /\ line - 1 <= line - 1 /\ line + 1 - 1 = line
      /\ Lists(elements) /\ from \in Nat /\ fenced \in BOOLEAN
      /\ hierarchy \in Seq(HeadingTokens) /\ warnings \subseteq Warnings
      /\ fenced => buffer # <<>>
      /\ \A n : <<>> \in Seq(1 .. n)
    BY <1>P, AtWork
<1> DEFINE flushed == Flushed("paragraph", line - 1)
<1>F. Lists(flushed) /\ Below(flushed, line) /\ Below(flushed, line + 1)
    BY <1>P, <1>L, FlushedLists, BelowNext
<1> HIDE DEF flushed
<1>1. CASE MarkdownFence /\ fenced
    <2> DEFINE ls == Append(buffer, line)
               el == Element("code", TextOf(ls), hierarchy, from, line)
    <2>1. /\ buffer' = <<>> /\ from' = from /\ elements' = Append(elements, el)
          /\ line' = line + 1 /\ rows' = rows /\ line <= Len(doc.lines)
          /\ fenced' = FALSE /\ hierarchy' = hierarchy /\ warnings' = warnings
        BY <1>1 DEF MarkdownFence, NextLine, AtMarkdown
    <2>2. buffer # <<>> BY <1>1, <1>L
    <2>3. /\ ls \in Seq(1 .. line) /\ Begun(ls, from) /\ AllTo(ls, from, line)
          /\ Below(elements, from)
        BY <1>P, <2>1, <2>2, GatheredLine
    <2> HIDE DEF ls
    <2>4. \A j \in DOMAIN ls : ls[j] <= line BY <2>3, <1>L
    <2>5. Good(el) /\ Key(el) = from
        <3>1. el = Element("code", TextOf(ls), hierarchy, from, line) OBVIOUS
        <3> HIDE DEF el
        <3>2. Good(el) /\ Home(el) = from BY <1>P, <1>L, <2>3, <2>4, <3>1, ElementOfLines
        <3> QED BY <1>P, <3>2 DEF Key
    <2> HIDE DEF el
    <2>6. from < line + 1
        <3>1. Ahead BY <1>P, AtWork
        <3>2. buffer[1] = from BY <2>2, <3>1 DEF Ahead, Begun
        <3>3. buffer[1] \in 1 .. line - 1 BY <1>P, <2>2, AtLine
        <3> QED BY <3>2, <3>3, <1>L
    <2>7. Below(elements, line + 1) /\ \A e \in DOMAIN elements : Key(elements[e]) <= Key(el)
        BY <1>L, <2>3, <2>5, <2>6, ListedKey DEF Below
    <2>8. Lists(elements') /\ Below(elements', line') BY <1>L, <2>1, <2>5, <2>6, <2>7, Listed
    <2>9. buffer' \in Seq(1 .. line' - 1) BY <1>L, <2>1
    <2>10. fenced' \in BOOLEAN /\ ~ fenced' BY <2>1, Zenon
    <2>11. /\ line' \in {line, line + 1} /\ line' <= Len(doc.lines) + 1 /\ from' \in Nat
           /\ hierarchy' \in Seq(HeadingTokens) /\ warnings' \subseteq Warnings
        BY <1>L, <2>1
    <2> QED BY <1>P, <2>1, <2>8, <2>9, <2>10, <2>11, LinesRead
<1>2. CASE MarkdownFence /\ ~ fenced
    <2> DEFINE b == <<line>>
    <2>1. /\ buffer' = b /\ from' = line /\ elements' = flushed
          /\ line' = line + 1 /\ rows' = rows /\ line <= Len(doc.lines) /\ Kind(line) = "fence"
          /\ fenced' = TRUE /\ hierarchy' = hierarchy /\ warnings' = warnings
        BY <1>2 DEF MarkdownFence, NextLine, AtMarkdown, flushed
    <2>2. line \in Lines BY <1>P, <2>1, AtLine
    <2>3. b \in Seq(1 .. line) /\ b # <<>> /\ b \in Seq(Lines) /\ b[1] = line /\ Len(b) = 1
        BY <1>L, <2>2
    <2> HIDE DEF b
    <2>4. Begun(b, line) BY <1>P, <2>1, <2>2, <2>3 DEF Begun, Solid, IsHeading
    <2>5. Lists(elements') /\ buffer' \in Seq(1 .. line' - 1) /\ line' \in Nat /\ line' - 1 = line
        BY <1>L, <1>F, <2>1, <2>3
    <2>7. AllTo(b, line, line)
        <3>1. 1 \in DOMAIN b BY <2>3
        <3>2. line \in ToSet(b) BY <2>3, <3>1 DEF ToSet
        <3> QED BY <1>L, <3>2 DEF AllTo
    <2>6. /\ buffer' # <<>> /\ Begun(buffer', from') /\ AllTo(buffer', from', line' - 1)
          /\ Below(elements', from')
        BY <1>F, <2>1, <2>3, <2>4, <2>5, <2>7
    <2> QED BY <1>P, <1>L, <2>1, <2>5, <2>6, LinesRead
<1>3. CASE MarkdownCode
    <2>1. /\ buffer' = Append(buffer, line) /\ from' = from /\ elements' = elements
          /\ line' = line + 1 /\ rows' = rows /\ line <= Len(doc.lines) /\ fenced
          /\ fenced' = fenced /\ hierarchy' = hierarchy /\ warnings' = warnings
        BY <1>3 DEF MarkdownCode, NextLine, AtMarkdown
    <2>2. buffer # <<>> BY <2>1, <1>L
    <2>3. /\ buffer' \in Seq(1 .. line) /\ buffer' # <<>>
          /\ Begun(buffer', from') /\ AllTo(buffer', from', line) /\ Below(elements, from')
        BY <1>P, <2>1, <2>2, GatheredLine
    <2>4. line' - 1 = line BY <1>L, <2>1
    <2> QED BY <1>P, <1>L, <2>1, <2>3, <2>4, LinesRead
<1>4. CASE MarkdownHeading
    <2> DEFINE path == Descend(Level(Kind(line)))
               el == Element("heading", LineTokens(line), path, line, line)
    <2>1. /\ buffer' = <<>> /\ from' = from /\ elements' = Append(flushed, el)
          /\ line' = line + 1 /\ rows' = rows /\ line <= Len(doc.lines) /\ ~ fenced
          /\ fenced' = fenced /\ hierarchy' = path /\ warnings' = warnings
          /\ IsHeading(Kind(line))
        BY <1>4 DEF MarkdownHeading, NextLine, AtMarkdown, flushed
    <2>2. line \in Lines BY <1>P, <2>1, AtLine
    <2>3. path \in Seq(HeadingTokens) BY <1>L, <2>1, <2>2, DescendPath
    <2> HIDE DEF path
    <2>4. Solid(line) BY <2>1, <2>2 DEF Solid, IsHeading
    <2>5. Good(el) /\ Key(el) = line
        <3>1. el = Element("heading", LineTokens(line), path, line, line) OBVIOUS
        <3> HIDE DEF el
        <3>2. line = IF doc.format = "pdf" THEN Place(line) ELSE line BY <1>P
        <3>3. Good(el) /\ Home(el) = line BY <1>P, <2>2, <2>3, <2>4, <3>1, <3>2, ElementOfLine
        <3> QED BY <1>P, <3>3 DEF Key
    <2> HIDE DEF el
    <2>6. \A e \in DOMAIN flushed : Key(flushed[e]) <= Key(el)
        BY <1>F, <1>L, <2>5, ListedKey DEF Below
    <2>7. Lists(elements') /\ Below(elements', line')
        BY <1>L, <1>F, <2>1, <2>5, <2>6, Listed
    <2>8. buffer' \in Seq(1 .. line' - 1) BY <1>L, <2>1
    <2> QED BY <1>P, <1>L, <2>1, <2>3, <2>7, <2>8, LinesRead
<1>5. CASE MarkdownText /\ Solid(line)
    <2>1. /\ buffer' = Append(buffer, line) /\ from' = (IF buffer = <<>> THEN line ELSE from)
          /\ elements' = elements /\ line' = line + 1 /\ rows' = rows /\ line <= Len(doc.lines)
          /\ fenced' = fenced /\ hierarchy' = hierarchy /\ warnings' = warnings
          /\ ~ IsHeading(Kind(line)) /\ ~ fenced
        BY <1>5 DEF MarkdownText, AtMarkdown, Gathered, NextLine
    <2>2. /\ buffer' \in Seq(1 .. line) /\ buffer' # <<>>
          /\ from' \in Nat /\ Begun(buffer', from') /\ AllTo(buffer', from', line)
          /\ Below(elements, from')
        BY <1>P, <1>5, <2>1, GatheredLine
    <2>3. line' - 1 = line BY <1>L, <2>1
    <2> QED BY <1>P, <1>L, <2>1, <2>2, <2>3, LinesRead
<1>6. CASE MarkdownText /\ ~ Solid(line)
    <2>1. /\ buffer' = <<>> /\ from' = from /\ elements' = flushed
          /\ line' = line + 1 /\ rows' = rows /\ line <= Len(doc.lines)
          /\ fenced' = fenced /\ hierarchy' = hierarchy /\ warnings' = warnings /\ ~ fenced
        BY <1>6 DEF MarkdownText, AtMarkdown, NextLine, flushed
    <2>2. Lists(elements') /\ Below(elements', line') /\ buffer' \in Seq(1 .. line' - 1)
        BY <1>L, <1>F, <2>1
    <2> QED BY <1>P, <1>L, <2>1, <2>2, LinesRead
<1>7. CASE MarkdownEnd
    <2> DEFINE type == IF fenced THEN "code" ELSE "paragraph"
    <2>1. /\ buffer' = <<>> /\ from' = from /\ elements' = Flushed(type, Len(doc.lines))
          /\ phase' # "parsing" /\ line' = line /\ rows' = rows /\ line > Len(doc.lines)
          /\ fenced' = fenced /\ hierarchy' = hierarchy
          /\ warnings' = warnings \cup (IF fenced THEN {"unclosed_code_fence"} ELSE {})
        BY <1>7 DEF MarkdownEnd, Parsed, Fail
    <2>2. warnings' \subseteq Warnings BY <1>L, <2>1 DEF Warnings
    <2>3. type \in {"paragraph", "code", "log_record"} /\ Len(doc.lines) = line - 1
        BY <1>L, <2>1
    <2> HIDE DEF type
    <2>4. Lists(elements') /\ buffer' \in Seq(1 .. line' - 1)
        BY <1>P, <1>L, <2>1, <2>3, FlushedLists
    <2> QED BY <1>P, <1>L, <2>1, <2>2, <2>4, LinesRead
<1> QED BY <1>1, <1>2, <1>3, <1>4, <1>5, <1>6, <1>7

\* The records of a log.
LEMMA LogReads ==
    ASSUME doc \in Files, doc' = doc, Reading, LogLine \/ LogEnd
    PROVE  Reading'
<1>P. phase = "parsing" /\ doc.format = "log" BY DEF LogLine, LogEnd, Parsing
<1>L. /\ line \in Nat /\ line > 0 /\ Len(doc.lines) \in Nat /\ line <= Len(doc.lines) + 1
      /\ line - 1 \in Nat /\ line - 1 <= line - 1 /\ line + 1 - 1 = line
      /\ Lists(elements) /\ from \in Nat /\ fenced \in BOOLEAN /\ ~ fenced
      /\ hierarchy \in Seq(HeadingTokens) /\ warnings \subseteq Warnings
      /\ \A n : <<>> \in Seq(1 .. n)
      /\ Ahead
    BY <1>P, AtWork
<1>1. CASE LogLine
    <2> DEFINE stamp == Stamp(line)
               kept == IF stamp THEN <<>> ELSE buffer
               flushed == Flushed("log_record", line - 1)
    <2>1. /\ elements' = (IF stamp THEN flushed ELSE elements)
          /\ buffer' = (IF Solid(line) THEN Append(kept, line) ELSE kept)
          /\ from' = (IF kept = <<>> THEN line ELSE from)
          /\ line' = line + 1 /\ rows' = rows /\ line <= Len(doc.lines)
          /\ fenced' = fenced /\ hierarchy' = hierarchy /\ warnings' \subseteq Warnings
        BY <1>1, <1>L DEF LogLine, NextLine, Warnings
    <2>F. stamp => Lists(flushed) /\ Below(flushed, line)
        BY <1>P, <1>L, FlushedLists DEF Stamp
    <2> HIDE DEF flushed
    <2>2. line \in Lines BY <1>P, <2>1, AtLine
    <2>3. CASE stamp
        <3> DEFINE b == <<line>>
        <3>1. Kind(line) = "stamp" /\ Solid(line) BY <2>2, <2>3 DEF Stamp, Solid
        <3>2. b \in Seq(1 .. line) /\ b # <<>> /\ b \in Seq(Lines) /\ b[1] = line /\ Len(b) = 1
              /\ b = Append(<<>>, line)
            BY <1>L, <2>2
        <3>3. buffer' = b /\ from' = line /\ elements' = flushed BY <2>1, <2>3, <3>1
        <3> HIDE DEF b
        <3>4. Begun(b, line) BY <1>P, <3>1, <3>2 DEF Begun
        <3>n. line' - 1 = line BY <1>L, <2>1
        <3>a. AllTo(b, line, line)
            <4>1. 1 \in DOMAIN b BY <3>2
            <4>2. line \in ToSet(b) BY <3>2, <4>1 DEF ToSet
            <4> QED BY <1>L, <4>2 DEF AllTo
        <3>5. buffer' \in Seq(1 .. line' - 1) BY <3>n, <3>2, <3>3
        <3>6. /\ buffer' # <<>> /\ Begun(buffer', from') /\ AllTo(buffer', from', line' - 1)
              /\ Below(elements', from') /\ Lists(elements')
            BY <2>F, <2>3, <3>2, <3>3, <3>4, <3>n, <3>a
        <3> QED BY <1>P, <1>L, <2>1, <3>3, <3>5, <3>6, LinesRead
    <2>4. CASE ~ stamp /\ Solid(line)
        <3>1. /\ buffer' = Append(buffer, line) /\ elements' = elements
              /\ from' = (IF buffer = <<>> THEN line ELSE from) /\ Kind(line) # "stamp"
            BY <2>1, <2>4 DEF Stamp
        <3>2. /\ buffer' \in Seq(1 .. line) /\ buffer' # <<>>
              /\ from' \in Nat /\ Begun(buffer', from') /\ AllTo(buffer', from', line)
              /\ Below(elements, from')
            BY <1>P, <2>1, <2>4, <3>1, GatheredLine
        <3>3. line' - 1 = line BY <1>L, <2>1
        <3> QED BY <1>P, <1>L, <2>1, <3>1, <3>2, <3>3, LinesRead
    <2>5. CASE ~ stamp /\ ~ Solid(line)
        <3>1. /\ buffer' = buffer /\ elements' = elements
              /\ from' = (IF buffer = <<>> THEN line ELSE from)
            BY <2>1, <2>5
        <3>2. buffer \in Seq(1 .. line' - 1)
            <4> DEFINE S == 1 .. line - 1
                       T == 1 .. line
            <4>1. S \subseteq T /\ buffer \in Seq(S) BY <1>P, <1>L, AtLine
            <4>2. T = 1 .. line' - 1 BY <1>L, <2>1
            <4> HIDE DEF S, T
            <4> QED BY <4>1, <4>2, FewerInSeq
        <3>3. Below(elements, line) => Below(elements, line') BY <1>L, <2>1, BelowNext
        <3>6. /\ line' - 1 = line
              /\ \A l \in 1 .. line : l = line \/ l \in 1 .. line - 1
              /\ \A n \in Nat : \A l \in n .. line : l = line \/ l \in n .. line - 1
            BY <1>L, <2>1
        <3>4. IF buffer' = <<>>
              THEN Below(elements', line') /\ \A l \in 1 .. line' - 1 : ~ Solid(l)
              ELSE /\ Begun(buffer', from') /\ AllTo(buffer', from', line' - 1)
                   /\ Below(elements', from')
            <4>1. CASE buffer = <<>>
                <5>1. Below(elements, line) /\ \A l \in 1 .. line - 1 : ~ Solid(l)
                    BY <1>P, <1>L, <4>1 DEF Ahead
                <5> QED BY <2>5, <3>1, <3>3, <3>6, <4>1, <5>1
            <4>2. CASE buffer # <<>>
                <5>1. Begun(buffer, from) /\ AllTo(buffer, from, line - 1) /\ Below(elements, from)
                    BY <1>L, <4>2 DEF Ahead
                <5>2. AllTo(buffer, from, line) BY <1>L, <2>5, <3>6, <5>1 DEF AllTo
                <5> QED BY <3>1, <3>6, <4>2, <5>1, <5>2
            <4> QED BY <4>1, <4>2
        <3>5. buffer' \in Seq(1 .. line' - 1) /\ from' \in Nat /\ Lists(elements')
            BY <1>L, <3>1, <3>2
        <3> QED BY <1>P, <1>L, <2>1, <3>4, <3>5, LinesRead
    <2> QED BY <2>3, <2>4, <2>5
<1>2. CASE LogEnd
    <2>1. /\ buffer' = <<>> /\ from' = from /\ elements' = Flushed("log_record", Len(doc.lines))
          /\ phase' # "parsing" /\ line' = line /\ rows' = rows /\ line > Len(doc.lines)
          /\ fenced' = fenced /\ hierarchy' = hierarchy /\ warnings' = warnings
        BY <1>2 DEF LogEnd, Parsed, Fail
    <2>2. Len(doc.lines) = line - 1 /\ line \notin Lines BY <1>L, <2>1, FileTokens
    <2>3. Lists(elements') /\ buffer' \in Seq(1 .. line' - 1)
        BY <1>P, <1>L, <2>1, <2>2, FlushedLists
    <2> QED BY <1>P, <1>L, <2>1, <2>3, LinesRead
<1> QED BY <1>1, <1>2

\* The items of a PDF.
LEMMA PdfReads ==
    ASSUME doc \in Files, doc' = doc, Reading, PdfItem \/ PdfEnd
    PROVE  Reading'
<1>P. phase = "parsing" /\ doc.format = "pdf" BY DEF PdfItem, PdfEnd, Parsing
<1>L. /\ line \in Nat /\ line > 0 /\ Len(doc.lines) \in Nat /\ line <= Len(doc.lines) + 1
      /\ line - 1 \in Nat /\ line - 1 <= line - 1 /\ line + 1 - 1 = line
      /\ Lists(elements) /\ from \in Nat /\ fenced \in BOOLEAN /\ ~ fenced
      /\ hierarchy \in Seq(HeadingTokens) /\ warnings \subseteq Warnings
      /\ \A n : <<>> \in Seq(1 .. n)
      /\ buffer = <<>> /\ Ahead
    BY <1>P, AtWork
<1>A. Below(elements, line) /\ Below(elements, line + 1) BY <1>L, BelowNext DEF Ahead
<1>1. CASE PdfItem
    <2> DEFINE kind == Kind(line)
               path == IF IsHeading(kind) THEN Descend(Level(kind)) ELSE hierarchy
               place == Place(line)
               heading == Element("heading", LineTokens(line), path, place, place)
               paragraph == Element("paragraph", LineTokens(line), path, place, place)
               first == TableRows(line)[1]
               second == TableRows(line)[2]
    <2>1. /\ hierarchy' = path /\ line' = line + 1 /\ line <= Len(doc.lines)
          /\ buffer' = buffer /\ from' = from /\ fenced' = fenced /\ rows' = rows
          /\ warnings' = warnings
          /\ kind \in {"blank", "broken"} => elements' = elements
          /\ kind = "table" => elements' = elements \o TableRows(line)
          /\ IsHeading(kind) => elements' = Append(elements, heading)
          /\ kind \notin {"blank", "broken", "table"} /\ ~ IsHeading(kind)
             => elements' = Append(elements, paragraph)
        <3> DEFINE type == IF IsHeading(kind) THEN "heading" ELSE "paragraph"
                   el == Element(type, LineTokens(line), path, place, place)
        <3>1. /\ hierarchy' = path /\ line' = line + 1 /\ line <= Len(doc.lines)
              /\ buffer' = buffer /\ from' = from /\ fenced' = fenced /\ rows' = rows
              /\ warnings' = warnings
              /\ elements' = CASE kind \in {"blank", "broken"} -> elements
                               [] kind = "table" -> elements \o TableRows(line)
                               [] OTHER -> Append(elements, el)
            BY <1>1, Zenon DEF PdfItem, NextLine
        <3>2. IsHeading(kind) => kind \notin {"blank", "broken", "table"} BY DEF IsHeading
        <3>3. /\ kind \in {"blank", "broken"} => elements' = elements
              /\ kind = "table" => elements' = elements \o TableRows(line)
              /\ kind \notin {"blank", "broken", "table"} => elements' = Append(elements, el)
            <4> HIDE DEF el, kind
            <4> QED BY <3>1
        <3>4. IsHeading(kind) => el = heading BY Zenon
        <3>5. ~ IsHeading(kind) => el = paragraph BY Zenon
        <3> HIDE DEF el, kind, heading, paragraph, path
        <3> QED BY <3>1, <3>2, <3>3, <3>4, <3>5
    <2>2. line \in Lines BY <1>P, <2>1, AtLine
    <2>3. path \in Seq(HeadingTokens) BY <1>L, <2>2, DescendPath
    <2> HIDE DEF path
    <2>E. \A el : Good(el) /\ Key(el) = line =>
              /\ Lists(Append(elements, el)) /\ Below(Append(elements, el), line + 1)
              /\ \A more : Good(more) /\ Key(more) = line =>
                     /\ Lists(Append(Append(elements, el), more))
                     /\ Below(Append(Append(elements, el), more), line + 1)
        <3> SUFFICES ASSUME NEW el, Good(el), Key(el) = line
                     PROVE  /\ Lists(Append(elements, el)) /\ Below(Append(elements, el), line + 1)
                            /\ \A more : Good(more) /\ Key(more) = line =>
                                   /\ Lists(Append(Append(elements, el), more))
                                   /\ Below(Append(Append(elements, el), more), line + 1)
            OBVIOUS
        <3>1. \A e \in DOMAIN elements : Key(elements[e]) <= Key(el)
            BY <1>L, <1>A, ListedKey DEF Below
        <3> DEFINE es == Append(elements, el)
        <3>2. Lists(es) /\ Below(es, line + 1) BY <1>L, <1>A, <3>1, Listed
        <3> HIDE DEF es
        <3>3. ASSUME NEW more, Good(more), Key(more) = line
              PROVE  Lists(Append(es, more)) /\ Below(Append(es, more), line + 1)
            <4>1. \A e \in DOMAIN es : Key(es[e]) <= Key(more)
                BY <1>L, <3>2, <3>3, ListedKey DEF Below
            <4> QED BY <1>L, <3>2, <3>3, <4>1, Listed
        <3> QED BY <3>2, <3>3 DEF es
    <2>4. Lists(elements') /\ Below(elements', line')
        <3>1. CASE kind \in {"blank", "broken"}
            <4>0. kind # "table" /\ ~ IsHeading(kind) BY <3>1 DEF IsHeading
            <4>1. elements' = elements BY <2>1, <3>1, <4>0
            <4> QED BY <1>L, <1>A, <2>1, <4>1
        <3>2. CASE kind = "table"
            <4>0. kind \notin {"blank", "broken"} /\ ~ IsHeading(kind) BY <3>2 DEF IsHeading
            <4>1. elements' = elements \o TableRows(line) BY <2>1, <3>2, <4>0
            <4>2. elements \o TableRows(line) = Append(Append(elements, first), second)
                <5>1. DOMAIN TableRows(line) = 1 .. 2 BY DEF TableRows
                <5>2. TableRows(line) = <<first, second>>
                    <6> DEFINE two == TableRows(line)
                    <6>1. two = [k \in 1 .. 2 |-> two[k]] BY DEF TableRows
                    <6> HIDE DEF two
                    <6>2. two = <<two[1], two[2]>> BY <6>1
                    <6> QED BY <6>2 DEF two
                <5>3. elements \in Seq(Elements) BY <1>L DEF Lists
                <5> DEFINE a == first
                           b == second
                <5>4. elements \o TableRows(line) = elements \o <<a, b>> BY <5>2
                <5> HIDE DEF a, b
                <5>5. elements \o <<a, b>> = Append(Append(elements, a), b) BY <5>3
                <5> QED BY <5>4, <5>5 DEF a, b
            <4>3. Good(first) /\ Key(first) = line /\ Good(second) /\ Key(second) = line
                BY <1>P, <1>L, <2>2, <3>2, ElementOfTable DEF Key
            <4> HIDE DEF first, second
            <4> QED BY <2>1, <2>E, <4>1, <4>2, <4>3
        <3>3. CASE IsHeading(kind)
            <4>1. kind \notin {"blank", "broken", "table"} BY <3>3 DEF IsHeading
            <4>2. elements' = Append(elements, heading) BY <2>1, <3>3, <4>1
            <4>3. Solid(line) BY <2>2, <4>1 DEF Solid
            <4>4. Good(heading) /\ Key(heading) = line
                <5>1. heading = Element("heading", LineTokens(line), path, place, place) OBVIOUS
                <5>2. place = IF doc.format = "pdf" THEN Place(line) ELSE line BY <1>P
                <5> HIDE DEF heading, place
                <5>3. Good(heading) /\ Home(heading) = line
                    BY <1>P, <2>2, <2>3, <4>3, <5>1, <5>2, ElementOfLine
                <5> QED BY <1>P, <5>3 DEF Key
            <4> HIDE DEF heading
            <4> QED BY <2>1, <2>E, <4>2, <4>4
        <3>4. CASE kind \notin {"blank", "broken"} /\ kind # "table" /\ ~ IsHeading(kind)
            <4>2. elements' = Append(elements, paragraph) BY <2>1, <3>4
            <4>3. Solid(line) BY <2>2, <3>4 DEF Solid
            <4>4. Good(paragraph) /\ Key(paragraph) = line
                <5>1. paragraph = Element("paragraph", LineTokens(line), path, place, place) OBVIOUS
                <5>2. place = IF doc.format = "pdf" THEN Place(line) ELSE line BY <1>P
                <5> HIDE DEF paragraph, place
                <5>3. Good(paragraph) /\ Home(paragraph) = line
                    BY <1>P, <2>2, <2>3, <3>4, <4>3, <5>1, <5>2, ElementOfLine
                <5> QED BY <1>P, <5>3 DEF Key
            <4> HIDE DEF paragraph
            <4> QED BY <2>1, <2>E, <4>2, <4>4
        <3> QED BY <3>1, <3>2, <3>3, <3>4
    <2>5. buffer' = <<>> /\ buffer' \in Seq(1 .. line' - 1) BY <1>L, <2>1
    <2> QED BY <1>P, <1>L, <2>1, <2>3, <2>4, <2>5, LinesRead
<1>2. CASE PdfEnd
    <2>1. /\ buffer' = buffer /\ from' = from /\ elements' = elements
          /\ line' = line /\ rows' = rows
          /\ fenced' = fenced /\ hierarchy' = hierarchy /\ warnings' = warnings
        BY <1>2 DEF PdfEnd, Parsed, parserVars
    <2>2. buffer' = <<>> /\ buffer' \in Seq(1 .. line' - 1) /\ Below(elements', line')
        BY <1>L, <1>A, <2>1
    <2> QED BY <1>P, <1>L, <2>1, <2>2, LinesRead
<1> QED BY <1>1, <1>2
-----------------------------------------------------------------------------
(* The rows of a CSV file. *)

\* Only a line that opens a quoted field is followed by others.
RowStarts(row) == row # <<>> /\ (Len(row) > 1 => Kind(row[1]) = "quote")

\* Its lines follow each other.
Consecutive(row) == \A j \in DOMAIN row : row[j] = row[1] + j - 1

\* Rows that come from the file one after the other.
InRuns(list) ==
    /\ list \in Seq(Seq(Lines))
    /\ \A r \in DOMAIN list : RowStarts(list[r]) /\ Consecutive(list[r])
    /\ \A r, s \in DOMAIN list :
           r < s => \A j \in DOMAIN list[r], k \in DOMAIN list[s] : list[r][j] < list[s][k]

\* They come from before line n.
RowsBelow(list, n) == \A r \in DOMAIN list : \A j \in DOMAIN list[r] : list[r][j] < n

RowsReading ==
    doc.format = "csv" =>
        /\ InRuns(rows)
        /\ \A e \in DOMAIN elements : elements[e].first = e
        /\ phase = "parsing" =>
            /\ buffer # <<>> => /\ Kind(buffer[1]) = "quote" /\ Consecutive(buffer)
                               /\ buffer[1] + Len(buffer) = line
            /\ RowsBelow(rows, line - Len(buffer))

\* One more row.
LEMMA RowAdded ==
    ASSUME doc \in Files, NEW list, InRuns(list), NEW row \in Seq(Lines), RowStarts(row),
           Consecutive(row), RowsBelow(list, row[1]), NEW more, more = Append(list, row)
    PROVE  InRuns(more) /\ RowsBelow(more, row[1] + Len(row)) /\ more # <<>>
<1> DEFINE S == Seq(Lines)
<1>1. list \in Seq(S) /\ row \in S BY DEF InRuns
<1>N. /\ Lines \subseteq Nat /\ row # <<>> /\ Len(row) \in Nat /\ DOMAIN row = 1 .. Len(row)
      /\ row[1] \in Nat /\ Len(row) > 0
    <2>1. row # <<>> /\ Lines \subseteq Nat BY FileTokens DEF RowStarts
    <2>2. Len(row) \in Nat /\ DOMAIN row = 1 .. Len(row) /\ 1 \in DOMAIN row BY <2>1
    <2>3. row[1] \in Lines BY <2>2
    <2> HIDE DEF S
    <2>4. row[1] \in Nat BY <2>1, <2>3
    <2>5. Len(row) > 0
        <3>1. 1 \in 1 .. Len(row) BY <2>2
        <3> QED BY <2>2, <3>1
    <2> QED BY <2>1, <2>2, <2>4, <2>5, Zenon
<1> HIDE DEF S
<1>2. /\ more \in Seq(S) /\ more # <<>>
      /\ Len(list) \in Nat /\ DOMAIN list = 1 .. Len(list) /\ DOMAIN more = 1 .. Len(list) + 1
      /\ \A r \in DOMAIN list : more[r] = list[r]
      /\ more[Len(list) + 1] = row
    BY <1>1
<1>3. \A r \in DOMAIN more : r \in DOMAIN list \/ r = Len(list) + 1 BY <1>2
<1>4. \A r \in DOMAIN more : RowStarts(more[r]) /\ Consecutive(more[r])
    BY <1>2, <1>3 DEF InRuns
<1>5. \A j \in DOMAIN row : row[j] = row[1] + j - 1 /\ j \in 1 .. Len(row)
    BY <1>N DEF Consecutive
<1>6. ASSUME NEW r \in DOMAIN more, NEW j \in DOMAIN more[r] PROVE more[r][j] < row[1] + Len(row)
    <2>1. CASE r \in DOMAIN list
        <3>1. more[r] = list[r] /\ list[r][j] < row[1] BY <1>2, <2>1 DEF RowsBelow
        <3>2. list[r][j] \in Nat
            <4>1. list[r] \in S BY <1>1, <2>1
            <4>2. list[r][j] \in Lines BY <3>1, <4>1 DEF S
            <4> QED BY <1>N, <4>2
        <3> QED BY <1>N, <3>1, <3>2
    <2>2. CASE r = Len(list) + 1
        <3>1. more[r] = row BY <1>2, <2>2
        <3> QED BY <1>5, <1>N, <3>1
    <2> QED BY <1>3, <2>1, <2>2
<1>7. ASSUME NEW r \in DOMAIN more, NEW s \in DOMAIN more, r < s,
             NEW j \in DOMAIN more[r], NEW k \in DOMAIN more[s]
      PROVE  more[r][j] < more[s][k]
    <2>1. r \in DOMAIN list /\ more[r] = list[r] BY <1>2, <1>7
    <2>2. CASE s \in DOMAIN list BY <1>2, <1>7, <2>1, <2>2 DEF InRuns
    <2>3. CASE s = Len(list) + 1
        <3>1. more[s] = row /\ list[r][j] < row[1] BY <1>2, <2>1, <2>3 DEF RowsBelow
        <3>2. list[r][j] \in Nat
            <4>1. list[r] \in S BY <1>1, <2>1
            <4>2. list[r][j] \in Lines BY <2>1, <4>1 DEF S
            <4> QED BY <1>N, <4>2
        <3>3. row[k] = row[1] + k - 1 /\ k \in 1 .. Len(row) BY <1>5, <3>1
        <3> QED BY <1>N, <2>1, <3>1, <3>2, <3>3
    <2> QED BY <1>3, <2>2, <2>3
<1> QED BY <1>2, <1>4, <1>6, <1>7 DEF S, InRuns, RowsBelow

\* Which rows have no text.
LEMMA EmptyRow ==
    ASSUME doc \in Files, NEW row \in Seq(Lines), RowStarts(row)
    PROVE  RowText(row) = <<>> <=> ~ Solid(row[1]) \/ Quotes(row)
<1>1. row # <<>> /\ 1 \in DOMAIN row /\ row[1] \in Lines BY DEF RowStarts
<1>2. Solid(row[1]) /\ ~ Quotes(row) => RowText(row) # <<>> BY <1>1, TokensOfRow DEF MadeOf
<1>3. Quotes(row) => RowText(row) = <<>> BY DEF Quotes, RowText
<1>4. ASSUME ~ Solid(row[1]), ~ Quotes(row) PROVE RowText(row) = <<>>
    <2>1. Len(row) = 1 /\ DOMAIN row = {1}
        <3>1. Kind(row[1]) = "blank" BY <1>1, <1>4 DEF Solid
        <3>2. Len(row) \in Nat /\ DOMAIN row = 1 .. Len(row) /\ ~ (Len(row) > 1)
            BY <3>1 DEF RowStarts
        <3> QED BY <1>1, <3>2
    <2> DEFINE ss == [j \in DOMAIN row |-> IF Solid(row[j]) THEN LineTokens(row[j]) ELSE <<>>]
               f == FlattenSeq(ss)
               S == Token
    <2>2. RowText(row) = f BY <1>4 DEF RowText, Quotes
    <2>3. \A j \in DOMAIN row : ss[j] = <<>> BY <1>4, <2>1
    <2>4. DOMAIN ss = DOMAIN row /\ DOMAIN row = 1 .. 1 BY <2>1
    <2> HIDE DEF S
    <2>5. ss \in Seq(Seq(S))
        <3>1. ss[1] = <<>> /\ <<>> \in Seq(S) /\ 1 \in 1 .. 1 BY <2>3, <2>4
        <3>2. ss = [j \in 1 .. 1 |-> ss[1]]
            <4>1. \A j \in 1 .. 1 : j = 1 OBVIOUS
            <4> QED BY <2>4, <4>1
        <3> HIDE DEF ss
        <3> DEFINE U == Seq(S)
        <3>3. ss \in [1 .. 1 -> U] BY <3>1, <3>2
        <3> HIDE DEF U
        <3>4. ss \in Seq(U) BY <3>3, SeqDef
        <3> QED BY <3>4 DEF U
    <2> HIDE DEF ss
    <2>6. /\ f \in Seq(S)
          /\ \A p \in DOMAIN f : \E j \in DOMAIN ss : \E q \in DOMAIN ss[j] : f[p] = ss[j][q]
        BY <2>5, Flattened
    <2> HIDE DEF f
    <2>7. \A j \in DOMAIN ss : DOMAIN ss[j] = {} BY <2>3, <2>4
    <2>8. DOMAIN f = {} BY <2>6, <2>7
    <2>9. f = <<>>
        <3>1. Len(f) = 0 BY <2>6, <2>8
        <3> QED BY <2>6, <3>1
    <2> QED BY <2>2, <2>9
<1> QED BY <1>2, <1>3, <1>4

\* The row being read, with the line at hand.
LEMMA RowSoFar ==
    ASSUME doc \in Files, doc.format = "csv", Reading, RowsReading, phase = "parsing",
           line <= Len(doc.lines), NEW row, row = Append(buffer, line)
    PROVE  /\ row \in Seq(Lines) /\ row # <<>> /\ row \in Seq(1 .. line)
           /\ Len(row) = Len(buffer) + 1 /\ Len(buffer) \in Nat
           /\ row[1] = line - Len(buffer) /\ Consecutive(row) /\ row[1] \in Nat
           /\ buffer = <<>> => row = <<line>> /\ Len(row) = 1
           /\ buffer # <<>> => Kind(row[1]) = "quote"
<1>A. line \in Nat /\ buffer \in Seq(Nat) BY DEF Reading
<1>B. /\ line \in Lines /\ line > 0
      /\ buffer \in Seq(1 .. line - 1) /\ buffer \in Seq(Lines)
      /\ buffer # <<>> => /\ Kind(buffer[1]) = "quote" /\ Consecutive(buffer)
                         /\ buffer[1] + Len(buffer) = line
    BY AtLine DEF RowsReading
<1>1. row \in Seq(1 .. line)
    <2> DEFINE S == 1 .. line - 1
               T == 1 .. line
    <2>1. S \subseteq T /\ buffer \in Seq(S) /\ line \in T BY <1>A, <1>B
    <2> HIDE DEF S, T
    <2>2. buffer \in Seq(T) BY <2>1, FewerInSeq
    <2> QED BY <2>1, <2>2, Longer DEF T
<1>2. row \in Seq(Lines) /\ row # <<>> BY <1>B, Longer
<1>3. buffer \in Seq(Nat) /\ line \in Nat /\ row = Append(buffer, line) BY <1>A
<1>4. /\ Len(row) = Len(buffer) + 1 /\ Len(buffer) \in Nat /\ row[Len(buffer) + 1] = line
      /\ DOMAIN row = 1 .. Len(buffer) + 1 /\ DOMAIN buffer = 1 .. Len(buffer)
      /\ \A j \in 1 .. Len(buffer) : row[j] = buffer[j]
    BY <1>3
<1>5. CASE buffer = <<>>
    <2>1. row = <<line>> /\ Len(row) = 1 /\ row[1] = line /\ Len(buffer) = 0 BY <1>3, <1>5
    <2>2. Consecutive(row)
        <3>1. \A j \in DOMAIN row : j = 1 BY <1>4, <2>1
        <3>2. row[1] = line BY <2>1
        <3>3. row[1] = row[1] + 1 - 1 BY <1>A, <3>2
        <3> QED BY <3>1, <3>3 DEF Consecutive
    <2>3. row[1] = line - Len(buffer) /\ row[1] \in Nat BY <1>A, <2>1
    <2> QED BY <1>1, <1>2, <1>4, <1>5, <2>1, <2>2, <2>3
<1>6. CASE buffer # <<>>
    <2>1. Len(buffer) > 0 /\ row[1] = buffer[1] BY <1>3, <1>6
    <2>2. buffer[1] \in Nat BY <1>3, <2>1
    <2>3. row[1] = line - Len(buffer) BY <1>B, <1>3, <1>4, <1>6, <2>1, <2>2
    <2>4. ASSUME NEW j \in DOMAIN row PROVE row[j] = row[1] + j - 1
        <3>1. CASE j \in 1 .. Len(buffer)
            <4>1. buffer[j] = buffer[1] + j - 1 BY <1>B, <1>4, <1>6, <3>1 DEF Consecutive
            <4> QED BY <1>4, <2>1, <3>1, <4>1
        <3>2. CASE j = Len(buffer) + 1 BY <1>B, <1>3, <1>4, <1>6, <2>1, <2>2, <3>2
        <3> QED BY <1>4, <3>1, <3>2
    <2> QED BY <1>B, <1>1, <1>2, <1>4, <1>6, <2>1, <2>2, <2>3, <2>4 DEF Consecutive
<1> QED BY <1>5, <1>6

\* csv.reader and the loop over its rows.
LEMMA CsvReads ==
    ASSUME doc \in Files, doc' = doc, Reading, RowsReading,
           CsvLine \/ CsvFieldTooLong \/ CsvRows \/ CsvRow \/ CsvEnd,
           phase = "rows" => doc.format = "csv"
    PROVE  Reading' /\ RowsReading'
<1>C. doc.format = "csv" BY DEF CsvLine, CsvFieldTooLong, AtCsv, CsvRows, Parsing, CsvRow, CsvEnd
<1>S. /\ Lines' = Lines /\ HeadingTokens' = HeadingTokens
      /\ \A list : InRuns(list)' <=> InRuns(list)
    BY SameFile DEF InRuns, RowStarts, Consecutive, Kind, Lines
<1>R. /\ line \in Nat /\ from \in Nat /\ fenced \in BOOLEAN
      /\ buffer \in Seq(Nat) /\ hierarchy \in Seq(HeadingTokens) /\ rows \in Seq(Seq(Nat))
      /\ warnings \subseteq Warnings /\ Lists(elements)
    BY DEF Reading
<1>W. InRuns(rows) /\ \A e \in DOMAIN elements : elements[e].first = e
    BY <1>C DEF RowsReading
<1>F. Len(doc.lines) \in Nat /\ Lines = 1 .. Len(doc.lines) BY FileTokens
<1>N. \A list : InRuns(list) => list \in Seq(Seq(Nat))
    <2>1. Lines \subseteq Nat BY <1>F
    <2> DEFINE S == Seq(Lines)
               T == Seq(Nat)
    <2>2. S \subseteq T BY <2>1, FewerInSeq
    <2> HIDE DEF S, T
    <2>3. Seq(S) \subseteq Seq(T) BY <2>2, FewerInSeq
    <2> QED BY <2>3 DEF S, T, InRuns
<1>E. Lists(<<>>)'
    BY DEF Lists
<1>1. CASE CsvLine
    <2> DEFINE row == Append(buffer, line)
               complete == (buffer = <<>>) # (Kind(line) = "quote")
    <2>1. /\ phase = "parsing" /\ phase' = phase /\ line <= Len(doc.lines) /\ line' = line + 1
          /\ rows' = (IF complete THEN Append(rows, row) ELSE rows)
          /\ buffer' = (IF complete THEN <<>> ELSE row)
          /\ elements' = elements /\ from' = from /\ fenced' = fenced
          /\ hierarchy' = hierarchy /\ warnings' = warnings
        BY <1>1 DEF CsvLine, AtCsv, Parsing, NextLine
    <2>2. /\ elements = <<>> /\ ~ fenced /\ line \in Lines /\ line > 0
          /\ buffer \in Seq(1 .. line - 1) /\ buffer \in Seq(Lines)
          /\ buffer # <<>> => /\ Kind(buffer[1]) = "quote" /\ Consecutive(buffer)
                             /\ buffer[1] + Len(buffer) = line
          /\ RowsBelow(rows, line - Len(buffer))
        BY <1>C, <2>1, AtLine DEF Reading, RowsReading
    <2>3. /\ row \in Seq(Lines) /\ row # <<>> /\ row \in Seq(1 .. line)
          /\ Len(row) = Len(buffer) + 1 /\ Len(buffer) \in Nat
          /\ row[1] = line - Len(buffer) /\ Consecutive(row) /\ row[1] \in Nat
          /\ buffer = <<>> => row = <<line>> /\ Len(row) = 1
          /\ buffer # <<>> => Kind(row[1]) = "quote"
        BY <1>C, <2>1, RowSoFar
    <2>4. /\ line' \in 1 .. Len(doc.lines) + 1 /\ line' \in Nat /\ line' - 1 = line
        BY <1>F, <1>R, <2>1, <2>2
    <2>5. Lists(elements)'
        BY <1>E, <2>1, <2>2 DEF Lists
    <2>6. CASE complete
        <3>1. RowStarts(row)
            <4>1. CASE buffer = <<>> BY <2>3, <4>1 DEF RowStarts
            <4>2. CASE buffer # <<>> BY <2>2, <2>3, <4>2 DEF RowStarts
            <4> QED BY <4>1, <4>2
        <3>3. rows' = Append(rows, row) /\ buffer' = <<>> BY <2>1, <2>6
        <3> HIDE DEF row, complete
        <3>4. RowsBelow(rows, row[1]) BY <2>2, <2>3
        <3>5. InRuns(rows') /\ RowsBelow(rows', row[1] + Len(row))
            BY <1>W, <2>3, <3>1, <3>3, <3>4, RowAdded
        <3>6. row[1] + Len(row) = line' - Len(buffer')
            <4>1. buffer' = <<>> /\ Len(<<>>) = 0 BY <3>3
            <4>2. Len(buffer') = 0 BY <4>1
            <4>3. row[1] = line - Len(buffer) /\ Len(row) = Len(buffer) + 1 /\ Len(buffer) \in Nat
                BY <2>3
            <4>4. line' = line + 1 /\ line \in Nat BY <1>R, <2>1
            <4> QED BY <4>2, <4>3, <4>4
        <3>7. rows' \in Seq(Seq(Nat)) BY <1>N, <3>5
        <3>8. buffer' \in Seq(Nat) /\ buffer' \in Seq(1 .. line' - 1) BY <3>3
        <3>9. Reading' BY <1>C, <1>R, <1>S, <2>1, <2>2, <2>4, <2>5, <3>7, <3>8 DEF Reading
        <3>10. RowsReading'
            BY <1>S, <2>1, <2>2, <3>3, <3>5, <3>6 DEF RowsReading, RowsBelow
        <3> QED BY <3>9, <3>10
    <2>7. CASE ~ complete
        <3>1. rows' = rows /\ buffer' = row BY <2>1, <2>7
        <3>2. Kind(row[1]) = "quote"
            <4>1. buffer = <<>> => Kind(line) = "quote" BY <2>7
            <4>2. buffer = <<>> => row[1] = line BY <2>3
            <4> QED BY <2>3, <4>1, <4>2
        <3> HIDE DEF row, complete
        <3>3. /\ row[1] + Len(row) = line' /\ line - Len(buffer) = line' - Len(row)
            BY <1>R, <2>1, <2>3
        <3>4. buffer' \in Seq(1 .. line' - 1) BY <2>3, <2>4, <3>1
        <3>5. buffer' \in Seq(Nat)
            <4>1. Lines \subseteq Nat BY <1>F
            <4> QED BY <2>3, <3>1, <4>1, FewerInSeq
        <3>6. RowsBelow(rows', line' - Len(buffer')) BY <2>2, <3>1, <3>3
        <3>7. Reading'
            BY <1>C, <1>R, <1>S, <2>1, <2>2, <2>4, <2>5, <3>1, <3>4, <3>5, SMTT(30) DEF Reading
        <3>8. /\ buffer' # <<>> /\ Kind(buffer[1])' = "quote" /\ Consecutive(buffer')
              /\ buffer'[1] + Len(buffer') = line'
            BY <2>3, <3>1, <3>2, <3>3 DEF Kind
        <3>9. RowsReading'
            BY <1>S, <1>W, <2>1, <2>2, <3>1, <3>6, <3>8 DEF RowsReading, Consecutive, RowsBelow
        <3> QED BY <3>7, <3>9
    <2> QED BY <2>6, <2>7
<1>2. CASE CsvRows
    <2> DEFINE all == IF buffer = <<>> THEN rows ELSE Append(rows, buffer)
    <2>1. /\ phase = "parsing" /\ phase' # "parsing" /\ line > Len(doc.lines) /\ line' = line
          /\ rows' = all /\ buffer' = <<>>
          /\ elements' = elements /\ from' = from /\ fenced' = fenced
          /\ hierarchy' = hierarchy /\ warnings' = warnings
        BY <1>2 DEF CsvRows, Parsing, Fail
    <2>2. /\ elements = <<>> /\ line \in Nat
          /\ buffer \in Seq(1 .. line - 1) /\ buffer \in Seq(Lines)
          /\ buffer # <<>> => /\ Kind(buffer[1]) = "quote" /\ Consecutive(buffer)
                             /\ buffer[1] + Len(buffer) = line
          /\ RowsBelow(rows, line - Len(buffer))
        BY <1>C, <2>1, AtLine DEF Reading, RowsReading
    <2>3. InRuns(rows')
        <3>1. CASE buffer = <<>> BY <1>W, <2>1, <3>1
        <3>2. CASE buffer # <<>>
            <4>1. RowStarts(buffer) BY <2>2, <3>2 DEF RowStarts
            <4>2. buffer[1] = line - Len(buffer)
                <5>1. 1 \in DOMAIN buffer /\ Len(buffer) \in Nat BY <1>R, <3>2
                <5>2. buffer[1] \in Nat BY <1>R, <5>1
                <5> QED BY <1>R, <2>2, <3>2, <5>1, <5>2
            <4>3. rows' = Append(rows, buffer) BY <2>1, <3>2
            <4> QED BY <1>W, <2>2, <3>2, <4>1, <4>2, <4>3, RowAdded
        <3> QED BY <3>1, <3>2
    <2> HIDE DEF all
    <2>4. Lists(elements)' BY <1>E, <2>1, <2>2 DEF Lists
    <2>5. rows' \in Seq(Seq(Nat)) /\ buffer' \in Seq(Nat) BY <1>N, <2>1, <2>3
    <2>6. Reading' BY <1>C, <1>R, <1>S, <2>1, <2>4, <2>5 DEF Reading
    <2>7. RowsReading' BY <1>S, <2>1, <2>2, <2>3 DEF RowsReading
    <2> QED BY <2>6, <2>7
<1>3. CASE CsvRow
    <2> DEFINE n == Len(elements) + 1
               row == rows[n]
               el == Element("table_row", RowText(row), CsvPath, n, n)
    <2>1. /\ phase = "rows" /\ phase' # "parsing" /\ Len(elements) < Len(rows)
          /\ line' = line /\ rows' = rows /\ buffer' = buffer
          /\ from' = from /\ fenced' = fenced /\ hierarchy' = hierarchy
          /\ warnings' \subseteq Warnings
          /\ elements' = elements \/ (elements' = Append(elements, el) /\ RowText(row) # <<>>)
        BY <1>3, <1>R DEF CsvRow, Fail, Warnings
    <2>2. Lists(elements') /\ \A e \in DOMAIN elements' : elements'[e].first = e
        <3>1. CASE elements' = elements BY <1>R, <1>W, <3>1
        <3>2. CASE elements' = Append(elements, el) /\ RowText(row) # <<>>
            <4>0. elements \in Seq(Elements) BY <1>R DEF Lists
            <4>1. n \in DOMAIN rows /\ n \in Nat /\ Len(elements) \in Nat BY <1>R, <2>1, <4>0
            <4>2. row \in Seq(Lines) /\ row # <<>> /\ RowStarts(row)
                <5> DEFINE S == Seq(Lines)
                <5>1. rows \in Seq(S) BY <1>W DEF InRuns
                <5> HIDE DEF S
                <5>2. row \in S BY <4>1, <5>1
                <5> QED BY <1>W, <4>1, <5>2 DEF S, RowStarts, InRuns
            <4>3. Solid(row[1]) /\ ~ Quotes(row)
                <5> HIDE DEF row
                <5> QED BY <3>2, <4>2, EmptyRow
            <4>4. row = rows[n] OBVIOUS
            <4> HIDE DEF row
            <4>5. Good(el) /\ el.first = n
                <5>1. el = Element("table_row", RowText(row), CsvPath, n, n) OBVIOUS
                <5> HIDE DEF el, n
                <5> QED BY <1>C, <1>R, <4>1, <4>2, <4>3, <4>4, <5>1, ElementOfRow
            <4> HIDE DEF el
            <4>6. \A e \in DOMAIN elements : Key(elements[e]) <= Key(el)
                BY <1>C, <1>W, <4>0, <4>5 DEF Key
            <4>7. Lists(elements') BY <1>R, <3>2, <4>5, <4>6, Listed
            <4>8. \A e \in DOMAIN elements' : elements'[e].first = e
                <5>1. \A e \in DOMAIN Append(elements, el) :
                          (e \in DOMAIN elements /\ Append(elements, el)[e] = elements[e])
                          \/ (e = n /\ Append(elements, el)[e] = el)
                    BY <4>0
                <5> HIDE DEF n
                <5> QED BY <1>W, <3>2, <4>5, <5>1
            <4> QED BY <4>7, <4>8
        <3> QED BY <2>1, <3>1, <3>2
    <2>3. Lists(elements)'
        <3>1. Lists(elements)' <=> Lists(elements') BY <2>1, SameLists DEF Lists
        <3> QED BY <2>2, <3>1
    <2>4. Reading' BY <1>C, <1>R, <1>S, <2>1, <2>3 DEF Reading
    <2>5. RowsReading' BY <1>S, <1>W, <2>1, <2>2 DEF RowsReading
    <2> QED BY <2>4, <2>5
<1>4. CASE CsvEnd \/ CsvFieldTooLong
    <2>1. /\ phase' # "parsing" /\ elements' = elements
          /\ line' = line /\ rows' = rows /\ buffer' = buffer
          /\ from' = from /\ fenced' = fenced /\ hierarchy' = hierarchy /\ warnings' = warnings
        BY <1>4 DEF CsvEnd, CsvFieldTooLong, Parsed, parserVars, Fail
    <2>2. Lists(elements)'
        <3>1. Lists(elements)' <=> Lists(elements') BY <2>1, SameLists DEF Lists
        <3> QED BY <1>R, <2>1, <3>1
    <2>3. Reading' BY <1>C, <1>R, <1>S, <2>1, <2>2 DEF Reading
    <2>4. RowsReading' BY <1>S, <1>W, <2>1 DEF RowsReading
    <2> QED BY <2>3, <2>4
<1> QED BY <1>1, <1>2, <1>3, <1>4

-----------------------------------------------------------------------------
(* Where the text of a group comes from. *)

\* A token of a line, from where the location of its element says.
Located(t) == t # Whitespace /\ t[2] > 0 /\ t \notin Unlocated

\* Position q, where the text of member j starts, is the first one with such a token, and
\* no other member has an earlier location.
Leads(g, j, q) ==
    LET at(i) == elements[g.members[i]].first
    IN  /\ at(j) > 0 /\ g.text[q] = elements[g.members[j]].text[1] /\ Located(g.text[q])
        /\ \A i \in DOMAIN g.members : at(i) = 0 \/ at(j) <= at(i)
        /\ \A p \in DOMAIN g.text : Located(g.text[p]) => q <= p

\* No member has a location, and no token is from one.
Nowhere(g) ==
    /\ \A j \in DOMAIN g.members : elements[g.members[j]].first = 0
    /\ \A p \in DOMAIN g.text : ~ Located(g.text[p])

\* The text of a group is the context of its first member and the texts of all, none of
\* which is a heading; no member is from before the first, and a log record is alone.
Sourced(g) ==
    LET m == g.members
    IN  /\ Len(m) > 0
        /\ \A j \in DOMAIN m :
            /\ m[j] \in DOMAIN elements /\ m[1] <= m[j]
            /\ elements[m[j]].type # "heading"
            /\ elements[m[j]].type = "log_record" => Len(m) = 1
        /\ TokensOf(elements[m[1]].text) \subseteq TokensOf(g.text) \cup {Whitespace}
        /\ \A t \in TokensOf(g.text) :
            \/ t \in TokensOf(elements[m[1]].path)
            \/ \E j \in DOMAIN m : t \in TokensOf(elements[m[j]].text)
        /\ Nowhere(g) \/ \E j \in DOMAIN m, q \in DOMAIN g.text : Leads(g, j, q)

\* A group that may take in more elements.
Growing(g) ==
    /\ g \in GroupType /\ Sourced(g)
    /\ \A j \in DOMAIN g.members :
          g.members[j] < index /\ elements[g.members[j]].type # "log_record"

AllSourced ==
    /\ prose # NoGroup => Growing(prose)
    /\ table # NoGroup => Growing(table)
    /\ \A k \in DOMAIN todo : Sourced(todo[k])
    /\ \A k \in DOMAIN chunks : Sourced(chunks[k].group)

\* The tokens of an element that has a location, and of one that has none.
LEMMA LocatedTokens ==
    ASSUME doc \in Files, NEW el, Good(el)
    PROVE  /\ el.first > 0 => Located(el.text[1])
           /\ el.first = 0 => \A t \in TokensOf(el.text) : ~ Located(t)
           /\ \A t \in TokensOf(el.path) : ~ Located(t)
<1>1. /\ el \in Elements /\ el.text \in Seq(Token) /\ el.text # <<>> /\ Traced(el)
      /\ el.text[1] \in MarksOf(Lines) /\ el.path \in Seq(HeadingTokens)
      /\ TokensOf(el.text) \subseteq MarksOf(Lines) \cup {Whitespace}
      /\ el.first \in Nat
    BY DEF Good, Sound, Elements
<1>2. \A t \in MarksOf(Lines) : t # Whitespace /\ t[2] > 0 /\ t[1] \in Lines
    BY MarkFacts DEF MarksOf
<1>3. el.first > 0 => Located(el.text[1])
    <2>1. el.text[1] \in Unlocated => el.first = 0 BY <1>1 DEF Traced
    <2> QED BY <1>1, <1>2, <2>1 DEF Located
<1>4. ASSUME el.first = 0, NEW t \in TokensOf(el.text), Located(t) PROVE FALSE
    <2>1. el.last = 0 /\ el.text[1] \in Unlocated BY <1>1, <1>4 DEF Traced
    <2>2. doc.format = "pdf" BY <2>1 DEF Unlocated
    <2>3. t[1] \in SourceLines(TokensOf(el.text) \ Unlocated) BY <1>4 DEF SourceLines, Located
    <2>4. t[1] \in 0 .. 0 BY <1>1, <1>4, <2>1, <2>2, <2>3 DEF Traced, Cited
    <2>5. t[1] \in Lines BY <1>1, <1>2, <1>4 DEF Located
    <2>6. 0 \notin Lines BY FileTokens
    <2> QED BY <2>4, <2>5, <2>6
<1>5. ASSUME NEW t \in TokensOf(el.path) PROVE ~ Located(t)
    <2>1. t \in HeadingTokens BY <1>1 DEF TokensOf
    <2>2. t[2] \in {-1, 0} BY <2>1 DEF HeadingTokens
    <2> QED BY <2>2 DEF Located
<1> QED BY <1>3, <1>4, <1>5

\* The tokens of a concatenation are those of its parts.
LEMMA OnlyTokensOfParts ==
    ASSUME NEW a \in Seq(Token), NEW b \in Seq(Token), NEW t \in TokensOf(a \o b)
    PROVE  t \in TokensOf(a) \/ t \in TokensOf(b)
<1>1. PICK p \in DOMAIN (a \o b) : t = (a \o b)[p] BY DEF TokensOf
<1>2. CASE p \in DOMAIN a
    <2>1. t = a[p] BY <1>1, <1>2
    <2> QED BY <1>2, <2>1 DEF TokensOf
<1>3. CASE p \notin DOMAIN a
    <2>1. p - Len(a) \in DOMAIN b /\ t = b[p - Len(a)] BY <1>1, <1>3
    <2> QED BY <2>1 DEF TokensOf
<1> QED BY <1>2, <1>3

\* Where they stand.
LEMMA PlacesOfParts ==
    ASSUME NEW a \in Seq(Token), NEW b \in Seq(Token)
    PROVE  /\ Len(a) \in Nat
           /\ \A p \in DOMAIN a : p \in DOMAIN (a \o b) /\ (a \o b)[p] = a[p] /\ p <= Len(a)
           /\ b # <<>> => Len(a) + 1 \in DOMAIN (a \o b) /\ (a \o b)[Len(a) + 1] = b[1]
           /\ \A p \in DOMAIN (a \o b) :
                  \/ p \in DOMAIN a
                  \/ p > Len(a) /\ (a \o b)[p] \in TokensOf(b)
<1>1. Len(a) \in Nat /\ Len(b) \in Nat /\ DOMAIN a = 1 .. Len(a) /\ DOMAIN b = 1 .. Len(b)
      /\ a \o b \in Seq(Token) /\ Len(a \o b) = Len(a) + Len(b)
      /\ DOMAIN (a \o b) = 1 .. Len(a) + Len(b)
    OBVIOUS
<1>2. \A p \in DOMAIN a : p \in DOMAIN (a \o b) /\ (a \o b)[p] = a[p] /\ p <= Len(a)
    BY <1>1
<1>3. b # <<>> => Len(a) + 1 \in DOMAIN (a \o b) /\ (a \o b)[Len(a) + 1] = b[1]
    BY <1>1
<1>4. ASSUME NEW p \in DOMAIN (a \o b), p \notin DOMAIN a
      PROVE  p > Len(a) /\ (a \o b)[p] \in TokensOf(b)
    <2>1. p - Len(a) \in DOMAIN b /\ (a \o b)[p] = b[p - Len(a)] BY <1>1, <1>4
    <2>2. p > Len(a) BY <1>1, <1>4
    <2> QED BY <2>1, <2>2 DEF TokensOf
<1> QED BY <1>1, <1>2, <1>3, <1>4

\* What is stripped off a group that is handed over came from none of its members.
LEMMA HandedSourced ==
    ASSUME NEW g, g.text \in Seq(Token), Sourced(g), NEW b
    PROVE  Sourced(Handed(g, b))
<1> DEFINE h == Handed(g, b)
<1>1. h.members = g.members /\ h.text = Stripped(g.text) BY DEF Handed
<1>2. /\ \A p \in DOMAIN Stripped(g.text) : p \in DOMAIN g.text /\ Stripped(g.text)[p] = g.text[p]
      /\ \A p \in DOMAIN g.text : g.text[p] # Whitespace => p \in DOMAIN Stripped(g.text)
      /\ TokensOf(Stripped(g.text)) \subseteq TokensOf(g.text)
      /\ TokensOf(g.text) \subseteq TokensOf(Stripped(g.text)) \cup {Whitespace}
    BY StrippedText, StrippedTokens
<1> HIDE DEF h
<1>3. Nowhere(g) => Nowhere(h) BY <1>1, <1>2 DEF Nowhere
<1>4. ASSUME NEW j \in DOMAIN g.members, NEW q \in DOMAIN g.text, Leads(g, j, q)
      PROVE  \E i \in DOMAIN h.members, p \in DOMAIN h.text : Leads(h, i, p)
    <2>1. Located(g.text[q]) BY <1>4 DEF Leads
    <2>2. q \in DOMAIN h.text /\ h.text[q] = g.text[q] BY <1>1, <1>2, <2>1 DEF Located
    <2>3. \A p \in DOMAIN h.text : p \in DOMAIN g.text /\ h.text[p] = g.text[p] BY <1>1, <1>2
    <2>4. Leads(h, j, q) BY <1>1, <1>4, <2>2, <2>3 DEF Leads
    <2> QED BY <1>1, <2>2, <2>4
<1>5. TokensOf(elements[h.members[1]].text) \subseteq TokensOf(h.text) \cup {Whitespace}
    BY <1>1, <1>2 DEF Sourced
<1>6. Nowhere(h) \/ \E i \in DOMAIN h.members, p \in DOMAIN h.text : Leads(h, i, p)
    BY <1>3, <1>4 DEF Sourced
<1>7. Sourced(h) BY <1>1, <1>2, <1>5, <1>6 DEF Sourced
<1> QED BY <1>7 DEF h

\* A group of one element.
LEMMA OpenedSourced ==
    ASSUME doc \in Files, ChunkingTypeOK, Lists(elements),
           NEW e \in DOMAIN elements, elements[e].type # "heading"
    PROVE  Sourced(Opened(e))
<1> DEFINE el == elements[e]
           m == <<e>>
           text == el.path \o el.text
           h == Opened(e)
<1>1. el.path \in Seq(Token) /\ el.text \in Seq(Token) /\ e \in Nat BY ElementFields
<1>2. h.members = m /\ h.text = text BY DEF Opened
<1>3. Len(m) = 1 /\ DOMAIN m = {1} /\ m[1] = e OBVIOUS
<1>4. TokensOf(el.text) \subseteq TokensOf(text) BY <1>1, TokensOfConcat
<1>5. \A t \in TokensOf(text) : t \in TokensOf(el.path) \/ t \in TokensOf(el.text)
    BY <1>1, OnlyTokensOfParts
<1>6. Good(el) /\ el.text # <<>> /\ el.first \in Nat BY KeyOfGood DEF Lists, Good, Sound
<1>7. /\ el.first > 0 => Located(el.text[1])
      /\ el.first = 0 => \A t \in TokensOf(el.text) : ~ Located(t)
      /\ \A t \in TokensOf(el.path) : ~ Located(t)
    BY <1>6, LocatedTokens
<1>8. CASE el.first = 0
    <2>1. \A p \in DOMAIN text : text[p] \in TokensOf(text) BY DEF TokensOf
    <2> HIDE DEF m, text, h
    <2>2. Nowhere(h) BY <1>2, <1>3, <1>5, <1>7, <1>8, <2>1 DEF Nowhere
    <2>3. Sourced(h) BY <1>1, <1>2, <1>3, <1>4, <1>5, <2>2 DEF Sourced
    <2> QED BY <2>3 DEF h
<1>9. CASE el.first > 0
    <2> DEFINE q == Len(el.path) + 1
    <2>1. /\ Len(el.path) \in Nat /\ q \in DOMAIN text /\ text[q] = el.text[1]
          /\ \A p \in DOMAIN text :
                (p \in DOMAIN el.path /\ text[p] = el.path[p]) \/ p > Len(el.path)
        BY <1>1, <1>6, PlacesOfParts
    <2>2. \A p \in DOMAIN el.path : el.path[p] \in TokensOf(el.path) BY DEF TokensOf
    <2>3. \A p \in DOMAIN text : p \in Nat
        <3>1. text \in Seq(Token) BY <1>1
        <3> QED BY <3>1
    <2> HIDE DEF text
    <2>4. \A p \in DOMAIN text : Located(text[p]) => q <= p
        BY <1>7, <2>1, <2>2, <2>3
    <2> HIDE DEF m, h, q
    <2>5. Leads(h, 1, q) BY <1>2, <1>3, <1>6, <1>7, <1>9, <2>1, <2>4 DEF Leads
    <2>6. \E j \in DOMAIN h.members, p \in DOMAIN h.text : Leads(h, j, p)
        BY <1>2, <1>3, <2>1, <2>5
    <2>7. Sourced(h) BY <1>1, <1>2, <1>3, <1>4, <1>5, <2>6 DEF Sourced
    <2> QED BY <2>7 DEF h
<1> QED BY <1>6, <1>8, <1>9

\* A group that takes in one more element.
LEMMA JoinedSourced ==
    ASSUME doc \in Files, ChunkingTypeOK, Lists(elements),
           NEW e \in DOMAIN elements, elements[e].type \notin {"heading", "log_record"},
           NEW g, Growing(g), g # NoGroup, \A j \in DOMAIN g.members : g.members[j] < e + 1
    PROVE  /\ Sourced(Joined(g, e))
           /\ \A j \in DOMAIN Joined(g, e).members :
                  /\ Joined(g, e).members[j] < e + 1
                  /\ elements[Joined(g, e).members[j]].type # "log_record"
<1> DEFINE el == elements[e]
           old == g.members
           m == Append(old, e)
           text == g.text \o el.text
           h == Joined(g, e)
<1>1. el.text \in Seq(Token) /\ e \in Nat BY ElementFields
<1>2. old \in Seq(Nat) /\ g.text \in Seq(Token) BY DEF Growing, GroupType
<1>3. h.members = m /\ h.text = text BY DEF Joined
<1>4. Len(old) > 0 BY DEF Growing, Sourced
<1>5. /\ Len(m) > 0 /\ m[1] = old[1] /\ old[1] \in Nat /\ old[1] < e + 1
      /\ \A j \in DOMAIN old : j \in DOMAIN m /\ m[j] = old[j] /\ m[j] < e + 1 /\ old[j] \in Nat
      /\ Len(old) + 1 \in DOMAIN m /\ m[Len(old) + 1] = e
      /\ \A j \in DOMAIN m : j \in DOMAIN old \/ m[j] = e
    <2>1. \A j \in DOMAIN old : old[j] < e + 1 OBVIOUS
    <2> HIDE DEF old
    <2>2. 1 \in DOMAIN old BY <1>2, <1>4
    <2> QED BY <1>1, <1>2, <1>4, <2>1, <2>2
<1>6. TokensOf(g.text) \subseteq TokensOf(text) BY <1>1, <1>2, TokensOfConcat
<1>7. \A t \in TokensOf(text) : t \in TokensOf(g.text) \/ t \in TokensOf(el.text)
    BY <1>1, <1>2, OnlyTokensOfParts
<1>8. /\ TokensOf(elements[old[1]].text) \subseteq TokensOf(g.text) \cup {Whitespace}
      /\ \A t \in TokensOf(g.text) :
             \/ t \in TokensOf(elements[old[1]].path)
             \/ \E j \in DOMAIN old : t \in TokensOf(elements[old[j]].text)
      /\ \A j \in DOMAIN old :
             /\ old[j] \in DOMAIN elements /\ old[1] <= old[j]
             /\ elements[old[j]].type \notin {"heading", "log_record"}
    BY DEF Growing, Sourced
<1>P. /\ Len(g.text) \in Nat
      /\ \A p \in DOMAIN g.text : p \in DOMAIN text /\ text[p] = g.text[p] /\ p <= Len(g.text)
      /\ el.text # <<>> => Len(g.text) + 1 \in DOMAIN text /\ text[Len(g.text) + 1] = el.text[1]
      /\ \A p \in DOMAIN text :
             p \in DOMAIN g.text \/ (p > Len(g.text) /\ text[p] \in TokensOf(el.text))
      /\ \A p \in DOMAIN text : p \in Nat
    <2>1. text \in Seq(Token) BY <1>1, <1>2
    <2>2. \A p \in DOMAIN text : p \in Nat
        <3> HIDE DEF text
        <3> QED BY <2>1
    <2> DEFINE a == g.text
               b == el.text
    <2>3. a \in Seq(Token) /\ b \in Seq(Token) /\ text = a \o b BY <1>1, <1>2
    <2>4. /\ Len(a) \in Nat
          /\ \A p \in DOMAIN a : p \in DOMAIN (a \o b) /\ (a \o b)[p] = a[p] /\ p <= Len(a)
          /\ b # <<>> => Len(a) + 1 \in DOMAIN (a \o b) /\ (a \o b)[Len(a) + 1] = b[1]
          /\ \A p \in DOMAIN (a \o b) :
                 p \in DOMAIN a \/ (p > Len(a) /\ (a \o b)[p] \in TokensOf(b))
        <3> HIDE DEF a, b
        <3>1. a \in Seq(Token) /\ b \in Seq(Token) BY <2>3
        <3> QED BY <3>1, PlacesOfParts, Zenon
    <2> QED BY <2>2, <2>4
<1>N. Nowhere(g) \/ \E j \in DOMAIN old, q \in DOMAIN g.text : Leads(g, j, q)
    BY DEF Growing, Sourced
<1>K. /\ el.first > 0 => Located(el.text[1])
      /\ el.first = 0 => \A t \in TokensOf(el.text) : ~ Located(t)
      /\ Good(el) /\ el.text # <<>> /\ el.first \in Nat
    BY LocatedTokens, KeyOfGood DEF Lists, Good, Sound
<1> HIDE DEF m, text, h
<1>9. \A j \in DOMAIN m :
          /\ m[j] \in DOMAIN elements /\ m[1] <= m[j] /\ m[j] < e + 1
          /\ elements[m[j]].type \notin {"heading", "log_record"}
    BY <1>1, <1>5, <1>8
<1>10. TokensOf(elements[m[1]].text) \subseteq TokensOf(text) \cup {Whitespace} BY <1>5, <1>6, <1>8
<1>11. ASSUME NEW t \in TokensOf(text)
       PROVE  t \in TokensOf(elements[m[1]].path)
              \/ \E j \in DOMAIN m : t \in TokensOf(elements[m[j]].text)
    <2>1. CASE t \in TokensOf(el.text) BY <1>5, <2>1
    <2>2. CASE t \in TokensOf(g.text) BY <1>5, <1>8, <2>2
    <2> QED BY <1>7, <2>1, <2>2
<1>12. Nowhere(h) \/ \E j \in DOMAIN m, q \in DOMAIN text : Leads(h, j, q)
    <2>1. CASE Nowhere(g) /\ el.first = 0
        <3>1. Nowhere(h) BY <1>3, <1>5, <1>P, <1>K, <2>1 DEF Nowhere
        <3> QED BY <3>1
    <2>2. CASE Nowhere(g) /\ el.first > 0
        <3> DEFINE j == Len(old) + 1
                   q == Len(g.text) + 1
        <3>1. \A i \in DOMAIN m : elements[m[i]].first = 0 \/ elements[m[i]].first = el.first
            BY <1>5, <2>2 DEF Nowhere
        <3>2. \A p \in DOMAIN text : Located(text[p]) => q <= p BY <1>P, <2>2 DEF Nowhere
        <3>3. j \in DOMAIN m /\ m[j] = e /\ q \in DOMAIN text /\ text[q] = el.text[1]
            BY <1>5, <1>P, <1>K
        <3> HIDE DEF j, q
        <3>4. Leads(h, j, q)
            BY <1>3, <1>K, <2>2, <3>1, <3>2, <3>3 DEF Leads
        <3> QED BY <3>3, <3>4
    <2>3. ASSUME NEW j \in DOMAIN old, NEW q \in DOMAIN g.text, Leads(g, j, q)
          PROVE  \E i \in DOMAIN m, p \in DOMAIN text : Leads(h, i, p)
        <3> DEFINE first == elements[old[j]].first
        <3>1. /\ first > 0 /\ g.text[q] = elements[old[j]].text[1] /\ Located(g.text[q])
              /\ \A i \in DOMAIN old : elements[old[i]].first = 0 \/ first <= elements[old[i]].first
              /\ \A p \in DOMAIN g.text : Located(g.text[p]) => q <= p
            BY <2>3 DEF Leads
        <3>2. first = Key(elements[old[j]]) /\ (el.first = 0 \/ el.first = Key(el))
            <4>1. Good(elements[old[j]]) BY <1>8 DEF Lists
            <4> QED BY <1>K, <3>1, <4>1, KeyOfGood
        <3>3. el.first = 0 \/ first <= el.first
            <4>1. old[j] <= e BY <1>1, <1>5
            <4>2. Key(elements[old[j]]) <= Key(el) BY <1>8, <4>1 DEF Lists
            <4> QED BY <3>2, <4>2
        <3>4. m[j] = old[j] /\ j \in DOMAIN m /\ q \in DOMAIN text /\ text[q] = g.text[q]
              /\ q <= Len(g.text) /\ q \in Nat
            BY <1>5, <1>P
        <3>5. \A i \in DOMAIN m : elements[m[i]].first = 0 \/ first <= elements[m[i]].first
            BY <1>5, <3>1, <3>3
        <3>6. \A p \in DOMAIN text : Located(text[p]) => q <= p
            BY <1>P, <3>1, <3>4
        <3>7. Leads(h, j, q) BY <1>3, <3>1, <3>4, <3>5, <3>6 DEF Leads
        <3> QED BY <3>4, <3>7
    <2> QED BY <1>N, <1>K, <2>1, <2>2, <2>3
<1>13. Sourced(h) BY <1>3, <1>5, <1>9, <1>10, <1>11, <1>12 DEF Sourced
<1> QED BY <1>3, <1>9, <1>13 DEF h

\* Groups are what they are while their elements and the file stay.
LEMMA SameSources ==
    ASSUME doc' = doc, elements' = elements
    PROVE  \A g : Sourced(g)' <=> Sourced(g)
<1>1. \A t : Located(t)' <=> Located(t) BY DEF Located, Unlocated, Lines, Kind
<1>2. \A g : Nowhere(g)' <=> Nowhere(g) BY <1>1 DEF Nowhere
<1>3. \A g, j, q : Leads(g, j, q)' <=> Leads(g, j, q) BY <1>1 DEF Leads
<1> SUFFICES ASSUME NEW g PROVE Sourced(g)' <=> Sourced(g) OBVIOUS
<1> DEFINE m == g.members
           All == \A j \in DOMAIN m :
                      /\ m[j] \in DOMAIN elements /\ m[1] <= m[j]
                      /\ elements[m[j]].type # "heading"
                      /\ elements[m[j]].type = "log_record" => Len(m) = 1
           One == TokensOf(elements[m[1]].text) \subseteq TokensOf(g.text) \cup {Whitespace}
           Each == \A t \in TokensOf(g.text) :
                      \/ t \in TokensOf(elements[m[1]].path)
                      \/ \E j \in DOMAIN m : t \in TokensOf(elements[m[j]].text)
           Led == Nowhere(g) \/ \E j \in DOMAIN m, q \in DOMAIN g.text : Leads(g, j, q)
<1>4. Sourced(g) <=> Len(m) > 0 /\ All /\ One /\ Each /\ Led BY DEF Sourced
<1>5. (All' <=> All) /\ (One' <=> One) /\ (Each' <=> Each) BY DEF TokensOf
<1>6. Led' <=> Led BY <1>2, <1>3
<1>7. m' = m OBVIOUS
<1>8. Sourced(g)' <=> (Len(m) > 0 /\ All /\ One /\ Each /\ Led)' BY DEF Sourced
<1> HIDE DEF m, All, One, Each, Led
<1> QED BY <1>4, <1>5, <1>6, <1>7, <1>8

\* Every step of the chunker keeps the groups what they are.
LEMMA StepSources ==
    ASSUME doc \in Files, doc' = doc, Lists(elements), Inductive, Ordered, AllSourced, Proceed
    PROVE  AllSourced'
<1>T. /\ ChunkingTypeOK /\ GroupsOK /\ ChunkingTypeOK'
      /\ elements \in Seq(Elements) /\ index \in Nat
      /\ prose \in GroupType /\ table \in GroupType /\ todo \in Seq(HandedType)
      /\ chunks \in Seq([group : HandedType, from : Nat, upto : Nat])
      /\ prose' \in GroupType /\ table' \in GroupType /\ index' \in Nat
    BY StepTypes DEF Inductive, ChunkingTypeOK
<1>E. elements' = elements /\ index' \in {index, index + 1}
    BY DEF Proceed, Heading, LogRecord, TableHeader, TableRow, TableEnd, Prose, ElementsEnd,
           Window, Advance
<1>Q. \A g : Sourced(g)' <=> Sourced(g) BY <1>E, SameSources
<1>G. ASSUME NEW g \in GroupType, Growing(g)
      PROVE  /\ Sourced(g) /\ g.text \in Seq(Token)
             /\ \A j \in DOMAIN g.members :
                    g.members[j] < index' /\ elements[g.members[j]].type # "log_record"
    <2>1. g.members \in Seq(Nat) BY DEF GroupType
    <2>2. \A j \in DOMAIN g.members : g.members[j] \in Nat /\ g.members[j] < index
        BY <1>G, <2>1 DEF Growing
    <2>3. \A j \in DOMAIN g.members : g.members[j] < index' BY <2>2, <1>E, <1>T
    <2> QED BY <1>G, <2>3 DEF Growing, GroupType
<1>S. ASSUME prose' # NoGroup =>
                 \/ Growing(prose) /\ prose' = prose
                 \/ /\ Sourced(prose')
                    /\ \A j \in DOMAIN prose'.members :
                           prose'.members[j] < index' /\ elements[prose'.members[j]].type # "log_record",
             table' # NoGroup =>
                 \/ Growing(table) /\ table' = table
                 \/ /\ Sourced(table')
                    /\ \A j \in DOMAIN table'.members :
                           table'.members[j] < index' /\ elements[table'.members[j]].type # "log_record",
             \A k \in DOMAIN todo' : Sourced(todo'[k]),
             \A k \in DOMAIN chunks' : Sourced(chunks'[k].group)
      PROVE  AllSourced'
    <2>1. prose' # NoGroup => Growing(prose)' BY <1>S, <1>G, <1>E, <1>T, <1>Q DEF Growing
    <2>2. table' # NoGroup => Growing(table)' BY <1>S, <1>G, <1>E, <1>T, <1>Q DEF Growing
    <2> QED BY <2>1, <2>2, <1>S, <1>Q DEF AllSourced
<1>0. CASE ~ Window
    <2>L. todo = <<>> /\ chunks' = chunks BY <1>0, LoopStep
    <2>C. \A k \in DOMAIN chunks' : Sourced(chunks'[k].group) BY <2>L DEF AllSourced
    <2>F. \A k \in DOMAIN FlushedProse : Sourced(FlushedProse[k])
        <3>1. prose # NoGroup => Sourced(prose) /\ prose.text \in Seq(Token)
            BY DEF AllSourced, Growing, GroupType
        <3> QED BY <3>1, FlushedIsProse, HandedSourced
    <2>H. ASSUME todo' = <<Handed(table, FALSE)>>, table # NoGroup
          PROVE  \A k \in DOMAIN todo' : Sourced(todo'[k])
        <3>1. \A k \in DOMAIN todo' : todo'[k] = Handed(table, FALSE) BY <2>H, AllOfOne
        <3>2. Sourced(table) /\ table.text \in Seq(Token)
            BY <2>H DEF AllSourced, Growing, GroupType
        <3> QED BY <3>1, <3>2, HandedSourced
    <2>O. ASSUME index \in DOMAIN elements, elements[index].type \notin {"heading", "log_record"},
                 index' = index + 1
          PROVE  /\ Sourced(Opened(index))
                 /\ \A j \in DOMAIN Opened(index).members :
                        /\ Opened(index).members[j] < index'
                        /\ elements[Opened(index).members[j]].type # "log_record"
        <3>1. Opened(index).members = <<index>> BY <2>O, <1>T, OpenedGroup
        <3>2. DOMAIN <<index>> = {1} /\ <<index>>[1] = index OBVIOUS
        <3>3. Sourced(Opened(index)) BY <2>O, <1>T, OpenedSourced
        <3> QED BY <2>O, <1>T, <3>1, <3>2, <3>3
    <2>1. CASE Heading
        <3>1. todo' = FlushedProse /\ prose' = NoGroup /\ table' = NoGroup
            BY <2>1 DEF Heading
        <3> QED BY <3>1, <2>C, <2>F, <1>S
    <2>2. CASE LogRecord
        <3> DEFINE own == Handed(Opened(index), FALSE)
        <3>1. /\ todo' = Append(FlushedProse, own) /\ prose' = NoGroup /\ table' = NoGroup
              /\ index \in DOMAIN elements /\ elements[index].type = "log_record"
            BY <2>2 DEF LogRecord, AtElement
        <3>2. Sourced(own)
            <4>1. Sourced(Opened(index)) BY <3>1, <1>T, OpenedSourced
            <4>2. Opened(index).text \in Seq(Token) BY <3>1, <1>T, OpenedGroup DEF GroupType
            <4> QED BY <4>1, <4>2, HandedSourced
        <3>3. FlushedProse \in Seq(HandedType) BY <1>T, FlushedType
        <3> HIDE DEF own
        <3>4. \A k \in DOMAIN todo' : Sourced(todo'[k]) BY <3>1, <3>2, <3>3, <2>F, AllOfLonger
        <3> QED BY <3>1, <3>4, <2>C, <1>S
    <2>3. CASE TableHeader
        <3>1. /\ todo' = FlushedProse /\ prose' = NoGroup /\ table' = Opened(index)
              /\ index \in DOMAIN elements /\ index' = index + 1
              /\ elements[index].type \notin {"heading", "log_record"}
            BY <2>3 DEF TableHeader, AtElement, Advance
        <3> QED BY <3>1, <2>O, <2>C, <2>F, <1>S
    <2>4. CASE TableRow
        <3> DEFINE h == table.members[1]
        <3>1. /\ table # NoGroup /\ prose' = prose /\ index' = index + 1
              /\ index \in DOMAIN elements /\ elements[index].type \notin {"heading", "log_record"}
              /\ \/ table' = Restarted(index) /\ todo' = <<Handed(table, FALSE)>>
                 \/ table' = Joined(table, index) /\ todo' = <<>>
            BY <2>4, <2>L DEF TableRow, AtElement, Advance
        <3>2. Growing(table) BY <3>1 DEF AllSourced
        <3>3. /\ h \in DOMAIN elements /\ h \in Nat /\ h < index
              /\ elements[h].type \notin {"heading", "log_record"}
            <4>1. table.members \in Seq(Nat) /\ Len(table.members) > 0
                BY <3>2 DEF Growing, Sourced, GroupType
            <4>2. 1 \in DOMAIN table.members /\ h \in Nat BY <4>1
            <4> QED BY <3>2, <4>2 DEF Growing, Sourced
        <3>4. /\ Growing(Opened(h)) /\ Opened(h) # NoGroup
              /\ \A j \in DOMAIN Opened(h).members : Opened(h).members[j] < index + 1
            <4>1. /\ Opened(h) \in GroupType /\ Opened(h) # NoGroup /\ Opened(h).members = <<h>>
                BY <3>3, <1>T, OpenedGroup
            <4>2. DOMAIN <<h>> = {1} /\ <<h>>[1] = h OBVIOUS
            <4>3. Sourced(Opened(h)) BY <3>3, <1>T, OpenedSourced
            <4>4. h < index + 1 BY <3>3, <1>T
            <4> HIDE DEF h
            <4> QED BY <3>3, <4>1, <4>2, <4>3, <4>4 DEF Growing
        <3>5. /\ Sourced(table')
              /\ \A j \in DOMAIN table'.members :
                    table'.members[j] < index' /\ elements[table'.members[j]].type # "log_record"
            <4>1. CASE table' = Restarted(index)
                <5>1. table' = Joined(Opened(h), index) BY <4>1 DEF Restarted
                <5> HIDE DEF h
                <5> QED BY <3>1, <3>4, <5>1, <1>T, JoinedSourced
            <4>2. CASE table' = Joined(table, index)
                <5>1. \A j \in DOMAIN table.members : table.members[j] < index + 1
                    BY <3>1, <3>2, <1>G, <1>T
                <5> QED BY <3>1, <3>2, <4>2, <5>1, <1>T, JoinedSourced
            <4> QED BY <3>1, <4>1, <4>2
        <3>6. \A k \in DOMAIN todo' : Sourced(todo'[k])
            <4>1. CASE todo' = <<>> BY <4>1
            <4>2. CASE todo' = <<Handed(table, FALSE)>> BY <4>2, <3>1, <2>H
            <4> QED BY <3>1, <4>1, <4>2
        <3>7. prose' # NoGroup => Growing(prose) /\ prose' = prose BY <3>1 DEF AllSourced
        <3> QED BY <3>5, <3>6, <3>7, <2>C, <1>S
    <2>5. CASE TableEnd
        <3>1. /\ todo' = <<Handed(table, FALSE)>> /\ table' = NoGroup /\ table # NoGroup
              /\ prose' = prose
            BY <2>5 DEF TableEnd
        <3>2. prose' # NoGroup => Growing(prose) /\ prose' = prose BY <3>1 DEF AllSourced
        <3> QED BY <3>1, <3>2, <2>H, <2>C, <1>S
    <2>6. CASE Prose
        <3>1. /\ table' = NoGroup /\ index' = index + 1 /\ index \in DOMAIN elements
              /\ elements[index].type \notin {"heading", "log_record"}
              /\ \/ prose' = Opened(index) /\ todo' = FlushedProse
                 \/ prose' = Joined(prose, index) /\ todo' = <<>>
            BY <2>6 DEF Prose, AtElement, Advance
        <3>2. /\ Sourced(prose')
              /\ \A j \in DOMAIN prose'.members :
                    prose'.members[j] < index' /\ elements[prose'.members[j]].type # "log_record"
            <4>1. CASE prose' = Opened(index) BY <3>1, <4>1, <2>O
            <4>2. CASE prose' = Joined(prose, index) /\ prose = NoGroup
                <5>1. prose' = Opened(index) BY <4>2 DEF Joined
                <5> QED BY <3>1, <5>1, <2>O
            <4>3. CASE prose' = Joined(prose, index) /\ prose # NoGroup
                <5>1. Growing(prose) BY <4>3 DEF AllSourced
                <5>2. \A j \in DOMAIN prose.members : prose.members[j] < index + 1
                    BY <3>1, <5>1, <1>G, <1>T
                <5> QED BY <3>1, <4>3, <5>1, <5>2, <1>T, JoinedSourced
            <4> QED BY <3>1, <4>1, <4>2, <4>3
        <3>3. \A k \in DOMAIN todo' : Sourced(todo'[k]) BY <3>1, <2>F
        <3> QED BY <3>1, <3>2, <3>3, <2>C, <1>S
    <2>7. CASE ElementsEnd
        <3>1. todo' = FlushedProse /\ prose' = NoGroup /\ table' = NoGroup
            BY <2>7 DEF ElementsEnd
        <3> QED BY <3>1, <2>C, <2>F, <1>S
    <2> QED BY <1>0, <2>1, <2>2, <2>3, <2>4, <2>5, <2>6, <2>7 DEF Proceed
<1>8. CASE Window
    <2> DEFINE g == Head(todo)
               c == [group |-> g, from |-> start, upto |-> WindowEnd(g)]
    <2>1. /\ todo # <<>> /\ prose' = prose /\ table' = table
          /\ todo' = todo \/ todo' = Tail(todo)
          /\ chunks' = chunks \/ chunks' = Append(chunks, c)
        BY <1>8 DEF Window
    <2>2. Sourced(g)
        <3>1. 1 \in DOMAIN todo /\ g = todo[1] BY <2>1, <1>T
        <3> QED BY <3>1 DEF AllSourced
    <2>3. \A k \in DOMAIN todo' : Sourced(todo'[k])
        <3>1. CASE todo' = todo BY <3>1 DEF AllSourced
        <3>2. CASE todo' = Tail(todo)
            <4>1. \A k \in DOMAIN todo' : k + 1 \in DOMAIN todo /\ todo'[k] = todo[k + 1]
                BY <3>2, <2>1, <1>T
            <4> QED BY <4>1 DEF AllSourced
        <3> QED BY <3>1, <3>2, <2>1
    <2>4. \A k \in DOMAIN chunks' : Sourced(chunks'[k].group)
        <3>1. CASE chunks' = chunks BY <3>1 DEF AllSourced
        <3>2. CASE chunks' = Append(chunks, c)
            <4>1. chunks \in Seq([group : HandedType, from : Nat, upto : Nat]) BY <1>T
            <4>2. c.group = g OBVIOUS
            <4> HIDE DEF c
            <4>3. \A k \in DOMAIN chunks' :
                      (k \in DOMAIN chunks /\ chunks'[k] = chunks[k]) \/ chunks'[k] = c
                BY <3>2, <4>1, AllOfLonger
            <4> QED BY <4>2, <4>3, <2>2 DEF AllSourced
        <3> QED BY <3>1, <3>2, <2>1
    <2>5. /\ prose' # NoGroup => Growing(prose) /\ prose' = prose
          /\ table' # NoGroup => Growing(table) /\ table' = table
        BY <2>1 DEF AllSourced
    <2> QED BY <2>3, <2>4, <2>5, <1>S
<1> QED BY <1>0, <1>8
(* The steps of the worker. *)

\* Chunks are windows of groups that could be encoded.
AllEncoded ==
    \A k \in DOMAIN chunks :
        LET text == chunks[k].group.text
        IN  chunks[k].upto <= Len(text) /\ ~ Refused(text)

\* The chunker, from its call on.
Chunker ==
    /\ Inductive /\ AllFit /\ Ordered /\ Seam /\ Runs /\ WindowsAdvance
    /\ AllSourced /\ AllEncoded

Extracting ==
    /\ Control /\ Reading /\ RowsReading
    /\ failure \in {"none", "processing_failed", "unexpected_processing_error"}
    /\ index > 0 => Chunker

\* Where a step of a parser may lead.
LEMMA ParsePhases ==
    ASSUME Parse
    PROVE  /\ phase \in {"parsing", "rows"}
           /\ phase' \in {"parsing", "rows", "parsed", "failed"}
           /\ phase' = "parsing" => phase = "parsing"
           /\ phase' = "rows" => phase = "rows" \/ doc.format = "csv"
           /\ failure' \in {failure, "processing_failed", "unexpected_processing_error"}
<1>1. CASE PlainText \/ PlainTextEnd
    BY <1>1 DEF PlainText, PlainTextEnd, Parsing, Parsed, Fail
<1>2. CASE MarkdownFence \/ MarkdownCode \/ MarkdownHeading \/ MarkdownText \/ MarkdownEnd
    BY <1>2 DEF MarkdownFence, MarkdownCode, MarkdownHeading, MarkdownText, MarkdownEnd,
                AtMarkdown, Parsing, Parsed, Fail
<1>3. CASE LogLine \/ LogEnd
    BY <1>3 DEF LogLine, LogEnd, Parsing, Parsed, Fail
<1>4. CASE CsvLine \/ CsvFieldTooLong
    BY <1>4 DEF CsvLine, CsvFieldTooLong, AtCsv, Parsing, Fail
<1>5. CASE CsvRows BY <1>5 DEF CsvRows, Parsing, Fail
<1>6. CASE CsvRow BY <1>6 DEF CsvRow, Fail
<1>7. CASE CsvEnd BY <1>7 DEF CsvEnd, Parsed, Fail
<1>8. CASE PdfItem BY <1>8 DEF PdfItem, Parsing, Fail
<1>9. CASE PdfEnd BY <1>9 DEF PdfEnd, Parsing, Parsed, Fail
<1> QED BY <1>1, <1>2, <1>3, <1>4, <1>5, <1>6, <1>7, <1>8, <1>9 DEF Parse

\* Every parser keeps what its loop has gathered in order.
LEMMA ParseKeeps ==
    ASSUME doc \in Files, doc' = doc, Reading, RowsReading, Parse,
           phase = "rows" => doc.format = "csv"
    PROVE  Reading' /\ RowsReading'
<1>1. CASE CsvLine \/ CsvFieldTooLong \/ CsvRows \/ CsvRow \/ CsvEnd BY <1>1, CsvReads
<1>2. CASE ~ (CsvLine \/ CsvFieldTooLong \/ CsvRows \/ CsvRow \/ CsvEnd)
    <2>1. doc.format # "csv"
        BY <1>2 DEF Parse, PlainText, PlainTextEnd, MarkdownFence, MarkdownCode, MarkdownHeading,
                    MarkdownText, MarkdownEnd, AtMarkdown, LogLine, LogEnd, PdfItem, PdfEnd, Parsing
    <2>2. Reading'
        BY <1>2, PlainTextReads, MarkdownReads, LogReads, PdfReads DEF Parse
    <2> QED BY <2>1, <2>2 DEF RowsReading
<1> QED BY <1>1, <1>2

\* Steps that leave the parser's state alone, and do not start its loop.
LEMMA ReadingStays ==
    ASSUME Reading, RowsReading, doc' = doc, elements' = elements, UNCHANGED parserVars,
           phase' = phase \/ phase' # "parsing"
    PROVE  Reading' /\ RowsReading'
<1>1. /\ line' = line /\ buffer' = buffer /\ from' = from /\ fenced' = fenced
      /\ hierarchy' = hierarchy /\ rows' = rows /\ warnings' = warnings
    BY DEF parserVars
<1>2. Lists(elements)'
    <2>1. Lists(elements)' <=> Lists(elements') BY <1>1, SameLists DEF Lists
    <2> QED BY <2>1 DEF Reading
<1>3. HeadingTokens' = HeadingTokens /\ Lines' = Lines BY SameFile
<1>4. Ahead' <=> Ahead BY <1>1, SameFile DEF Ahead, Below
<1>5. Reading' BY <1>1, <1>2, <1>3, <1>4 DEF Reading
<1>6. RowsReading'
    <2>1. InRuns(rows)' <=> InRuns(rows)
        BY <1>1, <1>3 DEF InRuns, RowStarts, Consecutive, Kind
    <2>2. Consecutive(buffer)' <=> Consecutive(buffer) BY <1>1 DEF Consecutive
    <2>3. RowsBelow(rows, line - Len(buffer))' <=> RowsBelow(rows, line - Len(buffer))
        BY <1>1 DEF RowsBelow
    <2> QED BY <1>1, <2>1, <2>2, <2>3 DEF RowsReading, Kind
<1> QED BY <1>5, <1>6

\* What the loops start from.
LEMMA ReadingStarts ==
    ASSUME doc' \in Files \cup {NoFile}, elements' = <<>>, line' = 1, buffer' = <<>>,
           fenced' = FALSE, hierarchy' = <<>>, rows' = <<>>,
           from' \in Nat, warnings' \subseteq Warnings
    PROVE  Reading' /\ RowsReading'
<1>1. Len(doc'.lines) \in Nat
    BY DEF Files, NoFile
<1>2. Lists(elements)' BY DEF Lists
<1>3. Ahead' BY DEF Ahead, Below
<1>4. fenced' \in BOOLEAN /\ ~ fenced' OBVIOUS
<1>5. /\ hierarchy' \in Seq(HeadingTokens') /\ rows' \in Seq(Seq(Nat)) /\ buffer' \in Seq(Nat)
      /\ line' \in Nat /\ line' \in 1 .. Len(doc'.lines) + 1
      /\ buffer' \in Seq(1 .. line' - 1)
    BY <1>1
<1>6. Reading' BY <1>2, <1>3, <1>4, <1>5 DEF Reading
<1>7. RowsReading'
    <2>1. DOMAIN rows' = {} /\ DOMAIN elements' = {} /\ rows' \in Seq(Seq(Lines')) OBVIOUS
    <2>2. InRuns(rows)' BY <2>1 DEF InRuns
    <2>3. RowsBelow(rows, line - Len(buffer))' BY <2>1 DEF RowsBelow
    <2> QED BY <2>1, <2>2, <2>3 DEF RowsReading
<1> QED BY <1>6, <1>7

\* A window is of a group that was encoded.
LEMMA StepEncodes ==
    ASSUME Inductive, AllEncoded, Proceed
    PROVE  AllEncoded'
<1>1. CASE ~ Window BY <1>1, LoopStep DEF AllEncoded
<1>2. CASE Window
    <2> DEFINE c == [group |-> Head(todo), from |-> start, upto |-> WindowEnd(Head(todo))]
    <2>1. todo # <<>> /\ (chunks' = chunks \/ chunks' = Append(chunks, c)) BY <1>2 DEF Window
    <2>2. c.group = Head(todo) /\ c.upto = WindowEnd(Head(todo)) OBVIOUS
    <2>3. ~ Refused(Head(todo).text) BY <2>1 DEF Proceed, Encoded
    <2>4. /\ chunks \in Seq([group : HandedType, from : Nat, upto : Nat])
          /\ todo \in Seq(HandedType) /\ start \in Nat
        BY DEF Inductive, ChunkingTypeOK
    <2>7. c.upto <= Len(Head(todo).text)
        <3>1. Head(todo) \in HandedType BY <2>1, <2>4
        <3>2. Len(Head(todo).text) \in Nat BY <3>1 DEF HandedType
        <3> QED BY <2>2, <2>4, <3>2, Sizes DEF WindowEnd
    <2> HIDE DEF c
    <2>5. CASE chunks' = chunks BY <2>5 DEF AllEncoded
    <2>6. CASE chunks' = Append(chunks, c)
        <3>1. \A k \in DOMAIN chunks' :
                  (k \in DOMAIN chunks /\ chunks'[k] = chunks[k]) \/ chunks'[k] = c
            BY <2>4, <2>6, AllOfLonger
        <3> QED BY <2>2, <2>3, <2>7, <3>1 DEF AllEncoded
    <2> QED BY <2>1, <2>5, <2>6
<1> QED BY <1>1, <1>2

\* The chunker keeps its invariants.
LEMMA ChunkerSteps ==
    ASSUME doc \in Files, doc' = doc, Lists(elements), Chunker, Proceed \/ UNCHANGED chunkVars
    PROVE  Chunker'
<1> USE DEF Chunker
<1>1. CASE Proceed
    <2>1. Inductive' BY <1>1, StepTypes, StepKeeps DEF Inductive
    <2>2. AllFit' BY <1>1, StepFits
    <2>3. Ordered' BY <1>1, StepOrders
    <2>4. Seam' BY <1>1, StepSeams
    <2>5. Runs' BY <1>1, StepRuns
    <2>6. WindowsAdvance' BY <1>1, StepAdvances
    <2>7. AllSourced' BY <1>1, StepSources
    <2>8. AllEncoded' BY <1>1, StepEncodes
    <2> QED BY <2>1, <2>2, <2>3, <2>4, <2>5, <2>6, <2>7, <2>8
<1>2. CASE UNCHANGED chunkVars
    <2>1. /\ elements' = elements /\ index' = index /\ prose' = prose /\ table' = table
          /\ todo' = todo /\ start' = start /\ chunks' = chunks
        BY <1>2 DEF chunkVars
    <2>2. Inductive'
        <3>1. ChunkingTypeOK' BY <2>1 DEF Inductive, ChunkingTypeOK
        <3>2. GroupsOK' BY <2>1 DEF Inductive, GroupsOK, IsRow, Idle
        <3>3. ChunkTokens' = ChunkTokens /\ Held' = Held
            BY <2>1 DEF ChunkTokens, Slice, Held, LeftOf, TokensOf
        <3>4. Kept' BY <2>1, <3>3 DEF Inductive, Kept, TokensOf
        <3> QED BY <3>1, <3>2, <3>4 DEF Inductive
    <2>3. AllFit' BY <2>1 DEF AllFit, Fits, IsRow, Handed
    <2>4. Ordered' BY <2>1 DEF Ordered, ChunksFirst, EndsBefore
    <2>5. Seam' BY <2>1 DEF Seam
    <2>6. Runs' BY <2>1 DEF Runs, HeaderFirst, SameRun, IsRow, SamePath
    <2>7. WindowsAdvance' BY <2>1 DEF WindowsAdvance
    <2>8. AllSourced'
        <3>1. \A g : Sourced(g)' <=> Sourced(g) BY <2>1, SameSources
        <3>2. \A g : Growing(g)' <=> Growing(g) BY <2>1, <3>1 DEF Growing
        <3> QED BY <2>1, <3>1, <3>2 DEF AllSourced
    <2>9. AllEncoded' BY <2>1 DEF AllEncoded
    <2> QED BY <2>2, <2>3, <2>4, <2>5, <2>6, <2>7, <2>8, <2>9
<1> QED BY <1>1, <1>2

\* A call of chunk() starts with them, whatever elements it is given.
LEMMA ChunkerStarts ==
    ASSUME elements' \in Seq(Elements), index' = 1, Idle'
    PROVE  Chunker'
<1>1. /\ prose' = NoGroup /\ table' = NoGroup /\ todo' = <<>> /\ start' = 0 /\ chunks' = <<>>
    BY DEF Idle
<1>2. ChunkingTypeOK' BY <1>1 DEF ChunkingTypeOK, NoGroup, GroupType
<1>3. GroupsOK' BY <1>1 DEF GroupsOK, NoGroup
<1>4. Kept'
    <2>1. DOMAIN elements' \subseteq Nat /\ \A e \in DOMAIN elements' : e >= 1 OBVIOUS
    <2> QED BY <2>1 DEF Kept
<1>5. AllFit'
    <2>1. DOMAIN todo' = {} /\ DOMAIN chunks' = {} BY <1>1
    <2>2. Fits(Handed(prose, TRUE))' /\ Fits(Handed(table, FALSE))'
        BY <1>1, SmallFits DEF Fits, IsRow, Handed, NoGroup
    <2> QED BY <2>1, <2>2 DEF AllFit
<1>6. Ordered' BY <1>1 DEF Ordered, ChunksFirst
<1>7. Seam' BY <1>1 DEF Seam
<1>8. Runs' BY <1>1 DEF Runs
<1>9. WindowsAdvance' BY <1>1 DEF WindowsAdvance
<1>10. AllSourced' /\ AllEncoded' BY <1>1 DEF AllSourced, AllEncoded
<1> QED BY <1>2, <1>3, <1>4, <1>5, <1>6, <1>7, <1>8, <1>9, <1>10 DEF Chunker, Inductive

\* The invariant of the worker's steps.
LEMMA WorkKeeps == Extracting /\ [ExtractionNext]_vars => Extracting'
<1> SUFFICES ASSUME Extracting, [ExtractionNext]_vars PROVE Extracting' OBVIOUS
<1> USE DEF Extracting, Control
<1>T. /\ Threads \in Nat /\ abandoned \in Nat /\ abandoned <= Threads
    BY ExtractionAssumption DEF ThreadHeld
<1>P. phase \in Phases /\ index \in Nat BY DEF PhasesOK
<1>1. CASE Take
    <2>1. /\ phase = "idle" /\ batch # <<>> /\ doc' = Head(batch) /\ batch' = Tail(batch)
          /\ phase' = (IF doc'.format = "pdf" THEN "converting" ELSE "reading")
          /\ UNCHANGED <<chunkVars, parserVars, failure, abandoned>> /\ abandoned < Threads
        BY <1>1 DEF Take, FreeThread
    <2>2. /\ index' = index /\ elements' = elements /\ Idle' = Idle
          /\ line' = line /\ buffer' = buffer /\ from' = from /\ fenced' = fenced
          /\ hierarchy' = hierarchy /\ rows' = rows /\ warnings' = warnings
        BY <2>1 DEF chunkVars, parserVars, Idle
    <2>3. Untouched /\ index = 0 BY <1>P, <2>1 DEF PhasesOK
    <2>4. doc' \in Files /\ batch' \in Seq(Files)
        <3>1. batch \in Seq(Files) BY DEF FileAtWork
        <3> DEFINE S == Files
        <3>2. batch \in Seq(S) BY <3>1
        <3> HIDE DEF S
        <3>3. Head(batch) \in S /\ Tail(batch) \in Seq(S) BY <2>1, <3>2
        <3> QED BY <2>1, <3>3 DEF S
    <2>5. FileAtWork' BY <2>1, <2>4 DEF FileAtWork
    <2>6. PhasesOK' BY <2>1, <2>2, <2>3 DEF PhasesOK, Untouched, Phases
    <2>7. ThreadHeld' BY <1>T, <2>1 DEF ThreadHeld, Parsing
    <2>8. Reading' /\ RowsReading'
        <3>1. from' \in Nat /\ warnings' \subseteq Warnings BY <2>2 DEF Reading
        <3> QED BY <2>2, <2>3, <2>4, <3>1, ReadingStarts DEF Untouched
    <2> QED BY <2>1, <2>2, <2>3, <2>5, <2>6, <2>7, <2>8
<1>2. CASE ReadLines \/ ConversionEnds
    <2>1. /\ phase \in {"reading", "converting"} /\ phase' \in {"parsing", "failed"}
          /\ doc' = doc /\ batch' = batch /\ abandoned' = abandoned
          /\ failure' \in {failure, "processing_failed"}
          /\ UNCHANGED <<chunkVars, parserVars>>
        BY <1>2 DEF ReadLines, ConversionEnds, Fail
    <2>2. /\ index' = index /\ elements' = elements /\ Idle' = Idle
          /\ line' = line /\ buffer' = buffer /\ from' = from /\ fenced' = fenced
          /\ hierarchy' = hierarchy /\ rows' = rows /\ warnings' = warnings
        BY <2>1 DEF chunkVars, parserVars, Idle
    <2>3. Untouched /\ index = 0 BY <1>P, <2>1 DEF PhasesOK
    <2>4. FileAtWork' BY <2>1 DEF FileAtWork
    <2>5. PhasesOK' BY <2>1, <2>2, <2>3 DEF PhasesOK, Phases
    <2>6. ThreadHeld' BY <1>T, <2>1 DEF ThreadHeld, Parsing, PhasesOK
    <2>7. Reading' /\ RowsReading'
        <3>1. from' \in Nat /\ warnings' \subseteq Warnings BY <2>2 DEF Reading
        <3>2. doc' \in Files BY <2>1 DEF FileAtWork
        <3> QED BY <2>2, <2>3, <3>1, <3>2, ReadingStarts DEF Untouched
    <2> QED BY <2>1, <2>2, <2>3, <2>4, <2>5, <2>6, <2>7
<1>3. CASE ConversionTimesOut
    <2>1. /\ phase = "converting" \/ Parsing("pdf")
          /\ phase' = "failed"
          /\ doc' = doc /\ batch' = batch /\ abandoned' = abandoned + 1
          /\ failure' = "processing_failed"
          /\ UNCHANGED <<chunkVars, parserVars>>
        BY <1>3 DEF ConversionTimesOut, Fail
    <2>2. /\ index' = index /\ elements' = elements /\ Idle' = Idle
        BY <2>1 DEF chunkVars, Idle
    <2>3. phase \in {"converting", "parsing"} /\ index = 0 /\ abandoned < Threads
        BY <1>P, <2>1 DEF PhasesOK, Parsing, ThreadHeld
    <2>4. FileAtWork' BY <2>1, <2>3 DEF FileAtWork
    <2>5. PhasesOK' BY <2>1, <2>2, <2>3 DEF PhasesOK, Phases
    <2>6. ThreadHeld' BY <1>T, <2>1, <2>3 DEF ThreadHeld, Parsing
    <2>7. Reading' /\ RowsReading' BY <2>1, <2>2, ReadingStays
    <2> QED BY <2>1, <2>2, <2>3, <2>4, <2>5, <2>6, <2>7
<1>4. CASE AbandonedEnds
    <2>1. /\ doc' = doc /\ batch' = batch /\ abandoned' = abandoned - 1 /\ abandoned > 0
          /\ failure' = failure /\ phase' = phase
          /\ UNCHANGED <<chunkVars, parserVars>>
        BY <1>4 DEF AbandonedEnds
    <2>2. /\ index' = index /\ elements' = elements /\ Idle' = Idle
          /\ Untouched' = Untouched
        BY <2>1 DEF chunkVars, Idle, Untouched, parserVars
    <2>3. FileAtWork' BY <2>1 DEF FileAtWork
    <2>4. PhasesOK' BY <2>1, <2>2 DEF PhasesOK, Phases
    <2>5. ThreadHeld' BY <1>T, <2>1 DEF ThreadHeld, Parsing
    <2>6. Reading' /\ RowsReading' BY <2>1, <2>2, ReadingStays
    <2>7. index' > 0 => Chunker'
        <3> SUFFICES ASSUME index' > 0 PROVE Chunker' OBVIOUS
        <3>1. index > 0 /\ phase # "idle" BY <2>2, <1>P DEF PhasesOK
        <3>2. doc \in Files /\ Lists(elements) BY <3>1 DEF FileAtWork, Reading
        <3> QED BY <2>1, <3>1, <3>2, ChunkerSteps
    <2> QED BY <2>1, <2>3, <2>4, <2>5, <2>6, <2>7
<1>5. CASE ParseStep
    <2>1. /\ Parse /\ doc' = doc /\ batch' = batch /\ abandoned' = abandoned
          /\ index' = index /\ Idle' = Idle
        BY <1>5 DEF ParseStep, Idle
    <2>2. /\ phase \in {"parsing", "rows"}
          /\ phase' \in {"parsing", "rows", "parsed", "failed"}
          /\ phase' = "parsing" => phase = "parsing"
          /\ phase' = "rows" => phase = "rows" \/ doc.format = "csv"
          /\ failure' \in {failure, "processing_failed", "unexpected_processing_error"}
        BY <2>1, ParsePhases
    <2>3. index = 0 /\ doc \in Files /\ (phase = "rows" => doc.format = "csv")
        BY <1>P, <2>2 DEF PhasesOK, FileAtWork
    <2>4. FileAtWork' BY <2>1, <2>2 DEF FileAtWork
    <2>5. PhasesOK' BY <2>1, <2>2, <2>3 DEF PhasesOK, Phases
    <2>6. ThreadHeld' BY <1>T, <2>1, <2>2 DEF ThreadHeld, Parsing
    <2>7. Reading' /\ RowsReading' BY <2>1, <2>3, ParseKeeps
    <2> QED BY <2>1, <2>2, <2>3, <2>4, <2>5, <2>6, <2>7
<1>6. CASE ChunkCall
    <2>1. /\ phase = "parsed" /\ phase' = "chunking" /\ index' = 1
          /\ doc' = doc /\ batch' = batch /\ abandoned' = abandoned /\ failure' = failure
          /\ elements' = elements /\ Idle' = Idle /\ UNCHANGED parserVars
        BY <1>6 DEF ChunkCall, Idle
    <2>2. index = 0 /\ Idle BY <1>P, <2>1 DEF PhasesOK
    <2>3. FileAtWork' BY <2>1 DEF FileAtWork
    <2>4. PhasesOK' BY <2>1 DEF PhasesOK, Phases
    <2>5. ThreadHeld' BY <1>T, <2>1 DEF ThreadHeld, Parsing
    <2>6. Reading' /\ RowsReading' BY <2>1, ReadingStays
    <2>7. Chunker'
        <3>1. elements' \in Seq(Elements) BY <2>1 DEF Reading, Lists
        <3> QED BY <2>1, <2>2, <3>1, ChunkerStarts
    <2> QED BY <2>1, <2>3, <2>4, <2>5, <2>6, <2>7
<1>7. CASE ChunkStep \/ ChunkReturn
    <2>1. /\ phase = "chunking" /\ phase' \in {"chunking", "chunked", "failed"}
          /\ doc' = doc /\ batch' = batch /\ abandoned' = abandoned
          /\ failure' \in {failure, "processing_failed"}
          /\ (Proceed \/ UNCHANGED chunkVars) /\ UNCHANGED parserVars
        BY <1>7 DEF ChunkStep, ChunkReturn, Fail
    <2>2. elements' = elements
        BY <2>1 DEF Proceed, Heading, LogRecord, TableHeader, TableRow, TableEnd, Prose,
                    ElementsEnd, Window, chunkVars
    <2>3. /\ index > 0 /\ Chunker /\ doc \in Files /\ Lists(elements)
        BY <1>P, <2>1 DEF PhasesOK, FileAtWork, Reading
    <2>4. Chunker' BY <2>1, <2>3, ChunkerSteps
    <2>5. index' \in Nat /\ index' > 0
        <3>1. index' \in {index, index + 1}
            BY <2>1 DEF Proceed, Heading, LogRecord, TableHeader, TableRow, TableEnd, Prose,
                        ElementsEnd, Window, Advance, chunkVars
        <3> QED BY <1>P, <2>3, <3>1
    <2>6. FileAtWork' BY <2>1 DEF FileAtWork
    <2>7. PhasesOK' BY <2>1, <2>5 DEF PhasesOK, Phases
    <2>8. ThreadHeld' BY <1>T, <2>1 DEF ThreadHeld, Parsing
    <2>9. Reading' /\ RowsReading' BY <2>1, <2>2, ReadingStays
    <2> QED BY <2>1, <2>4, <2>6, <2>7, <2>8, <2>9
<1>10. CASE ChunkRaises
    <2>1. /\ phase = "chunking" /\ phase' = "failed"
          /\ doc' = doc /\ batch' = batch /\ abandoned' = abandoned
          /\ failure' = "unexpected_processing_error"
          /\ index' = 0 /\ elements' = elements /\ Idle' /\ UNCHANGED parserVars
        BY <1>10 DEF ChunkRaises, Raise, Fail, Idle
    <2>2. FileAtWork' BY <2>1 DEF FileAtWork
    <2>3. PhasesOK' BY <2>1 DEF PhasesOK, Phases
    <2>4. ThreadHeld' BY <1>T, <2>1 DEF ThreadHeld, Parsing
    <2>5. Reading' /\ RowsReading' BY <2>1, ReadingStays
    <2> QED BY <2>1, <2>2, <2>3, <2>4, <2>5
<1>8. CASE Settle
    <2>1. /\ phase' = "idle" /\ doc' = NoFile /\ batch' = batch /\ abandoned' = abandoned
          /\ failure' = "none" /\ index' = 0 /\ elements' = <<>>
          /\ line' = 1 /\ buffer' = <<>> /\ from' = 1 /\ fenced' = FALSE
          /\ hierarchy' = <<>> /\ rows' = <<>> /\ warnings' = {}
          /\ Idle'
        BY <1>8 DEF Settle, Idle
    <2>2. FileAtWork' BY <2>1 DEF FileAtWork
    <2>3. PhasesOK' BY <2>1 DEF PhasesOK, Phases, Untouched
    <2>4. ThreadHeld' BY <1>T, <2>1 DEF ThreadHeld, Parsing
    <2>5. Reading' /\ RowsReading' BY <2>1, ReadingStarts
    <2> QED BY <2>1, <2>2, <2>3, <2>4, <2>5
<1>9. CASE UNCHANGED vars
    <2>1. /\ doc' = doc /\ batch' = batch /\ abandoned' = abandoned
          /\ failure' = failure /\ phase' = phase
          /\ UNCHANGED <<chunkVars, parserVars>>
        BY <1>9 DEF vars
    <2>2. /\ index' = index /\ elements' = elements /\ Idle' = Idle
          /\ Untouched' = Untouched
        BY <2>1 DEF chunkVars, Idle, Untouched, parserVars
    <2>3. FileAtWork' BY <2>1 DEF FileAtWork
    <2>4. PhasesOK' BY <2>1, <2>2 DEF PhasesOK, Phases
    <2>5. ThreadHeld' BY <2>1 DEF ThreadHeld, Parsing
    <2>6. Reading' /\ RowsReading' BY <2>1, <2>2, ReadingStays
    <2>7. index' > 0 => Chunker'
        <3> SUFFICES ASSUME index' > 0 PROVE Chunker' OBVIOUS
        <3>1. index > 0 /\ phase # "idle" BY <2>2, <1>P DEF PhasesOK
        <3>2. doc \in Files /\ Lists(elements) BY <3>1 DEF FileAtWork, Reading
        <3> QED BY <2>1, <3>1, <3>2, ChunkerSteps
    <2> QED BY <2>1, <2>3, <2>4, <2>5, <2>6, <2>7
<1> QED BY <1>1, <1>2, <1>3, <1>4, <1>5, <1>6, <1>7, <1>8, <1>9, <1>10 DEF ExtractionNext, Work

\* It holds of the whole run of the worker, for whatever files.
LEMMA WorkerInvariant == ExtractionSpec => []Extracting
<1>1. ExtractionInit => Extracting
    <2> SUFFICES ASSUME ExtractionInit PROVE Extracting OBVIOUS
    <2>1. /\ elements = <<>> /\ index = 0 /\ Idle /\ doc = NoFile /\ phase = "idle"
          /\ line = 1 /\ buffer = <<>> /\ from = 1 /\ fenced = FALSE
          /\ hierarchy = <<>> /\ rows = <<>> /\ warnings = {} /\ failure = "none"
          /\ batch \in Seq(Files) /\ abandoned = 0
        BY ExtractionAssumption DEF ExtractionInit
    <2>2. FileAtWork BY <2>1 DEF FileAtWork
    <2>3. PhasesOK BY <2>1 DEF PhasesOK, Phases, Untouched
    <2>4. ThreadHeld BY <2>1, ExtractionAssumption DEF ThreadHeld, Parsing
    <2>5. Reading
        <3>1. Lists(elements) BY <2>1 DEF Lists
        <3>2. fenced \in BOOLEAN BY <2>1
        <3> QED BY <2>1, <3>1, <3>2 DEF Reading
    <2>6. RowsReading BY <2>1 DEF RowsReading, NoFile
    <2> QED BY <2>1, <2>2, <2>3, <2>4, <2>5, <2>6 DEF Extracting, Control
<1> QED BY <1>1, WorkKeeps, PTL DEF ExtractionSpec

\* The worker's state has its types, whatever files it is given, however many threads it has
\* and whatever the limits are.
THEOREM ExtractionTypeCorrect == ExtractionSpec => []ExtractionTypeOK
<1>1. Extracting => ExtractionTypeOK
    <2> SUFFICES ASSUME Extracting PROVE ExtractionTypeOK OBVIOUS
    <2> USE DEF Extracting, Control
    <2>1. ChunkingTypeOK
        <3>1. CASE index > 0 BY <3>1 DEF Chunker, Inductive
        <3>2. CASE ~ (index > 0)
            <4>1. index = 0 /\ Idle BY <3>2 DEF PhasesOK
            <4>2. elements \in Seq(Elements) BY DEF Reading, Lists
            <4> QED BY <4>1, <4>2 DEF Idle, ChunkingTypeOK, NoGroup, GroupType
        <3> QED BY <3>1, <3>2
    <2>2. doc \in [format : Formats \cup {"none"}, lines : Seq(Kinds)]
        <3>1. CASE doc \in Files BY <3>1 DEF Files
        <3>2. CASE doc = NoFile BY <3>2 DEF NoFile
        <3> QED BY <3>1, <3>2 DEF FileAtWork
    <2>3. hierarchy \in Seq(Token)
        <3>1. CASE phase = "idle" BY <3>1 DEF PhasesOK, Untouched
        <3>2. CASE phase # "idle"
            <4>1. doc \in Files BY <3>2 DEF FileAtWork
            <4>2. Len(doc.lines) \in Nat /\ LongTokens \in Nat
                BY <4>1, FileTokens, ParsersAssumption
            <4>3. HeadingTokens \subseteq Token
                <5> SUFFICES ASSUME NEW t \in HeadingTokens PROVE t \in Token OBVIOUS
                <5>1. PICK h \in 0 .. Len(doc.lines), k \in {-1, 0} : t = <<h, k>>
                    BY DEF HeadingTokens
                <5>2. k \in -1 .. LongTokens + 1 BY <4>2
                <5> QED BY <4>1, <5>1, <5>2, FileTokens
            <4> QED BY <4>3, FewerInSeq DEF Reading
        <3> QED BY <3>1, <3>2
    <2>4. phase \in Phases /\ abandoned \in 0 .. Threads BY DEF PhasesOK, ThreadHeld
    <2>5. /\ line \in Nat /\ from \in Nat /\ fenced \in BOOLEAN
          /\ buffer \in Seq(Nat) /\ rows \in Seq(Seq(Nat)) /\ warnings \subseteq Warnings
        BY DEF Reading
    <2> QED BY <2>1, <2>2, <2>3, <2>4, <2>5 DEF ExtractionTypeOK, Phases, Warnings
<1> QED BY <1>1, WorkerInvariant, PTL

\* What is proved of one call of the chunker holds of every document of the worker: nothing
\* is lost, windows advance, rows keep their header and groups their target, for all that the
\* parsers hand over (worker_pipeline.py:102-119, structure_aware.py:36-148).
THEOREM DocumentsAreChunked ==
    ExtractionSpec => [](NothingLost /\ WindowsAdvance /\ RowsFollowHeader /\ GroupsStayInTarget)
<1>1. Extracting => NothingLost /\ WindowsAdvance /\ RowsFollowHeader /\ GroupsStayInTarget
    <2> SUFFICES ASSUME Extracting
                 PROVE  NothingLost /\ WindowsAdvance /\ RowsFollowHeader /\ GroupsStayInTarget
        OBVIOUS
    <2>1. CASE index > 0
        <3>1. Chunker BY <2>1 DEF Extracting
        <3>2. NothingLost BY <3>1, AllIsChunked DEF Chunker
        <3>3. WindowsAdvance BY <3>1 DEF Chunker
        <3>4. RowsFollowHeader
            BY <3>1 DEF Chunker, Runs, RowsFollowHeader, HeaderFirst, SameRun
        <3>5. GroupsStayInTarget BY <3>1 DEF Chunker, AllFit, Fits, GroupsStayInTarget
        <3> QED BY <3>2, <3>3, <3>4, <3>5
    <2>2. CASE ~ (index > 0)
        <3>1. index = 0 /\ chunks = <<>>
            BY <2>2 DEF Extracting, Control, PhasesOK, Idle
        <3>2. Len(elements) \in Nat BY DEF Extracting, Reading, Lists
        <3>3. NothingLost BY <3>1, <3>2 DEF NothingLost, Chunked
        <3> QED BY <3>1, <3>3 DEF WindowsAdvance, RowsFollowHeader, GroupsStayInTarget
    <2> QED BY <2>1, <2>2
<1> QED BY <1>1, WorkerInvariant, PTL

\* The numbers of a finite list have a bound.
LEMMA BoundOfList ==
    ASSUME NEW n \in Nat, NEW f, \A i \in 1 .. n : f[i] \in Nat
    PROVE  \E b \in Nat : \A i \in 1 .. n : f[i] <= b
<1> DEFINE K == {k \in Nat : k <= n => \E b \in Nat : \A i \in 1 .. k : f[i] <= b}
<1>1. 0 \in K
    <2>1. \A i \in 1 .. 0 : f[i] <= 0 OBVIOUS
    <2> QED BY <2>1
<1>2. ASSUME NEW k \in Nat, k \in K PROVE k + 1 \in K
    <2> SUFFICES ASSUME k + 1 <= n PROVE \E b \in Nat : \A i \in 1 .. k + 1 : f[i] <= b
        OBVIOUS
    <2>1. PICK b \in Nat : \A i \in 1 .. k : f[i] <= b BY <1>2
    <2> DEFINE c == IF f[k + 1] <= b THEN b ELSE f[k + 1]
    <2>2. f[k + 1] \in Nat /\ c \in Nat /\ b <= c /\ f[k + 1] <= c OBVIOUS
    <2> HIDE DEF c
    <2>3. ASSUME NEW i \in 1 .. k + 1 PROVE f[i] <= c
        <3>1. CASE i = k + 1 BY <2>2, <3>1
        <3>2. CASE i # k + 1
            <4>1. i \in 1 .. k /\ f[i] \in Nat BY <3>2
            <4>2. f[i] <= b BY <2>1, <4>1
            <4> QED BY <2>2, <4>1, <4>2
        <3> QED BY <3>1, <3>2
    <2> QED BY <2>2, <2>3
<1> HIDE DEF K
<1>3. n \in K BY <1>1, <1>2, Counting, Zenon
<1> QED BY <1>3 DEF K

\* The group of a chunk, and its window.
LEMMA GroupOfChunk ==
    ASSUME Extracting, NEW k \in DOMAIN chunks, NEW g, g = chunks[k].group,
           NEW m, m = g.members
    PROVE  /\ index > 0 /\ doc \in Files /\ Lists(elements)
           /\ m \in Seq(Nat) /\ Len(m) \in Nat /\ 1 \in DOMAIN m /\ DOMAIN m = 1 .. Len(m)
           /\ g.text \in Seq(Token) /\ Sourced(g)
           /\ \A j \in DOMAIN m :
                /\ m[j] \in DOMAIN elements /\ Good(elements[m[j]]) /\ Traced(elements[m[j]])
                /\ elements[m[j]].first \in Nat /\ elements[m[j]].last \in Nat
           /\ \A t \in Slice(chunks[k]) :
                \E p \in DOMAIN g.text : t = g.text[p] /\ p <= chunks[k].upto
           /\ chunks[k].from = 0 =>
                \A p \in DOMAIN g.text : p <= chunks[k].upto => g.text[p] \in Slice(chunks[k])
<1>1. index > 0
    <2>1. chunks # <<>> OBVIOUS
    <2> QED BY <2>1 DEF Extracting, Control, PhasesOK, Idle
<1>2. /\ Chunker /\ Lists(elements) /\ doc \in Files
    BY <1>1 DEF Extracting, Control, FileAtWork, PhasesOK, Reading
<1>3. Sourced(g) BY <1>2 DEF Chunker, AllSourced
<1>4. /\ g \in HandedType /\ chunks[k].from \in Nat /\ chunks[k].upto \in Nat
      /\ chunks[k].upto <= Len(g.text)
    <2> DEFINE S == [group : HandedType, from : Nat, upto : Nat]
    <2>1. chunks \in Seq(S) BY <1>2 DEF Chunker, Inductive, ChunkingTypeOK
    <2>2. chunks[k] \in S
        <3> HIDE DEF S
        <3> QED BY <2>1
    <2>3. chunks[k].upto <= Len(g.text) BY <1>2 DEF Chunker, AllEncoded
    <2> QED BY <2>2, <2>3
<1>5. m \in Seq(Nat) /\ g.text \in Seq(Token) BY <1>4 DEF HandedType
<1>6. Len(m) \in Nat /\ DOMAIN m = 1 .. Len(m) /\ 1 \in DOMAIN m
    <2>1. Len(m) > 0 BY <1>3 DEF Sourced
    <2> QED BY <1>5, <2>1
<1>7. ASSUME NEW j \in DOMAIN m
      PROVE  /\ m[j] \in DOMAIN elements /\ Good(elements[m[j]]) /\ Traced(elements[m[j]])
             /\ elements[m[j]].first \in Nat /\ elements[m[j]].last \in Nat
    <2>1. m[j] \in DOMAIN elements BY <1>3 DEF Sourced
    <2>2. Good(elements[m[j]]) BY <1>2, <2>1 DEF Lists
    <2> QED BY <1>2, <2>1, <2>2, KeyOfGood DEF Good
<1>8. DOMAIN g.text = 1 .. Len(g.text) /\ Len(g.text) \in Nat BY <1>5
<1>9. \A t \in Slice(chunks[k]) :
          \E p \in DOMAIN g.text : t = g.text[p] /\ p <= chunks[k].upto
    <2> SUFFICES ASSUME NEW t \in Slice(chunks[k])
                 PROVE  \E p \in DOMAIN g.text : t = g.text[p] /\ p <= chunks[k].upto
        OBVIOUS
    <2>1. PICK p \in chunks[k].from + 1 .. chunks[k].upto : t = g.text[p] BY DEF Slice
    <2>2. p \in 1 .. Len(g.text) /\ p <= chunks[k].upto BY <1>4, <1>8, <2>1
    <2> QED BY <1>8, <2>1, <2>2
<1>10. chunks[k].from = 0 =>
           \A p \in DOMAIN g.text : p <= chunks[k].upto => g.text[p] \in Slice(chunks[k])
    BY <1>4, <1>8 DEF Slice
<1> QED BY <1>1, <1>2, <1>3, <1>5, <1>6, <1>7, <1>9, <1>10

\* A token of a group that comes from a line comes from one of its members.
LEMMA TokenOfMember ==
    ASSUME Extracting, NEW k \in DOMAIN chunks, NEW g, g = chunks[k].group,
           NEW t \in TokensOf(g.text), t[2] > 0
    PROVE  \E j \in DOMAIN g.members : t \in TokensOf(elements[g.members[j]].text)
<1> DEFINE m == g.members
<1>1. /\ \A u \in TokensOf(g.text) :
            \/ u \in TokensOf(elements[m[1]].path)
            \/ \E j \in DOMAIN m : u \in TokensOf(elements[m[j]].text)
      /\ 1 \in DOMAIN m /\ Good(elements[m[1]])
    BY GroupOfChunk DEF Sourced
<1>2. t \notin TokensOf(elements[m[1]].path)
    <2> SUFFICES ASSUME t \in TokensOf(elements[m[1]].path) PROVE FALSE OBVIOUS
    <2>1. elements[m[1]].path \in Seq(HeadingTokens) BY <1>1 DEF Good, Sound
    <2>2. t \in HeadingTokens BY <2>1 DEF TokensOf
    <2>3. t[2] \in {-1, 0} BY <2>2 DEF HeadingTokens
    <2> QED BY <2>3
<1> QED BY <1>1, <1>2

\* The location of a chunk spans those of the members that have one, from the first.
LEMMA MergedSpans ==
    ASSUME Extracting, NEW k \in DOMAIN chunks, NEW m, m = chunks[k].group.members,
           NEW at, at = MergedLocation(chunks[k]),
           NEW j \in DOMAIN m, elements[m[j]].first > 0
    PROVE  /\ at.first \in Nat /\ at.last \in Nat
           /\ at.first <= elements[m[j]].first /\ elements[m[j]].last <= at.last
           /\ \E i \in DOMAIN m : elements[m[i]].first > 0 /\ at.first = elements[m[i]].first
<1> DEFINE firsts == {elements[m[i]].first : i \in DOMAIN m} \ {0}
           lasts == {elements[m[i]].last : i \in DOMAIN m}
<1>1. /\ \A i \in DOMAIN m : elements[m[i]].first \in Nat /\ elements[m[i]].last \in Nat
      /\ Len(m) \in Nat /\ DOMAIN m = 1 .. Len(m)
    BY GroupOfChunk
<1>2. elements[m[j]].first \in firsts /\ elements[m[j]].last \in lasts BY <1>1
<1>3. firsts \in SUBSET Nat /\ firsts # {} /\ lasts \in SUBSET Nat /\ lasts # {}
    <2>1. \A x \in firsts : x \in Nat BY <1>1
    <2>2. \A x \in lasts : x \in Nat BY <1>1
    <2> HIDE DEF firsts, lasts
    <2>3. firsts # {} /\ lasts # {} BY <1>2
    <2> QED BY <2>1, <2>2, <2>3
<1>4. at = [first |-> Min(firsts), last |-> Max(lasts)] BY <1>3 DEF MergedLocation
<1>5. PICK b \in Nat : \A x \in lasts : x <= b
    <2> DEFINE f == [i \in 1 .. Len(m) |-> elements[m[i]].last]
    <2>1. \A i \in 1 .. Len(m) : f[i] \in Nat BY <1>1
    <2>2. \A x \in lasts : \E i \in 1 .. Len(m) : x = f[i] BY <1>1
    <2> HIDE DEF f
    <2>3. PICK b \in Nat : \A i \in 1 .. Len(m) : f[i] <= b BY <1>1, <2>1, BoundOfList
    <2> QED BY <2>2, <2>3
<1>6. \A x \in firsts : \E i \in DOMAIN m : elements[m[i]].first > 0 /\ x = elements[m[i]].first
    BY <1>1
<1> HIDE DEF firsts, lasts
<1>7. Min(firsts) \in firsts /\ \A x \in firsts : Min(firsts) <= x BY <1>3, MinIsLeast
<1>8. Max(lasts) \in lasts /\ \A x \in lasts : x <= Max(lasts) BY <1>3, <1>5, MaxIsGreatest
<1>9. at.first = Min(firsts) /\ at.last = Max(lasts) BY <1>4
<1> QED BY <1>2, <1>3, <1>6, <1>7, <1>8, <1>9

\* Every line of a chunk's own text is among those its location stands for, a group's first
\* chunk's starts with the first line of its text, and a location covers no line of text that
\* its elements do not hold unless one was cut: for whatever files the worker is given and all
\* limits (text.py:59-81, 120-138, 268-283, structure_aware.py:159-180).
THEOREM ChunksAreTraceable == ExtractionSpec => []ChunksTraceable
<1>1. Extracting => ChunksTraceable
    <2> SUFFICES ASSUME Extracting, NEW k \in DOMAIN chunks,
                        NEW c, c = chunks[k], NEW at, at = MergedLocation(c)
                 PROVE  /\ OwnLines(c) \subseteq Cited(at)
                        /\ c.from = 0 /\ OwnLines(c) # {} =>
                               Min(OwnLines(c)) \in Cited([first |-> at.first, last |-> at.first])
                        /\ \A j \in DOMAIN c.group.members :
                               LET e == elements[c.group.members[j]]
                               IN  \/ Cut(e)
                                   \/ {l \in Cited(e) : Solid(l)} \subseteq SourceLines(TokensOf(e.text))
        BY DEF ChunksTraceable
    <2> DEFINE g == c.group
               m == g.members
    <2>1. /\ doc \in Files /\ Sourced(g) /\ Lists(elements)
          /\ \A j \in DOMAIN m :
                /\ m[j] \in DOMAIN elements /\ Good(elements[m[j]]) /\ Traced(elements[m[j]])
                /\ elements[m[j]].first \in Nat /\ elements[m[j]].last \in Nat
          /\ \A t \in Slice(c) : \E p \in DOMAIN g.text : t = g.text[p] /\ p <= c.upto
          /\ c.from = 0 => \A p \in DOMAIN g.text : p <= c.upto => g.text[p] \in Slice(c)
          /\ g.text \in Seq(Token)
        BY GroupOfChunk
    <2>U. c.upto \in Nat
        <3> DEFINE S == [group : HandedType, from : Nat, upto : Nat]
        <3>1. index > 0 BY GroupOfChunk
        <3>2. chunks \in Seq(S) BY <3>1 DEF Extracting, Chunker, Inductive, ChunkingTypeOK
        <3>3. c \in S
            <4> HIDE DEF S
            <4> QED BY <3>2
        <3> QED BY <3>3
    <2> HIDE DEF g, m
    <2>2. ASSUME NEW t \in TokensOf(g.text), Located(t)
          PROVE  \E j \in DOMAIN m : /\ elements[m[j]].first > 0
                                    /\ t[1] \in Cited(elements[m[j]]) /\ t[1] \in Lines
        <3>1. PICK j \in DOMAIN m : t \in TokensOf(elements[m[j]].text)
            BY <2>2, TokenOfMember DEF Located, g, m
        <3>2. elements[m[j]].first > 0
            <4>1. elements[m[j]].first # 0 BY <2>1, <2>2, <3>1, LocatedTokens
            <4> QED BY <2>1, <4>1
        <3>3. t[1] \in SourceLines(TokensOf(elements[m[j]].text) \ Unlocated)
            BY <2>2, <3>1 DEF SourceLines, Located
        <3>4. t[1] \in Cited(elements[m[j]]) BY <2>1, <3>3 DEF Traced
        <3>5. t \in MarksOf(Lines) BY <2>1, <2>2, <3>1 DEF Good, Sound, Located
        <3>6. t[1] \in Lines BY <2>1, <3>5, MarkFacts DEF MarksOf
        <3> QED BY <3>2, <3>4, <3>6
    <2>3. ASSUME NEW j \in DOMAIN m, elements[m[j]].first > 0
          PROVE  /\ at.first \in Nat /\ at.last \in Nat
                 /\ at.first <= elements[m[j]].first /\ elements[m[j]].last <= at.last
                 /\ \E i \in DOMAIN m : elements[m[i]].first > 0 /\ at.first = elements[m[i]].first
                 /\ Cited(elements[m[j]]) \subseteq Cited(at)
        <3>1. /\ at.first \in Nat /\ at.last \in Nat
              /\ at.first <= elements[m[j]].first /\ elements[m[j]].last <= at.last
              /\ \E i \in DOMAIN m : elements[m[i]].first > 0 /\ at.first = elements[m[i]].first
            BY <2>3, MergedSpans DEF m, g
        <3>2. elements[m[j]].first .. elements[m[j]].last \subseteq at.first .. at.last
            BY <2>1, <3>1
        <3> QED BY <3>1, <3>2 DEF Cited
    <2>4. ASSUME NEW l \in OwnLines(c)
          PROVE  \E p \in DOMAIN g.text : p <= c.upto /\ l = g.text[p][1] /\ Located(g.text[p])
        <3>1. PICK t \in Slice(c) : t \notin Unlocated /\ t # Whitespace /\ t[2] > 0 /\ l = t[1]
            BY DEF OwnLines, SourceLines
        <3> QED BY <2>1, <3>1 DEF Located
    <2>5. ASSUME NEW l \in OwnLines(c)
          PROVE  \E j \in DOMAIN m : /\ elements[m[j]].first > 0
                                    /\ l \in Cited(elements[m[j]]) /\ l \in Lines
        <3>1. PICK p \in DOMAIN g.text : l = g.text[p][1] /\ Located(g.text[p]) BY <2>4
        <3>2. g.text[p] \in TokensOf(g.text) BY DEF TokensOf
        <3> QED BY <2>2, <3>1, <3>2
    <2>6. OwnLines(c) \subseteq Cited(at) BY <2>3, <2>5
    <2>7. ASSUME c.from = 0, OwnLines(c) # {}
          PROVE  Min(OwnLines(c)) \in Cited([first |-> at.first, last |-> at.first])
        <3> DEFINE x == Min(OwnLines(c))
                   one == [first |-> at.first, last |-> at.first]
        <3>1. OwnLines(c) \in SUBSET Nat /\ Lines \subseteq Nat BY <2>1, <2>5, FileTokens
        <3>2. x \in OwnLines(c) /\ \A l \in OwnLines(c) : x <= l BY <2>7, <3>1, MinIsLeast
        <3> HIDE DEF x
        <3>3. PICK p \in DOMAIN g.text : p <= c.upto /\ Located(g.text[p]) BY <2>4, <3>2
        <3>4. PICK j \in DOMAIN m, q \in DOMAIN g.text : Leads(g, j, q)
            BY <2>1, <3>3 DEF Sourced, Nowhere, m
        <3>5. /\ elements[m[j]].first > 0 /\ g.text[q] = elements[m[j]].text[1]
              /\ Located(g.text[q]) /\ q <= p
              /\ \A i \in DOMAIN m :
                    elements[m[i]].first = 0 \/ elements[m[j]].first <= elements[m[i]].first
            BY <3>3, <3>4 DEF Leads, m
        <3> DEFINE h == g.text[q][1]
        <3>6. h \in OwnLines(c)
            <4>1. q <= c.upto
                <5>1. p \in Nat /\ q \in Nat BY <2>1
                <5> QED BY <2>U, <3>3, <3>5, <5>1
            <4>2. g.text[q] \in Slice(c) BY <2>1, <2>7, <4>1
            <4> QED BY <3>5, <4>2 DEF OwnLines, SourceLines, Located
        <3>7. at.first = elements[m[j]].first
            <4>1. PICK i \in DOMAIN m : elements[m[i]].first > 0 /\ at.first = elements[m[i]].first
                BY <2>3, <3>5
            <4>2. elements[m[j]].first <= at.first BY <2>1, <3>5, <4>1
            <4>3. at.first <= elements[m[j]].first /\ at.first \in Nat BY <2>3, <3>5
            <4> QED BY <2>1, <4>2, <4>3
        <3>8. h \in Cited(one)
            <4>1. elements[m[j]].text[1] \notin Unlocated BY <3>5 DEF Located
            <4>2. Home(elements[m[j]]) \in
                      Cited([first |-> elements[m[j]].first, last |-> elements[m[j]].first])
                BY <2>1, <4>1 DEF Traced
            <4> QED BY <3>5, <3>7, <4>2 DEF Home
        <3>9. h \in Nat /\ x \in Nat /\ x <= h BY <3>1, <3>2, <3>6
        <3>10. PICK i \in DOMAIN m : elements[m[i]].first > 0 /\ x \in Cited(elements[m[i]])
            BY <2>5, <3>2
        <3>11. at.first \in Nat /\ at.first <= elements[m[i]].first BY <2>3, <3>10
        <3> HIDE DEF h
        <3>12. CASE doc.format # "csv"
            <4>1. h \in at.first .. at.first BY <3>8, <3>12 DEF Cited
            <4>2. x \in elements[m[i]].first .. elements[m[i]].last BY <3>10, <3>12 DEF Cited
            <4>3. x = h BY <2>1, <3>9, <3>11, <4>1, <4>2
            <4> QED BY <3>8, <4>3 DEF x
        <3>13. CASE doc.format = "csv"
            <4>1. PICK a \in at.first .. at.first \cap DOMAIN rows : h \in ToSet(rows[a])
                BY <3>8, <3>13 DEF Cited
            <4>2. PICK r \in elements[m[i]].first .. elements[m[i]].last \cap DOMAIN rows :
                      x \in ToSet(rows[r])
                BY <3>10, <3>13 DEF Cited
            <4>3. a = at.first /\ a \in DOMAIN rows /\ r \in DOMAIN rows /\ a <= r /\ r \in Nat
                BY <2>1, <3>11, <4>1, <4>2
            <4>4. PICK u \in DOMAIN rows[a] : h = rows[a][u] BY <4>1 DEF ToSet
            <4>5. PICK v \in DOMAIN rows[r] : x = rows[r][v] BY <4>2 DEF ToSet
            <4>6. InRuns(rows) BY <3>13 DEF Extracting, RowsReading
            <4>7. CASE a < r
                <5>1. h < x BY <4>3, <4>4, <4>5, <4>6, <4>7 DEF InRuns
                <5> QED BY <3>9, <5>1
            <4>8. CASE a = r
                <5>1. x \in Cited(one) BY <3>13, <4>1, <4>2, <4>3, <4>8 DEF Cited
                <5> QED BY <5>1 DEF x
            <4> QED BY <3>11, <4>3, <4>7, <4>8
        <3> QED BY <3>12, <3>13
    <2>8. ASSUME NEW j \in DOMAIN m
          PROVE  \/ Cut(elements[m[j]])
                 \/ {l \in Cited(elements[m[j]]) : Solid(l)}
                        \subseteq SourceLines(TokensOf(elements[m[j]].text))
        BY <2>1 DEF Traced
    <2> QED BY <2>6, <2>7, <2>8 DEF m, g
<1> QED BY <1>1, WorkerInvariant, PTL


\* A chunk of a log is made of one record, which starts with a stamp, or the file's text, has
\* no other stamp, and goes on to the next stamp unless it was cut: for whatever files the
\* worker is given and all limits (text.py:309-321, structure_aware.py:54-58).
THEOREM LogRecordsAreWhole == ExtractionSpec => []LogRecordsStandAlone
<1>1. Extracting => LogRecordsStandAlone
    <2> SUFFICES ASSUME Extracting, NEW k \in DOMAIN chunks, doc.format = "log",
                        NEW g, g = chunks[k].group,
                        NEW ls, ls = SourceLines(TokensOf(g.text))
                 PROVE  /\ Len(g.members) = 1 /\ ls # {}
                        /\ {l \in ls : Kind(l) = "stamp"} \subseteq {Min(ls)}
                        /\ Kind(Min(ls)) = "stamp" \/ \A l \in 1 .. Min(ls) - 1 : ~ Solid(l)
                        /\ \A l \in Lines :
                              l > Min(ls) /\ Solid(l)
                                  /\ {h \in Min(ls) + 1 .. l : Kind(h) = "stamp"} = {}
                              => l \in ls \/ Cut(elements[g.members[1]])
        BY DEF LogRecordsStandAlone
    <2> DEFINE m == g.members
               el == elements[m[1]]
               own == SourceLines(TokensOf(el.text))
               n == Home(el)
    <2>1. /\ doc \in Files /\ Lists(elements) /\ Sourced(g)
          /\ Len(m) \in Nat /\ 1 \in DOMAIN m /\ DOMAIN m = 1 .. Len(m)
          /\ Good(el) /\ Traced(el) /\ el.first \in Nat /\ el.last \in Nat
        BY GroupOfChunk
    <2>2. Sound(el) /\ OfRecord(el) BY <2>1 DEF Good
    <2>3. Len(m) = 1 BY <2>1, <2>2 DEF Sourced, OfRecord
    <2>4. DOMAIN m = {1} BY <2>1, <2>3
    <2>5. Lines = 1 .. Len(doc.lines) /\ Len(doc.lines) \in Nat BY <2>1, FileTokens
    <2>6. n \in Lines /\ el.text[1] \in TokensOf(el.text) /\ el.text[1] # Whitespace
          /\ el.text[1][2] > 0
        <3>1. el.text[1] \in MarksOf(Lines) /\ el.text # <<>> /\ el.text \in Seq(Token)
            BY <2>2 DEF Sound, Elements
        <3>2. PICK l \in Lines : el.text[1] \in Marks(l) BY <3>1 DEF MarksOf
        <3>3. 1 \in DOMAIN el.text BY <3>1
        <3> QED BY <2>1, <3>2, <3>3, MarkFacts DEF Home, TokensOf
    <2>7. own \subseteq ls
        <3>1. TokensOf(el.text) \subseteq TokensOf(g.text) \cup {Whitespace} BY <2>1 DEF Sourced
        <3> QED BY <3>1 DEF SourceLines
    <2>8. ASSUME NEW l \in ls PROVE l \in own
        <3>1. PICK t \in TokensOf(g.text) : t # Whitespace /\ t[2] > 0 /\ l = t[1]
            BY DEF SourceLines
        <3>2. PICK j \in DOMAIN m : t \in TokensOf(elements[m[j]].text)
            BY <3>1, TokenOfMember
        <3>3. j = 1 BY <2>4
        <3> QED BY <3>1, <3>2, <3>3 DEF SourceLines
    <2>9. n \in own BY <2>6 DEF SourceLines, Home
    <2>10. own = ls BY <2>7, <2>8
    <2>11. /\ Unlocated = {} /\ Cited(el) = el.first .. el.last
           /\ Cited([first |-> el.first, last |-> el.first]) = el.first .. el.first
        BY LinesCited
    <2>12. n = el.first /\ own \subseteq n .. el.last
        <3>1. n \in el.first .. el.first BY <2>1, <2>11 DEF Traced
        <3>2. SourceLines(TokensOf(el.text) \ Unlocated) = own BY <2>11
        <3>3. own \subseteq Cited(el) BY <2>1, <3>2 DEF Traced
        <3>4. n = el.first
            <4> HIDE DEF n, el
            <4> QED BY <2>1, <3>1
        <3> HIDE DEF own, n, el
        <3> QED BY <2>11, <3>3, <3>4
    <2> HIDE DEF el, own, m
    <2>13. n \in ls /\ ls \in SUBSET Nat /\ \A l \in ls : n <= l /\ l \in Nat
        <3>1. \A l \in ls : n <= l /\ l \in Nat BY <2>1, <2>10, <2>12
        <3> QED BY <2>9, <2>10, <3>1
    <2>14. Min(ls) = n
        <3> HIDE DEF n
        <3>1. Min(ls) \in ls /\ \A f \in ls : Min(ls) <= f BY <2>13, MinIsLeast
        <3>2. Min(ls) \in Nat /\ Min(ls) <= n /\ n <= Min(ls) /\ n \in Nat BY <2>13, <3>1
        <3> QED BY <3>2
    <2>15. {l \in ls : Kind(l) = "stamp"} \subseteq {n} BY <2>2, <2>10 DEF OfRecord, own
    <2>16. Kind(n) = "stamp" \/ \A l \in 1 .. n - 1 : ~ Solid(l) BY <2>2 DEF OfRecord
    <2>17. ASSUME NEW l \in Lines, l > n, Solid(l), {h \in n + 1 .. l : Kind(h) = "stamp"} = {},
                  ~ Cut(el)
           PROVE  l \in ls
        <3>1. l <= el.last
            <4> SUFFICES ASSUME l > el.last PROVE FALSE BY <2>1, <2>5
            <4>1. el.last + 1 \in n + 1 .. l /\ el.last + 1 \in Lines
                BY <2>1, <2>5, <2>6, <2>9, <2>12
            <4>2. Kind(el.last + 1) = "stamp" BY <2>2, <4>1 DEF OfRecord
            <4> QED BY <2>17, <4>1, <4>2
        <3>2. l \in Cited(el) BY <2>1, <2>5, <2>11, <2>12, <2>17, <3>1
        <3> QED BY <2>1, <2>10, <2>17, <3>2 DEF Traced, own
    <2> QED BY <2>3, <2>13, <2>14, <2>15, <2>16, <2>17 DEF m, el
<1> QED BY <1>1, WorkerInvariant, PTL

-----------------------------------------------------------------------------
(* What the outcome of a file rests on. *)

Past == {"parsed", "chunking", "chunked"}

\* An odd number of lines of a kind before a line: it is within a fence, or a quoted field.
OddBefore(kind, l) == Cardinality({f \in 1 .. l - 1 : Kind(f) = kind}) % 2 = 1

\* The element has all of the line, or was cut.
Holds(el, l) ==
    \/ TokensOf(LineTokens(l)) \subseteq TokensOf(el.text)
    \/ Cut(el) /\ l \in Cited(el) \cup SourceLines(TokensOf(el.text))

\* One that is going to be chunked does.
Carried(es, l) == \E e \in DOMAIN es : es[e].type # "heading" /\ Holds(es[e], l)

\* Of a file that is not a CSV file, every line of the body is gathered or held, and the
\* parser knows what is code.
LinesThen(es, buf, at, code, ph) ==
    /\ ph = "parsing" =>
        /\ doc.format = "markdown" => (code <=> OddBefore("fence", at))
        /\ \A l \in BodyLines : l < at => l \in ToSet(buf) \/ Carried(es, l)
    /\ ph \in Past => \A l \in BodyLines : Carried(es, l)

LinesDeserve == doc.format # "csv" => LinesThen(elements, buffer, line, fenced, phase)

\* The lines of a row, as they are read: all but the first are within quotes.
Run(s, l) == [n \in 1 .. l - s + 1 |-> s + n - 1]
OneRow(s, l) == ~ OddBefore("quote", s) /\ \A m \in s + 1 .. l : OddBefore("quote", m)
FitBefore(at) ==
    \A l \in Lines : l < at => \A s \in 1 .. l : OneRow(s, l) => FieldsFit(Run(s, l))

\* A row of the list starts at the line, or has it.
RowAt(list, l) == \E r \in DOMAIN list : list[r][1] = l
InRow(list, l) == \E r \in DOMAIN list : l \in ToSet(list[r])

\* Rows start outside quotes, and every line outside quotes starts one; no line is left
\* out and every field fits. Those that became elements are within the limits, and held.
RowsThen(rs, buf, at, es, ph) ==
    /\ \A r \in DOMAIN rs : ~ OddBefore("quote", rs[r][1])
    /\ ph = "parsing" =>
        /\ buf # <<>> <=> OddBefore("quote", at)
        /\ buf # <<>> => OneRow(buf[1], at - 1)
        /\ \A l \in Lines : l < at /\ ~ OddBefore("quote", l) =>
               (buf # <<>> /\ buf[1] = l) \/ RowAt(rs, l)
        /\ \A l \in Lines : l < at => l \in ToSet(buf) \/ InRow(rs, l)
        /\ FitBefore(at)
    /\ ph \in {"rows"} \cup Past =>
        /\ rs # <<>> /\ Len(rs) <= MaxRows
        /\ IF ph = "rows" THEN Len(es) <= Len(rs) ELSE Len(es) = Len(rs)
        /\ \A l \in Lines : ~ OddBefore("quote", l) => RowAt(rs, l)
        /\ \A l \in Lines : InRow(rs, l)
        /\ FitBefore(Len(doc.lines) + 1)
        /\ \A n \in DOMAIN es : Width(rs[n]) <= MaxColumns /\ RowText(rs[n]) # <<>>

RowsDeserve == doc.format = "csv" => RowsThen(rows, buffer, line, elements, phase)

\* An element of a CSV file holds its row.
RowsHeld ==
    doc.format = "csv" =>
        \A n \in DOMAIN elements : n \in DOMAIN rows =>
            \A l \in ToSet(rows[n]) : Solid(l) => Holds(elements[n], l)

\* A PDF's items have been looked at, up to the one at work.
ItemsDeserve ==
    doc.format = "pdf" =>
        /\ phase \in {"parsing"} \cup Past => \A l \in Lines : Kind(l) # "corrupt"
        /\ phase = "parsing" => \A l \in Lines : l < line => Kind(l) # "broken"
        /\ phase \in Past => \A l \in Lines : Kind(l) # "broken"

\* A line offends the tokenizer.
Offends == \E l \in Lines : Special(l)

\* The outcome, once there is one, and why.
Decided ==
    /\ phase # "failed" => failure = "none"
    /\ failure = "unexpected_processing_error" =>
           Offends \/ (doc.format = "csv" /\ ~ RowsReadable)
    /\ phase = "failed" /\ doc.format # "pdf" => ~ Extractable \/ Offends
    /\ phase = "chunked" => chunks # <<>> /\ Chunked
    /\ phase \in {"parsing", "rows"} \cup Past /\ doc.format # "pdf" => Len(doc.lines) <= MaxLines

Deserving == Decided /\ LinesDeserve /\ RowsDeserve /\ RowsHeld /\ ItemsDeserve

-----------------------------------------------------------------------------
(* Lines of a kind, and what depends on the file alone. *)

\* One line more.
LEMMA OddStep ==
    ASSUME NEW kind, NEW l \in Nat, l > 0
    PROVE  OddBefore(kind, l + 1) <=> IF Kind(l) = kind THEN ~ OddBefore(kind, l) ELSE OddBefore(kind, l)
<1> DEFINE before == {f \in 1 .. l - 1 : Kind(f) = kind}
           upto == {f \in 1 .. l + 1 - 1 : Kind(f) = kind}
<1>1. IsFiniteSet(before) /\ Cardinality(before) \in Nat /\ l \notin before
    <2>1. IsFiniteSet(1 .. l - 1) BY FS_Interval
    <2>2. before \subseteq 1 .. l - 1 OBVIOUS
    <2>3. IsFiniteSet(before) BY <2>1, <2>2, FS_Subset
    <2> QED BY <2>3, FS_CardinalityType
<1>0. /\ OddBefore(kind, l + 1) <=> Cardinality(upto) % 2 = 1
      /\ OddBefore(kind, l) <=> Cardinality(before) % 2 = 1
    BY DEF OddBefore
<1>2. CASE Kind(l) = kind
    <2>1. upto = before \cup {l} BY <1>2
    <2> HIDE DEF before, upto
    <2>2. Cardinality(upto) = Cardinality(before) + 1 BY <1>1, <2>1, FS_AddElement
    <2> DEFINE n == Cardinality(before)
               m == Cardinality(upto)
    <2>3. n \in Nat /\ m = n + 1 BY <1>1, <2>2
    <2> HIDE DEF n, m
    <2>4. m % 2 = 1 <=> ~ (n % 2 = 1) BY <2>3
    <2>5. OddBefore(kind, l + 1) <=> ~ OddBefore(kind, l) BY <1>0, <2>4 DEF n, m
    <2> QED BY <1>2, <2>5
<1>3. CASE Kind(l) # kind
    <2>1. upto = before BY <1>3
    <2> HIDE DEF before, upto
    <2>2. OddBefore(kind, l + 1) <=> OddBefore(kind, l) BY <1>0, <2>1
    <2> QED BY <1>3, <2>2
<1> QED BY <1>2, <1>3

\* None before the first.
LEMMA OddStart == \A kind : ~ OddBefore(kind, 1)
<1> SUFFICES ASSUME NEW kind PROVE ~ OddBefore(kind, 1) OBVIOUS
<1>1. {f \in 1 .. 1 - 1 : Kind(f) = kind} = {} OBVIOUS
<1>2. Cardinality({}) = 0 BY FS_EmptySet
<1> QED BY <1>1, <1>2 DEF OddBefore

\* A heading of a Markdown file stands outside code.
LEMMA HeadingOutside ==
    ASSUME NEW l \in Nat, l > 0, IsHeading(Kind(l)), l \in Lines, doc.format = "markdown"
    PROVE  l \in HeadingLines <=> ~ OddBefore("fence", l)
<1> DEFINE upto == {f \in 1 .. l : Kind(f) = "fence"}
           before == {f \in 1 .. l - 1 : Kind(f) = "fence"}
<1>1. Kind(l) # "fence" BY DEF IsHeading
<1>2. upto = before
    <2>1. \A f \in 1 .. l : f = l \/ f \in 1 .. l - 1 OBVIOUS
    <2>2. \A f \in 1 .. l - 1 : f \in 1 .. l OBVIOUS
    <2> QED BY <1>1, <2>1, <2>2
<1>3. IsFiniteSet(before) /\ Cardinality(before) \in Nat
    <2>1. IsFiniteSet(1 .. l - 1) BY FS_Interval
    <2>2. before \subseteq 1 .. l - 1 OBVIOUS
    <2>3. IsFiniteSet(before) BY <2>1, <2>2, FS_Subset
    <2> QED BY <2>3, FS_CardinalityType
<1>4. Cardinality(upto) % 2 = 0 <=> ~ (Cardinality(before) % 2 = 1)
    <2> DEFINE n == Cardinality(before)
    <2>1. n \in Nat BY <1>3
    <2> HIDE DEF n
    <2>2. n % 2 = 0 <=> ~ (n % 2 = 1) BY <2>1
    <2> QED BY <1>2, <2>2 DEF n
<1> HIDE DEF upto, before
<1>5. l \in HeadingLines <=> Cardinality(upto) % 2 = 0 BY DEF HeadingLines, upto
<1> QED BY <1>4, <1>5 DEF OddBefore, before

\* What depends on the file alone.
LEMMA SameLines ==
    ASSUME doc' = doc
    PROVE  /\ Lines' = Lines /\ BodyLines' = BodyLines /\ (Offends' <=> Offends)
           /\ \A l : Kind(l)' = Kind(l)
           /\ \A l : Solid(l)' <=> Solid(l)
           /\ \A kind, l : OddBefore(kind, l)' <=> OddBefore(kind, l)
           /\ \A row : Width(row)' = Width(row)
           /\ \A row : RowText(row)' = RowText(row)
           /\ \A row : FieldsFit(row)' <=> FieldsFit(row)
           /\ \A n : FitBefore(n)' <=> FitBefore(n)
<1>1. \A l : Kind(l)' = Kind(l) BY DEF Kind
<1>2. Lines' = Lines BY DEF Lines
<1>3. BodyLines' = BodyLines
    BY DEF BodyLines, HeadingLines, Lines, Solid, Kind
<1>4. \A kind, l : OddBefore(kind, l)' <=> OddBefore(kind, l) BY DEF OddBefore, Kind
<1>5. \A row : Width(row)' = Width(row) BY DEF Width, Kind
<1>6. \A row : RowText(row)' = RowText(row)
    BY DEF RowText, LineTokens, Solid, Lines, Special, Kind
<1>7. \A row : FieldsFit(row)' <=> FieldsFit(row)
    <2> SUFFICES ASSUME NEW row PROVE FieldsFit(row)' <=> FieldsFit(row) OBVIOUS
    <2>1. RowText(row)' = RowText(row) BY <1>6
    <2> QED BY <2>1 DEF FieldsFit
<1>8. Offends' <=> Offends BY DEF Offends, Special, Kind, Lines
<1>9. \A l : Solid(l)' <=> Solid(l) BY DEF Solid, Kind, Lines
<1>10. \A n : FitBefore(n)' <=> FitBefore(n)
    <2> SUFFICES ASSUME NEW n PROVE FitBefore(n)' <=> FitBefore(n) OBVIOUS
    <2>1. \A s, l : OneRow(s, l)' <=> OneRow(s, l) BY DEF OneRow, OddBefore, Kind
    <2>2. FitBefore(n)' <=>
              \A l \in Lines' : l < n => \A s \in 1 .. l : OneRow(s, l)' => FieldsFit(Run(s, l))'
        BY DEF FitBefore
    <2>3. \A s, l : FieldsFit(Run(s, l))' <=> FieldsFit(Run(s, l))
        BY DEF FieldsFit, Run, RowText, LineTokens, Solid, Lines, Special, Kind
    <2> QED BY <1>2, <2>1, <2>2, <2>3 DEF FitBefore
<1> QED BY <1>1, <1>2, <1>3, <1>4, <1>5, <1>6, <1>7, <1>8, <1>9, <1>10

\* And on its rows.
LEMMA SameHeld ==
    ASSUME doc' = doc, rows' = rows
    PROVE  /\ \A el, l : Holds(el, l)' <=> Holds(el, l)
           /\ \A es, l : Carried(es, l)' <=> Carried(es, l)
<1>1. \A el, l : Holds(el, l)' <=> Holds(el, l)
    BY DEF Holds, Cut, Cited, SourceLines, LineTokens, Special, Kind
<1>2. \A es, l : Carried(es, l)' <=> Carried(es, l)
    BY DEF Carried, Holds, Cut, Cited, SourceLines, LineTokens, Special, Kind
<1> QED BY <1>1, <1>2

\* The same of what decides the outcome.
LEMMA SameExtractable ==
    ASSUME doc' = doc, rows' = rows
    PROVE  (Extractable' <=> Extractable) /\ (RowsReadable' <=> RowsReadable)
<1>1. \A l : Quoted(l)' <=> Quoted(l) BY DEF Quoted, Kind
<1>0. RowsReadable' <=> RowsReadable
    BY DEF RowsReadable, Lines, Quoted, Kind, FieldsFit, RowText, LineTokens, Solid, Special
<1>2. RowsInOrder' <=> RowsInOrder
    BY <1>0 DEF RowsInOrder, Lines, Quoted, Kind, FieldsFit, RowText, LineTokens, Solid, Special
<1>3. BodyLines' = BodyLines BY SameLines
<1>4. {Kind(l) : l \in Lines}' = {Kind(l) : l \in Lines} BY DEF Lines, Kind
<1> QED BY <1>0, <1>2, <1>3, <1>4 DEF Extractable

\* What it says of rows.
LEMMA RowsInOrderSays ==
    ASSUME doc \in Files
    PROVE  RowsInOrder <=>
               /\ Lines # {}
               /\ \A l \in Lines :
                     ~ OddBefore("quote", l) => Kind(l) \notin {"blank", "empty", "wide"}
               /\ FitBefore(Len(doc.lines) + 1)
               /\ Len(rows) <= MaxRows
<1>1. Lines = 1 .. Len(doc.lines) /\ Len(doc.lines) \in Nat BY FileTokens
<1>2. \A l \in Lines : l < Len(doc.lines) + 1 BY <1>1
<1>3. \A l : Quoted(l) <=> OddBefore("quote", l) BY DEF Quoted, OddBefore
<1>4. FitBefore(Len(doc.lines) + 1)
      <=> \A l \in Lines : \A s \in 1 .. l : OneRow(s, l) => FieldsFit(Run(s, l))
    BY <1>2 DEF FitBefore
<1>5. \A s, l : OneRow(s, l) <=> ~ Quoted(s) /\ \A m \in s + 1 .. l : Quoted(m)
    BY <1>3 DEF OneRow
<1> QED BY <1>3, <1>4, <1>5 DEF RowsInOrder, RowsReadable, Run

\* And of the formats.
LEMMA ExtractableSays ==
    ASSUME doc.format \in Formats
    PROVE  /\ doc.format = "csv" =>
                  (Extractable <=> Len(doc.lines) <= MaxLines /\ RowsInOrder)
           /\ doc.format = "pdf" =>
                  (Extractable <=> /\ BodyLines # {}
                                   /\ \A l \in Lines : Kind(l) \notin {"broken", "corrupt"})
           /\ doc.format \in {"text", "markdown", "log"} =>
                  (Extractable <=> Len(doc.lines) <= MaxLines /\ BodyLines # {})
<1>1. {"broken", "corrupt"} \cap {Kind(l) : l \in Lines} = {}
      <=> \A l \in Lines : Kind(l) \notin {"broken", "corrupt"}
    OBVIOUS
<1> QED BY <1>1 DEF Extractable

\* What they have to be after a step that keeps the file, and its rows.
LEMMA LinesNext ==
    ASSUME doc' = doc, rows' = rows
    PROVE  LinesDeserve' <=>
               (doc.format # "csv" => LinesThen(elements', buffer', line', fenced', phase'))
<1>1. \A l : Carried(elements, l)' <=> Carried(elements', l)
    BY DEF Carried, Holds, Cut, Cited, SourceLines, LineTokens, Special, Kind
<1>2. OddBefore("fence", line)' <=> OddBefore("fence", line') BY DEF OddBefore, Kind
<1>3. BodyLines' = BodyLines BY SameLines
<1>4. LinesDeserve' <=>
          (doc.format # "csv" =>
             /\ phase' = "parsing" =>
                 /\ doc.format = "markdown" => (fenced' <=> OddBefore("fence", line)')
                 /\ \A l \in BodyLines' : l < line' => l \in ToSet(buffer') \/ Carried(elements, l)'
             /\ phase' \in Past => \A l \in BodyLines' : Carried(elements, l)')
    BY DEF LinesDeserve, LinesThen, Past, ToSet
<1> QED BY <1>1, <1>2, <1>3, <1>4 DEF LinesThen

-----------------------------------------------------------------------------
(* Files read line by line, or item by item. *)

\* A list that takes in an element holds no less.
LEMMA HeldByMore ==
    ASSUME NEW S, NEW es \in Seq(S), NEW el \in S, NEW l
    PROVE  /\ Carried(es, l) => Carried(Append(es, el), l)
           /\ el.type # "heading" /\ Holds(el, l) => Carried(Append(es, el), l)
<1> DEFINE more == Append(es, el)
<1>1. /\ \A e \in DOMAIN es : e \in DOMAIN more /\ more[e] = es[e]
      /\ Len(es) + 1 \in DOMAIN more /\ more[Len(es) + 1] = el
    OBVIOUS
<1> HIDE DEF more
<1>2. Carried(es, l) => Carried(more, l) BY <1>1 DEF Carried
<1>3. el.type # "heading" /\ Holds(el, l) => Carried(more, l) BY <1>1 DEF Carried
<1> QED BY <1>2, <1>3 DEF more

\* The lines that were gathered are held by their element.
LEMMA TextHolds ==
    ASSUME doc \in Files, doc.format \in {"text", "markdown", "log"},
           NEW type \in {"paragraph", "code", "log_record"}, NEW path \in Seq(HeadingTokens),
           NEW n \in Nat, NEW last \in Nat,
           NEW ls, Begun(ls, n), \A j \in DOMAIN ls : ls[j] <= last,
           NEW el, el = Element(type, TextOf(ls), path, n, last)
    PROVE  /\ el.type = type /\ el \in Elements
           /\ \A l \in ToSet(ls) : Solid(l) => Holds(el, l)
<1>L. Len(doc.lines) \in Nat /\ Lines = 1 .. Len(doc.lines) BY FileTokens
<1>1. ls \in Seq(Lines) /\ ls # <<>> /\ ls[1] = n /\ Solid(n) BY DEF Begun
<1> DEFINE L == ToSet(ls)
<1>2. /\ MadeOf(TextOf(ls), n, L)
      /\ \A j \in DOMAIN ls : Solid(ls[j]) => TokensOf(LineTokens(ls[j])) \subseteq TokensOf(TextOf(ls))
    BY <1>1, TokensOfLines
<1>3. type \in ElementType BY DEF ElementType
<1>4. /\ Sound(el) /\ el.type = type /\ el.first = n /\ el.last = last
      /\ (Cut(el) \/ el.text = TextOf(ls))
    <2> HIDE DEF L
    <2> QED BY <1>2, <1>3, MadeElement
<1>5. ASSUME NEW l \in ToSet(ls), Solid(l) PROVE Holds(el, l)
    <2>1. PICK j \in DOMAIN ls : l = ls[j] BY DEF ToSet
    <2>2. TokensOf(LineTokens(l)) \subseteq TokensOf(TextOf(ls)) BY <1>2, <1>5, <2>1
    <2>3. l \in n .. last
        <3>1. l \in Nat /\ l <= last BY <1>1, <1>L, <2>1
        <3>2. n <= l
            <4>1. CASE j = 1 BY <1>1, <2>1, <3>1, <4>1
            <4>2. CASE j # 1
                <5>1. j \in 2 .. Len(ls) BY <1>1, <4>2
                <5>2. n < l BY <2>1, <5>1 DEF Begun
                <5> QED BY <3>1, <5>2
            <4> QED BY <4>1, <4>2
        <3> QED BY <3>1, <3>2
    <2>4. l \in Cited(el) BY <1>4, <2>3, LinesCited
    <2> QED BY <1>4, <2>2, <2>4 DEF Holds
<1> QED BY <1>4, <1>5 DEF Sound

\* So are those that are flushed.
LEMMA FlushedHolds ==
    ASSUME doc \in Files, doc.format \in {"text", "markdown", "log"}, Reading, phase = "parsing",
           NEW type \in {"paragraph", "code", "log_record"},
           NEW last \in Nat, line - 1 <= last,
           NEW l \in BodyLines, l \in ToSet(buffer) \/ Carried(elements, l)
    PROVE  Carried(Flushed(type, last), l)
<1>1. /\ line \in Nat /\ line > 0 /\ buffer \in Seq(1 .. line - 1) /\ elements \in Seq(Elements)
      /\ hierarchy \in Seq(HeadingTokens) /\ from \in Nat /\ Ahead
    BY AtLine DEF Reading, Lists
<1>2. CASE buffer = <<>>
    <2>1. ToSet(buffer) = {} BY <1>2 DEF ToSet
    <2> QED BY <1>2, <2>1 DEF Flushed
<1>3. CASE buffer # <<>>
    <2> DEFINE el == Element(type, TextOf(buffer), hierarchy, from, last)
    <2>1. Begun(buffer, from) BY <1>1, <1>3 DEF Ahead
    <2>2. \A j \in DOMAIN buffer : buffer[j] <= last
        <3>1. \A j \in DOMAIN buffer : buffer[j] \in 1 .. line - 1 BY <1>1
        <3> QED BY <1>1, <3>1
    <2>3. Flushed(type, last) = Append(elements, el) BY <1>3 DEF Flushed
    <2>4. el = Element(type, TextOf(buffer), hierarchy, from, last) OBVIOUS
    <2> HIDE DEF el
    <2>5. /\ el.type = type /\ el \in Elements
          /\ \A h \in ToSet(buffer) : Solid(h) => Holds(el, h)
        BY <1>1, <2>1, <2>2, <2>4, TextHolds
    <2>6. Solid(l) BY DEF BodyLines
    <2> QED BY <1>1, <2>3, <2>5, <2>6, HeldByMore
<1> QED BY <1>2, <1>3

\* What a step to the next line has to see to.
LEMMA NextLineDeserves ==
    ASSUME doc \in Files, doc' = doc, doc.format \in {"text", "markdown", "log"},
           Reading, phase = "parsing", Deserving,
           line' = line + 1, phase' = phase, failure' = failure, rows' = rows,
           doc.format = "markdown" =>
               (fenced' <=> IF Kind(line) = "fence" THEN ~ fenced ELSE fenced),
           \A l \in BodyLines : l \in ToSet(buffer) \/ Carried(elements, l) \/ l = line =>
               l \in ToSet(buffer') \/ Carried(elements', l)
    PROVE  Deserving'
<1>L. line \in Nat /\ line > 0 BY AtLine
<1>T. LinesThen(elements, buffer, line, fenced, phase) BY DEF Deserving, LinesDeserve
<1>1. Decided'
    BY SameLines, SameExtractable DEF Deserving, Decided, Past
<1>2. doc.format = "markdown" => (fenced' <=> OddBefore("fence", line'))
    <2>1. doc.format = "markdown" => (OddBefore("fence", line) <=> fenced)
        BY <1>T DEF LinesThen
    <2> QED BY <1>L, <2>1, OddStep
<1>3. ASSUME NEW l \in BodyLines, l < line' PROVE l \in ToSet(buffer') \/ Carried(elements', l)
    <2>1. l \in Nat
        <3>1. l \in Lines BY DEF BodyLines
        <3> QED BY <3>1, FileTokens
    <2>2. l < line \/ l = line BY <1>L, <1>3, <2>1
    <2> QED BY <1>T, <2>2 DEF LinesThen
<1>4. LinesThen(elements', buffer', line', fenced', phase') BY <1>2, <1>3 DEF LinesThen, Past
<1>5. LinesDeserve' BY <1>4, LinesNext
<1> QED BY <1>1, <1>5 DEF Deserving, RowsDeserve, RowsHeld, ItemsDeserve

\* And the step at the end.
LEMMA LastLineDeserves ==
    ASSUME doc \in Files, doc' = doc, doc.format \in {"text", "markdown", "log"},
           Reading, phase = "parsing", Deserving, line > Len(doc.lines), rows' = rows,
           phase' \in {"parsed", "failed"},
           phase' = "parsed" => failure' = failure,
           phase' = "failed" => failure' = "processing_failed" /\ elements' = <<>>,
           \A l \in BodyLines : l \in ToSet(buffer) \/ Carried(elements, l) => Carried(elements', l)
    PROVE  Deserving'
<1>L. line \in Nat /\ Len(doc.lines) \in Nat /\ Lines = 1 .. Len(doc.lines) BY AtLine
<1>T. LinesThen(elements, buffer, line, fenced, phase) BY DEF Deserving, LinesDeserve
<1>2. ASSUME NEW l \in BodyLines PROVE Carried(elements', l)
    <2>1. l \in Lines BY DEF BodyLines
    <2>2. l < line BY <1>L, <2>1
    <2> QED BY <1>T, <2>2 DEF LinesThen
<1>3. elements' = <<>> => BodyLines = {}
    <2>1. elements' = <<>> => \A l : ~ Carried(elements', l) BY DEF Carried
    <2> QED BY <1>2, <2>1
<1>4. phase' = "failed" => ~ Extractable'
    <2>1. doc.format \in Formats BY FileTokens
    <2>2. phase' = "failed" => ~ Extractable BY <1>3, <2>1, ExtractableSays
    <2> QED BY <2>2, SameExtractable
<1>5. failure = "none" /\ Len(doc.lines) <= MaxLines
    BY DEF Deserving, Decided
<1>6. Decided' BY <1>4, <1>5 DEF Decided, Past
<1>7. LinesThen(elements', buffer', line', fenced', phase') BY <1>2 DEF LinesThen
<1>8. LinesDeserve' BY <1>7, LinesNext
<1> QED BY <1>6, <1>8 DEF Deserving, RowsDeserve, RowsHeld, ItemsDeserve

\* Each step over the lines of a text, Markdown or log file does.
LEMMA LinesStep ==
    ASSUME doc \in Files, doc' = doc, Reading, Deserving, elements' \in Seq(Elements),
           \/ PlainText \/ PlainTextEnd
           \/ MarkdownFence \/ MarkdownCode \/ MarkdownHeading \/ MarkdownText \/ MarkdownEnd
           \/ LogLine \/ LogEnd
    PROVE  Deserving'
<1>P. phase = "parsing" /\ doc.format \in {"text", "markdown", "log"} /\ rows' = rows
    BY DEF PlainText, PlainTextEnd, MarkdownFence, MarkdownCode, MarkdownHeading,
           MarkdownText, MarkdownEnd, AtMarkdown, LogLine, LogEnd, Parsing
<1>L. /\ line \in Nat /\ Len(doc.lines) \in Nat /\ line - 1 \in Nat /\ line - 1 <= line - 1
      /\ line <= Len(doc.lines) + 1 /\ line - 1 <= Len(doc.lines)
      /\ line <= Len(doc.lines) => line \in Lines
      /\ buffer \in Seq(Nat) /\ elements \in Seq(Elements) /\ elements' \in Seq(Elements)
    BY <1>P, AtLine, AtWork DEF Reading, Lists
<1>G. /\ \A l : l \in ToSet(buffer) \/ l = line => l \in ToSet(Append(buffer, line))
      /\ line \in ToSet(<<line>>)
    <2> DEFINE ls == Append(buffer, line)
               one == <<line>>
    <2>1. /\ \A j \in DOMAIN buffer : j \in DOMAIN ls /\ ls[j] = buffer[j]
          /\ Len(buffer) + 1 \in DOMAIN ls /\ ls[Len(buffer) + 1] = line
        BY <1>L
    <2>2. 1 \in DOMAIN one /\ one[1] = line OBVIOUS
    <2> HIDE DEF ls, one
    <2>3. \A l : l \in ToSet(buffer) \/ l = line => l \in ToSet(ls) BY <2>1 DEF ToSet
    <2>4. line \in ToSet(one) BY <2>2 DEF ToSet
    <2> QED BY <2>3, <2>4 DEF ls, one
<1>N. \A l \in BodyLines : Solid(l) /\ l \notin HeadingLines
    BY DEF BodyLines
<1>F. \A type \in {"paragraph", "code", "log_record"} :
          \A l \in BodyLines : l \in ToSet(buffer) \/ Carried(elements, l) =>
              Carried(Flushed(type, line - 1), l) /\ Carried(Flushed(type, Len(doc.lines)), l)
    BY <1>P, <1>L, FlushedHolds
<1>1. CASE PlainText
    <2>1. /\ doc.format = "text" /\ line' = line + 1 /\ phase' = phase /\ failure' = failure
          /\ IF Solid(line) THEN buffer' = Append(buffer, line) /\ elements' = elements
             ELSE elements' = Flushed("paragraph", line - 1)
        BY <1>1 DEF PlainText, Parsing, NextLine, Gathered
    <2>2. \A l \in BodyLines : l \in ToSet(buffer) \/ Carried(elements, l) \/ l = line =>
              l \in ToSet(buffer') \/ Carried(elements', l)
        BY <1>F, <1>G, <1>N, <2>1
    <2> QED BY <1>P, <2>1, <2>2, NextLineDeserves
<1>2. CASE PlainTextEnd
    <2>1. /\ line > Len(doc.lines) /\ elements' = Flushed("paragraph", line - 1)
          /\ \/ phase' = "parsed" /\ failure' = failure
             \/ phase' = "failed" /\ failure' = "processing_failed" /\ elements' = <<>>
        BY <1>2 DEF PlainTextEnd, Parsed, Fail
    <2>2. \A l \in BodyLines : l \in ToSet(buffer) \/ Carried(elements, l) => Carried(elements', l)
        BY <1>F, <2>1
    <2> QED BY <1>P, <2>1, <2>2, LastLineDeserves
<1>3. CASE MarkdownFence
    <2>1. /\ line' = line + 1 /\ phase' = phase /\ failure' = failure /\ fenced' = ~ fenced
          /\ Kind(line) = "fence" /\ line <= Len(doc.lines) /\ doc.format = "markdown"
          /\ IF fenced
             THEN elements' = Append(elements,
                    Element("code", TextOf(Append(buffer, line)), hierarchy, from, line))
             ELSE elements' = Flushed("paragraph", line - 1) /\ buffer' = <<line>>
        BY <1>3 DEF MarkdownFence, NextLine, AtMarkdown, Parsing
    <2>2. \A l \in BodyLines : l \in ToSet(buffer) \/ Carried(elements, l) \/ l = line =>
              l \in ToSet(buffer') \/ Carried(elements', l)
        <3>1. CASE ~ fenced BY <1>F, <1>G, <2>1, <3>1
        <3>2. CASE fenced
            <4> DEFINE ls == Append(buffer, line)
                       el == Element("code", TextOf(ls), hierarchy, from, line)
            <4>1. buffer # <<>> /\ from \in Nat /\ hierarchy \in Seq(HeadingTokens)
                BY <1>P, <3>2, AtWork
            <4>2. ls \in Seq(1 .. line) /\ Begun(ls, from) BY <1>P, <2>1, <4>1, GatheredLine
            <4>3. elements' = Append(elements, el) BY <2>1, <3>2
            <4>4. \A l : l \in ToSet(buffer) \/ l = line => l \in ToSet(ls) BY <1>G
            <4>5. el = Element("code", TextOf(ls), hierarchy, from, line) OBVIOUS
            <4> HIDE DEF ls, el
            <4>6. \A j \in DOMAIN ls : ls[j] <= line BY <1>L, <4>2
            <4>7. /\ el.type = "code" /\ el \in Elements
                  /\ \A l \in ToSet(ls) : Solid(l) => Holds(el, l)
                BY <1>P, <1>L, <4>1, <4>2, <4>5, <4>6, TextHolds
            <4>8. \A l : Carried(elements, l) \/ Holds(el, l) => Carried(elements', l)
                BY <1>L, <4>3, <4>7, HeldByMore
            <4> QED BY <1>N, <4>4, <4>7, <4>8
        <3> QED BY <3>1, <3>2
    <2>3. fenced' <=> IF Kind(line) = "fence" THEN ~ fenced ELSE fenced BY <2>1
    <2> QED BY <1>P, <2>1, <2>2, <2>3, NextLineDeserves
<1>4. CASE MarkdownCode
    <2>1. /\ line' = line + 1 /\ phase' = phase /\ failure' = failure /\ fenced' = fenced
          /\ Kind(line) # "fence" /\ buffer' = Append(buffer, line) /\ elements' = elements
        BY <1>4 DEF MarkdownCode, NextLine
    <2>2. \A l \in BodyLines : l \in ToSet(buffer) \/ Carried(elements, l) \/ l = line =>
              l \in ToSet(buffer') \/ Carried(elements', l)
        BY <1>G, <2>1
    <2> QED BY <1>P, <2>1, <2>2, NextLineDeserves
<1>5. CASE MarkdownHeading
    <2> DEFINE flushed == Flushed("paragraph", line - 1)
               el == Element("heading", LineTokens(line), Descend(Level(Kind(line))), line, line)
    <2>1. /\ line' = line + 1 /\ phase' = phase /\ failure' = failure /\ fenced' = fenced
          /\ IsHeading(Kind(line)) /\ line <= Len(doc.lines) /\ doc.format = "markdown" /\ ~ fenced
          /\ elements' = Append(flushed, el)
        BY <1>5 DEF MarkdownHeading, NextLine, AtMarkdown, Parsing
    <2>2. flushed \in Seq(Elements)
        <3>1. Lists(flushed) BY <1>P, <1>L, <2>1, FlushedLists
        <3> QED BY <3>1 DEF Lists
    <2>3. \A l \in BodyLines : l \in ToSet(buffer) \/ Carried(elements, l) => Carried(flushed, l)
        BY <1>F
    <2> HIDE DEF flushed, el
    <2>4. ASSUME NEW l, Carried(flushed, l) PROVE Carried(elements', l)
        <3>1. \A e \in DOMAIN flushed : e \in DOMAIN elements' /\ elements'[e] = flushed[e]
            BY <2>1, <2>2, KeptByLonger
        <3> QED BY <2>4, <3>1 DEF Carried
    <2>5. line \notin BodyLines
        <3>1. ~ OddBefore("fence", line) BY <1>P, <2>1 DEF Deserving, LinesDeserve, LinesThen
        <3>2. line \in HeadingLines BY <1>P, <1>L, <2>1, <3>1, AtLine, HeadingOutside
        <3> QED BY <1>N, <3>2
    <2>6. Kind(line) # "fence" BY <2>1 DEF IsHeading
    <2> QED BY <1>P, <2>1, <2>3, <2>4, <2>5, <2>6, NextLineDeserves
<1>6. CASE MarkdownText
    <2>1. /\ line' = line + 1 /\ phase' = phase /\ failure' = failure /\ fenced' = fenced
          /\ Kind(line) # "fence"
          /\ IF Solid(line) THEN buffer' = Append(buffer, line) /\ elements' = elements
             ELSE elements' = Flushed("paragraph", line - 1)
        BY <1>6 DEF MarkdownText, NextLine, Gathered
    <2>2. \A l \in BodyLines : l \in ToSet(buffer) \/ Carried(elements, l) \/ l = line =>
              l \in ToSet(buffer') \/ Carried(elements', l)
        BY <1>F, <1>G, <1>N, <2>1
    <2> QED BY <1>P, <2>1, <2>2, NextLineDeserves
<1>7. CASE MarkdownEnd
    <2> DEFINE type == IF fenced THEN "code" ELSE "paragraph"
    <2>1. /\ line > Len(doc.lines) /\ elements' = Flushed(type, Len(doc.lines))
          /\ \/ phase' = "parsed" /\ failure' = failure
             \/ phase' = "failed" /\ failure' = "processing_failed" /\ elements' = <<>>
        BY <1>7 DEF MarkdownEnd, Parsed, Fail
    <2>2. type \in {"paragraph", "code", "log_record"} OBVIOUS
    <2> HIDE DEF type
    <2>3. \A l \in BodyLines : l \in ToSet(buffer) \/ Carried(elements, l) => Carried(elements', l)
        BY <1>F, <2>1, <2>2
    <2> QED BY <1>P, <2>1, <2>3, LastLineDeserves
<1>8. CASE LogLine
    <2> DEFINE kept == IF Stamp(line) THEN <<>> ELSE buffer
    <2>1. /\ line' = line + 1 /\ phase' = phase /\ failure' = failure /\ doc.format = "log"
          /\ elements' = (IF Stamp(line) THEN Flushed("log_record", line - 1) ELSE elements)
          /\ buffer' = (IF Solid(line) THEN Append(kept, line) ELSE kept)
        BY <1>8 DEF LogLine, NextLine, Parsing
    <2>2. line \in ToSet(Append(<<>>, line))
        <3>1. Append(<<>>, line) = <<line>> OBVIOUS
        <3> QED BY <1>G, <3>1
    <2>3. ASSUME NEW l \in BodyLines, l \in ToSet(buffer) \/ Carried(elements, l) \/ l = line
          PROVE  l \in ToSet(buffer') \/ Carried(elements', l)
        <3>1. CASE l = line
            <4>1. Solid(line) BY <1>N, <3>1
            <4> QED BY <1>G, <2>1, <2>2, <3>1, <4>1
        <3>2. CASE Stamp(line) /\ l # line BY <1>F, <2>1, <2>3, <3>2
        <3>3. CASE ~ Stamp(line) /\ l # line
            <4>1. elements' = elements /\ buffer' \in {buffer, Append(buffer, line)} BY <2>1, <3>3
            <4> QED BY <1>G, <2>3, <3>3, <4>1
        <3> QED BY <3>1, <3>2, <3>3
    <2> QED BY <1>P, <2>1, <2>3, NextLineDeserves
<1>9. CASE LogEnd
    <2>1. /\ line > Len(doc.lines)
          /\ elements' = Flushed("log_record", Len(doc.lines))
          /\ \/ phase' = "parsed" /\ failure' = failure
             \/ phase' = "failed" /\ failure' = "processing_failed" /\ elements' = <<>>
        BY <1>9 DEF LogEnd, Parsed, Fail
    <2>2. \A l \in BodyLines : l \in ToSet(buffer) \/ Carried(elements, l) => Carried(elements', l)
        BY <1>F, <2>1
    <2> QED BY <1>P, <2>1, <2>2, LastLineDeserves
<1> QED BY <1>1, <1>2, <1>3, <1>4, <1>5, <1>6, <1>7, <1>8, <1>9

-----------------------------------------------------------------------------
(* The rows of a CSV file. *)

\* A row that is too wide, or empty, is one line that says so.
LEMMA BadRow ==
    ASSUME doc \in Files, NEW row \in Seq(Lines), RowStarts(row),
           Width(row) > MaxColumns \/ RowText(row) = <<>>
    PROVE  Kind(row[1]) \in {"blank", "empty", "wide"}
<1>1. MaxColumns \in Nat /\ MaxColumns > 1 BY ParsersAssumption
<1>2. CASE RowText(row) = <<>>
    <2>1. ~ Solid(row[1]) \/ Quotes(row) BY <1>2, EmptyRow
    <2>2. row[1] \in Lines BY DEF RowStarts
    <2> QED BY <2>1, <2>2 DEF Solid, Quotes
<1>3. CASE Width(row) > MaxColumns
    <2> SUFFICES ASSUME Kind(row[1]) # "wide" PROVE FALSE OBVIOUS
    <2>1. CASE Len(row) > 1
        <3>1. Width(row) = 2 BY <2>1 DEF Width
        <3> QED BY <1>1, <1>3, <3>1
    <2>2. CASE ~ (Len(row) > 1)
        <3>1. Width(row) \in {0, 1, 2} BY <2>2 DEF Width
        <3> QED BY <1>1, <1>3, <3>1
    <2> QED BY <2>1, <2>2
<1> QED BY <1>2, <1>3

\* A good row starts with a line that is neither.
LEMMA GoodRow ==
    ASSUME doc \in Files, NEW row \in Seq(Lines), RowStarts(row),
           Width(row) <= MaxColumns, RowText(row) # <<>>
    PROVE  Kind(row[1]) \notin {"blank", "empty", "wide"}
<1>1. MaxColumns \in Nat /\ Len(row) \in Nat /\ Len(row) > 0
    <2>1. Len(row) \in Nat /\ row # <<>> BY DEF RowStarts
    <2>2. Len(row) # 0 BY <2>1
    <2> QED BY <2>1, <2>2, ParsersAssumption
<1>2. Solid(row[1]) /\ ~ Quotes(row) BY EmptyRow
<1>3. CASE Len(row) > 1 BY <1>2, <1>3 DEF RowStarts, Solid
<1>4. CASE ~ (Len(row) > 1)
    <2>0. Len(row) = 1
        <3> DEFINE n == Len(row)
        <3>1. n \in Nat /\ n > 0 /\ ~ (n > 1) BY <1>1, <1>4
        <3> HIDE DEF n
        <3>2. n = 1 BY <3>1
        <3> QED BY <3>2 DEF n
    <2>1. Kind(row[1]) # "empty" BY <1>2, <2>0 DEF Quotes
    <2>2. Kind(row[1]) = "wide" => Width(row) = MaxColumns + 1 BY <1>4 DEF Width
    <2> QED BY <1>1, <1>2, <2>1, <2>2 DEF Solid
<1> QED BY <1>3, <1>4

\* A sequence is the list of its members.
LEMMA SequenceIsItsList ==
    ASSUME NEW S, NEW list \in Seq(S)
    PROVE  list = [j \in 1 .. Len(list) |-> list[j]]
OBVIOUS

\* The row being read runs from its first line to the one at hand, as no other does.
LEMMA RowAtHand ==
    ASSUME doc \in Files, doc.format = "csv", Reading, RowsReading, RowsDeserve,
           phase = "parsing", line <= Len(doc.lines), NEW row, row = Append(buffer, line)
    PROVE  /\ row[1] \in 1 .. line /\ OneRow(row[1], line) /\ row = Run(row[1], line)
           /\ \A q \in 1 .. line : OneRow(q, line) => q = row[1]
           /\ buffer # <<>> => row[1] = buffer[1]
<1>1. /\ row \in Seq(Lines) /\ row \in Seq(1 .. line)
      /\ Len(row) = Len(buffer) + 1 /\ Len(buffer) \in Nat
      /\ row[1] = line - Len(buffer) /\ Consecutive(row) /\ row[1] \in Nat
      /\ buffer = <<>> => Len(row) = 1
    BY RowSoFar
<1>2. /\ line \in Nat /\ line > 0
      /\ buffer # <<>> => buffer[1] + Len(buffer) = line
      /\ buffer \in Seq(Nat)
    BY AtLine DEF RowsReading, Reading
<1>3. /\ buffer # <<>> <=> OddBefore("quote", line)
      /\ buffer # <<>> => OneRow(buffer[1], line - 1)
    BY DEF RowsDeserve, RowsThen
<1>4. buffer # <<>> => row[1] = buffer[1]
    <2> SUFFICES ASSUME buffer # <<>> PROVE row[1] = buffer[1] OBVIOUS
    <2>1. buffer[1] \in Nat BY <1>2
    <2> QED BY <1>1, <1>2, <2>1
<1>5. row[1] \in 1 .. line
    <2>1. 1 \in DOMAIN row BY <1>1
    <2> QED BY <1>1, <2>1
<1>6. row = Run(row[1], line)
    <2>1. Len(row) = line - row[1] + 1 /\ DOMAIN row = 1 .. Len(row) BY <1>1, <1>2
    <2>2. \A j \in DOMAIN row : row[j] = row[1] + j - 1 BY <1>1 DEF Consecutive
    <2>3. row = [j \in 1 .. Len(row) |-> row[j]]
        <3> DEFINE S == Lines
        <3>1. row \in Seq(S) BY <1>1
        <3> HIDE DEF S
        <3> QED BY <3>1, SequenceIsItsList
    <2> QED BY <2>1, <2>2, <2>3 DEF Run
<1>7. OneRow(row[1], line)
    <2>1. CASE buffer = <<>>
        <3>1. row[1] = line BY <1>1, <1>2, <2>1
        <3>2. row[1] + 1 .. line = {} BY <1>2, <3>1
        <3> QED BY <1>3, <2>1, <3>1, <3>2 DEF OneRow
    <2>2. CASE buffer # <<>>
        <3>1. ~ OddBefore("quote", row[1]) BY <1>3, <1>4, <2>2 DEF OneRow
        <3>2. ASSUME NEW m \in row[1] + 1 .. line PROVE OddBefore("quote", m)
            <4>1. m = line \/ m \in row[1] + 1 .. line - 1 BY <1>1, <1>2
            <4> QED BY <1>3, <1>4, <2>2, <4>1 DEF OneRow
        <3> QED BY <3>1, <3>2 DEF OneRow
    <2> QED BY <2>1, <2>2
<1>8. ASSUME NEW q \in 1 .. line, OneRow(q, line) PROVE q = row[1]
    <2>1. ~ (q < row[1])
        <3>1. q < row[1] => row[1] \in q + 1 .. line BY <1>1, <1>5
        <3> QED BY <1>7, <1>8, <3>1 DEF OneRow
    <2>2. ~ (row[1] < q)
        <3>1. row[1] < q => q \in row[1] + 1 .. line BY <1>1, <1>5
        <3> QED BY <1>7, <1>8, <3>1 DEF OneRow
    <2> QED BY <1>1, <2>1, <2>2
<1> QED BY <1>4, <1>5, <1>6, <1>7, <1>8

\* A list of rows that takes one in.
LEMMA RowsGrow ==
    ASSUME NEW S, NEW list \in Seq(S), NEW row \in S
    PROVE  /\ \A l : RowAt(list, l) \/ row[1] = l => RowAt(Append(list, row), l)
           /\ \A l : InRow(list, l) \/ l \in ToSet(row) => InRow(Append(list, row), l)
           /\ \A r \in DOMAIN Append(list, row) :
                  (r \in DOMAIN list /\ Append(list, row)[r] = list[r])
                  \/ Append(list, row)[r] = row
<1> DEFINE more == Append(list, row)
<1>1. /\ \A r \in DOMAIN list : r \in DOMAIN more /\ more[r] = list[r]
      /\ Len(list) + 1 \in DOMAIN more /\ more[Len(list) + 1] = row
      /\ \A r \in DOMAIN more : r \in DOMAIN list \/ r = Len(list) + 1
    OBVIOUS
<1> HIDE DEF more
<1>2. \A l : RowAt(list, l) \/ row[1] = l => RowAt(more, l) BY <1>1 DEF RowAt
<1>3. \A l : InRow(list, l) \/ l \in ToSet(row) => InRow(more, l) BY <1>1 DEF InRow
<1>4. \A r \in DOMAIN more : (r \in DOMAIN list /\ more[r] = list[r]) \/ more[r] = row
    BY <1>1
<1> QED BY <1>2, <1>3, <1>4 DEF more

\* What they have to be after a step that keeps the file.
LEMMA RowsNext ==
    ASSUME doc' = doc, doc.format = "csv"
    PROVE  RowsDeserve' <=> RowsThen(rows', buffer', line', elements', phase')
<1>1. Lines' = Lines BY DEF Lines
<1>2. \A n : Width(rows[n])' = Width(rows'[n]) BY DEF Width, Kind
<1>3. \A n : RowText(rows[n])' = RowText(rows'[n])
    BY DEF RowText, LineTokens, Solid, Lines, Special, Kind
<1>4. \A r : OddBefore("quote", rows[r][1])' <=> OddBefore("quote", rows'[r][1])
    BY DEF OddBefore, Kind
<1>5. /\ OddBefore("quote", line)' <=> OddBefore("quote", line')
      /\ \A l : OddBefore("quote", l)' <=> OddBefore("quote", l)
      /\ OneRow(buffer[1], line - 1)' <=> OneRow(buffer'[1], line' - 1)
    BY DEF OneRow, OddBefore, Kind
<1>6. \A l : (RowAt(rows, l)' <=> RowAt(rows', l)) /\ (InRow(rows, l)' <=> InRow(rows', l))
    BY DEF RowAt, InRow, ToSet
<1>7. FitBefore(line)' <=> FitBefore(line')
    BY DEF FitBefore, OneRow, OddBefore, FieldsFit, Run, RowText, LineTokens, Solid, Lines,
           Special, Kind
<1>8. FitBefore(Len(doc.lines) + 1)' <=> FitBefore(Len(doc.lines) + 1)
    BY DEF FitBefore, OneRow, OddBefore, FieldsFit, Run, RowText, LineTokens, Solid, Lines,
           Special, Kind
<1>9. RowsDeserve' <=>
        /\ \A r \in DOMAIN rows' : ~ OddBefore("quote", rows[r][1])'
        /\ phase' = "parsing" =>
            /\ buffer' # <<>> <=> OddBefore("quote", line)'
            /\ buffer' # <<>> => OneRow(buffer[1], line - 1)'
            /\ \A l \in Lines' : l < line' /\ ~ OddBefore("quote", l)' =>
                   (buffer' # <<>> /\ buffer'[1] = l) \/ RowAt(rows, l)'
            /\ \A l \in Lines' : l < line' => l \in ToSet(buffer') \/ InRow(rows, l)'
            /\ FitBefore(line)'
        /\ phase' \in {"rows"} \cup Past =>
            /\ rows' # <<>> /\ Len(rows') <= MaxRows
            /\ IF phase' = "rows" THEN Len(elements') <= Len(rows') ELSE Len(elements') = Len(rows')
            /\ \A l \in Lines' : ~ OddBefore("quote", l)' => RowAt(rows, l)'
            /\ \A l \in Lines' : InRow(rows, l)'
            /\ FitBefore(Len(doc.lines) + 1)'
            /\ \A n \in DOMAIN elements' : Width(rows[n])' <= MaxColumns /\ RowText(rows[n])' # <<>>
    BY DEF RowsDeserve, RowsThen, Past, ToSet
<1> QED BY <1>1, <1>2, <1>3, <1>4, <1>5, <1>6, <1>7, <1>8, <1>9 DEF RowsThen

\* The same of what Extractable says of rows.
LEMMA OrderNext ==
    ASSUME doc \in Files, doc' = doc
    PROVE  RowsInOrder' <=>
               /\ Lines # {}
               /\ \A l \in Lines :
                     ~ OddBefore("quote", l) => Kind(l) \notin {"blank", "empty", "wide"}
               /\ FitBefore(Len(doc.lines) + 1)
               /\ Len(rows') <= MaxRows
<1> DEFINE Fitting == \A l \in Lines : \A s \in 1 .. l :
                          ~ Quoted(s) /\ (\A m \in s + 1 .. l : Quoted(m))
                          => FieldsFit([n \in 1 .. l - s + 1 |-> s + n - 1])
           Ordinary == /\ Lines # {}
                       /\ \A l \in Lines : ~ Quoted(l) => Kind(l) \notin {"blank", "empty", "wide"}
<1>1. (Fitting' <=> Fitting) /\ (Ordinary' <=> Ordinary)
    BY DEF Lines, Quoted, Kind, FieldsFit, RowText, LineTokens, Solid, Special
<1>2. RowsInOrder <=> Ordinary /\ Fitting /\ Len(rows) <= MaxRows
    BY DEF RowsInOrder, RowsReadable
<1>3. RowsInOrder' <=> Ordinary' /\ Fitting' /\ Len(rows') <= MaxRows
    BY DEF RowsInOrder, RowsReadable
<1>4. Ordinary <=>
          /\ Lines # {}
          /\ \A l \in Lines : ~ OddBefore("quote", l) => Kind(l) \notin {"blank", "empty", "wide"}
    BY DEF Quoted, OddBefore
<1>5. Fitting <=> FitBefore(Len(doc.lines) + 1)
    <2>1. Lines = 1 .. Len(doc.lines) /\ Len(doc.lines) \in Nat BY FileTokens
    <2>2. \A l \in Lines : l < Len(doc.lines) + 1 BY <2>1
    <2>3. \A l : Quoted(l) <=> OddBefore("quote", l) BY DEF Quoted, OddBefore
    <2>4. \A s, l : OneRow(s, l) <=> ~ Quoted(s) /\ \A m \in s + 1 .. l : Quoted(m)
        BY <2>3 DEF OneRow
    <2> QED BY <2>2, <2>4 DEF FitBefore, Run
<1> HIDE DEF Fitting, Ordinary
<1> QED BY <1>1, <1>3, <1>4, <1>5

\* An empty row, or too long a field, is what csv.reader or the element raises an error for.
LEMMA ReadableNext ==
    ASSUME doc \in Files, doc' = doc, rows' = rows
    PROVE  RowsReadable' =>
               /\ \A l \in Lines : ~ OddBefore("quote", l) => Kind(l) \notin {"blank", "empty"}
               /\ FitBefore(Len(doc.lines) + 1)
<1>1. RowsReadable' <=> RowsReadable BY SameExtractable
<1>2. Lines = 1 .. Len(doc.lines) /\ Len(doc.lines) \in Nat BY FileTokens
<1>3. \A l : Quoted(l) <=> OddBefore("quote", l) BY DEF Quoted, OddBefore
<1>4. \A s, l : OneRow(s, l) <=> ~ Quoted(s) /\ \A m \in s + 1 .. l : Quoted(m)
    BY <1>3 DEF OneRow
<1>5. RowsReadable => FitBefore(Len(doc.lines) + 1)
    BY <1>2, <1>4 DEF RowsReadable, FitBefore, Run
<1> QED BY <1>1, <1>3, <1>5 DEF RowsReadable

\* And of the file as a whole.
LEMMA ExtractableNext ==
    ASSUME doc' = doc, doc.format = "csv"
    PROVE  Extractable' <=> Len(doc.lines) <= MaxLines /\ RowsInOrder'
BY DEF Extractable

\* csv.reader's loop.
LEMMA CsvLineDeserves ==
    ASSUME doc \in Files, doc' = doc, Reading, RowsReading, Deserving, CsvLine
    PROVE  Deserving'
<1> DEFINE row == Append(buffer, line)
           complete == (buffer = <<>>) # (Kind(line) = "quote")
           quoted == OddBefore("quote", line)
<1>1. /\ phase = "parsing" /\ phase' = phase /\ line <= Len(doc.lines) /\ line' = line + 1
      /\ rows' = (IF complete THEN Append(rows, row) ELSE rows)
      /\ buffer' = (IF complete THEN <<>> ELSE row) /\ FieldsFit(row)
      /\ elements' = elements /\ failure' = failure /\ doc.format = "csv"
    BY DEF CsvLine, AtCsv, Parsing, NextLine
<1>2. /\ line \in Nat /\ line > 0 /\ line \in Lines /\ Lines = 1 .. Len(doc.lines)
      /\ buffer \in Seq(Lines) /\ rows \in Seq(Seq(Lines)) /\ elements = <<>>
    BY <1>1, AtLine DEF RowsReading, InRuns, Reading
<1>3. /\ row[1] \in 1 .. line /\ OneRow(row[1], line) /\ row = Run(row[1], line)
      /\ \A q \in 1 .. line : OneRow(q, line) => q = row[1]
      /\ buffer # <<>> => row[1] = buffer[1]
      /\ row \in Seq(Lines) /\ row # <<>>
      /\ buffer = <<>> => row[1] = line
    <2>1. /\ row \in Seq(Lines) /\ row # <<>> /\ (buffer = <<>> => row[1] = line)
        <3>1. row \in Seq(Lines) /\ row # <<>> /\ (buffer = <<>> => row = <<line>>)
            BY <1>1, RowSoFar
        <3> QED BY <3>1
    <2>2. RowsDeserve BY DEF Deserving
    <2> HIDE DEF row
    <2> QED BY <1>1, <2>1, <2>2, RowAtHand DEF row
<1>4. /\ \A r \in DOMAIN rows : ~ OddBefore("quote", rows[r][1])
      /\ buffer # <<>> <=> quoted
      /\ \A l \in Lines : l < line /\ ~ OddBefore("quote", l) =>
             (buffer # <<>> /\ buffer[1] = l) \/ RowAt(rows, l)
      /\ \A l \in Lines : l < line => l \in ToSet(buffer) \/ InRow(rows, l)
      /\ FitBefore(line)
    BY <1>1 DEF Deserving, RowsDeserve, RowsThen
<1>5. OddBefore("quote", line') <=> IF Kind(line) = "quote" THEN ~ quoted ELSE quoted
    BY <1>1, <1>2, OddStep
<1>6. ~ OddBefore("quote", row[1]) BY <1>3 DEF OneRow
<1> DEFINE S == Seq(Lines)
<1>G. /\ \A l : RowAt(rows, l) \/ row[1] = l => RowAt(Append(rows, row), l)
      /\ \A l : InRow(rows, l) \/ l \in ToSet(row) => InRow(Append(rows, row), l)
      /\ \A r \in DOMAIN Append(rows, row) :
             (r \in DOMAIN rows /\ Append(rows, row)[r] = rows[r])
             \/ Append(rows, row)[r] = row
    <2>1. rows \in Seq(S) /\ row \in S BY <1>2, <1>3
    <2> HIDE DEF S, row
    <2> QED BY <2>1, RowsGrow
<1>7. \A l \in Lines : l < line' /\ ~ OddBefore("quote", l) => row[1] = l \/ RowAt(rows, l)
    <2> SUFFICES ASSUME NEW l \in Lines, l < line + 1, ~ OddBefore("quote", l)
                 PROVE  row[1] = l \/ RowAt(rows, l)
        BY <1>1
    <2>1. l < line \/ l = line BY <1>2
    <2>2. l = line => buffer = <<>> BY <1>4
    <2> QED BY <2>1, <2>2, <1>3, <1>4
<1>I. \A l \in Lines : l < line' => l \in ToSet(row) \/ InRow(rows, l)
    <2> SUFFICES ASSUME NEW l \in Lines, l < line + 1
                 PROVE  l \in ToSet(row) \/ InRow(rows, l)
        BY <1>1
    <2>1. l < line \/ l = line BY <1>2
    <2>2. /\ \A j \in DOMAIN buffer : j \in DOMAIN row /\ row[j] = buffer[j]
          /\ Len(buffer) + 1 \in DOMAIN row /\ row[Len(buffer) + 1] = line
        BY <1>2
    <2> HIDE DEF row
    <2>3. l \in ToSet(buffer) \/ l = line => l \in ToSet(row) BY <2>2 DEF ToSet
    <2> QED BY <1>4, <2>1, <2>3
<1>F. FitBefore(line')
    <2> HIDE DEF row
    <2> SUFFICES ASSUME NEW l \in Lines, l < line + 1, NEW s \in 1 .. l, OneRow(s, l)
                 PROVE  FieldsFit(Run(s, l))
        BY <1>1 DEF FitBefore
    <2>1. l < line \/ l = line BY <1>2
    <2>2. CASE l < line BY <1>4, <2>2 DEF FitBefore
    <2>3. CASE l = line
        <3>1. s = row[1] BY <1>3, <2>3
        <3> QED BY <1>1, <1>3, <2>3, <3>1
    <2> QED BY <2>1, <2>2, <2>3
<1> HIDE DEF row, S
<1>8. /\ buffer' # <<>> <=> OddBefore("quote", line')
      /\ buffer' # <<>> => OneRow(buffer'[1], line' - 1)
      /\ \A r \in DOMAIN rows' : ~ OddBefore("quote", rows'[r][1])
      /\ \A l \in Lines : l < line' /\ ~ OddBefore("quote", l) =>
             (buffer' # <<>> /\ buffer'[1] = l) \/ RowAt(rows', l)
      /\ \A l \in Lines : l < line' => l \in ToSet(buffer') \/ InRow(rows', l)
    <2>1. CASE complete
        <3>1. rows' = Append(rows, row) /\ buffer' = <<>> BY <1>1, <2>1
        <3>2. ~ OddBefore("quote", line') BY <1>4, <1>5, <2>1
        <3> HIDE DEF complete, quoted
        <3> QED BY <1>4, <1>6, <1>7, <1>G, <1>I, <3>1, <3>2
    <2>2. CASE ~ complete
        <3>1. rows' = rows /\ buffer' = row BY <1>1, <2>2
        <3>2. OddBefore("quote", line') BY <1>4, <1>5, <2>2
        <3>3. line' - 1 = line BY <1>1, <1>2
        <3> HIDE DEF complete, quoted
        <3> QED BY <1>3, <1>4, <1>6, <1>7, <1>I, <3>1, <3>2, <3>3
    <2> QED BY <2>1, <2>2
<1>9. RowsDeserve'
    <2>1. RowsThen(rows', buffer', line', elements', phase') BY <1>1, <1>8, <1>F DEF RowsThen, Past
    <2> QED BY <1>1, <2>1, RowsNext
<1>10. Decided'
    BY <1>1, SameLines DEF Deserving, Decided, Past
<1>11. RowsHeld' BY <1>1, <1>2 DEF RowsHeld
<1> QED BY <1>1, <1>9, <1>10, <1>11 DEF Deserving, LinesDeserve, ItemsDeserve

\* A field that is too long.
LEMMA CsvFieldDeserves ==
    ASSUME doc \in Files, doc' = doc, Reading, RowsReading, Deserving, CsvFieldTooLong
    PROVE  Deserving'
<1> DEFINE row == Append(buffer, line)
<1>1. /\ phase = "parsing" /\ phase' = "failed" /\ line <= Len(doc.lines)
      /\ failure' = "unexpected_processing_error" /\ ~ FieldsFit(row)
      /\ elements' = elements /\ UNCHANGED parserVars /\ doc.format = "csv"
    BY DEF CsvFieldTooLong, AtCsv, Parsing, Fail
<1>2. rows' = rows /\ buffer' = buffer /\ line' = line BY <1>1 DEF parserVars
<1>3. line \in Lines /\ Lines = 1 .. Len(doc.lines) /\ Len(doc.lines) \in Nat BY <1>1, AtLine
<1>4. row[1] \in 1 .. line /\ OneRow(row[1], line) /\ row = Run(row[1], line)
    <2>1. RowsDeserve BY DEF Deserving
    <2> HIDE DEF row
    <2> QED BY <1>1, <2>1, RowAtHand DEF row
<1> HIDE DEF row
<1>5. ~ FitBefore(Len(doc.lines) + 1)
    <2>1. line < Len(doc.lines) + 1 BY <1>3
    <2> QED BY <1>1, <1>3, <1>4, <2>1 DEF FitBefore
<1>6. ~ RowsInOrder' BY <1>5, OrderNext
<1>7. ~ Extractable' BY <1>1, <1>6, ExtractableNext
<1>R. ~ RowsReadable' BY <1>2, <1>5, ReadableNext
<1>8. Decided' BY <1>1, <1>R, <1>7 DEF Decided, Past
<1>9. RowsDeserve'
    <2>1. RowsThen(rows, buffer, line, elements, phase) BY <1>1 DEF Deserving, RowsDeserve
    <2>2. RowsThen(rows', buffer', line', elements', phase')
        BY <1>1, <1>2, <2>1 DEF RowsThen, Past
    <2> QED BY <1>1, <2>2, RowsNext
<1>10. RowsHeld'
    <2>1. elements = <<>> BY <1>1 DEF Reading
    <2> QED BY <1>1, <2>1 DEF RowsHeld
<1> QED BY <1>1, <1>8, <1>9, <1>10 DEF Deserving, LinesDeserve, ItemsDeserve


\* What RowsHeld has to be after a step that keeps the rows.
LEMMA RowsHeldNext ==
    ASSUME doc' = doc, rows' = rows, doc.format = "csv"
    PROVE  RowsHeld' <=>
               \A n \in DOMAIN elements' : n \in DOMAIN rows =>
                   \A l \in ToSet(rows[n]) : Solid(l) => Holds(elements'[n], l)
<1>1. \A n, l : Holds(elements[n], l)' <=> Holds(elements'[n], l)
    BY DEF Holds, Cut, Cited, SourceLines, LineTokens, Special, Kind
<1>2. \A l : Solid(l)' <=> Solid(l) BY SameLines
<1>3. RowsHeld' <=>
          \A n \in DOMAIN elements' : n \in DOMAIN rows' =>
              \A l \in ToSet(rows'[n]) : Solid(l)' => Holds(elements[n], l)'
    BY DEF RowsHeld, ToSet
<1> QED BY <1>1, <1>2, <1>3

\* The element of a row holds it.
LEMMA RowHolds ==
    ASSUME doc \in Files, doc.format = "csv",
           NEW n \in DOMAIN rows, n \in Nat, NEW row \in Seq(Lines), row = rows[n],
           row # <<>>, Solid(row[1]), ~ Quotes(row),
           NEW el, el = Element("table_row", RowText(row), CsvPath, n, n),
           NEW l \in ToSet(row), Solid(l)
    PROVE  Holds(el, l)
<1>1. /\ RowText(row) \in Seq(Token) /\ RowText(row) # <<>>
      /\ \A j \in DOMAIN row : Solid(row[j]) => TokensOf(LineTokens(row[j])) \subseteq TokensOf(RowText(row))
    BY TokensOfRow DEF MadeOf
<1>2. el.text = Bounded(RowText(row)) /\ el.first = n /\ el.last = n BY DEF Element
<1>3. Cut(el) \/ el.text = RowText(row) BY <1>1, <1>2, BoundedText DEF Cut
<1>4. TokensOf(LineTokens(l)) \subseteq TokensOf(RowText(row)) BY <1>1 DEF ToSet
<1>5. l \in Cited(el)
    <2>1. n \in (el.first .. el.last) \cap DOMAIN rows BY <1>2
    <2> QED BY <2>1 DEF Cited
<1> QED BY <1>3, <1>4, <1>5 DEF Holds

\* The limits, once every line is in a row.
LEMMA CsvRowsDeserve ==
    ASSUME doc \in Files, doc' = doc, Reading, RowsReading, RowsReading', Deserving, CsvRows
    PROVE  Deserving'
<1> DEFINE all == IF buffer = <<>> THEN rows ELSE Append(rows, buffer)
<1>1. /\ phase = "parsing" /\ line > Len(doc.lines) /\ rows' = all /\ doc.format = "csv"
      /\ elements' = elements /\ elements = <<>>
      /\ IF Len(all) > MaxRows \/ all = <<>> \/ Width(all[1]) > MaxColumns
         THEN phase' = "failed" /\ failure' = "processing_failed"
         ELSE phase' = "rows" /\ failure' = failure
    BY DEF CsvRows, Parsing, Fail, Reading
<1>2. /\ line \in Nat /\ Lines = 1 .. Len(doc.lines) /\ Len(doc.lines) \in Nat
      /\ buffer \in Seq(Lines) /\ rows \in Seq(Seq(Lines))
    BY <1>1, AtLine DEF RowsReading, InRuns, Reading
<1>3. /\ \A r \in DOMAIN rows : ~ OddBefore("quote", rows[r][1])
      /\ buffer # <<>> => ~ OddBefore("quote", buffer[1])
      /\ \A l \in Lines : ~ OddBefore("quote", l) =>
             (buffer # <<>> /\ buffer[1] = l) \/ RowAt(rows, l)
      /\ \A l \in Lines : l \in ToSet(buffer) \/ InRow(rows, l)
      /\ FitBefore(Len(doc.lines) + 1)
    <2>1. \A l \in Lines : l < line /\ (l < Len(doc.lines) + 1 => l < line) BY <1>1, <1>2
    <2>2. RowsThen(rows, buffer, line, elements, phase) BY <1>1 DEF Deserving, RowsDeserve
    <2>3. FitBefore(line) BY <1>1, <2>2 DEF RowsThen
    <2>4. FitBefore(Len(doc.lines) + 1) BY <2>1, <2>3 DEF FitBefore
    <2> QED BY <1>1, <2>1, <2>2, <2>4 DEF RowsThen, OneRow
<1>4. /\ \A r \in DOMAIN all : ~ OddBefore("quote", all[r][1])
      /\ \A l \in Lines : ~ OddBefore("quote", l) => RowAt(all, l)
      /\ \A l \in Lines : InRow(all, l)
    <2>1. CASE buffer = <<>>
        <3>1. ToSet(buffer) = {} BY <2>1 DEF ToSet
        <3> QED BY <1>3, <2>1, <3>1
    <2>2. CASE buffer # <<>>
        <3> DEFINE S == Seq(Lines)
        <3>1. rows \in Seq(S) /\ buffer \in S BY <1>2
        <3> HIDE DEF S
        <3>2. /\ \A l : RowAt(rows, l) \/ buffer[1] = l => RowAt(Append(rows, buffer), l)
              /\ \A l : InRow(rows, l) \/ l \in ToSet(buffer) => InRow(Append(rows, buffer), l)
              /\ \A r \in DOMAIN Append(rows, buffer) :
                     (r \in DOMAIN rows /\ Append(rows, buffer)[r] = rows[r])
                     \/ Append(rows, buffer)[r] = buffer
            BY <3>1, RowsGrow
        <3>3. all = Append(rows, buffer) BY <2>2
        <3> HIDE DEF all
        <3> QED BY <1>3, <2>2, <3>2, <3>3
    <2> QED BY <2>1, <2>2
<1>5. /\ all \in Seq(Seq(Lines)) /\ \A r \in DOMAIN all : RowStarts(all[r])
    <2>1. RowsReading' => rows' \in Seq(Seq(Lines)) /\ \A r \in DOMAIN rows' : RowStarts(rows'[r])
        <3>1. Lines' = Lines /\ \A l : Kind(l)' = Kind(l) BY SameLines
        <3>2. RowsReading' => rows' \in Seq(Seq(Lines')) /\ \A r \in DOMAIN rows' : RowStarts(rows[r])'
            BY <1>1 DEF RowsReading, InRuns
        <3>3. \A r : RowStarts(rows[r])' <=> RowStarts(rows'[r]) BY DEF RowStarts, Kind
        <3> QED BY <3>1, <3>2, <3>3
    <2> QED BY <1>1, <2>1
<1> HIDE DEF all
<1>6. all = <<>> => Lines = {}
    <2> SUFFICES ASSUME all = <<>>, NEW k \in Lines PROVE FALSE OBVIOUS
    <2>1. 1 \in Lines BY <1>2
    <2>2. RowAt(all, 1) BY <1>4, <2>1, OddStart
    <2> QED BY <2>2 DEF RowAt
<1>7. all # <<>> => 1 \in DOMAIN all /\ all[1] \in Seq(Lines)
    <2> DEFINE S == Seq(Lines)
    <2>1. all \in Seq(S) BY <1>5
    <2> HIDE DEF S
    <2>2. all # <<>> => 1 \in DOMAIN all /\ all[1] \in S BY <2>1
    <2> QED BY <2>2 DEF S
<1>8. MaxRows \in Nat /\ MaxColumns \in Nat /\ Len(all) \in Nat BY <1>5, ParsersAssumption
<1>9. phase' = "failed" => ~ Extractable'
    <2> SUFFICES ASSUME phase' = "failed" PROVE ~ Extractable' OBVIOUS
    <2>0. doc.format = "csv" /\ rows' = all BY <1>1
    <2>1. CASE Len(all) > MaxRows BY <1>8, <2>0, <2>1, OrderNext, ExtractableNext
    <2>2. CASE all = <<>> BY <1>6, <2>0, <2>2, OrderNext, ExtractableNext
    <2>3. CASE all # <<>> /\ Width(all[1]) > MaxColumns
        <3>1. RowStarts(all[1]) /\ ~ OddBefore("quote", all[1][1]) BY <1>4, <1>5, <1>7, <2>3
        <3>2. Kind(all[1][1]) \in {"blank", "empty", "wide"} BY <1>7, <2>3, <3>1, BadRow
        <3>3. all[1][1] \in Lines
            <4> DEFINE r == all[1]
            <4>1. r \in Seq(Lines) /\ r # <<>> BY <1>7, <2>3, <3>1 DEF RowStarts
            <4> HIDE DEF r
            <4>2. r[1] \in Lines BY <4>1
            <4> QED BY <4>2 DEF r
        <3>4. ~ RowsInOrder' BY <3>1, <3>2, <3>3, OrderNext
        <3> QED BY <2>0, <3>4, ExtractableNext
    <2> QED BY <1>1, <2>1, <2>2, <2>3
<1>10. Decided'
    <2>1. failure = "none" /\ Len(doc.lines) <= MaxLines BY <1>1 DEF Deserving, Decided
    <2>2. phase' \in {"rows", "failed"} /\ failure' \in {failure, "processing_failed"}
          /\ (phase' = "rows" => failure' = failure)
        BY <1>1
    <2> QED BY <1>1, <1>9, <2>1, <2>2 DEF Decided, Past
<1>11. RowsDeserve'
    <2>1. phase' = "rows" => rows' # <<>> /\ Len(rows') <= MaxRows BY <1>1, <1>8
    <2>2. Len(elements') <= Len(rows') /\ DOMAIN elements' = {}
        <3>1. elements' = <<>> BY <1>1
        <3> QED BY <1>1, <1>8, <3>1
    <2>3. phase' \in {"rows", "failed"} BY <1>1
    <2>4. RowsThen(rows', buffer', line', elements', phase')
        BY <1>1, <1>3, <1>4, <2>1, <2>2, <2>3 DEF RowsThen, Past
    <2> QED BY <1>1, <2>4, RowsNext
<1>12. RowsHeld'
    <2>1. DOMAIN elements' = {} BY <1>1
    <2> QED BY <2>1 DEF RowsHeld
<1> QED BY <1>1, <1>10, <1>11, <1>12 DEF Deserving, LinesDeserve, ItemsDeserve

\* One row: too wide, empty, or an element.
LEMMA CsvRowDeserves ==
    ASSUME doc \in Files, doc' = doc, doc.format = "csv", Reading, RowsReading, Deserving, CsvRow
    PROVE  Deserving'
<1> DEFINE n == Len(elements) + 1
           row == rows[n]
           el == Element("table_row", RowText(row), CsvPath, n, n)
<1>1. /\ phase = "rows" /\ Len(elements) < Len(rows) /\ rows' = rows
      /\ line' = line /\ buffer' = buffer
      /\ \/ Width(row) > MaxColumns /\ phase' = "failed" /\ failure' = "processing_failed"
            /\ elements' = elements
         \/ RowText(row) = <<>> /\ phase' = "failed" /\ failure' = "unexpected_processing_error"
            /\ elements' = elements
         \/ ~ (Width(row) > MaxColumns) /\ RowText(row) # <<>> /\ elements' = Append(elements, el)
            /\ phase' = phase /\ failure' = failure
    BY DEF CsvRow, Fail
<1>2. /\ elements \in Seq(Elements) /\ rows \in Seq(Seq(Lines))
      /\ \A r \in DOMAIN rows : RowStarts(rows[r])
    BY DEF Reading, Lists, RowsReading, InRuns
<1>3. RowsThen(rows, buffer, line, elements, phase) BY DEF Deserving, RowsDeserve
<1>4. /\ rows # <<>> /\ Len(rows) <= MaxRows /\ Len(elements) <= Len(rows)
      /\ \A r \in DOMAIN rows : ~ OddBefore("quote", rows[r][1])
      /\ \A l \in Lines : ~ OddBefore("quote", l) => RowAt(rows, l)
      /\ \A l \in Lines : InRow(rows, l)
      /\ FitBefore(Len(doc.lines) + 1)
      /\ \A m \in DOMAIN elements : Width(rows[m]) <= MaxColumns /\ RowText(rows[m]) # <<>>
    BY <1>1, <1>3 DEF RowsThen
<1>5. /\ Len(elements) \in Nat /\ Len(rows) \in Nat /\ n \in DOMAIN rows /\ n \in Nat
      /\ DOMAIN elements = 1 .. Len(elements)
    BY <1>1, <1>2
<1>6. row \in Seq(Lines) /\ RowStarts(row) /\ ~ OddBefore("quote", row[1])
    <2> DEFINE S == Seq(Lines)
    <2>1. rows \in Seq(S) BY <1>2
    <2> HIDE DEF S
    <2>2. rows[n] \in S BY <1>5, <2>1
    <2> QED BY <1>2, <1>4, <1>5, <2>2 DEF S
<1>M. MaxColumns \in Nat /\ MaxColumns > 1 BY ParsersAssumption
<1>W. Width(row) \in Nat
    <2>1. Width(row) \in {0, 1, 2, MaxColumns + 1} BY DEF Width
    <2> QED BY <1>M, <2>1
<1>U. failure = "none" /\ Len(doc.lines) <= MaxLines BY <1>1 DEF Deserving, Decided
<1>H. \A m \in DOMAIN elements : m \in DOMAIN rows =>
          \A l \in ToSet(rows[m]) : Solid(l) => Holds(elements[m], l)
    BY DEF Deserving, RowsHeld
<1>E. row = rows[n] /\ el = Element("table_row", RowText(row), CsvPath, n, n) OBVIOUS
<1>L. /\ Len(Append(elements, el)) = n /\ DOMAIN Append(elements, el) = 1 .. n
      /\ \A m \in 1 .. n : (m \in DOMAIN elements /\ Append(elements, el)[m] = elements[m])
                           \/ (m = n /\ Append(elements, el)[m] = el)
    BY <1>2
<1>N. n <= Len(rows) BY <1>1, <1>5
<1> HIDE DEF n, row, el
<1>7. CASE ~ (Width(row) > MaxColumns) /\ RowText(row) # <<>>
    <2>1. Width(row) <= MaxColumns BY <1>7, <1>W, <1>M
    <2>2. /\ Len(elements') = n /\ DOMAIN elements' = 1 .. n
          /\ elements' = Append(elements, el) /\ phase' = "rows" /\ failure' = "none"
        <3>1. elements' = Append(elements, el) /\ phase' = "rows" /\ failure' = "none"
            BY <1>1, <1>7, <1>U
        <3> QED BY <1>L, <3>1
    <2>3. \A m \in DOMAIN elements' : Width(rows[m]) <= MaxColumns /\ RowText(rows[m]) # <<>>
        BY <1>4, <1>7, <1>E, <1>L, <2>1, <2>2
    <2>4. Len(elements') <= Len(rows) BY <1>N, <2>2
    <2>5. RowsThen(rows', buffer', line', elements', phase')
        BY <1>1, <1>4, <2>2, <2>3, <2>4 DEF RowsThen, Past
    <2>6. Decided' BY <1>U, <2>2 DEF Decided, Past
    <2>7. RowsHeld'
        <3>1. row # <<>> /\ Solid(row[1]) /\ ~ Quotes(row)
            BY <1>6, <1>7, EmptyRow DEF RowStarts
        <3>2. \A l \in ToSet(row) : Solid(l) => Holds(el, l)
            BY <1>5, <1>6, <1>E, <3>1, RowHolds
        <3>3. \A m \in DOMAIN elements' : m \in DOMAIN rows =>
                  \A l \in ToSet(rows[m]) : Solid(l) => Holds(elements'[m], l)
            BY <1>E, <1>H, <1>L, <2>2, <3>2
        <3> QED BY <1>1, <3>3, RowsHeldNext
    <2> QED BY <2>5, <2>6, <2>7, RowsNext DEF Deserving, LinesDeserve, ItemsDeserve
<1>8. CASE Width(row) > MaxColumns \/ RowText(row) = <<>>
    <2>1. Kind(row[1]) \in {"blank", "empty", "wide"} BY <1>6, <1>8, BadRow
    <2>2. row[1] \in Lines
        <3>1. row # <<>> BY <1>6 DEF RowStarts
        <3> QED BY <1>6, <3>1
    <2>3. /\ phase' = "failed" /\ elements' = elements BY <1>1, <1>8
    <2>4. ~ RowsInOrder' BY <1>1, <1>6, <2>1, <2>2, OrderNext
    <2>5. ~ Extractable' BY <2>4, ExtractableNext
    <2>R. failure' = "processing_failed" \/ ~ RowsReadable'
        <3>1. SUFFICES ASSUME RowText(row) = <<>> PROVE ~ RowsReadable' BY <1>1, <1>8
        <3>2. Kind(row[1]) \in {"blank", "empty"}
            <4>1. ~ Solid(row[1]) \/ Quotes(row) BY <1>6, <3>1, EmptyRow
            <4> QED BY <2>2, <4>1 DEF Solid, Quotes
        <3> QED BY <1>1, <1>6, <2>2, <3>2, ReadableNext
    <2>6. Decided' BY <1>1, <2>3, <2>5, <2>R DEF Decided, Past
    <2>7. RowsThen(rows', buffer', line', elements', phase')
        BY <1>1, <1>4, <2>3 DEF RowsThen, Past
    <2>8. RowsHeld' BY <1>1, <1>H, <2>3, RowsHeldNext
    <2> QED BY <2>6, <2>7, <2>8, RowsNext DEF Deserving, LinesDeserve, ItemsDeserve
<1> QED BY <1>7, <1>8

\* The end of the loop: there is a row, so there is an element.
LEMMA CsvEndDeserves ==
    ASSUME doc \in Files, doc' = doc, doc.format = "csv", Reading, RowsReading, Deserving, CsvEnd
    PROVE  Deserving'
<1>1. /\ phase = "rows" /\ Len(elements) = Len(rows) /\ elements' = elements
      /\ rows' = rows /\ line' = line /\ buffer' = buffer
      /\ IF elements = <<>> THEN phase' = "failed" /\ failure' = "processing_failed"
         ELSE phase' = "parsed" /\ failure' = failure
    BY DEF CsvEnd, Parsed, Fail, parserVars
<1>2. elements \in Seq(Elements) /\ rows \in Seq(Seq(Lines))
    BY DEF Reading, Lists, RowsReading, InRuns
<1>3. RowsThen(rows, buffer, line, elements, phase) BY DEF Deserving, RowsDeserve
<1>4. elements # <<>>
    <2>1. rows # <<>> BY <1>1, <1>3 DEF RowsThen
    <2>2. Len(rows) # 0 BY <1>2, <2>1
    <2>3. Len(elements) # 0 BY <1>1, <2>2
    <2> QED BY <2>3
<1>5. phase' = "parsed" /\ failure' = failure BY <1>1, <1>4
<1>6. failure = "none" /\ Len(doc.lines) <= MaxLines BY <1>1 DEF Deserving, Decided
<1>7. Decided' BY <1>5, <1>6 DEF Decided, Past
<1>8. RowsThen(rows', buffer', line', elements', phase') BY <1>1, <1>3, <1>5 DEF RowsThen, Past
<1>9. RowsHeld' BY <1>1, RowsHeldNext DEF Deserving, RowsHeld
<1> QED BY <1>7, <1>8, <1>9, RowsNext DEF Deserving, LinesDeserve, ItemsDeserve

-----------------------------------------------------------------------------
(* The items of a PDF. *)

\* What a step that keeps the file has to see to.
LEMMA ItemsNext ==
    ASSUME doc' = doc, rows' = rows, doc.format = "pdf"
    PROVE  /\ ItemsDeserve' <=>
                /\ phase' \in {"parsing"} \cup Past => \A l \in Lines : Kind(l) # "corrupt"
                /\ phase' = "parsing" => \A l \in Lines : l < line' => Kind(l) # "broken"
                /\ phase' \in Past => \A l \in Lines : Kind(l) # "broken"
           /\ LinesDeserve' <=>
                /\ phase' = "parsing" =>
                       \A l \in BodyLines : l < line' => l \in ToSet(buffer') \/ Carried(elements', l)
                /\ phase' \in Past => \A l \in BodyLines : Carried(elements', l)
           /\ RowsDeserve' /\ RowsHeld'
<1>1. doc'.format = "pdf" OBVIOUS
<1>2. Lines' = Lines BY DEF Lines
<1>3. ItemsDeserve' <=>
                /\ phase' \in {"parsing"} \cup Past => \A l \in Lines : Kind(l) # "corrupt"
                /\ phase' = "parsing" => \A l \in Lines : l < line' => Kind(l) # "broken"
                /\ phase' \in Past => \A l \in Lines : Kind(l) # "broken"
    BY <1>2 DEF ItemsDeserve, Kind, Past
<1> QED BY <1>1, <1>3, LinesNext DEF LinesThen, RowsDeserve, RowsHeld

\* The element of an item holds it.
LEMMA ItemHolds ==
    ASSUME doc \in Files, NEW l \in Lines, Solid(l),
           NEW el, el.text = Bounded(LineTokens(l))
    PROVE  Holds(el, l)
<1> DEFINE text == LineTokens(l)
<1>1. text \in Seq(Token) /\ text # <<>> /\ text[1] \in Marks(l) BY TokensOfLine
<1> HIDE DEF text
<1>2. /\ el.text \in Seq(Token) /\ el.text # <<>> /\ el.text[1] = text[1]
      /\ Len(el.text) = MaxElementTokens \/ el.text = text
    <2>1. el.text = Bounded(text) BY DEF text
    <2> QED BY <1>1, <2>1, BoundedText
<1>3. CASE el.text = text BY <1>3 DEF Holds, text
<1>4. CASE Cut(el)
    <2> DEFINE T == TokensOf(el.text)
    <2>1. el.text[1] \in T
        <3> DEFINE s == el.text
        <3>1. s \in Seq(Token) /\ s # <<>> BY <1>2
        <3> HIDE DEF s
        <3>2. 1 \in DOMAIN s BY <3>1
        <3>3. s[1] \in TokensOf(s) BY <3>2 DEF TokensOf
        <3> QED BY <3>3 DEF s
    <2>2. T \cap Marks(l) # {} BY <1>1, <1>2, <2>1
    <2> HIDE DEF T
    <2>3. l \in SourceLines(T) BY <2>2, SourceOf
    <2> QED BY <1>4, <2>3 DEF Holds, T
<1> QED BY <1>2, <1>3, <1>4 DEF Cut

\* A list that goes on holds what it held, and what the rest holds.
LEMMA HeldByLonger ==
    ASSUME NEW S, NEW es \in Seq(S), NEW more \in Seq(S), NEW l
    PROVE  /\ Carried(es, l) => Carried(es \o more, l)
           /\ more # <<>> /\ more[1].type # "heading" /\ Holds(more[1], l) => Carried(es \o more, l)
<1> DEFINE all == es \o more
<1>1. /\ \A e \in DOMAIN es : e \in DOMAIN all /\ all[e] = es[e]
      /\ more # <<>> => Len(es) + 1 \in DOMAIN all /\ all[Len(es) + 1] = more[1]
    OBVIOUS
<1> HIDE DEF all
<1>2. Carried(es, l) => Carried(all, l) BY <1>1 DEF Carried
<1>3. more # <<>> /\ more[1].type # "heading" /\ Holds(more[1], l) => Carried(all, l)
    BY <1>1 DEF Carried
<1> QED BY <1>2, <1>3 DEF all

\* An item is held once it has been looked at.
LEMMA ItemHeld ==
    ASSUME doc \in Files, doc.format = "pdf", elements \in Seq(Elements), line \in Lines, PdfItem
    PROVE  /\ \A l : Carried(elements, l) => Carried(elements', l)
           /\ line \in BodyLines /\ Kind(line) # "broken" => Carried(elements', line)
<1> DEFINE kind == Kind(line)
           place == Place(line)
           path == IF IsHeading(kind) THEN Descend(Level(kind)) ELSE hierarchy
           type == IF IsHeading(kind) THEN "heading" ELSE "paragraph"
           el == Element(type, LineTokens(line), path, place, place)
           two == TableRows(line)
<1>1. elements' = CASE kind \in {"blank", "broken"} -> elements
                    [] kind = "table" -> elements \o two
                    [] OTHER -> Append(elements, el)
    BY Zenon DEF PdfItem
<1>2. /\ el.type = type /\ el.text = Bounded(LineTokens(line)) BY DEF Element
<1>3. /\ two[1].type = "table_row" /\ two[1].text = Bounded(<<<<line, 1>>>>)
      /\ \A k \in 1 .. 2 : two[k] = two[k]
      /\ DOMAIN two = 1 .. 2 /\ two = [k \in 1 .. 2 |-> two[k]]
    BY DEF TableRows, Element
<1>4. kind = "table" => LineTokens(line) = <<<<line, 1>>>>
    BY Zenon DEF LineTokens, Special
<1>5. line \in BodyLines => Solid(line) /\ ~ IsHeading(kind)
    BY DEF BodyLines, HeadingLines
<1>6. line \in BodyLines => Holds(el, line) BY <1>2, <1>5, ItemHolds
<1>7. line \in BodyLines /\ kind = "table" => Holds(two[1], line)
    BY <1>3, <1>4, <1>5, ItemHolds
<1>8. ~ IsHeading(kind) => el.type # "heading" BY <1>2
<1>B. line \in BodyLines => kind # "blank" BY DEF BodyLines, Solid
<1> HIDE DEF el, two, kind
<1>9. CASE kind \in {"blank", "broken"}
    <2>1. elements' = elements BY <1>1, <1>9
    <2> QED BY <1>9, <1>B, <2>1 DEF kind
<1>10. CASE kind = "table"
    <2>1. elements' = elements \o two BY <1>1, <1>10
    <2> DEFINE S == Elements \cup {two[1], two[2]}
    <2>2. elements \in Seq(S) BY FewerInSeq
    <2>3. two \in Seq(S) /\ two # <<>>
        <3>1. two \in [1 .. 2 -> S] BY <1>3
        <3>2. two \in Seq(S)
            <4> HIDE DEF S
            <4>1. \E n \in Nat : two \in [1 .. n -> S] BY <3>1
            <4> QED BY <4>1, SeqDef
        <3>3. two # <<>>
            <4>1. 1 \in DOMAIN two BY <1>3
            <4> QED BY <4>1
        <3> QED BY <3>2, <3>3
    <2>4. two[1].type # "heading" BY <1>3
    <2> HIDE DEF S
    <2> QED BY <1>7, <1>10, <2>1, <2>2, <2>3, <2>4, HeldByLonger
<1>11. CASE kind \notin {"blank", "broken", "table"}
    <2>1. elements' = Append(elements, el) BY <1>1, <1>11
    <2> DEFINE S == Elements \cup {el}
    <2>2. elements \in Seq(S) /\ el \in S BY FewerInSeq
    <2> HIDE DEF S
    <2> QED BY <1>5, <1>6, <1>8, <2>1, <2>2, HeldByMore
<1> QED BY <1>9, <1>10, <1>11

\* One item after the other.
LEMMA ItemsStep ==
    ASSUME doc \in Files, doc' = doc, Reading, Deserving, PdfItem \/ PdfEnd
    PROVE  Deserving'
<1>P. phase = "parsing" /\ doc.format = "pdf" /\ rows' = rows
    BY DEF PdfItem, PdfEnd, Parsing, parserVars
<1>L. /\ line \in Nat /\ Len(doc.lines) \in Nat /\ Lines = 1 .. Len(doc.lines)
      /\ line <= Len(doc.lines) => line \in Lines
      /\ buffer = <<>> /\ elements \in Seq(Elements)
    BY <1>P, AtLine, AtWork DEF Lists
<1>B. ToSet(<<>>) = {} BY DEF ToSet
<1>I. /\ \A l \in Lines : Kind(l) # "corrupt"
      /\ \A l \in Lines : l < line => Kind(l) # "broken"
    BY <1>P DEF Deserving, ItemsDeserve
<1>H. \A l \in BodyLines : l \in Lines /\ (l < line => Carried(elements, l))
    <2>1. LinesThen(elements, buffer, line, fenced, phase) BY <1>P DEF Deserving, LinesDeserve
    <2>2. \A l \in BodyLines : l \in Lines BY DEF BodyLines
    <2> QED BY <1>P, <1>L, <1>B, <2>1, <2>2 DEF LinesThen
<1>U. failure = "none" BY <1>P DEF Deserving, Decided
<1>1. CASE PdfItem
    <2>1. /\ line' = line + 1 /\ line <= Len(doc.lines) /\ buffer' = buffer
          /\ \/ Kind(line) = "broken" /\ phase' = "failed" /\ failure' = "processing_failed"
             \/ Kind(line) # "broken" /\ phase' = "parsing" /\ failure' = failure
        BY <1>1, <1>P DEF PdfItem, NextLine, Fail
    <2>2. phase' = "parsing" => \A l \in Lines : l < line' => Kind(l) # "broken"
        <3> SUFFICES ASSUME phase' = "parsing", NEW l \in Lines, l < line + 1
                     PROVE  Kind(l) # "broken"
            BY <2>1
        <3>1. l < line \/ l = line BY <1>L
        <3> QED BY <1>I, <2>1, <3>1
    <2>3. ItemsDeserve' BY <1>P, <1>I, <2>1, <2>2, ItemsNext DEF Past
    <2>4. Decided' BY <1>P, <1>U, <2>1 DEF Decided, Past
    <2>5. phase' = "parsing" => \A l \in BodyLines : l < line' => Carried(elements', l)
        <3> SUFFICES ASSUME phase' = "parsing", NEW l \in BodyLines, l < line + 1
                     PROVE  Carried(elements', l)
            BY <2>1
        <3>1. l < line \/ l = line BY <1>L, <1>H
        <3>2. line \in Lines BY <1>L, <2>1
        <3> QED BY <1>1, <1>P, <1>L, <1>H, <2>1, <3>1, <3>2, ItemHeld
    <2>6. LinesDeserve'
        <3>1. phase' \notin Past BY <2>1 DEF Past
        <3> QED BY <1>P, <2>5, <3>1, ItemsNext
    <2> QED BY <1>P, <2>3, <2>4, <2>6, ItemsNext DEF Deserving
<1>2. CASE PdfEnd
    <2>1. /\ line > Len(doc.lines) /\ elements' = elements
          /\ \/ phase' = "failed" /\ failure' = "processing_failed"
             \/ phase' = "parsed" /\ failure' = failure
        BY <1>2 DEF PdfEnd, Parsed, Fail
    <2>2. \A l \in Lines : l < line BY <1>L, <2>1
    <2>3. ItemsDeserve' BY <1>P, <1>I, <2>1, <2>2, ItemsNext DEF Past
    <2>4. Decided' BY <1>P, <1>U, <2>1 DEF Decided, Past
    <2>5. LinesDeserve'
        <3>1. phase' # "parsing" BY <2>1
        <3> QED BY <1>P, <1>H, <2>1, <2>2, <3>1, ItemsNext
    <2> QED BY <1>P, <2>3, <2>4, <2>5, ItemsNext DEF Deserving
<1> QED BY <1>1, <1>2

-----------------------------------------------------------------------------
(* The steps of the worker around the parsers. *)

\* Every step of a parser keeps what the outcome rests on.
LEMMA ParseDeserves ==
    ASSUME doc \in Files, doc' = doc, Reading, RowsReading, Reading', RowsReading', Deserving,
           Parse, phase = "rows" => doc.format = "csv"
    PROVE  Deserving'
<1>1. CASE \/ PlainText \/ PlainTextEnd
           \/ MarkdownFence \/ MarkdownCode \/ MarkdownHeading \/ MarkdownText \/ MarkdownEnd
           \/ LogLine \/ LogEnd
    <2>1. elements' \in Seq(Elements) BY DEF Reading, Lists
    <2> QED BY <1>1, <2>1, LinesStep
<1>2. CASE CsvLine BY <1>2, CsvLineDeserves
<1>3. CASE CsvRows BY <1>3, CsvRowsDeserve
<1>4. CASE CsvRow \/ CsvEnd
    <2>1. phase = "rows" BY <1>4 DEF CsvRow, CsvEnd
    <2> QED BY <1>4, <2>1, CsvRowDeserves, CsvEndDeserves
<1>5. CASE PdfItem \/ PdfEnd BY <1>5, ItemsStep
<1>6. CASE CsvFieldTooLong BY <1>6, CsvFieldDeserves
<1> QED BY <1>1, <1>2, <1>3, <1>4, <1>5, <1>6 DEF Parse

\* So do steps that leave the parser's state alone, as long as a file without a chunk is
\* not called chunked, nor one that is not done.
LEMMA DeservingStays ==
    ASSUME Deserving, doc' = doc, elements' = elements, UNCHANGED parserVars, failure' = failure,
           phase' = phase \/ (phase \in Past /\ phase' \in Past),
           phase' = "chunked" => chunks' # <<>> /\ Chunked'
    PROVE  Deserving'
<1>1. line' = line /\ buffer' = buffer /\ fenced' = fenced /\ rows' = rows BY DEF parserVars
<1>2. Lines' = Lines /\ BodyLines' = BodyLines /\ (Offends' <=> Offends) BY SameLines
<1>4. (Extractable' <=> Extractable) /\ (RowsReadable' <=> RowsReadable) BY <1>1, SameExtractable
<1>5. Decided' BY <1>2, <1>4 DEF Deserving, Decided, Past
<1>6. LinesDeserve'
    <2>1. doc.format # "csv" => LinesThen(elements, buffer, line, fenced, phase)
        BY DEF Deserving, LinesDeserve
    <2>2. doc.format # "csv" => LinesThen(elements', buffer', line', fenced', phase')
        BY <1>1, <2>1 DEF LinesThen, Past
    <2> QED BY <1>1, <2>2, LinesNext
<1>7. RowsDeserve'
    <2>1. CASE doc.format = "csv"
        <3>1. RowsThen(rows, buffer, line, elements, phase)
            BY <2>1 DEF Deserving, RowsDeserve
        <3>2. RowsThen(rows', buffer', line', elements', phase')
            BY <1>1, <3>1 DEF RowsThen, Past
        <3> QED BY <2>1, <3>2, RowsNext
    <2>2. CASE doc.format # "csv" BY <2>2 DEF RowsDeserve
    <2> QED BY <2>1, <2>2
<1>8. ItemsDeserve'
    <2>1. CASE doc.format = "pdf" BY <1>1, <2>1, ItemsNext DEF Deserving, ItemsDeserve, Past
    <2>2. CASE doc.format # "pdf" BY <2>2 DEF ItemsDeserve
    <2> QED BY <2>1, <2>2
<1>9. RowsHeld'
    <2>1. CASE doc.format = "csv" BY <1>1, <2>1, RowsHeldNext DEF Deserving, RowsHeld
    <2>2. CASE doc.format # "csv" BY <2>2 DEF RowsHeld
    <2> QED BY <2>1, <2>2
<1> QED BY <1>5, <1>6, <1>7, <1>8, <1>9 DEF Deserving

\* Nothing is decided before the file has been read.
LEMMA NotYetDecided ==
    ASSUME phase' \in {"idle", "reading", "converting"}, failure' = "none", rows' = <<>>
    PROVE  Deserving'
<1>1. Decided' BY DEF Decided, Past
<1>2. RowsDeserve' /\ RowsHeld'
    <2>1. DOMAIN rows' = {} OBVIOUS
    <2> QED BY <2>1 DEF RowsDeserve, RowsThen, Past, RowsHeld
<1> QED BY <1>1, <1>2 DEF Deserving, LinesDeserve, LinesThen, ItemsDeserve, Past

\* The loops start with nothing behind them.
LEMMA ReadDeserves ==
    ASSUME doc \in Files, Untouched, Deserving, ReadLines, doc.format # "pdf"
    PROVE  Deserving'
<1>1. /\ phase = "reading" /\ doc' = doc /\ elements' = <<>> /\ line' = 1 /\ buffer' = <<>>
      /\ fenced' = FALSE /\ rows' = <<>> /\ rows' = rows
      /\ IF Len(doc.lines) > MaxLines
         THEN phase' = "failed" /\ failure' = "processing_failed"
         ELSE phase' = "parsing" /\ failure' = failure
    BY DEF ReadLines, Fail, Untouched, parserVars, chunkVars
<1>2. failure = "none" BY <1>1 DEF Deserving, Decided
<1>3. Len(doc.lines) \in Nat /\ Lines = 1 .. Len(doc.lines) /\ doc.format \in Formats
    BY FileTokens
<1>M. MaxLines \in Nat BY ParsersAssumption
<1>4. Decided'
    <2>1. Len(doc.lines) > MaxLines => ~ Extractable BY <1>3, <1>M, ExtractableSays DEF Formats
    <2>2. Extractable' <=> Extractable BY <1>1, SameExtractable
    <2> QED BY <1>1, <1>2, <1>3, <1>M, <2>1, <2>2 DEF Decided, Past
<1>5. phase' \in {"parsing", "failed"} BY <1>1
<1>6. LinesDeserve'
    <2>1. ~ OddBefore("fence", line') BY <1>1, OddStart
    <2>2. ~ \E l \in BodyLines : l < line'
        <3>1. \A l \in BodyLines : l \in Lines BY DEF BodyLines
        <3> QED BY <1>1, <1>3, <3>1
    <2>3. LinesThen(elements', buffer', line', fenced', phase')
        BY <1>1, <1>5, <2>1, <2>2 DEF LinesThen, Past
    <2> QED BY <1>1, <2>3, LinesNext
<1>7. RowsDeserve' /\ RowsHeld'
    <2>1. CASE doc.format = "csv"
        <3>1. ~ OddBefore("quote", line') /\ buffer' = <<>> /\ DOMAIN rows' = {}
            BY <1>1, OddStart
        <3>2. ~ \E l \in Lines : l < line' BY <1>1, <1>3
        <3>3. FitBefore(line') BY <3>2 DEF FitBefore
        <3>4. RowsThen(rows', buffer', line', elements', phase')
            BY <1>5, <3>1, <3>2, <3>3 DEF RowsThen, Past
        <3> QED BY <1>1, <2>1, <3>1, <3>4, RowsNext DEF RowsHeld
    <2>2. CASE doc.format # "csv" BY <1>1, <2>2 DEF RowsDeserve, RowsHeld
    <2> QED BY <2>1, <2>2
<1> QED BY <1>1, <1>4, <1>6, <1>7 DEF Deserving, ItemsDeserve

\* The conversion of a PDF, whether it ends or is given up.
LEMMA ConversionDeserves ==
    ASSUME doc \in Files, doc.format = "pdf", Deserving,
           (ConversionEnds /\ Untouched) \/ ConversionTimesOut,
           phase \in {"converting", "parsing"}
    PROVE  Deserving'
<1>1. failure = "none" BY DEF Deserving, Decided
<1>2. Lines = 1 .. Len(doc.lines) /\ Len(doc.lines) \in Nat BY FileTokens
<1>3. CASE ConversionEnds /\ Untouched
    <2>1. /\ doc' = doc /\ line' = 1 /\ rows' = rows
          /\ \/ phase' = "failed" /\ failure' = "processing_failed"
             \/ /\ phase' = "parsing" /\ failure' = failure
                /\ "corrupt" \notin {Kind(l) : l \in Lines}
        BY <1>3 DEF ConversionEnds, Fail, Untouched, parserVars
    <2>2. ~ \E l \in Lines : l < line' BY <1>2, <2>1
    <2>3. Decided' BY <1>1, <2>1 DEF Decided, Past
    <2>4. ItemsDeserve' BY <2>1, <2>2, ItemsNext DEF Past
    <2>5. LinesDeserve'
        <3>1. phase' \notin Past BY <2>1 DEF Past
        <3>2. \A l \in BodyLines : l \in Lines BY DEF BodyLines
        <3> QED BY <2>1, <2>2, <3>1, <3>2, ItemsNext
    <2> QED BY <2>1, <2>3, <2>4, <2>5, ItemsNext DEF Deserving
<1>4. CASE ConversionTimesOut
    <2>1. phase' = "failed" /\ failure' = "processing_failed" /\ doc' = doc /\ rows' = rows
        BY <1>4 DEF ConversionTimesOut, Fail, parserVars
    <2>2. Decided' BY <2>1 DEF Decided, Past
    <2>3. ItemsDeserve' /\ LinesDeserve' BY <2>1, ItemsNext DEF Past
    <2> QED BY <2>1, <2>2, <2>3, ItemsNext DEF Deserving
<1> QED BY <1>3, <1>4

-----------------------------------------------------------------------------
(* The steps of the worker around the chunker. *)

\* A step that fails leaves what was seen of the file.
LEMMA FailedDeserves ==
    ASSUME Deserving, doc' = doc, elements' = elements, UNCHANGED parserVars,
           phase' = "failed", Decided'
    PROVE  Deserving'
<1>1. line' = line /\ buffer' = buffer /\ rows' = rows BY DEF parserVars
<1>2. RowsDeserve'
    <2>1. CASE doc.format = "csv"
        <3>1. RowsThen(rows, buffer, line, elements, phase)
            BY <2>1 DEF Deserving, RowsDeserve
        <3>2. RowsThen(rows', buffer', line', elements', phase')
            BY <1>1, <3>1 DEF RowsThen, Past
        <3> QED BY <2>1, <3>2, RowsNext
    <2>2. CASE doc.format # "csv" BY <2>2 DEF RowsDeserve
    <2> QED BY <2>1, <2>2
<1>3. RowsHeld'
    <2>1. CASE doc.format = "csv" BY <1>1, <2>1, RowsHeldNext DEF Deserving, RowsHeld
    <2>2. CASE doc.format # "csv" BY <2>2 DEF RowsHeld
    <2> QED BY <2>1, <2>2
<1>4. LinesDeserve' BY DEF LinesDeserve, LinesThen, Past
<1>5. ItemsDeserve' BY DEF ItemsDeserve, Past
<1> QED BY <1>2, <1>3, <1>4, <1>5 DEF Deserving

\* What there is of body is in a chunk when the chunker is done.
LEMMA BodyIsChunked ==
    ASSUME Extracting, doc \in Files, index > 0, Chunked,
           NEW e \in DOMAIN elements, elements[e].type # "heading"
    PROVE  chunks # <<>>
<1>2. Sound(elements[e]) BY DEF Extracting, Reading, Lists, Good
<1> DEFINE text == elements[e].text
<1>3. text[1] \in TokensOf(text) /\ text[1] # Whitespace
    <2>1. text \in Seq(Token) /\ text # <<>> /\ text[1] \in MarksOf(Lines)
        BY <1>2 DEF Sound, Elements
    <2> HIDE DEF text
    <2>2. 1 \in DOMAIN text BY <2>1
    <2>3. \E l \in Lines : text[1] \in Marks(l) BY <2>1 DEF MarksOf
    <2>4. text[1] # Whitespace BY <2>3, MarkFacts
    <2> QED BY <2>2, <2>4 DEF TokensOf
<1>4. text[1] \in BodyTokens BY <1>3 DEF BodyTokens
<1>5. NothingLost BY AllIsChunked DEF Extracting, Chunker
<1>6. text[1] \in ChunkTokens BY <1>3, <1>4, <1>5 DEF NothingLost
<1>7. PICK k \in DOMAIN chunks : text[1] \in Slice(chunks[k]) BY <1>6 DEF ChunkTokens
<1> QED BY <1>7

\* A line of the body is held by an element that is chunked.
LEMMA BodyIsHeld ==
    ASSUME Extracting, Deserving, phase \in Past, NEW l \in BodyLines
    PROVE  Carried(elements, l)
<1>1. CASE doc.format # "csv" BY <1>1 DEF Deserving, LinesDeserve, LinesThen
<1>2. CASE doc.format = "csv"
    <2>1. RowsThen(rows, buffer, line, elements, phase) BY <1>2 DEF Deserving, RowsDeserve
    <2>2. l \in Lines /\ Solid(l) BY DEF BodyLines
    <2>3. PICK r \in DOMAIN rows : l \in ToSet(rows[r]) BY <2>1, <2>2 DEF RowsThen, InRow
    <2>4. Len(elements) = Len(rows) BY <2>1 DEF RowsThen, Past
    <2>5. rows \in Seq(Seq(Lines)) /\ elements \in Seq(Elements)
        BY <1>2 DEF Extracting, RowsReading, InRuns, Reading, Lists
    <2>6. r \in DOMAIN elements BY <2>3, <2>4, <2>5
    <2>7. Holds(elements[r], l) BY <1>2, <2>2, <2>3, <2>6 DEF Deserving, RowsHeld
    <2>8. elements[r].type = "table_row" BY <1>2, <2>6 DEF Extracting, Reading, Lists, Good
    <2> QED BY <2>6, <2>7, <2>8 DEF Carried
<1> QED BY <1>1, <1>2

\* A document fails after the chunker only when it had nothing to chunk.
LEMMA ReturnDeserves ==
    ASSUME Extracting, doc \in Files, Deserving, ChunkReturn, index > 0
    PROVE  Deserving'
<1>1. /\ phase = "chunking" /\ Chunked /\ doc' = doc /\ elements' = elements
      /\ UNCHANGED parserVars /\ rows' = rows /\ UNCHANGED chunkVars
      /\ IF chunks = <<>> THEN phase' = "failed" /\ failure' = "processing_failed"
         ELSE phase' = "chunked" /\ failure' = failure
    BY DEF ChunkReturn, Fail, chunkVars, parserVars
<1>2. CASE chunks # <<>>
    <2>1. chunks' # <<>> /\ Chunked' BY <1>1, <1>2 DEF chunkVars, Chunked
    <2> QED BY <1>1, <1>2, <2>1, DeservingStays DEF Past
<1>3. CASE chunks = <<>>
    <2>1. \A e \in DOMAIN elements : elements[e].type = "heading" BY <1>1, <1>3, BodyIsChunked
    <2>2. phase' = "failed" /\ failure' = "processing_failed" BY <1>1, <1>3
    <2>3. doc.format # "csv"
        <3> SUFFICES ASSUME doc.format = "csv" PROVE FALSE OBVIOUS
        <3>1. RowsThen(rows, buffer, line, elements, phase) BY DEF Deserving, RowsDeserve
        <3>2. rows # <<>> /\ Len(elements) = Len(rows) BY <1>1, <3>1 DEF RowsThen, Past
        <3>3. rows \in Seq(Seq(Lines)) /\ elements \in Seq(Elements)
              /\ \A e \in DOMAIN elements : elements[e].type = "table_row"
            BY DEF Extracting, RowsReading, InRuns, Reading, Lists, Good
        <3>4. Len(rows) # 0 /\ Len(rows) \in Nat BY <3>2, <3>3
        <3>5. 1 \in DOMAIN elements BY <3>2, <3>3, <3>4
        <3> QED BY <2>1, <3>3, <3>5
    <2>4. doc.format # "pdf" => ~ Extractable'
        <3>1. doc.format \in Formats BY FileTokens
        <3>2. BodyLines = {}
            <4>1. \A l \in BodyLines : Carried(elements, l) BY <1>1, BodyIsHeld DEF Past
            <4> QED BY <2>1, <4>1 DEF Carried
        <3>3. doc.format # "pdf" => ~ Extractable
            BY <2>3, <3>1, <3>2, ExtractableSays DEF Formats
        <3> QED BY <1>1, <3>3, SameExtractable
    <2>5. Decided' BY <1>1, <2>2, <2>4 DEF Decided, Past
    <2> QED BY <1>1, <2>2, <2>5, FailedDeserves
<1> QED BY <1>2, <1>3

\* The tokens that are refused come from a line with the tokenizer's special text.
LEMMA TokenOffends ==
    ASSUME doc \in Files, Lists(elements), NEW e \in DOMAIN elements, NEW t \in Reserved,
           t \in TokensOf(elements[e].path) \/ t \in TokensOf(elements[e].text)
    PROVE  Offends
<1>1. /\ t # Whitespace /\ t[2] \in {-1, LongTokens + 1} /\ LongTokens + 1 # 0
    BY ParsersAssumption
<1>2. Sound(elements[e]) BY DEF Lists, Good
<1>3. CASE t \in TokensOf(elements[e].path)
    <2> DEFINE path == elements[e].path
    <2>1. path \in Seq(HeadingTokens) BY <1>2 DEF Sound
    <2> HIDE DEF path
    <2>2. \A p \in DOMAIN path : path[p] \in HeadingTokens BY <2>1
    <2>3. t \in HeadingTokens BY <1>3, <2>2 DEF TokensOf, path
    <2>4. t[2] = -1 BY <1>1, <2>3 DEF HeadingTokens
    <2> QED BY <2>3, <2>4 DEF HeadingTokens, Offends
<1>4. CASE t \in TokensOf(elements[e].text)
    <2>1. t \in MarksOf(Lines) BY <1>1, <1>2, <1>4 DEF Sound
    <2>2. PICK l \in Lines : t \in Marks(l) BY <2>1 DEF MarksOf
    <2> QED BY <2>2, MarkFacts DEF Offends
<1> QED BY <1>3, <1>4

\* So the chunker fails only for such a line.
LEMMA RaiseOffends ==
    ASSUME Extracting, doc \in Files, index > 0, Refused(Encoded)
    PROVE  Offends
<1>1. /\ ChunkingTypeOK /\ AllSourced /\ Lists(elements)
    BY DEF Extracting, Chunker, Inductive, Reading
<1>2. ASSUME NEW g, g.members \in Seq(Nat), Sourced(g),
             NEW t \in TokensOf(g.text), t \in Reserved
      PROVE  Offends
    <2> DEFINE m == g.members
    <2>1. \/ t \in TokensOf(elements[m[1]].path)
          \/ \E j \in DOMAIN m : t \in TokensOf(elements[m[j]].text)
        BY <1>2 DEF Sourced
    <2>2. \A j \in DOMAIN m : m[j] \in DOMAIN elements BY <1>2 DEF Sourced
    <2>3. m[1] \in DOMAIN elements
        <3>1. m \in Seq(Nat) /\ Len(m) > 0 BY <1>2 DEF Sourced
        <3> HIDE DEF m
        <3>2. 1 \in DOMAIN m BY <3>1
        <3> QED BY <2>2, <3>2
    <2> QED BY <1>1, <1>2, <2>1, <2>2, <2>3, TokenOffends
<1>3. PICK p \in DOMAIN Encoded : Encoded[p] \in Reserved BY DEF Refused
<1>4. CASE todo # <<>>
    <2>1. 1 \in DOMAIN todo /\ Head(todo) = todo[1]
        <3>1. todo \in Seq(HandedType) BY <1>1 DEF ChunkingTypeOK
        <3> QED BY <1>4, <3>1
    <2>2. Sourced(todo[1]) /\ todo[1].members \in Seq(Nat)
        <3>1. todo[1] \in HandedType BY <1>1, <2>1 DEF ChunkingTypeOK
        <3> QED BY <1>1, <2>1, <3>1 DEF AllSourced, HandedType
    <2>3. Encoded = todo[1].text BY <1>4, <2>1 DEF Encoded
    <2>4. Encoded[p] \in TokensOf(todo[1].text) BY <1>3, <2>3 DEF TokensOf
    <2> QED BY <1>2, <1>3, <2>2, <2>4
<1>5. ASSUME NEW g, g # NoGroup, Growing(g), index \in DOMAIN elements,
             Encoded = Joined(g, index).text
      PROVE  Offends
    <2> DEFINE a == g.text
               b == elements[index].text
    <2>1. Encoded = a \o b BY <1>5 DEF Joined
    <2>2. a \in Seq(Token) /\ b \in Seq(Token)
        <3>1. elements[index] \in Elements BY <1>1, <1>5 DEF Lists, Good, Sound
        <3> QED BY <1>5, <3>1 DEF Growing, GroupType, Elements
    <2>3. Encoded[p] \in TokensOf(a) \/ Encoded[p] \in TokensOf(b)
        <3> HIDE DEF a, b
        <3>1. Encoded[p] \in TokensOf(a \o b) BY <1>3, <2>1 DEF TokensOf
        <3> QED BY <2>2, <3>1, OnlyTokensOfParts
    <2>4. Sourced(g) /\ g.members \in Seq(Nat) BY <1>5 DEF Growing, GroupType
    <2> QED BY <1>1, <1>2, <1>3, <1>5, <2>3, <2>4, TokenOffends
<1>6. CASE todo = <<>> /\ table # NoGroup /\ RowOfTable
    <2>1. Encoded = Joined(table, index).text BY <1>6 DEF Encoded
    <2>2. index \in DOMAIN elements BY <1>6 DEF RowOfTable
    <2>3. Growing(table) BY <1>1, <1>6 DEF AllSourced
    <2> QED BY <1>5, <1>6, <2>1, <2>2, <2>3
<1>7. CASE todo = <<>> /\ table = NoGroup /\ prose # NoGroup /\ AtElement({"paragraph", "code"})
    <2>1. Encoded = Joined(prose, index).text BY <1>7 DEF Encoded
    <2>2. index \in DOMAIN elements BY <1>7 DEF AtElement
    <2>3. Growing(prose) BY <1>1, <1>7 DEF AllSourced
    <2> QED BY <1>5, <1>7, <2>1, <2>2, <2>3
<1>8. CASE ~ (\/ todo # <<>>
              \/ todo = <<>> /\ table # NoGroup /\ RowOfTable
              \/ todo = <<>> /\ table = NoGroup /\ prose # NoGroup
                 /\ AtElement({"paragraph", "code"}))
    <2>1. Encoded = <<>> BY <1>8 DEF Encoded
    <2>2. DOMAIN <<>> = {} OBVIOUS
    <2> QED BY <1>3, <2>1, <2>2
<1> QED BY <1>4, <1>6, <1>7, <1>8

\* The invariant of the outcome.
LEMMA OutcomeKeeps ==
    Extracting /\ Extracting' /\ Deserving /\ [ExtractionNext]_vars => Deserving'
<1> SUFFICES ASSUME Extracting, Extracting', Deserving, [ExtractionNext]_vars PROVE Deserving'
    OBVIOUS
<1>C. /\ FileAtWork /\ PhasesOK /\ Reading /\ RowsReading /\ Reading' /\ RowsReading'
    BY DEF Extracting, Control
<1>D. phase # "idle" => doc \in Files BY <1>C DEF FileAtWork
<1>1. CASE Take
    <2>1. /\ phase' \in {"reading", "converting"} /\ failure' = failure /\ rows' = rows
          /\ phase = "idle"
        BY <1>1 DEF Take, parserVars
    <2>2. failure = "none" /\ rows = <<>>
        BY <1>C, <2>1 DEF Deserving, Decided, PhasesOK, Untouched
    <2> QED BY <2>1, <2>2, NotYetDecided
<1>2. CASE ReadLines
    <2>1. phase = "reading" BY <1>2 DEF ReadLines
    <2>2. doc.format # "pdf" /\ Untouched BY <1>C, <2>1 DEF PhasesOK
    <2> QED BY <1>2, <1>D, <2>1, <2>2, ReadDeserves
<1>3. CASE ConversionEnds
    <2>1. phase = "converting" BY <1>3 DEF ConversionEnds
    <2>2. doc.format = "pdf" /\ Untouched BY <1>C, <2>1 DEF PhasesOK
    <2> QED BY <1>3, <1>D, <2>1, <2>2, ConversionDeserves
<1>4. CASE ConversionTimesOut
    <2>1. phase = "converting" \/ (phase = "parsing" /\ doc.format = "pdf")
        BY <1>4 DEF ConversionTimesOut, Parsing
    <2>2. doc.format = "pdf" BY <1>C, <2>1 DEF PhasesOK
    <2> QED BY <1>4, <1>D, <2>1, <2>2, ConversionDeserves
<1>5. CASE ParseStep
    <2>1. Parse /\ doc' = doc BY <1>5 DEF ParseStep
    <2>2. phase \in {"parsing", "rows"} BY <2>1, ParsePhases
    <2>3. phase = "rows" => doc.format = "csv" BY <1>C DEF PhasesOK
    <2> QED BY <1>C, <1>D, <2>1, <2>2, <2>3, ParseDeserves
<1>6. CASE ChunkReturn
    <2>1. phase = "chunking" BY <1>6 DEF ChunkReturn
    <2>2. index > 0 BY <1>C, <2>1 DEF PhasesOK
    <2> QED BY <1>6, <1>D, <2>1, <2>2, ReturnDeserves
<1>7. CASE ChunkCall \/ ChunkStep
    <2>1. /\ phase \in {"parsed", "chunking"} /\ phase' = "chunking" /\ doc' = doc
          /\ failure' = failure /\ UNCHANGED parserVars
        BY <1>7 DEF ChunkCall, ChunkStep
    <2>2. elements' = elements
        BY <1>7 DEF ChunkCall, ChunkStep, Proceed, Heading, LogRecord, TableHeader, TableRow,
                    TableEnd, Prose, ElementsEnd, Window
    <2> QED BY <2>1, <2>2, DeservingStays DEF Past
<1>8. CASE Settle
    <2>1. phase' = "idle" /\ failure' = "none" /\ rows' = <<>> BY <1>8 DEF Settle
    <2> QED BY <2>1, NotYetDecided
<1>9. CASE AbandonedEnds \/ UNCHANGED vars
    <2>1. /\ doc' = doc /\ failure' = failure /\ phase' = phase /\ UNCHANGED parserVars
          /\ elements' = elements /\ UNCHANGED chunkVars
        BY <1>9 DEF AbandonedEnds, vars, chunkVars
    <2>2. phase' = "chunked" => chunks' # <<>> /\ Chunked'
        BY <2>1 DEF Deserving, Decided, chunkVars, Chunked
    <2> QED BY <2>1, <2>2, DeservingStays
<1>10. CASE ChunkRaises
    <2>1. /\ phase = "chunking" /\ phase' = "failed" /\ doc' = doc /\ elements' = elements
          /\ failure' = "unexpected_processing_error" /\ UNCHANGED parserVars
          /\ Refused(Encoded)
        BY <1>10 DEF ChunkRaises, Raise, Fail
    <2>2. index > 0 BY <1>C, <2>1 DEF PhasesOK
    <2>3. Offends BY <1>D, <2>1, <2>2, RaiseOffends
    <2>4. Offends' BY <2>1, <2>3, SameLines
    <2>5. Decided' BY <2>1, <2>4 DEF Decided, Past
    <2> QED BY <2>1, <2>5, FailedDeserves
<1> QED BY <1>1, <1>2, <1>3, <1>4, <1>5, <1>6, <1>7, <1>8, <1>9, <1>10 DEF ExtractionNext, Work

\* The invariant of the outcome holds of the whole run.
LEMMA WorkerDeserves == ExtractionSpec => []Deserving
<1>1. ExtractionInit => Deserving
    <2> SUFFICES ASSUME ExtractionInit PROVE Deserving OBVIOUS
    <2>1. phase = "idle" /\ failure = "none" /\ rows = <<>> BY DEF ExtractionInit
    <2>2. Decided BY <2>1 DEF Decided, Past
    <2>3. RowsDeserve /\ RowsHeld
        <3>1. DOMAIN rows = {} BY <2>1
        <3> QED BY <2>1, <3>1 DEF RowsDeserve, RowsThen, Past, RowsHeld
    <2> QED BY <2>1, <2>2, <2>3 DEF Deserving, LinesDeserve, LinesThen, ItemsDeserve, Past
<1> QED BY <1>1, OutcomeKeeps, WorkerInvariant, PTL DEF ExtractionSpec

-----------------------------------------------------------------------------
(* The outcome. *)

\* What is chunked could be.
LEMMA ChunkedIsExtractable ==
    ASSUME Extracting, Deserving, phase = "chunked"
    PROVE  Extractable
<1>1. doc \in Files /\ index > 0 BY DEF Extracting, Control, FileAtWork, PhasesOK
<1>2. chunks # <<>> BY DEF Deserving, Decided
<1>3. PICK e \in DOMAIN elements : elements[e].type # "heading" /\ Good(elements[e])
    <2>1. Chunker /\ Lists(elements) BY <1>1 DEF Extracting, Reading
    <2>2. 1 \in DOMAIN chunks
        <3> DEFINE S == [group : HandedType, from : Nat, upto : Nat]
        <3>1. chunks \in Seq(S) BY <2>1 DEF Chunker, Inductive, ChunkingTypeOK
        <3> HIDE DEF S
        <3> QED BY <1>2, <3>1
    <2> DEFINE m == chunks[1].group.members
    <2>3. m \in Seq(Nat) /\ Len(m) > 0
          /\ \A j \in DOMAIN m : m[j] \in DOMAIN elements /\ elements[m[j]].type # "heading"
        <3>1. Sourced(chunks[1].group) BY <2>1, <2>2 DEF Chunker, AllSourced
        <3>2. Len(m) > 0
              /\ \A j \in DOMAIN m : m[j] \in DOMAIN elements /\ elements[m[j]].type # "heading"
            BY <3>1 DEF Sourced
        <3> DEFINE S == [group : HandedType, from : Nat, upto : Nat]
        <3>3. chunks \in Seq(S) BY <2>1 DEF Chunker, Inductive, ChunkingTypeOK
        <3> HIDE DEF S
        <3>4. chunks[1] \in S BY <2>2, <3>3
        <3>5. m \in Seq(Nat) BY <3>4 DEF S, HandedType
        <3> QED BY <3>2, <3>5
    <2> HIDE DEF m
    <2>4. 1 \in DOMAIN m BY <2>3
    <2> QED BY <2>1, <2>3, <2>4 DEF Lists
<1>4. doc.format # "csv" => BodyLines # {} BY <1>3 DEF Good, OfBody
<1>5. doc.format # "pdf" => Len(doc.lines) <= MaxLines BY DEF Deserving, Decided, Past
<1>6. doc.format = "pdf" => \A l \in Lines : Kind(l) \notin {"broken", "corrupt"}
    BY DEF Deserving, ItemsDeserve, Past
<1>7. doc.format = "csv" => RowsInOrder
    <2> SUFFICES ASSUME doc.format = "csv" PROVE RowsInOrder OBVIOUS
    <2>1. RowsThen(rows, buffer, line, elements, phase) BY DEF Deserving, RowsDeserve
    <2>2. /\ rows # <<>> /\ Len(rows) <= MaxRows /\ Len(elements) = Len(rows)
          /\ \A l \in Lines : ~ OddBefore("quote", l) => RowAt(rows, l)
          /\ \A n \in DOMAIN elements : Width(rows[n]) <= MaxColumns /\ RowText(rows[n]) # <<>>
          /\ FitBefore(Len(doc.lines) + 1)
        BY <2>1 DEF RowsThen, Past
    <2>3. /\ rows \in Seq(Seq(Lines)) /\ elements \in Seq(Elements)
          /\ \A r \in DOMAIN rows : RowStarts(rows[r])
        BY DEF Extracting, RowsReading, InRuns, Reading, Lists
    <2>4. DOMAIN elements = DOMAIN rows BY <2>2, <2>3
    <2>5. \A r \in DOMAIN rows :
              /\ rows[r] \in Seq(Lines) /\ rows[r] # <<>>
              /\ Kind(rows[r][1]) \notin {"blank", "empty", "wide"}
        <3> SUFFICES ASSUME NEW r \in DOMAIN rows
                     PROVE  /\ rows[r] \in Seq(Lines) /\ rows[r] # <<>>
                            /\ Kind(rows[r][1]) \notin {"blank", "empty", "wide"}
            OBVIOUS
        <3>1. RowStarts(rows[r]) /\ Width(rows[r]) <= MaxColumns /\ RowText(rows[r]) # <<>>
            BY <2>2, <2>3, <2>4
        <3>2. rows[r] # <<>> BY <3>1 DEF RowStarts
        <3>3. rows[r] \in Seq(Lines)
            <4> DEFINE S == Seq(Lines)
            <4>1. rows \in Seq(S) BY <2>3
            <4> HIDE DEF S
            <4>2. rows[r] \in S BY <4>1
            <4> QED BY <4>2 DEF S
        <3> QED BY <1>1, <3>1, <3>2, <3>3, GoodRow
    <2>6. \A l \in Lines : ~ OddBefore("quote", l) => Kind(l) \notin {"blank", "empty", "wide"}
        BY <2>2, <2>5 DEF RowAt
    <2>7. Lines # {}
        <3> DEFINE S == Seq(Lines)
        <3>1. rows \in Seq(S) BY <2>3
        <3> HIDE DEF S
        <3>2. 1 \in DOMAIN rows BY <2>2, <3>1
        <3>3. rows[1] \in Seq(Lines) /\ rows[1] # <<>> BY <2>5, <3>2
        <3>4. rows[1][1] \in Lines BY <3>3
        <3> QED BY <3>4
    <2> QED BY <1>1, <2>2, <2>6, <2>7, RowsInOrderSays
<1>8. doc.format \in Formats BY <1>1, FileTokens
<1> QED BY <1>4, <1>5, <1>6, <1>7, <1>8, ExtractableSays DEF Formats

\* No token of a chunk is one that the tokenizer refuses.
LEMMA ChunksAreEncoded ==
    ASSUME Extracting, index > 0
    PROVE  ChunkTokens \cap Reserved = {}
<1>1. Chunker BY DEF Extracting
<1> SUFFICES ASSUME NEW k \in DOMAIN chunks, NEW t \in Slice(chunks[k]) PROVE t \notin Reserved
    BY DEF ChunkTokens
<1> DEFINE text == chunks[k].group.text
<1>2. chunks[k].from \in Nat /\ chunks[k].upto \in Nat /\ text \in Seq(Token)
    <2> DEFINE S == [group : HandedType, from : Nat, upto : Nat]
    <2>1. chunks \in Seq(S) BY <1>1 DEF Chunker, Inductive, ChunkingTypeOK
    <2> HIDE DEF S
    <2>2. chunks[k] \in S BY <2>1
    <2> QED BY <2>2 DEF S, HandedType
<1>3. chunks[k].upto <= Len(text) /\ ~ Refused(text) BY <1>1 DEF Chunker, AllEncoded
<1>4. PICK p \in chunks[k].from + 1 .. chunks[k].upto : t = text[p] BY DEF Slice
<1>5. p \in DOMAIN text BY <1>2, <1>3, <1>4
<1> QED BY <1>3, <1>4, <1>5 DEF Refused

\* What is chunked was encoded.
LEMMA ChunkedIsEncoded ==
    ASSUME Extracting, Deserving, phase = "chunked"
    PROVE  BodyTokens \subseteq ChunkTokens \cup {Whitespace} /\ BodyTokens \cap Reserved = {}
<1>1. index > 0 BY DEF Extracting, Control, PhasesOK
<1>2. Chunked BY DEF Deserving, Decided
<1>3. BodyTokens \subseteq ChunkTokens \cup {Whitespace}
    BY <1>1, <1>2, AllIsChunked DEF Extracting, Chunker, NothingLost
<1>4. Whitespace \notin Reserved BY ParsersAssumption
<1> QED BY <1>1, <1>3, <1>4, ChunksAreEncoded

\* A line that is not blank gives no white space.
LEMMA SolidTokens ==
    ASSUME doc \in Files, NEW l, Solid(l)
    PROVE  Whitespace \notin TokensOf(LineTokens(l))
<1>1. l \in Lines /\ Kind(l) # "blank" BY DEF Solid
<1>2. /\ LongTokens \in Nat /\ LongTokens > 1
      /\ \A k \in -1 .. LongTokens + 1 : <<l, k>> # Whitespace
    BY <1>1, FileTokens, ParsersAssumption
<1>3. \A k \in 1 .. LongTokens + 1 : <<l, k>> # Whitespace BY <1>2
<1>4. CASE Kind(l) = "long"
    <2>1. LineTokens(l) = [k \in 1 .. LongTokens |-> <<l, k>>] BY <1>4 DEF LineTokens, Special
    <2>2. \A k \in 1 .. LongTokens : k \in 1 .. LongTokens + 1 BY <1>2
    <2> QED BY <1>3, <2>1, <2>2 DEF TokensOf
<1>5. CASE Kind(l) = "spread"
    <2> DEFINE a == <<l, 1>>
               b == <<l, 2>>
    <2>1. LineTokens(l) = <<a, b>> BY <1>5 DEF LineTokens, Special
    <2>2. a # Whitespace /\ b # Whitespace BY <1>2, <1>3
    <2> HIDE DEF a, b
    <2>3. DOMAIN <<a, b>> = 1 .. 2 /\ <<a, b>>[1] = a /\ <<a, b>>[2] = b OBVIOUS
    <2> QED BY <2>1, <2>2, <2>3 DEF TokensOf
<1>6. CASE Kind(l) \notin {"long", "spread"}
    <2> DEFINE k == IF Special(l) THEN LongTokens + 1 ELSE 1
               a == <<l, k>>
    <2>1. LineTokens(l) = <<a>> BY <1>1, <1>6, Zenon DEF LineTokens, Special
    <2>2. a # Whitespace
        <3>1. k \in 1 .. LongTokens + 1 BY <1>2
        <3> QED BY <1>3, <3>1
    <2> HIDE DEF a
    <2>3. DOMAIN <<a>> = 1 .. 1 /\ <<a>>[1] = a OBVIOUS
    <2> QED BY <2>1, <2>2, <2>3 DEF TokensOf
<1> QED BY <1>4, <1>5, <1>6

\* A document is chunked when there was something to extract from it, within the limits and
\* without the tokenizer's special text, and a text file fails only when there was not; a
\* failure is an unexpected one only for that text, or a CSV file with an empty row or too
\* long a field. For whatever files the worker is given and all limits (text.py:93-94,
\* 259-274, docling_pdf.py:57-89, structure_aware.py:112, 183, worker_pipeline.py:102-119).
THEOREM OutcomesAreDeserved == ExtractionSpec => []OutcomeIsDeserved
<1>1. Extracting /\ Deserving => OutcomeIsDeserved
    BY ChunkedIsExtractable, ChunkedIsEncoded DEF OutcomeIsDeserved, Deserving, Decided, Offends
<1> QED BY <1>1, WorkerDeserves, WorkerInvariant, PTL

\* Every line of the file's body is in the chunks, unless an element it is in, or that cites
\* it, was cut: no parser forgets what it was gathering, for whatever files the worker is
\* given and all limits (text.py:120-146, 183-232, 305-340).
THEOREM BodyReachesChunks == ExtractionSpec => []LinesReachChunks
<1>1. Extracting /\ Deserving => LinesReachChunks
    <2> SUFFICES ASSUME Extracting, Deserving, phase = "chunked", NEW l \in BodyLines
                 PROVE  \/ ToSet(LineTokens(l)) \subseteq ChunkTokens
                        \/ \E e \in DOMAIN elements :
                              /\ Cut(elements[e])
                              /\ l \in Cited(elements[e])
                                       \cup SourceLines(TokensOf(elements[e].text))
        BY DEF LinesReachChunks
    <2>1. doc \in Files BY DEF Extracting, Control, FileAtWork
    <2>2. Carried(elements, l) BY BodyIsHeld DEF Past
    <2>3. PICK e \in DOMAIN elements : elements[e].type # "heading" /\ Holds(elements[e], l)
        BY <2>2 DEF Carried
    <2>4. CASE TokensOf(LineTokens(l)) \subseteq TokensOf(elements[e].text)
        <3>1. TokensOf(elements[e].text) \subseteq BodyTokens BY <2>3 DEF BodyTokens
        <3>2. Solid(l) BY DEF BodyLines
        <3>3. Whitespace \notin TokensOf(LineTokens(l)) BY <2>1, <3>2, SolidTokens
        <3>4. ToSet(LineTokens(l)) = TokensOf(LineTokens(l)) BY DEF ToSet, TokensOf
        <3> QED BY <2>4, <3>1, <3>3, <3>4, ChunkedIsEncoded
    <2> QED BY <2>3, <2>4 DEF Holds
<1> QED BY <1>1, WorkerDeserves, WorkerInvariant, PTL
-----------------------------------------------------------------------------
(* The headings around a text. *)

Sectioned == doc.format \in {"markdown", "pdf"}

\* There is no heading from line n up to line l.
NoHeading(n, l) == \A h \in HeadingLines : h < n \/ l <= h

\* The path ends with the innermost heading around a line; as long as no level is skipped,
\* it holds all of them, the one of rank j in place j, in their order.
Stacked(path, l) ==
    /\ Enclosing(l) # {} =>
        /\ path # <<>> /\ path[Len(path)][1] \in Enclosing(l)
        /\ \A h \in Enclosing(l) : h <= path[Len(path)][1]
    /\ LevelsInOrder =>
        /\ \A j \in DOMAIN path :
            /\ path[j][1] \in Enclosing(l) /\ Level(Kind(path[j][1])) = j
            /\ \A i \in DOMAIN path : i < j => path[i][1] < path[j][1]
        /\ \A h \in Enclosing(l) : \E j \in DOMAIN path : path[j][1] = h

\* The lines an element is made from, or more: those it points to, where pages do not
\* stand for them.
Span(el) == IF doc.format = "pdf" THEN SourceLines(TokensOf(el.text)) ELSE el.first .. el.last

\* Elements other than headings have the stack of all these lines, and of the element
\* before them.
Placed(es) ==
    \A e \in DOMAIN es :
        es[e].type # "heading" =>
            /\ \A l \in Span(es[e]) : Stacked(es[e].path, l)
            /\ e > 1 => es[e].path = es[e - 1].path

\* The parser has the stack of its line, and of what it is gathering.
PlacedThen(es, path, at, buf, since, ph) ==
    /\ Placed(es)
    /\ ph = "parsing" =>
        /\ Stacked(path, at)
        /\ es # <<>> => es[Len(es)].path = path
        /\ buf # <<>> => NoHeading(since, at)

\* The members of a group have one path.
Agree(g) == \A j \in DOMAIN g.members : SamePath(g.members[j], g.members[1])

AllAgree ==
    /\ prose # NoGroup => Agree(prose) /\ SamePath(index - 1, prose.members[1])
    /\ table # NoGroup => Agree(table)
    /\ \A k \in DOMAIN todo : Agree(todo[k])
    /\ \A k \in DOMAIN chunks : Agree(chunks[k].group)

InContext ==
    Sectioned => PlacedThen(elements, hierarchy, line, buffer, from, phase) /\ AllAgree
-----------------------------------------------------------------------------
(* The stack from one line to the next. *)

\* The headings are lines of the file.
LEMMA HeadingsAreLines ==
    ASSUME doc \in Files
    PROVE  /\ HeadingLines \in SUBSET Nat
           /\ \A h \in HeadingLines : h > 0 /\ h \in Lines /\ Level(Kind(h)) \in 1 .. 6
           /\ \A l : Enclosing(l) \subseteq HeadingLines /\ \A h \in Enclosing(l) : h < l
<1>1. Lines = 1 .. Len(doc.lines) /\ Len(doc.lines) \in Nat BY FileTokens
<1>2. \A h \in HeadingLines : h \in Lines /\ IsHeading(Kind(h)) BY DEF HeadingLines
<1>3. \A h \in HeadingLines : h \in Nat /\ h > 0 BY <1>1, <1>2
<1>4. \A l : Enclosing(l) \subseteq HeadingLines /\ \A h \in Enclosing(l) : h < l
    BY DEF Enclosing
<1> QED BY <1>2, <1>3, <1>4, LevelOfHeading

\* Lines without a heading between them are in the same sections.
LEMMA EnclosingStays ==
    ASSUME doc \in Files, NEW n \in Nat, NEW l \in Nat, n <= l, NoHeading(n, l)
    PROVE  Enclosing(l) = Enclosing(n)
<1>1. HeadingLines \in SUBSET Nat BY HeadingsAreLines
<1>2. \A h \in HeadingLines : h \in Nat /\ (h < l <=> h < n) BY <1>1 DEF NoHeading
<1> QED BY <1>2 DEF Enclosing

\* So their stacks are the same.
LEMMA StackStays ==
    ASSUME doc \in Files, NEW n \in Nat, NEW l \in Nat, n <= l, NoHeading(n, l), NEW path
    PROVE  Stacked(path, l) <=> Stacked(path, n)
<1>1. Enclosing(l) = Enclosing(n) BY EnclosingStays
<1> QED BY <1>1 DEF Stacked

\* A heading ends the sections that do not outrank it, and starts one.
LEMMA EnclosingAfter ==
    ASSUME doc \in Files, NEW n \in HeadingLines
    PROVE  \A h : h \in Enclosing(n + 1) <=>
                      h = n \/ (h \in Enclosing(n) /\ Level(Kind(h)) < Level(Kind(n)))
<1>1. HeadingLines \in SUBSET Nat /\ \A h \in HeadingLines : Level(Kind(h)) \in 1 .. 6
    BY HeadingsAreLines
<1>2. n \in Nat /\ \A h \in HeadingLines : h \in Nat /\ (h < n + 1 <=> h < n \/ h = n)
    BY <1>1
<1>3. ASSUME NEW h \in Enclosing(n + 1), h # n
      PROVE  h \in Enclosing(n) /\ Level(Kind(h)) < Level(Kind(n))
    <2>1. /\ h \in HeadingLines /\ h < n + 1
          /\ \A g \in HeadingLines : g > h /\ g < n + 1 => Level(Kind(g)) > Level(Kind(h))
        BY DEF Enclosing
    <2>2. h < n BY <1>2, <1>3, <2>1
    <2>3. Level(Kind(n)) > Level(Kind(h)) BY <1>2, <2>1, <2>2
    <2>4. \A g \in HeadingLines : g > h /\ g < n => Level(Kind(g)) > Level(Kind(h))
        BY <1>2, <2>1
    <2>5. Level(Kind(h)) < Level(Kind(n)) BY <1>1, <2>1, <2>3
    <2> QED BY <2>1, <2>2, <2>4, <2>5 DEF Enclosing
<1>4. n \in Enclosing(n + 1)
    <2>1. \A g \in HeadingLines : ~ (g > n /\ g < n + 1) BY <1>2
    <2> QED BY <1>2, <2>1 DEF Enclosing
<1>5. ASSUME NEW h \in Enclosing(n), Level(Kind(h)) < Level(Kind(n))
      PROVE  h \in Enclosing(n + 1)
    <2>1. /\ h \in HeadingLines /\ h < n
          /\ \A g \in HeadingLines : g > h /\ g < n => Level(Kind(g)) > Level(Kind(h))
        BY DEF Enclosing
    <2>2. Level(Kind(n)) > Level(Kind(h)) BY <1>1, <1>5, <2>1
    <2>3. \A g \in HeadingLines : g > h /\ g < n + 1 => Level(Kind(g)) > Level(Kind(h))
        BY <1>2, <2>1, <2>2
    <2> QED BY <1>2, <2>1, <2>3 DEF Enclosing
<1> QED BY <1>3, <1>4, <1>5

\* As long as no level is skipped, a heading of rank n finds n - 1 others on the stack.
LEMMA RankOfHeading ==
    ASSUME doc \in Files, NEW path \in Seq(HeadingTokens), NEW n \in HeadingLines,
           Stacked(path, n), LevelsInOrder
    PROVE  Level(Kind(n)) <= Len(path) + 1
<1> DEFINE ranks == {0} \cup {Level(Kind(g)) : g \in Enclosing(n)}
<1>1. Len(path) \in Nat /\ DOMAIN path = 1 .. Len(path) BY SMTT(30)
<1>2. \A h \in Enclosing(n) : Level(Kind(h)) \in 1 .. Len(path)
    <2> SUFFICES ASSUME NEW h \in Enclosing(n) PROVE Level(Kind(h)) \in 1 .. Len(path) OBVIOUS
    <2>1. PICK j \in DOMAIN path : path[j][1] = h /\ Level(Kind(path[j][1])) = j
        BY DEF Stacked
    <2> QED BY <1>1, <2>1
<1>3. ranks \in SUBSET Nat /\ ranks # {} /\ \A m \in ranks : m <= Len(path) BY <1>1, <1>2
<1>4. Level(Kind(n)) <= 1 + Max(ranks) BY DEF LevelsInOrder
<1> HIDE DEF ranks
<1>5. Max(ranks) \in ranks BY <1>1, <1>3, MaxIsGreatest
<1>6. Max(ranks) \in Nat /\ Max(ranks) <= Len(path) BY <1>3, <1>5
<1>7. Level(Kind(n)) \in Nat
    <2>1. Level(Kind(n)) \in 1 .. 6 BY HeadingsAreLines
    <2> QED BY <2>1
<1> QED BY <1>1, <1>4, <1>6, <1>7

\* A heading, put on the stack in the place of its rank, makes the stack of the next line.
LEMMA StackDescends ==
    ASSUME doc \in Files, hierarchy \in Seq(HeadingTokens), line \in HeadingLines,
           Stacked(hierarchy, line)
    PROVE  Stacked(Descend(Level(Kind(line))), line + 1)
<1> DEFINE level == Level(Kind(line))
           kept == Min({level - 1, Len(hierarchy)})
           top == SubSeq(hierarchy, 1, kept)
           t == HeadingToken(line)
           path == Append(top, t)
<1>0. Descend(level) = path BY DEF Descend
<1>1. /\ level \in 1 .. 6 /\ Len(hierarchy) \in Nat /\ DOMAIN hierarchy = 1 .. Len(hierarchy)
      /\ line \in Nat
    <2>1. Level(Kind(line)) \in 1 .. 6 /\ line \in Nat BY HeadingsAreLines
    <2>2. Len(hierarchy) \in Nat /\ DOMAIN hierarchy = 1 .. Len(hierarchy) BY SMTT(30)
    <2> QED BY <2>1, <2>2
<1>2. t[1] = line BY DEF HeadingToken
<1>3. kept \in 0 .. Len(hierarchy) /\ (level <= Len(hierarchy) + 1 => kept = level - 1)
    <2> DEFINE S == {level - 1, Len(hierarchy)}
    <2> HIDE DEF level
    <2>1. S \in SUBSET Nat /\ S # {} /\ Len(hierarchy) \in S /\ level - 1 \in S BY <1>1
    <2>2. \A m \in S : m = level - 1 \/ m = Len(hierarchy) OBVIOUS
    <2> HIDE DEF S
    <2>3. Min(S) \in S /\ Min(S) <= Len(hierarchy) /\ Min(S) <= level - 1 BY <2>1, MinIsLeast
    <2> DEFINE m == Min(S)
               a == level - 1
               b == Len(hierarchy)
    <2>4. m \in {a, b} /\ m \in Nat /\ a \in Nat /\ b \in Nat /\ m <= a /\ m <= b
        BY <1>1, <2>1, <2>2, <2>3
    <2>5. level <= Len(hierarchy) + 1 => a <= b BY <1>1
    <2> HIDE DEF m, a, b
    <2>6. m \in 0 .. b /\ (a <= b => m = a) BY <2>4
    <2>7. kept = m BY DEF m, S
    <2> HIDE DEF kept
    <2> QED BY <2>5, <2>6, <2>7 DEF a, b
<1> HIDE DEF kept
<1>4. /\ top \in Seq(HeadingTokens) /\ Len(top) = kept
      /\ \A j \in 1 .. kept : top[j] = hierarchy[j]
    BY <1>1, <1>3
<1>T. t \in HeadingTokens
    <2>1. line \in Lines BY HeadingsAreLines
    <2>2. line \in 0 .. Len(doc.lines) BY <2>1, FileTokens
    <2>3. CASE Special(line)
        <3>1. t = <<line, -1>> BY <2>3 DEF HeadingToken
        <3> QED BY <2>1, <2>2, <2>3, <3>1 DEF HeadingTokens
    <2>4. CASE ~ Special(line)
        <3>1. t = <<line, 0>> BY <2>4 DEF HeadingToken
        <3> QED BY <2>2, <3>1 DEF HeadingTokens
    <2> QED BY <2>3, <2>4
<1> HIDE DEF top, t
<1>5. /\ Len(path) = kept + 1 /\ kept \in Nat /\ DOMAIN path = 1 .. kept + 1
      /\ \A j \in 1 .. kept : path[j] = hierarchy[j] /\ j \in DOMAIN hierarchy
      /\ path[kept + 1][1] = line /\ path # <<>>
    <2>1. kept \in Nat BY <1>1, <1>3
    <2>2. /\ Len(path) = kept + 1 /\ DOMAIN path = 1 .. kept + 1
          /\ \A j \in 1 .. kept : path[j] = top[j]
          /\ path[kept + 1] = t
        BY <1>4, <2>1
    <2>3. path # <<>> BY <1>4, <1>T, Longer
    <2>4. \A j \in 1 .. kept : j \in DOMAIN hierarchy BY <1>1, <1>3
    <2> HIDE DEF path
    <2> QED BY <1>2, <1>4, <2>1, <2>2, <2>3, <2>4
<1> HIDE DEF path
<1>6. \A h : h \in Enclosing(line + 1) <=>
                 h = line \/ (h \in Enclosing(line) /\ Level(Kind(h)) < level)
    BY EnclosingAfter
<1>7. \A h \in Enclosing(line) : h \in Nat /\ h < line BY HeadingsAreLines
<1>8. Enclosing(line + 1) # {} =>
        /\ path # <<>> /\ path[Len(path)][1] \in Enclosing(line + 1)
        /\ \A h \in Enclosing(line + 1) : h <= path[Len(path)][1]
    BY <1>1, <1>5, <1>6, <1>7
<1>9. ASSUME LevelsInOrder
      PROVE  /\ \A j \in DOMAIN path :
                  /\ path[j][1] \in Enclosing(line + 1) /\ Level(Kind(path[j][1])) = j
                  /\ \A i \in DOMAIN path : i < j => path[i][1] < path[j][1]
             /\ \A h \in Enclosing(line + 1) : \E j \in DOMAIN path : path[j][1] = h
    <2>1. kept = level - 1 BY <1>3, <1>9, RankOfHeading
    <2>2. /\ \A j \in DOMAIN hierarchy :
                /\ hierarchy[j][1] \in Enclosing(line) /\ Level(Kind(hierarchy[j][1])) = j
                /\ \A i \in DOMAIN hierarchy : i < j => hierarchy[i][1] < hierarchy[j][1]
          /\ \A h \in Enclosing(line) : \E j \in DOMAIN hierarchy : hierarchy[j][1] = h
        BY <1>9 DEF Stacked
    <2>3. kept + 1 = level /\ kept \in Nat BY <1>1, <1>5, <2>1
    <2>4. \A j \in DOMAIN path : j \in 1 .. kept \/ j = kept + 1 BY <1>5
    <2>5. ASSUME NEW j \in DOMAIN path
          PROVE  /\ path[j][1] \in Enclosing(line + 1) /\ Level(Kind(path[j][1])) = j
                 /\ \A i \in DOMAIN path : i < j => path[i][1] < path[j][1]
        <3>1. CASE j \in 1 .. kept
            <4>1. path[j] = hierarchy[j] /\ j \in DOMAIN hierarchy BY <1>5, <3>1
            <4>2. path[j][1] \in Enclosing(line) /\ Level(Kind(path[j][1])) = j BY <2>2, <4>1
            <4>3. j < level BY <2>3, <3>1
            <4>4. path[j][1] \in Enclosing(line + 1)
                <5> HIDE DEF level
                <5> QED BY <1>6, <4>2, <4>3
            <4>5. ASSUME NEW i \in DOMAIN path, i < j PROVE path[i][1] < path[j][1]
                <5>1. i \in 1 .. kept BY <1>5, <3>1, <4>5
                <5>2. path[i] = hierarchy[i] /\ i \in DOMAIN hierarchy BY <1>5, <5>1
                <5> QED BY <2>2, <4>1, <4>5, <5>2
            <4> QED BY <4>2, <4>4, <4>5
        <3>2. CASE j = kept + 1
            <4>1. path[j][1] = line BY <1>5, <3>2
            <4>2. path[j][1] \in Enclosing(line + 1) /\ Level(Kind(path[j][1])) = j
                BY <1>6, <2>3, <3>2, <4>1
            <4>3. ASSUME NEW i \in DOMAIN path, i < j PROVE path[i][1] < path[j][1]
                <5>1. i \in 1 .. kept BY <1>5, <3>2, <4>3
                <5>2. path[i] = hierarchy[i] /\ i \in DOMAIN hierarchy BY <1>5, <5>1
                <5>3. path[i][1] \in Enclosing(line) BY <2>2, <5>2
                <5> QED BY <1>7, <4>1, <5>3
            <4> QED BY <4>2, <4>3
        <3> QED BY <2>4, <3>1, <3>2
    <2>6. ASSUME NEW h \in Enclosing(line + 1) PROVE \E j \in DOMAIN path : path[j][1] = h
        <3>1. CASE h = line
            <4>1. kept + 1 \in DOMAIN path BY <1>5
            <4> QED BY <1>5, <3>1, <4>1
        <3>2. CASE h \in Enclosing(line) /\ Level(Kind(h)) < level
            <4>1. PICK j \in DOMAIN hierarchy : hierarchy[j][1] = h BY <2>2, <3>2
            <4>2. Level(Kind(h)) = j BY <2>2, <4>1
            <4>3. j \in Nat /\ j >= 1 /\ j < kept + 1 BY <1>1, <2>3, <3>2, <4>2
            <4>4. j \in 1 .. kept /\ j \in DOMAIN path BY <1>5, <4>3
            <4> QED BY <1>5, <4>1, <4>4
        <3> QED BY <1>6, <3>1, <3>2
    <2> QED BY <2>5, <2>6
<1>10. Stacked(path, line + 1) BY <1>8, <1>9 DEF Stacked
<1> QED BY <1>0, <1>10

-----------------------------------------------------------------------------
(* The parsers' paths. *)

\* The last element of a list has the path.
EndsWith(es, path) == es # <<>> => es[Len(es)].path = path

\* An element that is placed where it stands in its file.
LEMMA PlacedGrows ==
    ASSUME NEW S, NEW es \in Seq(S), Placed(es), NEW el,
           el.type # "heading" =>
               EndsWith(es, el.path) /\ \A l \in Span(el) : Stacked(el.path, l)
    PROVE  Placed(Append(es, el)) /\ EndsWith(Append(es, el), el.path)
<1> DEFINE more == Append(es, el)
           n == Len(es)
<1>1. /\ n \in Nat /\ Len(more) = n + 1 /\ DOMAIN more = 1 .. n + 1 /\ DOMAIN es = 1 .. n
      /\ \A j \in 1 .. n : more[j] = es[j]
      /\ more[n + 1] = el
    OBVIOUS
<1>2. n > 0 => es # <<>> OBVIOUS
<1> HIDE DEF more, n
<1>3. ASSUME NEW e \in DOMAIN more, more[e].type # "heading"
      PROVE  /\ \A l \in Span(more[e]) : Stacked(more[e].path, l)
             /\ e > 1 => more[e].path = more[e - 1].path
    <2>1. CASE e \in 1 .. n
        <3>1. more[e] = es[e] /\ e \in DOMAIN es BY <1>1, <2>1
        <3>2. e > 1 => more[e - 1] = es[e - 1]
            <4>1. e > 1 => e - 1 \in 1 .. n BY <1>1, <2>1
            <4> QED BY <1>1, <4>1
        <3> QED BY <1>3, <3>1, <3>2 DEF Placed
    <2>2. CASE e = n + 1
        <3>1. more[e] = el /\ e - 1 = n BY <1>1, <2>2
        <3>2. e > 1 => n \in 1 .. n /\ n > 0 BY <1>1, <2>2
        <3>3. e > 1 => more[e - 1] = es[n] /\ es # <<>> BY <1>1, <1>2, <3>1, <3>2
        <3> QED BY <1>3, <3>1, <3>3 DEF EndsWith, n
    <2> QED BY <1>1, <2>1, <2>2
<1>4. EndsWith(more, el.path) BY <1>1 DEF EndsWith
<1> QED BY <1>3, <1>4 DEF Placed, more

\* A line that is no heading.
LEMMA NoHeadingHere ==
    ASSUME doc \in Files, NEW l \in Nat, l \notin HeadingLines
    PROVE  /\ NoHeading(l, l + 1)
           /\ \A n \in Nat : NoHeading(n, l) => NoHeading(n, l + 1)
           /\ \A path : Stacked(path, l) => Stacked(path, l + 1)
<1>1. HeadingLines \in SUBSET Nat BY HeadingsAreLines
<1>2. \A h \in HeadingLines : h \in Nat /\ h # l BY <1>1
<1>3. NoHeading(l, l + 1) BY <1>2 DEF NoHeading
<1>4. \A n \in Nat : NoHeading(n, l) => NoHeading(n, l + 1) BY <1>2 DEF NoHeading
<1> QED BY <1>3, <1>4, StackStays

\* What is being gathered has the stack of the line.
LEMMA GatheredStack ==
    ASSUME doc \in Files, NEW n \in Nat, NEW at \in Nat, NoHeading(n, at),
           NEW path, Stacked(path, at)
    PROVE  \A l \in n .. at : Stacked(path, l)
<1> SUFFICES ASSUME NEW l \in n .. at PROVE Stacked(path, l) OBVIOUS
<1>1. l \in Nat /\ l <= at /\ n <= l OBVIOUS
<1>2. HeadingLines \in SUBSET Nat BY HeadingsAreLines
<1>3. NoHeading(l, at) BY <1>1, <1>2 DEF NoHeading
<1> QED BY <1>1, <1>3, StackStays

\* The lines gathered so far, as an element.
LEMMA FlushedPlaces ==
    ASSUME doc \in Files, doc.format = "markdown", Reading, phase = "parsing",
           PlacedThen(elements, hierarchy, line, buffer, from, phase),
           NEW type, NEW last \in Nat, last <= line
    PROVE  Placed(Flushed(type, last)) /\ EndsWith(Flushed(type, last), hierarchy)
<1>1. /\ Placed(elements) /\ Stacked(hierarchy, line) /\ EndsWith(elements, hierarchy)
      /\ buffer # <<>> => NoHeading(from, line)
    BY DEF PlacedThen, EndsWith
<1>2. line \in Nat /\ from \in Nat /\ elements \in Seq(Elements) BY AtWork DEF Lists
<1>3. CASE buffer = <<>> BY <1>1, <1>3 DEF Flushed
<1>4. CASE buffer # <<>>
    <2> DEFINE el == Element(type, TextOf(buffer), hierarchy, from, last)
    <2>1. Flushed(type, last) = Append(elements, el) BY <1>4 DEF Flushed
    <2>2. el.path = hierarchy /\ el.first = from /\ el.last = last BY DEF Element
    <2> HIDE DEF el
    <2>3. \A l \in Span(el) : Stacked(hierarchy, l)
        <3>0. Span(el) = from .. last BY <2>2 DEF Span
        <3>1. \A l \in from .. line : Stacked(hierarchy, l) BY <1>1, <1>2, <1>4, GatheredStack
        <3>2. from .. last \subseteq from .. line BY <1>2
        <3> QED BY <3>0, <3>1, <3>2
    <2>4. Placed(Append(elements, el)) /\ EndsWith(Append(elements, el), hierarchy)
        BY <1>1, <1>2, <2>2, <2>3, PlacedGrows
    <2> QED BY <2>1, <2>4
<1> QED BY <1>3, <1>4

\* What the stack has to be after a step that keeps the file.
LEMMA PlacesNext ==
    ASSUME doc' = doc, Sectioned
    PROVE  Sectioned' /\ (PlacedThen(elements, hierarchy, line, buffer, from, phase)'
                <=> PlacedThen(elements', hierarchy', line', buffer', from', phase'))
<1>1. Sectioned' BY DEF Sectioned
<1>2. /\ \A l : Kind(l)' = Kind(l) /\ HeadingLines' = HeadingLines
    BY DEF Kind, HeadingLines, Lines
<1> QED BY <1>1 DEF PlacedThen, Placed, Span, SourceLines, Stacked, NoHeading, Enclosing,
                    LevelsInOrder, HeadingLines, Lines, Kind

\* The steps of the Markdown parser keep elements where they belong.
LEMMA MarkdownPlaces ==
    ASSUME doc \in Files, doc' = doc, Reading, Deserving, phase' = "parsing" => phase = "parsing",
           PlacedThen(elements, hierarchy, line, buffer, from, phase),
           MarkdownFence \/ MarkdownCode \/ MarkdownHeading \/ MarkdownText \/ MarkdownEnd
    PROVE  PlacedThen(elements', hierarchy', line', buffer', from', phase')
<1>P. phase = "parsing" /\ doc.format = "markdown"
    BY DEF MarkdownFence, MarkdownCode, MarkdownHeading, MarkdownText, MarkdownEnd, AtMarkdown, Parsing
<1>L. /\ line \in Nat /\ from \in Nat /\ Len(doc.lines) \in Nat /\ line - 1 \in Nat
      /\ line - 1 <= line /\ line <= line
      /\ line <= Len(doc.lines) + 1 /\ (line <= Len(doc.lines) => line \in Lines)
      /\ line > 0 /\ elements \in Seq(Elements) /\ hierarchy \in Seq(HeadingTokens)
      /\ fenced => buffer # <<>>
    BY <1>P, AtLine, AtWork DEF Lists
<1>1. /\ Placed(elements) /\ Stacked(hierarchy, line) /\ EndsWith(elements, hierarchy)
      /\ buffer # <<>> => NoHeading(from, line)
    BY <1>P DEF PlacedThen, EndsWith
<1> DEFINE flushed == Flushed("paragraph", line - 1)
<1>F. Placed(flushed) /\ EndsWith(flushed, hierarchy) /\ flushed \in Seq(Elements)
    <2>1. Placed(flushed) /\ EndsWith(flushed, hierarchy) BY <1>P, <1>L, FlushedPlaces
    <2>2. Lists(flushed) BY <1>P, <1>L, FlushedLists
    <2> QED BY <2>1, <2>2 DEF Lists
<1> HIDE DEF flushed
<1>H. fenced \/ ~ IsHeading(Kind(line)) => line \notin HeadingLines
    <2>1. line \in HeadingLines => line \in Lines /\ IsHeading(Kind(line)) BY DEF HeadingLines
    <2>2. fenced <=> OddBefore("fence", line) BY <1>P DEF Deserving, LinesDeserve, LinesThen
    <2> QED BY <1>P, <1>L, <2>1, <2>2, HeadingOutside
<1>N. line \notin HeadingLines =>
        /\ NoHeading(line, line + 1) /\ Stacked(hierarchy, line + 1)
        /\ buffer # <<>> => NoHeading(from, line + 1)
    BY <1>1, <1>L, NoHeadingHere
<1>2. CASE MarkdownFence /\ fenced
    <2> DEFINE el == Element("code", TextOf(Append(buffer, line)), hierarchy, from, line)
    <2>1. /\ buffer' = <<>> /\ elements' = Append(elements, el)
          /\ line' = line + 1 /\ hierarchy' = hierarchy /\ phase' = phase
        BY <1>2 DEF MarkdownFence, NextLine
    <2>2. el.path = hierarchy /\ el.first = from /\ el.last = line BY DEF Element
    <2> HIDE DEF el
    <2>3. \A l \in Span(el) : Stacked(hierarchy, l)
        <3>1. \A l \in from .. line : Stacked(hierarchy, l) BY <1>1, <1>2, <1>L, GatheredStack
        <3>2. Span(el) = from .. line BY <1>P, <2>2 DEF Span
        <3> QED BY <3>1, <3>2
    <2>4. Placed(elements') /\ EndsWith(elements', hierarchy)
        BY <1>1, <1>L, <2>1, <2>2, <2>3, PlacedGrows
    <2> QED BY <1>H, <1>N, <1>2, <2>1, <2>4 DEF PlacedThen, EndsWith
<1>3. CASE MarkdownFence /\ ~ fenced
    <2>1. /\ from' = line /\ elements' = flushed /\ Kind(line) = "fence"
          /\ line' = line + 1 /\ hierarchy' = hierarchy /\ phase' = phase
        BY <1>3 DEF MarkdownFence, NextLine, flushed
    <2>2. ~ IsHeading(Kind(line)) BY <2>1 DEF IsHeading
    <2> QED BY <1>F, <1>H, <1>N, <2>1, <2>2 DEF PlacedThen, EndsWith
<1>4. CASE MarkdownCode
    <2>1. /\ from' = from /\ elements' = elements /\ fenced
          /\ line' = line + 1 /\ hierarchy' = hierarchy /\ phase' = phase
        BY <1>4 DEF MarkdownCode, NextLine
    <2> QED BY <1>1, <1>L, <1>H, <1>N, <2>1 DEF PlacedThen, EndsWith
<1>5. CASE MarkdownHeading
    <2> DEFINE path == Descend(Level(Kind(line)))
               el == Element("heading", LineTokens(line), path, line, line)
    <2>1. /\ buffer' = <<>> /\ elements' = Append(flushed, el) /\ line <= Len(doc.lines)
          /\ line' = line + 1 /\ hierarchy' = path /\ phase' = phase
          /\ ~ fenced /\ IsHeading(Kind(line))
        BY <1>5 DEF MarkdownHeading, NextLine, AtMarkdown, flushed
    <2>2. line \in HeadingLines
        <3>1. ~ OddBefore("fence", line) BY <1>P, <2>1 DEF Deserving, LinesDeserve, LinesThen
        <3> QED BY <1>P, <1>L, <2>1, <3>1, HeadingOutside
    <2>3. Stacked(path, line + 1) BY <1>1, <1>L, <2>2, StackDescends
    <2>4. el.path = path /\ el.type = "heading" BY DEF Element
    <2> HIDE DEF el, path
    <2>5. Placed(elements') /\ EndsWith(elements', path) BY <1>F, <2>1, <2>4, PlacedGrows
    <2> QED BY <2>1, <2>3, <2>5 DEF PlacedThen, EndsWith
<1>6. CASE MarkdownText
    <2>1. /\ \/ elements' = elements /\ from' = (IF buffer = <<>> THEN line ELSE from)
             \/ elements' = flushed /\ buffer' = <<>>
          /\ line' = line + 1 /\ hierarchy' = hierarchy /\ phase' = phase
          /\ ~ IsHeading(Kind(line))
        BY <1>6 DEF MarkdownText, NextLine, Gathered, flushed
    <2>2. line \notin HeadingLines BY <1>H, <2>1
    <2>3. buffer' # <<>> => NoHeading(from', line')
        <3>1. CASE buffer' # <<>> /\ buffer = <<>>
            <4>1. from' = line BY <2>1, <3>1
            <4> QED BY <1>N, <2>1, <2>2, <4>1
        <3>2. CASE buffer' # <<>> /\ buffer # <<>>
            <4>1. from' = from BY <2>1, <3>2
            <4> QED BY <1>N, <2>1, <2>2, <3>2, <4>1
        <3> QED BY <3>1, <3>2
    <2>4. Placed(elements') /\ EndsWith(elements', hierarchy) BY <1>1, <1>F, <2>1
    <2> QED BY <1>N, <2>1, <2>2, <2>3, <2>4 DEF PlacedThen, EndsWith
<1>7. CASE MarkdownEnd
    <2> DEFINE type == IF fenced THEN "code" ELSE "paragraph"
    <2>1. /\ elements' = Flushed(type, Len(doc.lines)) /\ line > Len(doc.lines)
          /\ phase' # "parsing"
        BY <1>7 DEF MarkdownEnd, Parsed, Fail
    <2> HIDE DEF type
    <2>2. Len(doc.lines) <= line BY <1>L, <2>1
    <2>3. Placed(elements') BY <1>P, <1>L, <2>1, <2>2, FlushedPlaces
    <2> QED BY <2>1, <2>3 DEF PlacedThen
<1> QED BY <1>2, <1>3, <1>4, <1>5, <1>6, <1>7

\* The two rows of a table, taken in one after the other.
LEMMA TableGrows ==
    ASSUME NEW S, NEW es \in Seq(S), NEW l
    PROVE  es \o TableRows(l) = Append(Append(es, TableRows(l)[1]), TableRows(l)[2])
<1> DEFINE two == TableRows(l)
<1>1. two = [k \in 1 .. 2 |-> two[k]] BY DEF TableRows
<1> HIDE DEF two
<1>2. two = <<two[1], two[2]>> BY <1>1
<1> DEFINE a == two[1]
           b == two[2]
<1>3. two = <<a, b>> BY <1>2
<1> HIDE DEF a, b
<1>4. es \o <<a, b>> = Append(Append(es, a), b) OBVIOUS
<1>5. es \o two = Append(Append(es, a), b) BY <1>3, <1>4
<1> QED BY <1>5 DEF two, a, b

\* They come from the table's item.
LEMMA SpanOfRow ==
    ASSUME doc \in Files, doc.format = "pdf", NEW l \in Lines
    PROVE  /\ TableRows(l)[1].path = hierarchy /\ Span(TableRows(l)[1]) \subseteq {l}
           /\ TableRows(l)[2].path = hierarchy /\ Span(TableRows(l)[2]) \subseteq {l}
<1>1. ASSUME NEW k \in 1 .. 2
      PROVE  TableRows(l)[k].path = hierarchy /\ Span(TableRows(l)[k]) \subseteq {l}
    <2> DEFINE t == <<l, k>>
               el == TableRows(l)[k]
    <2>1. el.path = hierarchy /\ el.text = Bounded(<<t>>) BY DEF TableRows, Element
    <2>2. t \in Marks(l)
        <3>1. LongTokens \in Nat /\ LongTokens > 1 BY ParsersAssumption
        <3> QED BY <3>1 DEF Marks
    <2>3. t \in Token BY <2>2, MarkFacts
    <2>4. Span(el) = SourceLines(TokensOf(el.text)) BY DEF Span
    <2> HIDE DEF t, el
    <2>5. <<t>> \in Seq(Token) /\ <<t>> # <<>> /\ TokensOf(<<t>>) = {t} BY <2>3 DEF TokensOf
    <2>6. TokensOf(el.text) \subseteq {t} BY <2>1, <2>5, BoundedText
    <2>7. TokensOf(el.text) \subseteq MarksOf({l}) \cup {Whitespace} BY <2>2, <2>6 DEF MarksOf
    <2>8. SourceLines(TokensOf(el.text)) \subseteq {l} BY <2>7, SourceOf
    <2> QED BY <2>1, <2>4, <2>8 DEF el
<1> QED BY <1>1

\* So do those of the PDF parser.
LEMMA PdfPlaces ==
    ASSUME doc \in Files, doc' = doc, Reading,
           PlacedThen(elements, hierarchy, line, buffer, from, phase),
           PdfItem \/ PdfEnd
    PROVE  PlacedThen(elements', hierarchy', line', buffer', from', phase')
<1>P. phase = "parsing" /\ doc.format = "pdf" BY DEF PdfItem, PdfEnd, Parsing
<1>L. /\ line \in Nat /\ elements \in Seq(Elements) /\ hierarchy \in Seq(HeadingTokens)
      /\ line <= Len(doc.lines) => line \in Lines
      /\ buffer = <<>>
    BY <1>P, AtLine, AtWork DEF Lists
<1>1. Placed(elements) /\ Stacked(hierarchy, line) /\ EndsWith(elements, hierarchy)
    BY <1>P DEF PlacedThen, EndsWith
<1>2. CASE PdfItem
    <2> DEFINE kind == Kind(line)
               place == Place(line)
               path == IF IsHeading(kind) THEN Descend(Level(kind)) ELSE hierarchy
               type == IF IsHeading(kind) THEN "heading" ELSE "paragraph"
               el == Element(type, LineTokens(line), path, place, place)
    <2>1. /\ hierarchy' = path /\ line' = line + 1 /\ line <= Len(doc.lines) /\ buffer' = buffer
          /\ elements' = CASE kind \in {"blank", "broken"} -> elements
                           [] kind = "table" -> elements \o TableRows(line)
                           [] OTHER -> Append(elements, el)
        BY <1>2, Zenon DEF PdfItem, NextLine
    <2>E. /\ kind \in {"blank", "broken"} => elements' = elements
          /\ kind = "table" => elements' = elements \o TableRows(line)
          /\ kind \notin {"blank", "broken", "table"} => elements' = Append(elements, el)
        <3> HIDE DEF el, kind
        <3> QED BY <2>1
    <2>F. el.path = path /\ el.type = type /\ el.text = Bounded(LineTokens(line)) BY DEF Element
    <2>S. line \in Lines /\ Span(el) \subseteq {line}
        <3>1. line \in Lines BY <1>L, <2>1
        <3>2. LineTokens(line) \in Seq(Token) /\ LineTokens(line) # <<>>
              /\ TokensOf(LineTokens(line)) \subseteq Marks(line) \cup {Whitespace}
            BY <3>1, TokensOfLine
        <3>3. TokensOf(el.text) \subseteq Marks(line) \cup {Whitespace}
            BY <2>F, <3>2, BoundedText
        <3>4. Marks(line) = MarksOf({line}) BY DEF MarksOf
        <3> QED BY <1>P, <3>1, <3>3, <3>4, SourceOf DEF Span
    <2> HIDE DEF el
    <2>2. IsHeading(kind) <=> line \in HeadingLines
        BY <1>P, <2>S DEF HeadingLines
    <2>3. Stacked(path, line + 1)
        <3>1. CASE IsHeading(kind) BY <1>1, <1>L, <2>2, <3>1, StackDescends
        <3>2. CASE ~ IsHeading(kind) BY <1>1, <1>L, <2>2, <3>2, NoHeadingHere
        <3> QED BY <3>1, <3>2
    <2>4. Placed(elements') /\ EndsWith(elements', path)
        <3>1. CASE IsHeading(kind)
            <4>1. kind \notin {"blank", "broken", "table"} BY <3>1 DEF IsHeading
            <4>2. elements' = Append(elements, el) BY <2>E, <4>1
            <4>3. el.path = path /\ el.type = "heading" BY <2>F, <3>1
            <4> HIDE DEF path
            <4> QED BY <1>1, <1>L, <4>2, <4>3, PlacedGrows
        <3>2. CASE ~ IsHeading(kind)
            <4>0. path = hierarchy BY <3>2
            <4> HIDE DEF path
            <4>1. ASSUME NEW S, NEW es \in Seq(S), Placed(es), EndsWith(es, path), NEW more,
                         more.path = path, Span(more) \subseteq {line}
                  PROVE  Placed(Append(es, more)) /\ EndsWith(Append(es, more), path)
                <5>1. \A l \in Span(more) : Stacked(path, l) BY <1>1, <4>0, <4>1
                <5> QED BY <4>1, <5>1, PlacedGrows
            <4>2. CASE kind \in {"blank", "broken"}
                <5>1. elements' = elements BY <2>E, <4>2
                <5> QED BY <1>1, <4>0, <5>1
            <4>3. CASE kind = "table"
                <5> DEFINE a == TableRows(line)[1]
                           b == TableRows(line)[2]
                <5>1. elements' = elements \o TableRows(line) BY <2>E, <4>3
                <5>2. elements' = Append(Append(elements, a), b) BY <1>L, <5>1, TableGrows
                <5>3. /\ a.path = path /\ Span(a) \subseteq {line}
                      /\ b.path = path /\ Span(b) \subseteq {line}
                    BY <1>P, <2>S, <4>0, SpanOfRow
                <5> HIDE DEF a, b
                <5> DEFINE es == Append(elements, a)
                <5>4. Placed(es) /\ EndsWith(es, path) BY <1>1, <1>L, <4>0, <4>1, <5>3
                <5>5. es \in Seq(Elements \cup {a})
                    <6> DEFINE S == Elements \cup {a}
                    <6>1. Elements \subseteq S /\ a \in S OBVIOUS
                    <6> HIDE DEF S
                    <6>2. elements \in Seq(S) BY <1>L, <6>1, FewerInSeq
                    <6> QED BY <6>1, <6>2, Longer DEF S
                <5> HIDE DEF es
                <5>6. Placed(Append(es, b)) /\ EndsWith(Append(es, b), path)
                    BY <4>1, <5>3, <5>4, <5>5
                <5> QED BY <5>2, <5>6 DEF es
            <4>4. CASE kind \notin {"blank", "broken", "table"}
                <5>1. elements' = Append(elements, el) BY <2>E, <4>4
                <5> QED BY <1>1, <1>L, <2>F, <2>S, <4>0, <4>1, <5>1
            <4> QED BY <4>2, <4>3, <4>4
        <3> QED BY <3>1, <3>2
    <2> HIDE DEF path
    <2> QED BY <1>L, <2>1, <2>3, <2>4 DEF PlacedThen, EndsWith
<1>3. CASE PdfEnd
    <2>1. elements' = elements /\ phase' # "parsing"
        <3>1. Parsed(elements) BY <1>3 DEF PdfEnd
        <3>2. elements' = elements BY <3>1 DEF Parsed
        <3>3. phase' \in {"failed", "parsed"} BY <3>1 DEF Parsed, Fail
        <3> QED BY <3>2, <3>3
    <2> QED BY <1>1, <2>1 DEF PlacedThen
<1> QED BY <1>2, <1>3

-----------------------------------------------------------------------------
(* The paths of a group. *)

\* One element agrees with itself.
LEMMA OpenedAgrees == \A e : Agree(Opened(e)) /\ Opened(e).members[1] = e
<1> SUFFICES ASSUME NEW e PROVE Agree(Opened(e)) /\ Opened(e).members[1] = e OBVIOUS
<1>1. Opened(e).members = <<e>> BY DEF Opened
<1>2. DOMAIN <<e>> = {1} /\ <<e>>[1] = e OBVIOUS
<1> QED BY <1>1, <1>2 DEF Agree, SamePath

\* Handing a group over leaves it what it was.
LEMMA HandedAgrees == \A g, b : Agree(Handed(g, b)) <=> Agree(g)
<1>1. \A g, b : Handed(g, b).members = g.members BY DEF Handed
<1> QED BY <1>1 DEF Agree

\* A group that takes in an element with its path.
LEMMA JoinedAgrees ==
    ASSUME ChunkingTypeOK, NEW e \in DOMAIN elements, NEW g \in GroupType, g # NoGroup,
           Len(g.members) > 0, Agree(g), SamePath(e, g.members[1])
    PROVE  Agree(Joined(g, e)) /\ Joined(g, e).members[1] = g.members[1]
<1> DEFINE old == g.members
           m == Append(old, e)
<1>1. Joined(g, e).members = m BY DEF Joined
<1>2. old \in Seq(Nat) /\ Len(old) > 0 /\ e \in Nat BY ElementFields DEF GroupType
<1> HIDE DEF old
<1>3. m[1] = old[1] /\ \A j \in DOMAIN m : (j \in DOMAIN old /\ m[j] = old[j]) \/ m[j] = e
    <2>1. m[1] = old[1]
        <3>1. 1 \in 1 .. Len(old) BY <1>2
        <3> QED BY <1>2, <3>1, KeptByLonger
    <2> QED BY <1>2, <2>1, AllOfLonger
<1>4. \A j \in DOMAIN old : SamePath(old[j], old[1]) BY DEF Agree, old
<1>5. SamePath(e, old[1]) BY DEF old
<1> HIDE DEF m
<1>6. \A j \in DOMAIN m : SamePath(m[j], m[1]) BY <1>3, <1>4, <1>5
<1> QED BY <1>1, <1>3, <1>6 DEF Agree, old

\* Every step of the chunker keeps the members of a group in one section.
LEMMA StepAgrees ==
    ASSUME Inductive, Ordered, AllSourced, Placed(elements), AllAgree, Proceed
    PROVE  AllAgree'
<1>T. /\ ChunkingTypeOK /\ elements \in Seq(Elements) /\ index \in Nat
      /\ prose \in GroupType /\ table \in GroupType /\ todo \in Seq(HandedType)
      /\ chunks \in Seq([group : HandedType, from : Nat, upto : Nat])
    BY DEF Inductive, ChunkingTypeOK
<1>E. elements' = elements
    BY DEF Proceed, Heading, LogRecord, TableHeader, TableRow, TableEnd, Prose, ElementsEnd,
           Window
<1>Q. (\A g : Agree(g)' <=> Agree(g)) /\ \A e, f : SamePath(e, f)' <=> SamePath(e, f)
    BY <1>E DEF Agree, SamePath
<1>S. ASSUME prose' # NoGroup => Agree(prose') /\ SamePath(index' - 1, prose'.members[1]),
             table' # NoGroup => Agree(table'),
             \A k \in DOMAIN todo' : Agree(todo'[k]),
             \A k \in DOMAIN chunks' : Agree(chunks'[k].group)
      PROVE  AllAgree'
    BY <1>S, <1>E DEF AllAgree, Agree, SamePath
<1>O. prose # NoGroup => table = NoGroup BY DEF Ordered
<1>0. CASE ~ Window
    <2>L. todo = <<>> /\ chunks' = chunks BY <1>0, LoopStep
    <2>C. \A k \in DOMAIN chunks' : Agree(chunks'[k].group) BY <2>L DEF AllAgree
    <2>F. \A k \in DOMAIN FlushedProse : Agree(FlushedProse[k])
        BY FlushedIsProse, HandedAgrees DEF AllAgree
    <2>H. ASSUME todo' = <<Handed(table, FALSE)>>, table # NoGroup
          PROVE  \A k \in DOMAIN todo' : Agree(todo'[k])
        <3>1. \A k \in DOMAIN todo' : todo'[k] = Handed(table, FALSE) BY <2>H, AllOfOne
        <3>2. Agree(table) BY <2>H DEF AllAgree
        <3> QED BY <3>1, <3>2, HandedAgrees
    <2>1. CASE Heading \/ ElementsEnd
        <3>1. todo' = FlushedProse /\ prose' = NoGroup /\ table' = NoGroup
            BY <2>1 DEF Heading, ElementsEnd
        <3> QED BY <3>1, <2>C, <2>F, <1>S
    <2>2. CASE LogRecord
        <3> DEFINE own == Handed(Opened(index), FALSE)
        <3>1. todo' = Append(FlushedProse, own) /\ prose' = NoGroup /\ table' = NoGroup
            BY <2>2 DEF LogRecord
        <3>2. Agree(own) BY OpenedAgrees, HandedAgrees
        <3>3. FlushedProse \in Seq(HandedType) BY <1>T, FlushedType
        <3> HIDE DEF own
        <3>4. \A k \in DOMAIN todo' : Agree(todo'[k]) BY <3>1, <3>2, <3>3, <2>F, AllOfLonger
        <3> QED BY <3>1, <3>4, <2>C, <1>S
    <2>3. CASE TableHeader
        <3>1. todo' = FlushedProse /\ prose' = NoGroup /\ table' = Opened(index)
            BY <2>3 DEF TableHeader
        <3> QED BY <3>1, <2>C, <2>F, OpenedAgrees, <1>S
    <2>4. CASE TableRow
        <3> DEFINE h == table.members[1]
        <3>1. /\ table # NoGroup /\ prose' = prose /\ index \in DOMAIN elements
              /\ SamePath(index, h)
              /\ \/ table' = Restarted(index) /\ todo' = <<Handed(table, FALSE)>>
                 \/ table' = Joined(table, index) /\ todo' = <<>>
            BY <2>4, <2>L DEF TableRow, RowOfTable
        <3>2. Agree(table) /\ Growing(table) /\ Len(table.members) > 0
            BY <3>1 DEF AllAgree, AllSourced, Growing, Sourced
        <3>3. h \in DOMAIN elements
            <4>1. table.members \in Seq(Nat) /\ Len(table.members) > 0
                BY <3>2 DEF Growing, GroupType
            <4>2. 1 \in DOMAIN table.members BY <4>1
            <4> QED BY <3>2, <4>2 DEF Growing, Sourced
        <3>4. Agree(table')
            <4>1. CASE table' = Restarted(index)
                <5> DEFINE g == Opened(h)
                <5>1. table' = Joined(g, index) BY <4>1 DEF Restarted
                <5>2. /\ g \in GroupType /\ g # NoGroup /\ g.members = <<h>>
                      /\ Agree(g) /\ g.members[1] = h
                    BY <3>3, <1>T, OpenedGroup, OpenedAgrees
                <5>3. Len(<<h>>) = 1 OBVIOUS
                <5> HIDE DEF g, h
                <5>4. Len(g.members) > 0 BY <5>2, <5>3
                <5> QED BY <3>1, <5>1, <5>2, <5>4, <1>T, JoinedAgrees
            <4>2. CASE table' = Joined(table, index)
                BY <3>1, <3>2, <4>2, <1>T, JoinedAgrees
            <4> QED BY <3>1, <4>1, <4>2
        <3>5. \A k \in DOMAIN todo' : Agree(todo'[k])
            <4>1. CASE todo' = <<>> BY <4>1
            <4>2. CASE todo' = <<Handed(table, FALSE)>> BY <4>2, <3>1, <2>H
            <4> QED BY <3>1, <4>1, <4>2
        <3>6. prose' = NoGroup BY <1>O, <3>1
        <3> QED BY <3>4, <3>5, <3>6, <2>C, <1>S
    <2>5. CASE TableEnd
        <3>1. /\ todo' = <<Handed(table, FALSE)>> /\ table' = NoGroup /\ table # NoGroup
              /\ prose' = prose
            BY <2>5 DEF TableEnd
        <3>2. prose' = NoGroup BY <1>O, <3>1
        <3> QED BY <3>1, <3>2, <2>H, <2>C, <1>S
    <2>6. CASE Prose
        <3>1. /\ table' = NoGroup /\ index' = index + 1 /\ index \in DOMAIN elements
              /\ elements[index].type # "heading"
              /\ \/ prose' = Opened(index) /\ todo' = FlushedProse
                 \/ prose' = Joined(prose, index) /\ todo' = <<>>
            BY <2>6 DEF Prose, AtElement, Advance
        <3>2. index' - 1 = index BY <3>1, <1>T
        <3>3. Agree(prose') /\ SamePath(index, prose'.members[1])
            <4>1. CASE prose' = Opened(index) BY <4>1, OpenedAgrees DEF SamePath
            <4>2. CASE prose' = Joined(prose, index) /\ prose = NoGroup
                <5>1. prose' = Opened(index) BY <4>2 DEF Joined
                <5> QED BY <5>1, OpenedAgrees DEF SamePath
            <4>3. CASE prose' = Joined(prose, index) /\ prose # NoGroup
                <5>1. /\ Agree(prose) /\ SamePath(index - 1, prose.members[1])
                      /\ Growing(prose) /\ Len(prose.members) > 0
                    BY <4>3 DEF AllAgree, AllSourced, Growing, Sourced
                <5>2. index > 1
                    <6>1. prose.members \in Seq(Nat) BY <1>T DEF GroupType
                    <6>2. 1 \in DOMAIN prose.members BY <5>1, <6>1
                    <6>3. prose.members[1] \in DOMAIN elements /\ prose.members[1] < index
                        BY <5>1, <6>2 DEF Growing, Sourced
                    <6>4. DOMAIN elements \in SUBSET Nat /\ \A e \in DOMAIN elements : e >= 1
                        BY <1>T
                    <6> QED BY <1>T, <6>3, <6>4
                <5>3. SamePath(index, index - 1) BY <3>1, <5>2 DEF Placed, SamePath
                <5>4. SamePath(index, prose.members[1]) BY <5>1, <5>3 DEF SamePath
                <5>5. Agree(Joined(prose, index))
                      /\ Joined(prose, index).members[1] = prose.members[1]
                    BY <3>1, <4>3, <5>1, <5>4, <1>T, JoinedAgrees
                <5> QED BY <4>3, <5>4, <5>5
            <4> QED BY <3>1, <4>1, <4>2, <4>3
        <3>4. \A k \in DOMAIN todo' : Agree(todo'[k]) BY <3>1, <2>F
        <3> QED BY <3>1, <3>2, <3>3, <3>4, <2>C, <1>S
    <2> QED BY <1>0, <2>1, <2>2, <2>3, <2>4, <2>5, <2>6 DEF Proceed
<1>8. CASE Window
    <2> DEFINE g == Head(todo)
               c == [group |-> g, from |-> start, upto |-> WindowEnd(g)]
    <2>1. /\ todo # <<>> /\ prose' = prose /\ table' = table /\ index' = index
          /\ todo' = todo \/ todo' = Tail(todo)
          /\ chunks' = chunks \/ chunks' = Append(chunks, c)
        BY <1>8 DEF Window
    <2>2. Agree(g)
        <3>1. 1 \in DOMAIN todo /\ g = todo[1] BY <2>1, <1>T
        <3> QED BY <3>1 DEF AllAgree
    <2>3. \A k \in DOMAIN todo' : Agree(todo'[k])
        <3>1. CASE todo' = todo BY <3>1 DEF AllAgree
        <3>2. CASE todo' = Tail(todo)
            <4>1. \A k \in DOMAIN todo' : k + 1 \in DOMAIN todo /\ todo'[k] = todo[k + 1]
                BY <3>2, <2>1, <1>T
            <4> QED BY <4>1 DEF AllAgree
        <3> QED BY <3>1, <3>2, <2>1
    <2>4. \A k \in DOMAIN chunks' : Agree(chunks'[k].group)
        <3>1. CASE chunks' = chunks BY <3>1 DEF AllAgree
        <3>2. CASE chunks' = Append(chunks, c)
            <4>1. chunks \in Seq([group : HandedType, from : Nat, upto : Nat]) BY <1>T
            <4>2. c.group = g OBVIOUS
            <4> HIDE DEF c
            <4>3. \A k \in DOMAIN chunks' :
                      (k \in DOMAIN chunks /\ chunks'[k] = chunks[k]) \/ chunks'[k] = c
                BY <3>2, <4>1, AllOfLonger
            <4> QED BY <4>2, <4>3, <2>2 DEF AllAgree
        <3> QED BY <3>1, <3>2, <2>1
    <2> QED BY <2>1, <2>3, <2>4, <1>S DEF AllAgree
<1> QED BY <1>0, <1>8

-----------------------------------------------------------------------------
(* The context of a chunk. *)

\* Where the chunker has nothing at hand, there is nothing to agree.
LEMMA IdleAgrees == ASSUME Idle' PROVE AllAgree'
BY DEF Idle, AllAgree

\* No element, and no stack yet.
LEMMA ContextEmpty ==
    ASSUME elements' = <<>>, Idle', phase' # "parsing"
    PROVE  InContext'
<1>1. DOMAIN elements' = {} OBVIOUS
<1> QED BY <1>1, IdleAgrees DEF InContext, PlacedThen, Placed

\* The loops start with an empty stack.
LEMMA ContextBegins ==
    ASSUME doc \in Files, doc' = doc, elements' = <<>>, Idle',
           line' = 1, hierarchy' = <<>>, buffer' = <<>>
    PROVE  InContext'
<1>1. CASE ~ Sectioned BY <1>1 DEF InContext, Sectioned
<1>2. CASE Sectioned
    <2>1. Placed(elements')
        <3>1. DOMAIN elements' = {} OBVIOUS
        <3> QED BY <3>1 DEF Placed
    <2>2. Enclosing(1) = {}
        <3>1. \A h \in Enclosing(1) : h \in Nat /\ h > 0 /\ h < 1 BY HeadingsAreLines
        <3> QED BY <3>1
    <2>3. Stacked(<<>>, 1)
        <3>1. DOMAIN <<>> = {} OBVIOUS
        <3> HIDE DEF Stacked
        <3> QED BY <2>2, <3>1 DEF Stacked
    <2>4. PlacedThen(elements', hierarchy', line', buffer', from', phase')
        BY <2>1, <2>3 DEF PlacedThen
    <2> QED BY <1>2, <2>4, PlacesNext, IdleAgrees DEF InContext
<1> QED BY <1>1, <1>2

\* Steps that leave the elements alone, once they are placed.
LEMMA ContextStays ==
    ASSUME InContext, doc' = doc, elements' = elements,
           phase' = "parsing" => phase = "parsing" /\ UNCHANGED parserVars,
           Sectioned => AllAgree'
    PROVE  InContext'
<1>1. CASE ~ Sectioned BY <1>1 DEF InContext, Sectioned
<1>2. CASE Sectioned
    <2>1. PlacedThen(elements, hierarchy, line, buffer, from, phase) BY <1>2 DEF InContext
    <2>2. phase' = "parsing" => /\ phase = "parsing" /\ line' = line /\ buffer' = buffer
                               /\ from' = from /\ hierarchy' = hierarchy
        BY DEF parserVars
    <2>3. PlacedThen(elements', hierarchy', line', buffer', from', phase')
        BY <2>1, <2>2 DEF PlacedThen
    <2> QED BY <1>2, <2>3, PlacesNext DEF InContext
<1> QED BY <1>1, <1>2

\* Steps of the parsers.
LEMMA ContextParsed ==
    ASSUME doc \in Files, doc' = doc, Reading, Deserving, InContext, Parse, Idle',
           phase = "rows" => doc.format = "csv"
    PROVE  InContext'
<1>1. CASE ~ Sectioned BY <1>1 DEF InContext, Sectioned
<1>2. CASE Sectioned
    <2>1. PlacedThen(elements, hierarchy, line, buffer, from, phase) BY <1>2 DEF InContext
    <2>2. phase' = "parsing" => phase = "parsing" BY ParsePhases
    <2>3. \/ MarkdownFence \/ MarkdownCode \/ MarkdownHeading \/ MarkdownText \/ MarkdownEnd
          \/ PdfItem \/ PdfEnd
        BY <1>2 DEF Sectioned, Parse, PlainText, PlainTextEnd, LogLine, LogEnd, CsvLine, AtCsv,
                    CsvFieldTooLong, CsvRows,
                    CsvRow, CsvEnd, Parsing
    <2>4. PlacedThen(elements', hierarchy', line', buffer', from', phase')
        BY <2>1, <2>2, <2>3, MarkdownPlaces, PdfPlaces
    <2> QED BY <1>2, <2>4, PlacesNext, IdleAgrees DEF InContext
<1> QED BY <1>1, <1>2

\* Every step of the worker keeps elements and chunks in their sections.
LEMMA ContextKeeps ==
    Extracting /\ Deserving /\ InContext /\ [ExtractionNext]_vars => InContext'
<1> SUFFICES ASSUME Extracting, Deserving, InContext, [ExtractionNext]_vars PROVE InContext'
    OBVIOUS
<1>C. FileAtWork /\ PhasesOK /\ Reading BY DEF Extracting, Control
<1>D. phase # "idle" => doc \in Files BY <1>C DEF FileAtWork
<1>U. UNCHANGED chunkVars =>
          elements' = elements /\ (Idle => Idle') /\ (Sectioned => AllAgree')
    BY DEF InContext, chunkVars, Idle, AllAgree, Agree, SamePath
<1>1. CASE Take
    <2>1. phase = "idle" /\ phase' # "parsing" /\ UNCHANGED chunkVars BY <1>1 DEF Take
    <2>2. Untouched /\ index = 0 /\ Idle BY <1>C, <2>1 DEF PhasesOK
    <2> QED BY <1>U, <2>1, <2>2, ContextEmpty DEF Untouched
<1>2. CASE ReadLines \/ ConversionEnds
    <2>1. /\ phase \in {"reading", "converting"} /\ doc' = doc
          /\ UNCHANGED chunkVars /\ UNCHANGED parserVars
        BY <1>2 DEF ReadLines, ConversionEnds
    <2>2. Untouched /\ index = 0 /\ Idle BY <1>C, <2>1 DEF PhasesOK
    <2>3. line' = line /\ hierarchy' = hierarchy /\ buffer' = buffer BY <2>1 DEF parserVars
    <2> QED BY <1>D, <1>U, <2>1, <2>2, <2>3, ContextBegins DEF Untouched
<1>3. CASE ParseStep
    <2>1. Parse /\ doc' = doc /\ index' = index BY <1>3 DEF ParseStep
    <2>2. phase \in {"parsing", "rows"} BY <2>1, ParsePhases
    <2>3. Idle
        <3>1. index = 0 BY <1>C, <2>2 DEF PhasesOK
        <3> QED BY <1>C, <3>1 DEF PhasesOK
    <2>4. Idle' BY <1>3, <2>3 DEF ParseStep, Idle
    <2>5. phase = "rows" => doc.format = "csv" BY <1>C DEF PhasesOK
    <2> QED BY <1>C, <1>D, <2>1, <2>2, <2>4, <2>5, ContextParsed
<1>4. CASE ChunkCall
    <2>1. /\ phase = "parsed" /\ phase' = "chunking" /\ doc' = doc /\ elements' = elements
          /\ Idle' = Idle
        BY <1>4 DEF ChunkCall, Idle
    <2>2. Idle BY <1>C, <2>1 DEF PhasesOK
    <2> QED BY <2>1, <2>2, ContextStays, IdleAgrees
<1>5. CASE ChunkStep
    <2>1. phase = "chunking" /\ phase' = phase /\ doc' = doc /\ Proceed
        BY <1>5 DEF ChunkStep
    <2>2. elements' = elements
        BY <2>1 DEF Proceed, Heading, LogRecord, TableHeader, TableRow, TableEnd, Prose,
                    ElementsEnd, Window
    <2>3. Inductive /\ Ordered /\ AllSourced
        <3>1. index > 0 BY <1>C, <2>1 DEF PhasesOK
        <3> QED BY <3>1 DEF Extracting, Chunker
    <2>4. Sectioned => AllAgree' BY <2>1, <2>3, StepAgrees DEF InContext, PlacedThen
    <2> QED BY <2>1, <2>2, <2>4, ContextStays
<1>6. CASE ConversionTimesOut \/ AbandonedEnds \/ ChunkReturn \/ UNCHANGED vars
    <2>1. /\ phase' = phase \/ phase' # "parsing"
          /\ doc' = doc /\ UNCHANGED chunkVars /\ UNCHANGED parserVars
        BY <1>6 DEF ConversionTimesOut, AbandonedEnds, ChunkReturn, Fail, vars
    <2> QED BY <1>U, <2>1, ContextStays
<1>7. CASE Settle
    <2>1. phase' = "idle" /\ elements' = <<>> /\ Idle' BY <1>7 DEF Settle, Idle
    <2> QED BY <2>1, ContextEmpty
<1>8. CASE ChunkRaises
    <2>1. /\ phase' = "failed" /\ doc' = doc /\ elements' = elements /\ Idle'
        BY <1>8 DEF ChunkRaises, Raise, Fail, Idle
    <2> QED BY <2>1, ContextStays, IdleAgrees
<1> QED BY <1>1, <1>2, <1>3, <1>4, <1>5, <1>6, <1>7, <1>8 DEF ExtractionNext, Work

\* The stack of a line is the chain of headings that enclose it.
LEMMA StackIsChain ==
    ASSUME doc \in Files, NEW path \in Seq(HeadingTokens), NEW l \in Nat, Stacked(path, l)
    PROVE  IF LevelsInOrder
           THEN /\ {t[1] : t \in TokensOf(path)} = Enclosing(l)
                /\ \A j \in 1 .. Len(path) - 1 : path[j][1] < path[j + 1][1]
           ELSE Enclosing(l) # {} => path[Len(path)][1] = Max(Enclosing(l))
<1>1. Len(path) \in Nat /\ DOMAIN path = 1 .. Len(path) BY SMTT(30)
<1>2. CASE LevelsInOrder
    <2>1. {t[1] : t \in TokensOf(path)} = Enclosing(l)
        <3>1. {t[1] : t \in TokensOf(path)} = {path[j][1] : j \in DOMAIN path} BY DEF TokensOf
        <3>2. \A j \in DOMAIN path : path[j][1] \in Enclosing(l) BY <1>2 DEF Stacked
        <3>3. \A h \in Enclosing(l) : \E j \in DOMAIN path : path[j][1] = h BY <1>2 DEF Stacked
        <3> QED BY <3>1, <3>2, <3>3
    <2>2. \A i, j \in DOMAIN path : i < j => path[i][1] < path[j][1] BY <1>2 DEF Stacked
    <2>3. \A j \in 1 .. Len(path) - 1 : j \in DOMAIN path /\ j + 1 \in DOMAIN path /\ j < j + 1
        BY <1>1
    <2> QED BY <1>2, <2>1, <2>2, <2>3
<1>3. CASE ~ LevelsInOrder /\ Enclosing(l) # {}
    <2> DEFINE S == Enclosing(l)
               h == path[Len(path)][1]
    <2>1. S \in SUBSET Nat /\ S # {} /\ \A g \in S : g <= l
        <3>1. HeadingLines \in SUBSET Nat /\ S \subseteq HeadingLines /\ \A g \in S : g < l
            BY HeadingsAreLines
        <3>2. \A g \in S : g \in Nat BY <3>1
        <3> QED BY <1>3, <3>1, <3>2
    <2>2. h \in S /\ \A g \in S : g <= h BY <1>3 DEF Stacked
    <2> HIDE DEF S, h
    <2>3. Max(S) \in S /\ \A g \in S : g <= Max(S) BY <2>1, MaxIsGreatest
    <2> DEFINE top == Max(S)
    <2>4. h = Max(S)
        <3>1. top \in Nat /\ h \in Nat /\ top <= h /\ h <= top BY <2>1, <2>2, <2>3
        <3> HIDE DEF top
        <3>2. h = top BY <3>1
        <3> QED BY <3>2 DEF top
    <2> QED BY <1>3, <2>4 DEF S, h
<1> QED BY <1>2, <1>3

\* The context of a chunk's first member is the chain of headings around every line of its
\* text, as long as the document skips no level, and ends with the innermost heading in any
\* case: for whatever files the worker is given and all limits (text.py:198-215,
\* docling_pdf.py:97-113, structure_aware.py:150-157).
THEOREM ContextsEnclose == ExtractionSpec => []ContextEncloses
<1>1. Extracting /\ InContext => ContextEncloses
    <2> SUFFICES ASSUME Extracting, InContext, NEW k \in DOMAIN chunks, Sectioned,
                        NEW l \in SourceLines(TokensOf(chunks[k].group.text))
                 PROVE  LET path == elements[chunks[k].group.members[1]].path
                        IN  IF LevelsInOrder
                            THEN /\ {t[1] : t \in TokensOf(path)} = Enclosing(l)
                                 /\ \A j \in 1 .. Len(path) - 1 : path[j][1] < path[j + 1][1]
                            ELSE Enclosing(l) # {} => path[Len(path)][1] = Max(Enclosing(l))
        BY DEF ContextEncloses, Sectioned
    <2> DEFINE m == chunks[k].group.members
               path == elements[m[1]].path
    <2>1. /\ m \in Seq(Nat) /\ 1 \in DOMAIN m /\ doc \in Files /\ Lists(elements)
          /\ Sourced(chunks[k].group)
          /\ \A j \in DOMAIN m : m[j] \in DOMAIN elements /\ Good(elements[m[j]])
        BY GroupOfChunk
    <2>2. PICK tok \in TokensOf(chunks[k].group.text) : tok # Whitespace /\ tok[2] > 0 /\ l = tok[1]
        BY DEF SourceLines
    <2>3. PICK j \in DOMAIN m : tok \in TokensOf(elements[m[j]].text) BY <2>2, TokenOfMember
    <2>4. l \in SourceLines(TokensOf(elements[m[j]].text)) /\ l \in Nat
        <3>1. l \in SourceLines(TokensOf(elements[m[j]].text)) BY <2>2, <2>3 DEF SourceLines
        <3>2. TokensOf(elements[m[j]].text) \subseteq MarksOf(Lines) \cup {Whitespace}
            BY <2>1 DEF Good, Sound
        <3>3. l \in Lines BY <2>1, <3>1, <3>2, SourceOf
        <3> QED BY <2>1, <3>1, <3>3, FileTokens
    <2>5. l \in Span(elements[m[j]])
        <3>1. CASE doc.format = "pdf" BY <2>4, <3>1 DEF Span
        <3>2. CASE doc.format = "markdown"
            <4>1. Traced(elements[m[j]]) BY <2>1 DEF Good
            <4>2. Unlocated = {} /\ Cited(elements[m[j]]) = Span(elements[m[j]])
                BY <3>2, LinesCited DEF Span
            <4>3. SourceLines(TokensOf(elements[m[j]].text) \ Unlocated) \subseteq Cited(elements[m[j]])
                BY <4>1 DEF Traced
            <4>4. TokensOf(elements[m[j]].text) \ Unlocated = TokensOf(elements[m[j]].text) BY <4>2
            <4> QED BY <2>4, <4>2, <4>3, <4>4
        <3> QED BY <3>1, <3>2 DEF Sectioned
    <2>6. Stacked(elements[m[j]].path, l)
        <3>1. Placed(elements) BY DEF InContext, PlacedThen
        <3>2. elements[m[j]].type # "heading" BY <2>1 DEF Sourced
        <3> QED BY <2>1, <2>5, <3>1, <3>2 DEF Placed
    <2>7. elements[m[j]].path = path
        <3>1. Agree(chunks[k].group) BY DEF InContext, AllAgree
        <3> QED BY <3>1 DEF Agree, SamePath
    <2>8. path \in Seq(HeadingTokens) BY <2>1 DEF Good, Sound
    <2>9. Stacked(path, l) BY <2>6, <2>7
    <2> HIDE DEF path, m
    <2>10. IF LevelsInOrder
           THEN /\ {t[1] : t \in TokensOf(path)} = Enclosing(l)
                /\ \A i \in 1 .. Len(path) - 1 : path[i][1] < path[i + 1][1]
           ELSE Enclosing(l) # {} => path[Len(path)][1] = Max(Enclosing(l))
        BY <2>1, <2>4, <2>8, <2>9, StackIsChain
    <2> QED BY <2>10 DEF path, m
<1>2. ExtractionInit => InContext
    <2> SUFFICES ASSUME ExtractionInit PROVE InContext OBVIOUS
    <2>1. doc.format = "none" BY DEF ExtractionInit, NoFile
    <2> QED BY <2>1 DEF InContext, Sectioned
<1>3. ExtractionSpec => []Deserving BY WorkerDeserves
<1> QED BY <1>1, <1>2, <1>3, ContextKeeps, WorkerInvariant, PTL DEF ExtractionSpec
=============================================================================
