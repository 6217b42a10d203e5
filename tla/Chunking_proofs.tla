--------------------------- MODULE Chunking_proofs ---------------------------
(***************************************************************************)
(* For every sequence of elements and all sizes the settings allow: the    *)
(* chunker is type correct, loses no token of an element that is not a     *)
(* heading, puts elements together only within the target, keeps the rows  *)
(* of a table behind its header, and cuts windows that advance.            *)
(***************************************************************************)
EXTENDS Chunking, TLAPS, WellFoundedInduction

\* The groups being filled are made of elements, and the windows of the first group
\* handed over have not passed its end.
GroupsOK ==
    /\ \A j \in DOMAIN prose.members : prose.members[j] \in DOMAIN elements
    /\ \A j \in DOMAIN table.members : table.members[j] \in DOMAIN elements
    /\ table # NoGroup => Len(table.members) > 0 /\ IsRow(table.members[1])
    /\ index = 0 => Idle
    /\ todo = <<>> => start = 0

\* The tokens of a group handed over that no window has reached.
LeftOf(k) ==
    {todo[k].text[p] : p \in (IF k = 1 THEN start ELSE 0) + 1 .. Len(todo[k].text)}
Held ==
    (UNION {LeftOf(k) : k \in DOMAIN todo}) \cup TokensOf(prose.text) \cup TokensOf(table.text)

\* What the loop has passed is in a chunk or in some group.
Kept ==
    \A e \in DOMAIN elements :
        e < index /\ elements[e].type # "heading" =>
            TokensOf(elements[e].text) \subseteq ChunkTokens \cup Held \cup {Whitespace}

Inductive == ChunkingTypeOK /\ GroupsOK /\ Kept

-----------------------------------------------------------------------------
(* The operators of the library, and on texts. *)

\* A set of natural numbers has a least member.
LEMMA Smallest ==
    ASSUME NEW S \in SUBSET Nat, S # {}
    PROVE  \E n \in S : \A m \in S : n <= m
<1> DEFINE R == {ss \in Nat \X Nat : ss[1] < ss[2]}
<1>1. IsWellFoundedOn(R, Nat) BY NatLessThanWellFounded DEF OpToRel
<1>2. PICK n \in S : \A m \in S : ~ (<<m, n>> \in R)
    <2> HIDE DEF R
    <2> QED BY <1>1, WFMin
<1>3. \A m \in S : ~ (m < n) BY <1>2
<1> QED BY <1>3

\* Counting from zero reaches every number.
LEMMA Counting ==
    ASSUME NEW S, 0 \in S, \A n \in Nat : n \in S => n + 1 \in S
    PROVE  Nat \subseteq S
<1> SUFFICES ASSUME Nat \ S # {} PROVE FALSE OBVIOUS
<1>1. PICK n \in Nat \ S : \A m \in Nat \ S : n <= m
    <2>1. Nat \ S \in SUBSET Nat OBVIOUS
    <2> QED BY <2>1, Smallest
<1>2. n - 1 \in Nat /\ n - 1 \in S BY <1>1
<1> QED BY <1>1, <1>2

\* The least and the greatest member of a set of numbers are its members.
LEMMA MinIsLeast ==
    ASSUME NEW S \in SUBSET Nat, S # {}
    PROVE  Min(S) \in S /\ \A m \in S : Min(S) <= m
BY Smallest DEF Min

\* So is the greatest, if there is a bound.
LEMMA MaxIsGreatest ==
    ASSUME NEW S \in SUBSET Nat, S # {}, NEW b \in Nat, \A m \in S : m <= b
    PROVE  Max(S) \in S /\ \A m \in S : m <= Max(S)
<1> DEFINE D == {n \in Nat : b - n \in S}
<1>1. PICK m \in S : TRUE OBVIOUS
<1>2. b - m \in D BY <1>1
<1>3. PICK d \in D : \A e \in D : d <= e
    <2>1. D \in SUBSET Nat /\ D # {} BY <1>2
    <2> HIDE DEF D
    <2> QED BY <2>1, Smallest
<1>4. b - d \in S /\ d \in Nat BY <1>3
<1>5. ASSUME NEW k \in S PROVE b - d >= k
    <2>1. k \in Nat /\ k <= b OBVIOUS
    <2>2. b - k \in Nat /\ b - (b - k) = k BY <2>1
    <2>3. b - k \in D BY <2>2
    <2>4. d <= b - k BY <1>3, <2>3
    <2> QED BY <2>1, <2>4, <1>4
<1>6. \A k \in S : b - d \in Nat /\ k \in Nat BY <1>4
<1> DEFINE x == b - d
<1>7. x \in S /\ \A k \in S : x >= k BY <1>4, <1>5
<1> HIDE DEF x
<1>8. Max(S) \in S /\ \A k \in S : Max(S) >= k BY <1>7 DEF Max
<1> QED BY <1>8

\* A stripped text is the text up to its last token that is not white space.
LEMMA StrippedText ==
    ASSUME NEW t \in Seq(Token)
    PROVE  /\ Stripped(t) \in Seq(Token) /\ Len(Stripped(t)) <= Len(t)
           /\ \A p \in DOMAIN Stripped(t) : p \in DOMAIN t /\ Stripped(t)[p] = t[p]
           /\ \A p \in DOMAIN t : t[p] # Whitespace => p \in DOMAIN Stripped(t)
           /\ Stripped(t) # <<>> => Stripped(t)[Len(Stripped(t))] # Whitespace
<1> DEFINE solid == {0} \cup {p \in DOMAIN t : t[p] # Whitespace}
           n == Max(solid)
<1>1. /\ solid \in SUBSET Nat /\ solid # {} /\ Len(t) \in Nat
      /\ \A m \in solid : m <= Len(t)
    OBVIOUS
<1>2. n \in solid /\ \A m \in solid : m <= n
    <2> HIDE DEF solid
    <2> QED BY <1>1, MaxIsGreatest
<1>3. n \in Nat /\ n <= Len(t) BY <1>1, <1>2
<1>4. Stripped(t) = SubSeq(t, 1, n) BY DEF Stripped
<1>5. /\ n # 0 => t[n] # Whitespace
      /\ \A p \in DOMAIN t : t[p] # Whitespace => p <= n
    BY <1>2
<1> HIDE DEF n
<1>6. /\ SubSeq(t, 1, n) \in Seq(Token) /\ Len(SubSeq(t, 1, n)) = n
      /\ \A p \in 1 .. n : SubSeq(t, 1, n)[p] = t[p]
    BY <1>3
<1>7. DOMAIN Stripped(t) = 1 .. n /\ DOMAIN t = 1 .. Len(t) BY <1>4, <1>6
<1>8. Stripped(t) # <<>> => n # 0 BY <1>4, <1>6
<1> QED BY <1>3, <1>4, <1>5, <1>6, <1>7, <1>8

\* Nothing but white space is stripped.
LEMMA StrippedTokens ==
    ASSUME NEW t \in Seq(Token)
    PROVE  /\ TokensOf(Stripped(t)) \subseteq TokensOf(t)
           /\ TokensOf(t) \subseteq TokensOf(Stripped(t)) \cup {Whitespace}
<1>1. /\ \A p \in DOMAIN Stripped(t) : p \in DOMAIN t /\ Stripped(t)[p] = t[p]
      /\ \A p \in DOMAIN t : t[p] # Whitespace => p \in DOMAIN Stripped(t)
    BY StrippedText
<1> QED BY <1>1 DEF TokensOf

-----------------------------------------------------------------------------
(* The operators on groups. *)

\* What the settings' rules come to.
LEMMA Sizes ==
    /\ TargetTokens \in Nat /\ MaxTokens \in Nat /\ OverlapTokens \in Nat
    /\ 0 < MaxTokens /\ OverlapTokens < MaxTokens
BY ChunkingAssumption DEF ValidChunking

\* The fields of an element.
LEMMA ElementFields ==
    ASSUME ChunkingTypeOK, NEW e \in DOMAIN elements
    PROVE  /\ elements[e].path \in Seq(Token) /\ elements[e].text \in Seq(Token)
           /\ e \in Nat
<1>1. elements \in Seq(Elements) BY DEF ChunkingTypeOK
<1>2. elements[e] \in Elements /\ e \in Nat BY <1>1
<1> QED BY <1>2 DEF Elements

\* Nothing is lost where texts are put together.
LEMMA TokensOfConcat ==
    ASSUME NEW a \in Seq(Token), NEW b \in Seq(Token)
    PROVE  TokensOf(a) \subseteq TokensOf(a \o b) /\ TokensOf(b) \subseteq TokensOf(a \o b)
<1>1. ASSUME NEW p \in DOMAIN a PROVE a[p] \in TokensOf(a \o b)
    <2>1. p \in DOMAIN (a \o b) /\ (a \o b)[p] = a[p] BY <1>1
    <2> QED BY <2>1 DEF TokensOf
<1>2. ASSUME NEW p \in DOMAIN b PROVE b[p] \in TokensOf(a \o b)
    <2> DEFINE q == Len(a) + p
    <2>1. q \in DOMAIN (a \o b) /\ (a \o b)[q] = b[p] BY <1>2
    <2> QED BY <2>1 DEF TokensOf
<1> QED BY <1>1, <1>2 DEF TokensOf

\* A group begun with an element is one, and holds the element's tokens.
LEMMA OpenedGroup ==
    ASSUME ChunkingTypeOK, NEW e \in DOMAIN elements
    PROVE  /\ Opened(e) \in GroupType
           /\ Opened(e) # NoGroup
           /\ Opened(e).members = <<e>>
           /\ TokensOf(elements[e].text) \subseteq TokensOf(Opened(e).text)
<1>1. elements[e].path \in Seq(Token) /\ elements[e].text \in Seq(Token) /\ e \in Nat
    BY ElementFields
<1>2. Opened(e).members = <<e>> /\ Opened(e).text = elements[e].path \o elements[e].text
    BY DEF Opened
<1>3. Opened(e) \in GroupType BY <1>1 DEF Opened, GroupType
<1>4. Opened(e) # NoGroup
    <2>1. Len(<<e>>) = 1 /\ Len(<<>>) = 0 OBVIOUS
    <2>2. <<e>> # <<>> BY <2>1
    <2>3. NoGroup.members = <<>> BY DEF NoGroup
    <2> QED BY <1>2, <2>2, <2>3
<1> QED BY <1>1, <1>2, <1>3, <1>4, TokensOfConcat

\* A group that takes in an element keeps its tokens and gains those of the element.
LEMMA JoinedGroup ==
    ASSUME ChunkingTypeOK, NEW g \in GroupType, NEW e \in DOMAIN elements
    PROVE  /\ Joined(g, e) \in GroupType
           /\ TokensOf(elements[e].text) \subseteq TokensOf(Joined(g, e).text)
           /\ TokensOf(g.text) \subseteq TokensOf(Joined(g, e).text)
           /\ g = NoGroup => Joined(g, e) = Opened(e)
           /\ g # NoGroup => Joined(g, e).members = Append(g.members, e)
<1>1. elements[e].text \in Seq(Token) /\ e \in Nat BY ElementFields
<1>2. CASE g = NoGroup
    <2>1. TokensOf(g.text) = {} BY <1>2 DEF NoGroup, TokensOf
    <2> QED BY <1>2, <2>1, OpenedGroup DEF Joined
<1>3. CASE g # NoGroup
    <2>1. g.members \in Seq(Nat) /\ g.text \in Seq(Token) BY DEF GroupType
    <2>2. Joined(g, e) = [members |-> Append(g.members, e), text |-> g.text \o elements[e].text]
        BY <1>3 DEF Joined
    <2>3. Joined(g, e) \in GroupType BY <1>1, <2>1, <2>2 DEF GroupType
    <2>4. Joined(g, e).text = g.text \o elements[e].text
          /\ Joined(g, e).members = Append(g.members, e)
        BY <1>3 DEF Joined
    <2>5. /\ TokensOf(g.text) \subseteq TokensOf(g.text \o elements[e].text)
          /\ TokensOf(elements[e].text) \subseteq TokensOf(g.text \o elements[e].text)
        BY <1>1, <2>1, TokensOfConcat
    <2> QED BY <1>3, <2>3, <2>4, <2>5
<1> QED BY <1>2, <1>3

\* Sequences of one kind of element.
LEMMA Longer ==
    ASSUME NEW S, NEW x \in S
    PROVE  /\ <<x>> \in Seq(S)
           /\ \A s \in Seq(S) : Append(s, x) \in Seq(S) /\ Append(s, x) # <<>>
<1>1. <<x>> \in Seq(S) OBVIOUS
<1>2. ASSUME NEW s \in Seq(S) PROVE Append(s, x) \in Seq(S) OBVIOUS
<1>3. ASSUME NEW s \in Seq(S) PROVE Append(s, x) # <<>>
    <2>1. Len(Append(s, x)) = Len(s) + 1 /\ Len(s) \in Nat OBVIOUS
    <2>2. Len(<<>>) = 0 OBVIOUS
    <2> QED BY <2>1, <2>2
<1> QED BY <1>1, <1>2, <1>3

\* The last of a longer sequence.
LEMMA LastOfLonger ==
    ASSUME NEW S, NEW s \in Seq(S), NEW x
    PROVE  Len(s) + 1 \in DOMAIN Append(s, x) /\ Append(s, x)[Len(s) + 1] = x
OBVIOUS

\* The entries of a longer sequence.
LEMMA AllOfLonger ==
    ASSUME NEW S, NEW s \in Seq(S), NEW x, NEW k \in DOMAIN Append(s, x)
    PROVE  (k \in DOMAIN s /\ Append(s, x)[k] = s[k]) \/ Append(s, x)[k] = x
OBVIOUS

\* They are those of the shorter one, in their places.
LEMMA KeptByLonger ==
    ASSUME NEW S, NEW s \in Seq(S), NEW x
    PROVE  /\ Len(s) \in Nat /\ Len(Append(s, x)) = Len(s) + 1
           /\ \A j \in 1 .. Len(s) : Append(s, x)[j] = s[j]
           /\ Append(s, x)[Len(s) + 1] = x
OBVIOUS

\* The entry of a singleton.
LEMMA AllOfOne == ASSUME NEW x, NEW k \in DOMAIN <<x>> PROVE <<x>>[k] = x
OBVIOUS

\* What is handed over is a group.
LEMMA HandedGroup ==
    ASSUME NEW g \in GroupType, NEW b \in BOOLEAN
    PROVE  /\ Handed(g, b) \in HandedType
           /\ Handed(g, b).text = Stripped(g.text) /\ Handed(g, b).members = g.members
           /\ TokensOf(g.text) \subseteq TokensOf(Handed(g, b).text) \cup {Whitespace}
<1>1. g.members \in Seq(Nat) /\ g.text \in Seq(Token) BY DEF GroupType
<1>2. /\ Stripped(g.text) \in Seq(Token)
      /\ TokensOf(g.text) \subseteq TokensOf(Stripped(g.text)) \cup {Whitespace}
    BY <1>1, StrippedText, StrippedTokens
<1>3. /\ Handed(g, b).text = Stripped(g.text) /\ Handed(g, b).members = g.members
      /\ Handed(g, b) = [members |-> g.members, text |-> Stripped(g.text), overlap |-> b]
    BY DEF Handed
<1> QED BY <1>1, <1>2, <1>3 DEF HandedType

-----------------------------------------------------------------------------
(* Type correctness. *)

\* The prose that is flushed.
LEMMA FlushedType == ASSUME ChunkingTypeOK PROVE FlushedProse \in Seq(HandedType)
<1>1. CASE prose = NoGroup BY <1>1 DEF FlushedProse
<1>2. CASE prose # NoGroup
    <2>1. prose \in GroupType BY DEF ChunkingTypeOK
    <2>2. Handed(prose, TRUE) \in HandedType BY <2>1, HandedGroup
    <2>3. FlushedProse = <<Handed(prose, TRUE)>> BY <1>2 DEF FlushedProse
    <2> QED BY <2>2, <2>3, Longer
<1> QED BY <1>1, <1>2

\* A step keeps the types and the shape of the groups.
LEMMA StepTypes ==
    ASSUME Inductive, Proceed
    PROVE  ChunkingTypeOK' /\ GroupsOK'
<1> USE DEF Inductive
<1>T. /\ elements \in Seq(Elements) /\ index \in Nat /\ start \in Nat
      /\ prose \in GroupType /\ table \in GroupType /\ todo \in Seq(HandedType)
      /\ chunks \in Seq([group : HandedType, from : Nat, upto : Nat])
    BY DEF ChunkingTypeOK
<1>0. FlushedProse \in Seq(HandedType) BY FlushedType
<1>N. NoGroup \in GroupType /\ NoGroup.members = <<>>
    BY DEF NoGroup, GroupType
<1>F. \A g \in GroupType : <<Handed(g, FALSE)>> \in Seq(HandedType)
    <2> TAKE g \in GroupType
    <2>1. Handed(g, FALSE) \in HandedType BY HandedGroup
    <2> QED BY <2>1, Longer
<1>1. CASE Heading
    BY <1>1, <1>T, <1>0, <1>N DEF Heading, AtElement, Advance, ChunkingTypeOK, GroupsOK, IsRow
<1>2. CASE LogRecord
    <2>1. Opened(index) \in GroupType
        BY <1>2, OpenedGroup DEF LogRecord, AtElement
    <2>2. Handed(Opened(index), FALSE) \in HandedType BY <2>1, HandedGroup
    <2>3. todo' \in Seq(HandedType) /\ todo' # <<>>
        BY <1>2, <2>2, <1>0, Longer DEF LogRecord
    <2>4. /\ UNCHANGED <<elements, table, start, chunks>> /\ index' = index + 1
          /\ prose' = NoGroup
        BY <1>2 DEF LogRecord, Advance
    <2>5. ChunkingTypeOK' BY <2>3, <2>4, <1>T, <1>N DEF ChunkingTypeOK
    <2> QED BY <2>3, <2>4, <2>5, <1>T, <1>N DEF GroupsOK, IsRow
<1>3. CASE TableHeader
    <2>1. Opened(index) \in GroupType /\ Opened(index).members = <<index>>
        BY <1>3, OpenedGroup DEF TableHeader, AtElement
    <2>2. DOMAIN Opened(index).members = {1} /\ Len(Opened(index).members) = 1
        BY <2>1
    <2> QED BY <1>3, <2>1, <2>2, <1>0, <1>N
        DEF TableHeader, AtElement, Advance, ChunkingTypeOK, GroupsOK, IsRow
<1>4. CASE TableRow
    <2> DEFINE h == table.members[1]
    <2>1. table \in GroupType /\ table.members \in Seq(Nat) /\ index \in DOMAIN elements
          /\ 1 \in DOMAIN table.members /\ h \in DOMAIN elements /\ IsRow(h)
          /\ table # NoGroup
        BY <1>4 DEF TableRow, AtElement, ChunkingTypeOK, GroupsOK, GroupType
    <2>2. Joined(table, index) \in GroupType
          /\ Joined(table, index).members = Append(table.members, index)
        BY <2>1, JoinedGroup
    <2>3. Restarted(index) \in GroupType /\ Restarted(index).members = Append(<<h>>, index)
        <3>1. Opened(h) \in GroupType /\ Opened(h) # NoGroup /\ Opened(h).members = <<h>>
            BY <2>1, OpenedGroup
        <3>2. Joined(Opened(h), index) \in GroupType
              /\ Joined(Opened(h), index).members = Append(Opened(h).members, index)
            BY <2>1, <3>1, JoinedGroup
        <3> QED BY <3>1, <3>2 DEF Restarted
    <2>4. /\ UNCHANGED <<elements, prose, start, chunks>> /\ index' = index + 1
          /\ \/ table' = Restarted(index) /\ todo' = <<Handed(table, FALSE)>>
             \/ table' = Joined(table, index) /\ todo' = todo
        BY <1>4 DEF TableRow, Advance
    <2>5. table' \in GroupType /\ todo' \in Seq(HandedType)
        BY <2>1, <2>2, <2>3, <2>4, <1>T, <1>F
    <2>6. /\ \A j \in DOMAIN table'.members : table'.members[j] \in DOMAIN elements
          /\ Len(table'.members) > 0 /\ table'.members[1] = h
        <3>1. CASE table' = Restarted(index)
            <4>1. <<h>> \in Seq(Nat) /\ Len(<<h>>) = 1 /\ <<h>>[1] = h BY <2>1
            <4> QED BY <3>1, <4>1, <2>1, <2>3
        <3>2. CASE table' = Joined(table, index) BY <3>2, <2>1, <2>2 DEF GroupsOK
        <3> QED BY <3>1, <3>2, <2>4
    <2>7. todo' = <<>> => start' = 0 BY <2>4 DEF GroupsOK
    <2>8. ChunkingTypeOK' BY <2>4, <2>5, <1>T DEF ChunkingTypeOK
    <2> QED BY <2>1, <2>4, <2>6, <2>7, <2>8, <1>T DEF GroupsOK, IsRow
<1>5. CASE TableEnd
    <2>1. /\ UNCHANGED <<elements, index, prose, start, chunks>>
          /\ todo' = <<Handed(table, FALSE)>> /\ table' = NoGroup
          /\ todo = <<>> /\ index > 0
        BY <1>5 DEF TableEnd
    <2>2. ChunkingTypeOK' BY <2>1, <1>T, <1>F, <1>N DEF ChunkingTypeOK
    <2> QED BY <2>1, <2>2, <1>T, <1>N DEF GroupsOK
<1>6. CASE Prose
    <2>1. prose \in GroupType /\ prose.members \in Seq(Nat) /\ index \in DOMAIN elements
        BY <1>6 DEF Prose, AtElement, ChunkingTypeOK, GroupType
    <2>2. Opened(index) \in GroupType /\ Opened(index).members = <<index>>
        BY <2>1, OpenedGroup
    <2>3. Joined(prose, index) \in GroupType
          /\ \A j \in DOMAIN Joined(prose, index).members :
                Joined(prose, index).members[j] \in DOMAIN elements
        <3>1. CASE prose = NoGroup BY <3>1, <2>1, <2>2, JoinedGroup
        <3>2. CASE prose # NoGroup
            <4>1. Joined(prose, index).members = Append(prose.members, index)
                BY <3>2, <2>1, JoinedGroup
            <4> QED BY <4>1, <2>1, JoinedGroup DEF GroupsOK
        <3> QED BY <3>1, <3>2
    <2>4. /\ UNCHANGED <<elements, table, start, chunks>> /\ index' = index + 1
          /\ todo = <<>> /\ table = NoGroup
          /\ \/ prose' = Opened(index) /\ todo' = FlushedProse
             \/ prose' = Joined(prose, index) /\ todo' = <<>>
        BY <1>6 DEF Prose, AtElement, Advance
    <2>5. prose' \in GroupType /\ todo' \in Seq(HandedType)
          /\ \A j \in DOMAIN prose'.members : prose'.members[j] \in DOMAIN elements
        <3>1. CASE prose' = Opened(index) /\ todo' = FlushedProse
            BY <3>1, <2>1, <2>2, <1>0
        <3>2. CASE prose' = Joined(prose, index) /\ todo' = <<>>
            BY <3>2, <2>3
        <3> QED BY <3>1, <3>2, <2>4
    <2>6. ChunkingTypeOK' BY <2>4, <2>5, <1>T DEF ChunkingTypeOK
    <2> QED BY <2>4, <2>5, <2>6, <1>T, <1>N DEF GroupsOK, IsRow
<1>7. CASE ElementsEnd
    BY <1>7, <1>T, <1>0, <1>N DEF ElementsEnd, ChunkingTypeOK, GroupsOK, IsRow
<1>8. CASE Window
    <2> DEFINE g == Head(todo)
    <2>1. g \in HandedType /\ Tail(todo) \in Seq(HandedType)
        BY <1>8, <1>T DEF Window
    <2>2. Len(g.text) \in Nat BY <2>1 DEF HandedType
    <2>3. Step(g) \in Nat /\ WindowEnd(g) \in Nat
        BY <2>2, <1>T, Sizes DEF Step, WindowEnd
    <2> DEFINE c == [group |-> g, from |-> start, upto |-> WindowEnd(g)]
    <2>4. c \in [group : HandedType, from : Nat, upto : Nat]
        BY <2>1, <2>3, <1>T
    <2>5. chunks' = chunks \/ chunks' = Append(chunks, c)
        BY <1>8 DEF Window
    <2>6. chunks' \in Seq([group : HandedType, from : Nat, upto : Nat])
        BY <2>4, <2>5, <1>T, Longer
    <2>7. start' \in Nat /\ todo' \in Seq(HandedType) /\ (todo' = <<>> => start' = 0)
        BY <1>8, <1>T, <2>1, <2>3 DEF Window
    <2> QED BY <1>8, <1>T, <2>6, <2>7 DEF Window, ChunkingTypeOK, GroupsOK, IsRow, Idle
<1> QED BY <1>1, <1>2, <1>3, <1>4, <1>5, <1>6, <1>7, <1>8 DEF Proceed

-----------------------------------------------------------------------------
(* Nothing is lost. *)

\* An empty group holds nothing.
LEMMA NoTokens == TokensOf(NoGroup.text) = {}
BY DEF TokensOf, NoGroup

\* Of what has just been handed over, everything is left.
LEMMA AllLeft ==
    ASSUME ChunkingTypeOK', start' = 0, NEW k \in DOMAIN todo'
    PROVE  TokensOf(todo'[k].text) \subseteq Held'
<1>1. todo' \in Seq(HandedType) BY DEF ChunkingTypeOK
<1>2. todo'[k] \in HandedType BY <1>1
<1>3. todo'[k].text \in Seq(Token) BY <1>2 DEF HandedType
<1>4. LeftOf(k)' = TokensOf(todo'[k].text)
    BY <1>3 DEF LeftOf, TokensOf
<1>5. LeftOf(k)' \subseteq Held' BY DEF Held
<1> QED BY <1>4, <1>5

\* The groups being filled are held, before and after a step.
LEMMA GroupsHeld ==
    /\ TokensOf(prose.text) \subseteq Held /\ TokensOf(table.text) \subseteq Held
    /\ TokensOf(prose'.text) \subseteq Held' /\ TokensOf(table'.text) \subseteq Held'
<1>1. TokensOf(prose.text) \subseteq Held /\ TokensOf(table.text) \subseteq Held BY DEF Held
<1>2. TokensOf(prose'.text) \subseteq Held' /\ TokensOf(table'.text) \subseteq Held' BY DEF Held
<1> QED BY <1>1, <1>2

\* Before anything is handed over, only the groups being filled hold tokens.
LEMMA HeldByGroups ==
    ASSUME todo = <<>>
    PROVE  Held = TokensOf(prose.text) \cup TokensOf(table.text)
<1>1. DOMAIN todo = {} OBVIOUS
<1> QED BY <1>1 DEF Held

\* The flushed prose keeps its tokens.
LEMMA ProseHandedOver ==
    ASSUME Inductive, ChunkingTypeOK', start' = 0,
           \/ todo' = FlushedProse
           \/ \E x : todo' = Append(FlushedProse, x)
    PROVE  TokensOf(prose.text) \subseteq Held' \cup {Whitespace}
<1>1. CASE prose = NoGroup BY <1>1, NoTokens
<1>2. CASE prose # NoGroup
    <2>1. FlushedProse = <<Handed(prose, TRUE)>> BY <1>2 DEF FlushedProse
    <2>2. 1 \in DOMAIN todo' /\ todo'[1] = Handed(prose, TRUE)
        <3>1. CASE todo' = FlushedProse BY <2>1, <3>1
        <3>2. CASE \E x : todo' = Append(FlushedProse, x)
            <4>1. PICK x : todo' = Append(<<Handed(prose, TRUE)>>, x) BY <3>2, <2>1
            <4>2. <<Handed(prose, TRUE)>> \in Seq({Handed(prose, TRUE)}) OBVIOUS
            <4> QED BY <4>1, <4>2
        <3> QED BY <3>1, <3>2
    <2>3. prose \in GroupType BY DEF Inductive, ChunkingTypeOK
    <2>4. TokensOf(prose.text) \subseteq TokensOf(todo'[1].text) \cup {Whitespace}
        BY <2>2, <2>3, HandedGroup
    <2> QED BY <2>2, <2>4, AllLeft
<1> QED BY <1>1, <1>2

\* A step of the loop over the elements keeps what is held, and takes in its element.
LEMMA LoopKeeps ==
    ASSUME Inductive, ChunkingTypeOK', Proceed, ~ Window
    PROVE  /\ elements' = elements /\ chunks' = chunks
           /\ Held \subseteq Held' \cup {Whitespace}
           /\ \/ index' = index
              \/ /\ index' = index + 1 /\ index \in DOMAIN elements
                 /\ elements[index].type # "heading" =>
                        TokensOf(elements[index].text) \subseteq Held' \cup {Whitespace}
<1> USE DEF Inductive
<1>T. prose \in GroupType /\ table \in GroupType BY DEF ChunkingTypeOK
<1>1. CASE Heading
    <2>1. /\ todo = <<>> /\ todo' = FlushedProse /\ table = NoGroup /\ start' = 0
          /\ index' = index + 1 /\ elements[index].type = "heading" /\ index \in DOMAIN elements
          /\ elements' = elements /\ chunks' = chunks
        BY <1>1 DEF Heading, AtElement, Advance, GroupsOK
    <2> QED BY <2>1, ProseHandedOver, HeldByGroups, NoTokens
<1>2. CASE LogRecord
    <2> DEFINE own == Handed(Opened(index), FALSE)
    <2>1. /\ todo = <<>> /\ todo' = Append(FlushedProse, own) /\ table = NoGroup /\ start' = 0
          /\ index' = index + 1 /\ index \in DOMAIN elements
          /\ elements' = elements /\ chunks' = chunks
        BY <1>2 DEF LogRecord, AtElement, Advance, GroupsOK
    <2>2. TokensOf(prose.text) \subseteq Held' \cup {Whitespace} BY <2>1, ProseHandedOver
    <2>3. FlushedProse \in Seq(HandedType) BY FlushedType
    <2>4. Len(FlushedProse) + 1 \in DOMAIN todo' /\ todo'[Len(FlushedProse) + 1] = own
        BY <2>1, <2>3, LastOfLonger
    <2>5. TokensOf(Opened(index).text) \subseteq TokensOf(own.text) \cup {Whitespace}
        BY <2>1, OpenedGroup, HandedGroup
    <2>6. TokensOf(Opened(index).text) \subseteq Held' \cup {Whitespace}
        BY <2>1, <2>4, <2>5, AllLeft
    <2>7. TokensOf(elements[index].text) \subseteq Held' \cup {Whitespace}
        BY <2>1, <2>6, OpenedGroup
    <2> QED BY <2>1, <2>2, <2>7, HeldByGroups, NoTokens
<1>3. CASE TableHeader
    <2>1. /\ todo = <<>> /\ todo' = FlushedProse /\ table = NoGroup /\ start' = 0
          /\ table' = Opened(index)
          /\ index' = index + 1 /\ index \in DOMAIN elements
          /\ elements' = elements /\ chunks' = chunks
        BY <1>3 DEF TableHeader, AtElement, Advance, GroupsOK
    <2>2. TokensOf(prose.text) \subseteq Held' \cup {Whitespace} BY <2>1, ProseHandedOver
    <2>3. TokensOf(elements[index].text) \subseteq TokensOf(table'.text)
        BY <2>1, OpenedGroup
    <2>4. TokensOf(table'.text) \subseteq Held' BY GroupsHeld
    <2> QED BY <2>1, <2>2, <2>3, <2>4, HeldByGroups, NoTokens
<1>4. CASE TableRow
    <2>1. /\ todo = <<>> /\ start' = 0 /\ prose' = prose /\ table # NoGroup
          /\ index' = index + 1 /\ index \in DOMAIN elements
          /\ elements' = elements /\ chunks' = chunks
          /\ \/ table' = Restarted(index) /\ todo' = <<Handed(table, FALSE)>>
             \/ table' = Joined(table, index) /\ todo' = todo
        BY <1>4, <1>T DEF TableRow, AtElement, Advance, GroupsOK, GroupType
    <2>2. TokensOf(table'.text) \subseteq Held' /\ TokensOf(prose'.text) \subseteq Held'
        BY GroupsHeld
    <2>3. TokensOf(elements[index].text) \subseteq TokensOf(table'.text)
        <3>1. table.members \in Seq(Nat) /\ 1 \in DOMAIN table.members
            BY <2>1, <1>T DEF GroupsOK, GroupType
        <3>2. table.members[1] \in DOMAIN elements BY <3>1 DEF GroupsOK
        <3>3. Opened(table.members[1]) \in GroupType BY <3>2, OpenedGroup
        <3> QED BY <3>3, <2>1, <1>T, JoinedGroup DEF Restarted
    <2>4. TokensOf(table.text) \subseteq Held' \cup {Whitespace}
        <3>1. CASE table' = Joined(table, index)
            BY <3>1, <2>1, <2>2, <1>T, JoinedGroup
        <3>2. CASE todo' = <<Handed(table, FALSE)>>
            <4>1. 1 \in DOMAIN todo' /\ todo'[1] = Handed(table, FALSE) BY <3>2
            <4>2. TokensOf(table.text) \subseteq TokensOf(todo'[1].text) \cup {Whitespace}
                BY <4>1, <1>T, HandedGroup
            <4> QED BY <4>1, <4>2, <2>1, AllLeft
        <3> QED BY <3>1, <3>2, <2>1
    <2> QED BY <2>1, <2>2, <2>3, <2>4, HeldByGroups
<1>5. CASE TableEnd
    <2>1. /\ todo = <<>> /\ start' = 0 /\ todo' = <<Handed(table, FALSE)>>
          /\ prose' = prose /\ index' = index /\ elements' = elements /\ chunks' = chunks
        BY <1>5 DEF TableEnd, GroupsOK
    <2>2. 1 \in DOMAIN todo' /\ todo'[1] = Handed(table, FALSE) BY <2>1
    <2>3. TokensOf(table.text) \subseteq Held' \cup {Whitespace}
        BY <2>1, <2>2, <1>T, HandedGroup, AllLeft
    <2>4. TokensOf(prose'.text) \subseteq Held' BY GroupsHeld
    <2> QED BY <2>1, <2>3, <2>4, HeldByGroups
<1>6. CASE Prose
    <2>1. /\ todo = <<>> /\ start' = 0 /\ table = NoGroup
          /\ index' = index + 1 /\ index \in DOMAIN elements
          /\ elements' = elements /\ chunks' = chunks
          /\ \/ prose' = Opened(index) /\ todo' = FlushedProse
             \/ prose' = Joined(prose, index)
        BY <1>6 DEF Prose, AtElement, Advance, GroupsOK
    <2>2. TokensOf(prose'.text) \subseteq Held' BY GroupsHeld
    <2>3. TokensOf(elements[index].text) \subseteq TokensOf(prose'.text)
        BY <2>1, <1>T, OpenedGroup, JoinedGroup
    <2>4. TokensOf(prose.text) \subseteq Held' \cup {Whitespace}
        <3>1. CASE prose' = Joined(prose, index)
            BY <3>1, <2>1, <2>2, <1>T, JoinedGroup
        <3>2. CASE todo' = FlushedProse BY <3>2, <2>1, ProseHandedOver
        <3> QED BY <3>1, <3>2, <2>1
    <2> QED BY <2>1, <2>2, <2>3, <2>4, HeldByGroups, NoTokens
<1>7. CASE ElementsEnd
    <2>1. /\ todo = <<>> /\ todo' = FlushedProse /\ table = NoGroup /\ start' = 0
          /\ index' = index /\ elements' = elements /\ chunks' = chunks
        BY <1>7 DEF ElementsEnd, GroupsOK
    <2> QED BY <2>1, ProseHandedOver, HeldByGroups, NoTokens
<1> QED BY <1>1, <1>2, <1>3, <1>4, <1>5, <1>6, <1>7 DEF Proceed

\* A window takes nothing but white space away from what is held, except into a chunk.
LEMMA WindowKeeps ==
    ASSUME Inductive, Window
    PROVE  /\ elements' = elements /\ index' = index
           /\ ChunkTokens \cup Held \subseteq ChunkTokens' \cup Held' \cup {Whitespace}
<1> DEFINE g == Head(todo)
           c == [group |-> g, from |-> start, upto |-> WindowEnd(g)]
<1> USE DEF Inductive
<1>T. /\ todo \in Seq(HandedType) /\ start \in Nat
      /\ chunks \in Seq([group : HandedType, from : Nat, upto : Nat])
    BY DEF ChunkingTypeOK
<1>1. /\ todo # <<>> /\ prose' = prose /\ table' = table
      /\ elements' = elements /\ index' = index
      /\ chunks' = IF BlankWindow(g) THEN chunks ELSE Append(chunks, c)
      /\ start' = IF LastWindow(g) THEN 0 ELSE start + Step(g)
      /\ todo' = IF LastWindow(g) THEN Tail(todo) ELSE todo
    BY DEF Window
<1>2. g \in HandedType /\ g = todo[1] /\ 1 \in DOMAIN todo BY <1>T, <1>1
<1>3. g.text \in Seq(Token) /\ Len(g.text) \in Nat BY <1>2 DEF HandedType
<1>4. ChunkTokens \subseteq ChunkTokens'
    <2>1. CASE BlankWindow(g) BY <2>1, <1>1 DEF ChunkTokens, Slice
    <2>2. CASE ~ BlankWindow(g)
        <3>1. \A k \in DOMAIN chunks : k \in DOMAIN chunks' /\ chunks'[k] = chunks[k]
            BY <2>2, <1>1, <1>T, SMTT(30)
        <3> QED BY <3>1 DEF ChunkTokens, Slice
    <2> QED BY <2>1, <2>2
<1>5. ASSUME NEW p \in start + 1 .. WindowEnd(g)
      PROVE  g.text[p] \in ChunkTokens' \cup {Whitespace}
    <2>1. CASE BlankWindow(g) BY <2>1, <1>5 DEF BlankWindow
    <2>2. CASE ~ BlankWindow(g)
        <3>1. Len(chunks') \in DOMAIN chunks' /\ chunks'[Len(chunks')] = c
            BY <2>2, <1>1, <1>T
        <3>2. c.group.text[p] \in Slice(c) BY <1>5 DEF Slice
        <3> QED BY <3>1, <3>2 DEF ChunkTokens, Slice
    <2> QED BY <2>1, <2>2
<1>6. Step(g) \in Nat /\ Step(g) <= MaxTokens
    BY Sizes DEF Step
<1>7. LeftOf(1) \subseteq ChunkTokens' \cup Held' \cup {Whitespace}
    <2> SUFFICES ASSUME NEW p \in start + 1 .. Len(g.text)
                 PROVE  g.text[p] \in ChunkTokens' \cup Held' \cup {Whitespace}
        BY <1>2 DEF LeftOf
    <2>1. CASE p <= WindowEnd(g)
        <3>1. p \in start + 1 .. WindowEnd(g) BY <2>1, <1>3, <1>T, Sizes DEF WindowEnd
        <3> QED BY <3>1, <1>5
    <2>2. CASE p > WindowEnd(g)
        <3>1. start + MaxTokens < Len(g.text) /\ p > start + MaxTokens
            BY <2>2, <1>3, <1>T, Sizes DEF WindowEnd
        <3>2. ~ LastWindow(g) BY <3>1, <1>3, <1>6, <1>T, Sizes DEF LastWindow
        <3>3. p \in start' + 1 .. Len(todo'[1].text) /\ 1 \in DOMAIN todo' /\ todo'[1] = g
            BY <3>1, <3>2, <1>1, <1>2, <1>3, <1>6, <1>T, Sizes
        <3>4. g.text[p] \in LeftOf(1)' BY <3>3 DEF LeftOf
        <3> QED BY <3>3, <3>4 DEF Held
    <2> QED BY <2>1, <2>2, <1>3, <1>T, Sizes DEF WindowEnd
<1>8. ASSUME NEW k \in DOMAIN todo, k # 1
      PROVE  LeftOf(k) \subseteq Held'
    <2>1. CASE LastWindow(g)
        <3>1. todo' = Tail(todo) /\ start' = 0 BY <2>1, <1>1
        <3>2. k - 1 \in DOMAIN todo' /\ todo'[k - 1] = todo[k] BY <3>1, <1>8, <1>T
        <3>3. todo[k] \in HandedType BY <1>T
        <3>4. todo[k].text \in Seq(Token) BY <3>3 DEF HandedType
        <3>5. LeftOf(k) \subseteq LeftOf(k - 1)'
            BY <3>1, <3>2, <3>4, <1>8, <1>T DEF LeftOf
        <3> QED BY <3>2, <3>5 DEF Held
    <2>2. CASE ~ LastWindow(g)
        <3>1. todo' = todo BY <2>2, <1>1
        <3>2. LeftOf(k) = LeftOf(k)' BY <3>1, <1>8 DEF LeftOf
        <3> QED BY <3>1, <3>2 DEF Held
    <2> QED BY <2>1, <2>2
<1>9. TokensOf(prose.text) \cup TokensOf(table.text) \subseteq Held'
    BY <1>1, GroupsHeld
<1> QED BY <1>1, <1>4, <1>7, <1>8, <1>9 DEF Held

\* No step loses a token.
LEMMA StepKeeps ==
    ASSUME Inductive, Proceed
    PROVE  Kept'
<1>1. ChunkingTypeOK' BY StepTypes
<1>2. CASE Window
    <2>1. /\ elements' = elements /\ index' = index
          /\ ChunkTokens \cup Held \subseteq ChunkTokens' \cup Held' \cup {Whitespace}
        BY <1>2, WindowKeeps
    <2> QED BY <2>1 DEF Inductive, Kept, TokensOf
<1>3. CASE ~ Window
    <2>1. /\ elements' = elements /\ chunks' = chunks
          /\ Held \subseteq Held' \cup {Whitespace}
          /\ \/ index' = index
             \/ /\ index' = index + 1 /\ index \in DOMAIN elements
                /\ elements[index].type # "heading" =>
                       TokensOf(elements[index].text) \subseteq Held' \cup {Whitespace}
        BY <1>1, <1>3, LoopKeeps
    <2>2. ChunkTokens' = ChunkTokens BY <2>1 DEF ChunkTokens, Slice
    <2>3. elements \in Seq(Elements) /\ index \in Nat BY DEF Inductive, ChunkingTypeOK
    <2> SUFFICES ASSUME NEW e \in DOMAIN elements, e < index', elements[e].type # "heading"
                 PROVE  TokensOf(elements[e].text) \subseteq ChunkTokens' \cup Held' \cup {Whitespace}
        BY <2>1 DEF Kept, TokensOf
    <2>4. e < index \/ (e = index /\ index' = index + 1) BY <2>1, <2>3
    <2>5. CASE e < index BY <2>5, <2>1, <2>2 DEF Inductive, Kept
    <2>6. CASE e = index /\ index' = index + 1 BY <2>6, <2>1, <2>3
    <2> QED BY <2>4, <2>5, <2>6
<1> QED BY <1>2, <1>3

\* When the tokenizer raises, nothing is left to keep.
LEMMA RaiseTypes == ASSUME Inductive, Raise PROVE Inductive'
<1>1. elements \in Seq(Elements) /\ elements' = elements /\ index' = 0 /\ Idle'
    BY DEF Inductive, ChunkingTypeOK, Raise, Idle
<1>2. ChunkingTypeOK' BY <1>1 DEF Idle, ChunkingTypeOK, NoGroup, GroupType
<1>3. GroupsOK'
    <2>1. Idle' => /\ prose' = NoGroup /\ table' = NoGroup /\ start' = 0
        BY DEF Idle
    <2> QED BY <1>1, <2>1 DEF GroupsOK, NoGroup
<1>4. Kept' BY <1>1 DEF Kept
<1> QED BY <1>2, <1>3, <1>4 DEF Inductive

-----------------------------------------------------------------------------
(* The theorems. *)

\* The invariant holds from the call of chunk() on.
LEMMA ChunkerInvariant == ChunkSpec => []Inductive
<1>1. ChunkInit => Inductive
    <2> SUFFICES ASSUME ChunkInit PROVE Inductive OBVIOUS
    <2>1. ChunkingTypeOK BY DEF ChunkInit, Idle, ChunkingTypeOK, NoGroup, GroupType
    <2>2. GroupsOK BY DEF ChunkInit, Idle, GroupsOK, NoGroup
    <2>3. Kept BY <2>1 DEF ChunkInit, Kept, ChunkingTypeOK
    <2> QED BY <2>1, <2>2, <2>3 DEF Inductive
<1>2. Inductive /\ [ChunkNext]_chunkVars => Inductive'
    <2> SUFFICES ASSUME Inductive, [ChunkNext]_chunkVars PROVE Inductive' OBVIOUS
    <2>1. CASE Proceed BY <2>1, StepTypes, StepKeeps DEF Inductive
    <2>3. CASE Raise BY <2>3, RaiseTypes
    <2>2. CASE UNCHANGED chunkVars
        <3>1. /\ elements' = elements /\ index' = index /\ prose' = prose /\ table' = table
              /\ todo' = todo /\ start' = start /\ chunks' = chunks
            BY <2>2 DEF chunkVars
        <3>2. ChunkingTypeOK' BY <3>1 DEF Inductive, ChunkingTypeOK
        <3>3. GroupsOK' BY <3>1 DEF Inductive, GroupsOK, IsRow, Idle
        <3>4. ChunkTokens' = ChunkTokens /\ Held' = Held
            BY <3>1 DEF ChunkTokens, Slice, Held, LeftOf, TokensOf
        <3>5. Kept' BY <3>1, <3>4 DEF Inductive, Kept, TokensOf
        <3> QED BY <3>2, <3>3, <3>5 DEF Inductive
    <2> QED BY <2>1, <2>2, <2>3 DEF ChunkNext
<1> QED BY <1>1, <1>2, PTL DEF ChunkSpec

\* The chunker's state has its types, whatever the elements and the sizes.
THEOREM ChunkingTypeCorrect == ChunkSpec => []ChunkingTypeOK
<1>1. Inductive => ChunkingTypeOK BY DEF Inductive
<1> QED BY <1>1, ChunkerInvariant, PTL

\* What the loop has passed is in a chunk when no group holds anything.
LEMMA AllIsChunked == Inductive => NothingLost
<1> SUFFICES ASSUME Inductive, Chunked
             PROVE  BodyTokens \subseteq ChunkTokens \cup {Whitespace}
    BY DEF NothingLost
<1>1. index > Len(elements) /\ todo = <<>> /\ table = NoGroup /\ prose = NoGroup
    BY DEF Chunked
<1>2. Held = {} BY <1>1, HeldByGroups, NoTokens
<1>3. \A e \in DOMAIN elements : e < index
    BY <1>1 DEF Inductive, ChunkingTypeOK
<1> QED BY <1>2, <1>3 DEF Inductive, Kept, BodyTokens

\* When chunk() returns, every token of an element that is not a heading is in a chunk
\* (structure_aware.py:36-148).
THEOREM NothingIsLost == ChunkSpec => []NothingLost
BY AllIsChunked, ChunkerInvariant, PTL

-----------------------------------------------------------------------------
(* Groups within the target. *)

\* What GroupsStayInTarget says of one group.
Fits(g) ==
    Len(g.text) > TargetTokens =>
        Len(g.members) <= IF IsRow(g.members[1]) THEN 2 ELSE 1

AllFit ==
    /\ Fits(Handed(prose, TRUE)) /\ Fits(Handed(table, FALSE))
    /\ \A k \in DOMAIN todo : Fits(todo[k])
    /\ \A k \in DOMAIN chunks : Fits(chunks[k].group)

\* One element fits whatever its length, and so does an empty group.
LEMMA SmallFits ==
    /\ \A e, b : Fits(Handed(Opened(e), b))
    /\ \A b : Fits(Handed(NoGroup, b))
    /\ \A g, b, c : Fits(Handed(g, b)) <=> Fits(Handed(g, c))
<1>1. ASSUME NEW e, NEW b PROVE Fits(Handed(Opened(e), b))
    <2>1. Handed(Opened(e), b).members = <<e>> BY DEF Handed, Opened
    <2>2. Len(<<e>>) = 1 OBVIOUS
    <2> QED BY <2>1, <2>2 DEF Fits
<1>2. ASSUME NEW b PROVE Fits(Handed(NoGroup, b))
    <2> DEFINE t == <<>>
    <2>1. Handed(NoGroup, b).text = Stripped(t) BY DEF NoGroup, Handed
    <2>2. t \in Seq(Token) /\ Len(t) = 0 OBVIOUS
    <2> HIDE DEF t
    <2>3. Stripped(t) \in Seq(Token) /\ Len(Stripped(t)) <= Len(t) BY <2>2, StrippedText
    <2>4. Len(Stripped(t)) \in Nat /\ Len(Stripped(t)) <= 0 BY <2>2, <2>3
    <2> QED BY <2>1, <2>4, Sizes DEF Fits
<1>3. ASSUME NEW g, NEW b, NEW c PROVE Fits(Handed(g, b)) <=> Fits(Handed(g, c))
    <2>1. /\ Handed(g, b).text = Handed(g, c).text /\ Handed(g, b).members = Handed(g, c).members
        BY DEF Handed
    <2> QED BY <2>1 DEF Fits
<1> QED BY <1>1, <1>2, <1>3

\* What is not over the target fits, and so does a group of few members.
LEMMA UnderTarget ==
    ASSUME NEW g, NEW b
    PROVE  /\ ~ OverTarget(g) => Fits(Handed(g, b))
           /\ Len(g.members) <= (IF IsRow(g.members[1]) THEN 2 ELSE 1) => Fits(Handed(g, b))
<1>1. Handed(g, b).text = Stripped(g.text) /\ Handed(g, b).members = g.members BY DEF Handed
<1> QED BY <1>1 DEF Fits, OverTarget

\* Every step leaves groups that fit.
LEMMA StepFits ==
    ASSUME Inductive, AllFit, Proceed
    PROVE  AllFit'
<1> USE DEF Inductive
<1>T. /\ elements \in Seq(Elements) /\ index \in Nat /\ start \in Nat
      /\ prose \in GroupType /\ table \in GroupType /\ todo \in Seq(HandedType)
      /\ chunks \in Seq([group : HandedType, from : Nat, upto : Nat])
    BY DEF ChunkingTypeOK
<1>E. elements' = elements
    BY DEF Proceed, Heading, LogRecord, TableHeader, TableRow, TableEnd, Prose, ElementsEnd, Window
<1>S. ASSUME Fits(Handed(prose', TRUE)), Fits(Handed(table', FALSE)),
             \A k \in DOMAIN todo' : Fits(todo'[k]),
             \A k \in DOMAIN chunks' : Fits(chunks'[k].group)
      PROVE  AllFit'
    BY <1>E, <1>S DEF AllFit, Fits, IsRow, Handed
<1>O. \A e, b : Fits(Handed(Opened(e), b)) BY SmallFits
<1>P. \A k \in DOMAIN FlushedProse : Fits(FlushedProse[k])
    <2>1. CASE prose = NoGroup BY <2>1 DEF FlushedProse
    <2>2. CASE prose # NoGroup
        <3>1. FlushedProse = <<Handed(prose, TRUE)>> BY <2>2 DEF FlushedProse
        <3>2. Fits(Handed(prose, TRUE)) BY DEF AllFit
        <3>3. \A k \in DOMAIN FlushedProse : FlushedProse[k] = Handed(prose, TRUE)
            BY <3>1, AllOfOne
        <3> QED BY <3>2, <3>3
    <2> QED BY <2>1, <2>2
<1>N. \A b : Fits(Handed(NoGroup, b)) BY SmallFits
<1>H. ASSUME todo' = <<Handed(table, FALSE)>>
      PROVE  \A k \in DOMAIN todo' : Fits(todo'[k])
    <2>1. Fits(Handed(table, FALSE)) BY DEF AllFit
    <2>2. \A k \in DOMAIN todo' : todo'[k] = Handed(table, FALSE) BY <1>H, AllOfOne
    <2> QED BY <2>1, <2>2
<1>1. CASE Heading
    <2>1. todo' = FlushedProse /\ prose' = NoGroup /\ table' = table /\ chunks' = chunks
        BY <1>1 DEF Heading
    <2> QED BY <2>1, <1>S, <1>P, <1>N DEF AllFit
<1>2. CASE LogRecord
    <2> DEFINE own == Handed(Opened(index), FALSE)
    <2>1. /\ todo' = Append(FlushedProse, own) /\ prose' = NoGroup
          /\ table' = table /\ chunks' = chunks /\ index \in DOMAIN elements
        BY <1>2 DEF LogRecord, AtElement
    <2>3. Fits(own) BY <1>O
    <2>4. FlushedProse \in Seq(HandedType) BY FlushedType
    <2>5. \A k \in DOMAIN todo' :
              (k \in DOMAIN FlushedProse /\ todo'[k] = FlushedProse[k]) \/ todo'[k] = own
        <3> HIDE DEF own
        <3> QED BY <2>1, <2>4, AllOfLonger
    <2>6. \A k \in DOMAIN todo' : Fits(todo'[k]) BY <2>3, <2>5, <1>P
    <2> QED BY <2>1, <2>6, <1>S, <1>N DEF AllFit
<1>3. CASE TableHeader
    <2>1. todo' = FlushedProse /\ prose' = NoGroup /\ table' = Opened(index) /\ chunks' = chunks
        BY <1>3 DEF TableHeader
    <2> QED BY <2>1, <1>S, <1>P, <1>N, <1>O DEF AllFit
<1>4. CASE TableRow
    <2> DEFINE h == table.members[1]
    <2>1. /\ table # NoGroup /\ index \in DOMAIN elements
          /\ todo = <<>> /\ prose' = prose /\ chunks' = chunks
        BY <1>4 DEF TableRow, AtElement
    <2>2. /\ table.members \in Seq(Nat) /\ Len(table.members) > 0
          /\ h \in DOMAIN elements /\ IsRow(h)
        BY <2>1, <1>T DEF GroupsOK, GroupType
    <2>3. CASE Len(table.members) > 1 /\ OverTarget(Joined(table, index))
        <3>1. todo' = <<Handed(table, FALSE)>> /\ table' = Restarted(index)
            BY <1>4, <2>3 DEF TableRow
        <3>2. Opened(h) \in GroupType /\ Opened(h) # NoGroup /\ Opened(h).members = <<h>>
            BY <2>2, OpenedGroup
        <3>3. Joined(Opened(h), index).members = Append(Opened(h).members, index)
            BY <3>2, <2>1, JoinedGroup
        <3>4. table'.members = Append(<<h>>, index) BY <3>1, <3>2, <3>3 DEF Restarted
        <3>5. Len(Append(<<h>>, index)) = 2 /\ Append(<<h>>, index)[1] = h
            BY <2>2, <2>1
        <3>6. Fits(Handed(table', FALSE))
            <4>1. Len(table'.members) = 2 /\ IsRow(table'.members[1]) BY <3>4, <3>5, <2>2
            <4> HIDE DEF h
            <4>2. Len(table'.members) <= (IF IsRow(table'.members[1]) THEN 2 ELSE 1) BY <4>1
            <4> QED BY <4>2, UnderTarget, Zenon
        <3> QED BY <3>1, <3>6, <2>1, <1>H, <1>S DEF AllFit
    <2>4. CASE ~ (Len(table.members) > 1 /\ OverTarget(Joined(table, index)))
        <3>1. todo' = todo /\ table' = Joined(table, index) BY <1>4, <2>4 DEF TableRow
        <3>2. table'.members = Append(table.members, index)
            BY <3>1, <2>1, <1>T, JoinedGroup
        <3>3. table'.members[1] = h /\ Len(table'.members) = Len(table.members) + 1
            BY <3>2, <2>2
        <3>4. CASE ~ OverTarget(Joined(table, index))
            <4>2. Fits(Handed(table', FALSE)) BY <3>1, <3>4, UnderTarget
            <4> QED BY <4>2, <3>1, <2>1, <1>S DEF AllFit
        <3>5. CASE ~ (Len(table.members) > 1)
            <4>1. Len(table'.members) <= 2 BY <3>3, <3>5, <2>2
            <4>2. Fits(Handed(table', FALSE)) BY <4>1, <3>3, <2>2, UnderTarget
            <4> QED BY <4>2, <3>1, <2>1, <1>S DEF AllFit
        <3> QED BY <3>4, <3>5, <2>4
    <2> QED BY <2>3, <2>4
<1>5. CASE TableEnd
    <2>1. todo' = <<Handed(table, FALSE)>> /\ prose' = prose /\ table' = NoGroup /\ chunks' = chunks
        BY <1>5 DEF TableEnd
    <2> QED BY <2>1, <1>H, <1>S, <1>N DEF AllFit
<1>6. CASE Prose
    <2>1. table' = table /\ chunks' = chunks BY <1>6 DEF Prose
    <2>2. CASE prose # NoGroup /\ OverTarget(Joined(prose, index))
        <3>1. todo' = FlushedProse /\ prose' = Opened(index) BY <1>6, <2>2 DEF Prose
        <3> QED BY <3>1, <2>1, <1>S, <1>P, <1>O DEF AllFit
    <2>3. CASE ~ (prose # NoGroup /\ OverTarget(Joined(prose, index)))
        <3>1. todo' = <<>> /\ prose' = Joined(prose, index) BY <1>6, <2>3 DEF Prose
        <3>2. Fits(Handed(prose', TRUE))
            <4>1. CASE prose = NoGroup
                BY <4>1, <3>1, <1>O DEF Joined
            <4>2. CASE ~ OverTarget(Joined(prose, index)) BY <4>2, <3>1, UnderTarget
            <4> QED BY <4>1, <4>2, <2>3
        <3>3. \A k \in DOMAIN todo' : Fits(todo'[k]) BY <3>1
        <3>4. Fits(Handed(table', FALSE)) /\ \A k \in DOMAIN chunks' : Fits(chunks'[k].group)
            BY <2>1 DEF AllFit
        <3> QED BY <3>2, <3>3, <3>4, <1>S
    <2> QED BY <2>2, <2>3
<1>7. CASE ElementsEnd
    <2>1. todo' = FlushedProse /\ prose' = NoGroup /\ table' = table /\ chunks' = chunks
        BY <1>7 DEF ElementsEnd
    <2> QED BY <2>1, <1>S, <1>P, <1>N DEF AllFit
<1>8. CASE Window
    <2> DEFINE g == Head(todo)
               c == [group |-> g, from |-> start, upto |-> WindowEnd(g)]
    <2>1. /\ todo # <<>> /\ prose' = prose /\ table' = table
          /\ todo' = todo \/ todo' = Tail(todo)
          /\ chunks' = chunks \/ chunks' = Append(chunks, c)
        BY <1>8 DEF Window
    <2>2. Fits(g)
        <3>1. 1 \in DOMAIN todo /\ g = todo[1] BY <2>1, <1>T
        <3> QED BY <3>1 DEF AllFit
    <2>3. \A k \in DOMAIN todo' : Fits(todo'[k])
        <3>1. CASE todo' = todo BY <3>1 DEF AllFit
        <3>2. CASE todo' = Tail(todo)
            <4>1. \A k \in DOMAIN todo' : k + 1 \in DOMAIN todo /\ todo'[k] = todo[k + 1]
                BY <3>2, <2>1, <1>T
            <4> QED BY <4>1 DEF AllFit
        <3> QED BY <3>1, <3>2, <2>1
    <2>4. \A k \in DOMAIN chunks' : Fits(chunks'[k].group)
        <3>1. CASE chunks' = chunks BY <3>1 DEF AllFit
        <3>2. CASE chunks' = Append(chunks, c)
            <4>1. \A k \in DOMAIN chunks' :
                      (k \in DOMAIN chunks /\ chunks'[k] = chunks[k]) \/ chunks'[k] = c
                BY <3>2, <1>T, AllOfLonger
            <4>2. c.group = g OBVIOUS
            <4> QED BY <4>1, <4>2, <2>2 DEF AllFit
        <3> QED BY <3>1, <3>2, <2>1
    <2> QED BY <2>1, <2>3, <2>4, <1>S DEF AllFit
<1> QED BY <1>1, <1>2, <1>3, <1>4, <1>5, <1>6, <1>7, <1>8 DEF Proceed

\* Without a group, all fit.
LEMMA RaiseFits == ASSUME Raise PROVE AllFit'
<1>1. /\ prose' = NoGroup /\ table' = NoGroup /\ DOMAIN todo' = {} /\ DOMAIN chunks' = {}
      /\ elements' = elements
    BY DEF Raise
<1>2. Fits(Handed(NoGroup, TRUE)) /\ Fits(Handed(NoGroup, FALSE)) BY SmallFits
<1> QED BY <1>1, <1>2 DEF AllFit, Fits, IsRow, Handed

\* Elements are put together only while they stay within the target, whatever the target
\* (structure_aware.py:74-76, 92-99).
THEOREM GroupsFit == ChunkSpec => []GroupsStayInTarget
<1>1. ChunkInit => AllFit
    <2> SUFFICES ASSUME ChunkInit PROVE AllFit OBVIOUS
    <2>1. prose = NoGroup /\ table = NoGroup /\ DOMAIN todo = {} /\ DOMAIN chunks = {}
        BY DEF ChunkInit, Idle
    <2> QED BY <2>1, SmallFits DEF AllFit
<1>2. Inductive /\ AllFit /\ [ChunkNext]_chunkVars => AllFit'
    <2> SUFFICES ASSUME Inductive, AllFit, [ChunkNext]_chunkVars PROVE AllFit' OBVIOUS
    <2>1. CASE Proceed BY <2>1, StepFits
    <2>2. CASE UNCHANGED chunkVars BY <2>2 DEF chunkVars, AllFit, Fits, IsRow, Handed
    <2>3. CASE Raise BY <2>3, RaiseFits
    <2> QED BY <2>1, <2>2, <2>3 DEF ChunkNext
<1>3. AllFit => GroupsStayInTarget BY DEF AllFit, Fits, GroupsStayInTarget
<1> QED BY <1>1, <1>2, <1>3, ChunkerInvariant, PTL DEF ChunkSpec
-----------------------------------------------------------------------------
(* The order of the groups, and the windows of one group. *)

LastOf(g) == g.members[Len(g.members)]

\* Everything the loop has yet to hand over ends after element n.
EndsBefore(n) ==
    /\ n < index
    /\ prose # NoGroup => n < LastOf(prose)
    /\ table # NoGroup => n < LastOf(table)

\* The last chunk is of a group that was handed over before those in todo, or is the first
\* of them, some of which is cut up already.
ChunksFirst ==
    chunks # <<>> =>
        LET g == chunks[Len(chunks)].group
        IN  /\ Len(g.members) > 0 /\ EndsBefore(LastOf(g))
            /\ \A k \in DOMAIN todo :
                \/ LastOf(g) < LastOf(todo[k])
                \/ k = 1 /\ start # 0 /\ LastOf(g) = LastOf(todo[k])

\* Groups end in the order in which they are handed over, so that no two are equal.
Ordered ==
    /\ prose # NoGroup => table = NoGroup /\ Len(prose.members) > 0 /\ LastOf(prose) < index
    /\ table # NoGroup => LastOf(table) = index - 1
    /\ \A k \in DOMAIN todo :
        /\ Len(todo[k].members) > 0 /\ EndsBefore(LastOf(todo[k]))
        /\ \A j \in DOMAIN todo : j < k => LastOf(todo[j]) < LastOf(todo[k])
    /\ ChunksFirst

Shared(c) == IF c.group.overlap THEN OverlapTokens ELSE 0

\* Where the next window starts, seen from the last one of the same group.
Seam ==
    chunks # <<>> /\ todo # <<>> =>
        LET c == chunks[Len(chunks)]
        IN  c.group = todo[1] =>
                /\ c.upto < Len(todo[1].text)
                /\ c.upto - Shared(c) <= start
                /\ \A p \in c.upto - Shared(c) + 1 .. start : todo[1].text[p] = Whitespace

-----------------------------------------------------------------------------
(* The rows of a group. *)

SameRun(e, f) == IsRow(e) /\ SamePath(e, f)

\* What RowsFollowHeader says of one group.
HeaderFirst(g) ==
    LET m == g.members
    IN  IsRow(m[1]) =>
            /\ m[1] = 1 \/ ~ SameRun(m[1] - 1, m[1])
            /\ \A e \in m[1] .. m[Len(m)] : SameRun(e, m[1])
            /\ \A j \in 3 .. Len(m) : m[j] = m[j - 1] + 1

\* It holds of groups being filled, and a table ends only where its run does.
Runs ==
    /\ prose # NoGroup => ~ IsRow(prose.members[1])
    /\ table # NoGroup => HeaderFirst(table) /\ table.members[1] < index
    /\ \A k \in DOMAIN todo : HeaderFirst(todo[k])
    /\ \A k \in DOMAIN chunks : HeaderFirst(chunks[k].group)
    /\ table = NoGroup /\ index > 1 /\ index \in DOMAIN elements =>
           ~ (IsRow(index) /\ SameRun(index - 1, index))

\* Handing a group over leaves its last member what it was.
LEMMA LastOfHanded ==
    \A g, b : LastOf(Handed(g, b)) = LastOf(g) /\ Handed(g, b).members = g.members
BY DEF LastOf, Handed

\* The last member of a group is the element it was begun with or took in last.
LEMMA LastOfGrown ==
    ASSUME ChunkingTypeOK, NEW e \in DOMAIN elements
    PROVE  /\ LastOf(Opened(e)) = e /\ Len(Opened(e).members) = 1
           /\ \A g \in GroupType :
                  LastOf(Joined(g, e)) = e /\ Len(Joined(g, e).members) > 0
<1>1. LastOf(Opened(e)) = e /\ Len(Opened(e).members) = 1
    <2>1. Opened(e).members = <<e>> BY OpenedGroup
    <2>2. Len(<<e>>) = 1 /\ <<e>>[1] = e OBVIOUS
    <2> QED BY <2>1, <2>2 DEF LastOf
<1>2. ASSUME NEW g \in GroupType
      PROVE  LastOf(Joined(g, e)) = e /\ Len(Joined(g, e).members) > 0
    <2>1. CASE g = NoGroup BY <2>1, <1>1, JoinedGroup
    <2>2. CASE g # NoGroup
        <3>1. Joined(g, e).members = Append(g.members, e) /\ g.members \in Seq(Nat) /\ e \in Nat
            BY <2>2, JoinedGroup, ElementFields DEF GroupType
        <3>2. Len(Append(g.members, e)) = Len(g.members) + 1 /\ Len(g.members) \in Nat
              /\ Append(g.members, e)[Len(g.members) + 1] = e
            BY <3>1
        <3> QED BY <3>1, <3>2 DEF LastOf
    <2> QED BY <2>1, <2>2
<1> QED BY <1>1, <1>2

\* What is flushed is the prose, if there is any.
LEMMA FlushedIsProse ==
    ASSUME NEW k \in DOMAIN FlushedProse
    PROVE  prose # NoGroup /\ k = 1 /\ FlushedProse[k] = Handed(prose, TRUE)
<1>1. prose # NoGroup BY DEF FlushedProse
<1>2. FlushedProse = <<Handed(prose, TRUE)>> BY <1>1 DEF FlushedProse
<1>3. DOMAIN <<Handed(prose, TRUE)>> = {1} OBVIOUS
<1> QED BY <1>1, <1>2, <1>3, AllOfOne

\* What the steps of the loop have in common.
LEMMA LoopStep ==
    ASSUME Inductive, Proceed, ~ Window
    PROVE  /\ todo = <<>> /\ start = 0 /\ start' = 0
           /\ elements' = elements /\ chunks' = chunks
           /\ index \in Nat /\ index > 0
           /\ prose \in GroupType /\ table \in GroupType
<1>1. /\ elements \in Seq(Elements) /\ index \in Nat
      /\ prose \in GroupType /\ table \in GroupType
      /\ todo = <<>> => start = 0
    BY DEF Inductive, ChunkingTypeOK, GroupsOK
<1>2. /\ todo = <<>> /\ start' = start /\ elements' = elements /\ chunks' = chunks
      /\ index \in DOMAIN elements \/ index > 0
    BY DEF Proceed, Heading, LogRecord, TableHeader, TableRow, TableEnd, Prose, ElementsEnd,
           AtElement
<1> QED BY <1>1, <1>2

\* The last of a sequence.
LEMMA LastInSeq ==
    ASSUME NEW S, NEW s \in Seq(S), s # <<>>
    PROVE  Len(s) \in DOMAIN s /\ s[Len(s)] \in S
OBVIOUS

\* What a group ends with is an element's number.
LEMMA LastIsNat ==
    \A m \in Seq(Nat) : Len(m) > 0 => m[Len(m)] \in Nat
OBVIOUS

\* The chunks come first again when all that a step of the loop hands over or keeps comes
\* after them.
LEMMA ChunksBefore ==
    ASSUME Inductive, Ordered, Proceed, ~ Window,
           \A n \in Nat : EndsBefore(n) =>
               EndsBefore(n)' /\ \A k \in DOMAIN todo' : n < LastOf(todo'[k])
    PROVE  ChunksFirst'
<1> SUFFICES ASSUME chunks # <<>> PROVE ChunksFirst' BY LoopStep DEF ChunksFirst
<1> DEFINE g == chunks[Len(chunks)].group
<1>1. chunks' = chunks BY LoopStep
<1>2. Len(g.members) > 0 /\ EndsBefore(LastOf(g)) BY DEF Ordered, ChunksFirst
<1>3. g \in HandedType
    <2>1. chunks \in Seq([group : HandedType, from : Nat, upto : Nat])
        BY DEF Inductive, ChunkingTypeOK
    <2>2. chunks[Len(chunks)] \in [group : HandedType, from : Nat, upto : Nat]
        BY <2>1, LastInSeq
    <2> QED BY <2>2
<1>4. LastOf(g) \in Nat BY <1>2, <1>3, LastIsNat DEF LastOf, HandedType
<1>5. /\ EndsBefore(LastOf(g))'
      /\ \A k \in DOMAIN todo' : LastOf(g) < LastOf(todo'[k])
    BY <1>1, <1>2, <1>4
<1> HIDE DEF g
<1>7. g' = g BY <1>1 DEF g
<1> QED BY <1>1, <1>2, <1>5, <1>7 DEF ChunksFirst, g

\* A step keeps the order of the groups.
LEMMA StepOrders ==
    ASSUME Inductive, Ordered, Proceed
    PROVE  Ordered'
<1>1. CASE ~ Window
    <2>L. /\ todo = <<>> /\ start = 0 /\ start' = 0
          /\ elements' = elements /\ chunks' = chunks
          /\ index \in Nat /\ index > 0
          /\ prose \in GroupType /\ table \in GroupType
        BY <1>1, LoopStep
    <2>P. prose # NoGroup => /\ table = NoGroup /\ Len(prose.members) > 0
                            /\ LastOf(prose) < index /\ LastOf(prose) \in Nat
        BY <2>L, LastIsNat DEF Ordered, LastOf, GroupType
    <2>T. table # NoGroup => /\ prose = NoGroup /\ Len(table.members) > 0
                            /\ LastOf(table) = index - 1 /\ LastOf(table) \in Nat
        BY <2>L, LastIsNat DEF Ordered, LastOf, GroupType, Inductive, GroupsOK
    <2>F. \A k \in DOMAIN FlushedProse :
              /\ k = 1 /\ prose # NoGroup
              /\ LastOf(FlushedProse[k]) = LastOf(prose)
              /\ FlushedProse[k].members = prose.members
        BY FlushedIsProse, LastOfHanded
    <2>H. todo' = <<Handed(table, FALSE)>> =>
              \A k \in DOMAIN todo' : /\ k = 1 /\ LastOf(todo'[k]) = LastOf(table)
                                     /\ todo'[k].members = table.members
        <3> SUFFICES ASSUME todo' = <<Handed(table, FALSE)>>, NEW k \in DOMAIN todo'
                     PROVE  /\ k = 1 /\ LastOf(todo'[k]) = LastOf(table)
                            /\ todo'[k].members = table.members
            OBVIOUS
        <3>1. DOMAIN <<Handed(table, FALSE)>> = {1} OBVIOUS
        <3>2. k = 1 /\ todo'[k] = Handed(table, FALSE) BY <3>1, AllOfOne
        <3> QED BY <3>2, LastOfHanded
    <2>1. CASE Heading
        <3>1. /\ todo' = FlushedProse /\ prose' = NoGroup /\ table' = NoGroup /\ table = NoGroup
              /\ index' = index + 1
            BY <2>1 DEF Heading, AtElement, Advance
        <3>2. ChunksFirst' BY <1>1, <3>1, <2>F, <2>P, <2>L, ChunksBefore DEF EndsBefore
        <3> QED BY <3>1, <3>2, <2>F, <2>P, <2>L DEF Ordered, EndsBefore
    <2>2. CASE LogRecord
        <3> DEFINE own == Handed(Opened(index), FALSE)
        <3>1. /\ todo' = Append(FlushedProse, own) /\ prose' = NoGroup
              /\ table' = NoGroup /\ table = NoGroup
              /\ index' = index + 1 /\ index \in DOMAIN elements
            BY <2>2 DEF LogRecord, AtElement, Advance
        <3>2. LastOf(own) = index /\ Len(own.members) = 1
            BY <3>1, LastOfGrown, LastOfHanded DEF Inductive
        <3>3. \A k \in DOMAIN todo' :
                  \/ k = 1 /\ k \in DOMAIN FlushedProse /\ todo'[k] = FlushedProse[k]
                  \/ todo'[k] = own /\ k = Len(FlushedProse) + 1
            <4> HIDE DEF own
            <4>1. FlushedProse \in Seq(HandedType) BY FlushedType DEF Inductive
            <4> QED BY <3>1, <4>1, <2>F
        <3>4. ChunksFirst'
            <4> SUFFICES ASSUME NEW n \in Nat, EndsBefore(n)
                         PROVE  EndsBefore(n)' /\ \A k \in DOMAIN todo' : n < LastOf(todo'[k])
                BY <1>1, ChunksBefore
            <4> HIDE DEF own
            <4>1. EndsBefore(n)' BY <3>1, <2>L DEF EndsBefore
            <4>2. n < LastOf(own) BY <3>2 DEF EndsBefore
            <4>3. \A k \in DOMAIN FlushedProse : n < LastOf(FlushedProse[k])
                BY <2>F DEF EndsBefore
            <4> QED BY <4>1, <4>2, <4>3, <3>3
        <3>5. ASSUME NEW k \in DOMAIN todo'
              PROVE  /\ Len(todo'[k].members) > 0 /\ LastOf(todo'[k]) < index'
                     /\ \A j \in DOMAIN todo' : j < k => LastOf(todo'[j]) < LastOf(todo'[k])
            <4> HIDE DEF own
            <4>1. CASE todo'[k] = own /\ k = Len(FlushedProse) + 1
                <5>1. Len(todo'[k].members) > 0 /\ LastOf(todo'[k]) = index BY <4>1, <3>2
                <5>2. ASSUME NEW j \in DOMAIN todo', j < k PROVE LastOf(todo'[j]) < index
                    <6>1. todo'[j] = FlushedProse[j] /\ j \in DOMAIN FlushedProse
                        BY <4>1, <5>2, <3>3
                    <6> QED BY <6>1, <2>F, <2>P
                <5> QED BY <5>1, <5>2, <3>1, <2>L
            <4>2. CASE k = 1 /\ k \in DOMAIN FlushedProse /\ todo'[k] = FlushedProse[k]
                <5>1. Len(todo'[k].members) > 0 /\ LastOf(todo'[k]) < index
                    BY <4>2, <2>F, <2>P
                <5>2. \A j \in DOMAIN todo' : j = 1 \/ j = Len(FlushedProse) + 1 BY <3>3
                <5>3. FlushedProse \in Seq(HandedType) BY FlushedType DEF Inductive
                <5>4. \A j \in DOMAIN todo' : ~ (j < k) BY <4>2, <5>2, <5>3
                <5> QED BY <5>1, <5>4, <3>1, <2>L, <2>P, <4>2, <2>F
            <4> QED BY <4>1, <4>2, <3>3
        <3> QED BY <3>1, <3>4, <3>5, <2>L DEF Ordered, EndsBefore
    <2>3. CASE TableHeader
        <3>1. /\ todo' = FlushedProse /\ prose' = NoGroup /\ table = NoGroup
              /\ table' = Opened(index) /\ index' = index + 1 /\ index \in DOMAIN elements
            BY <2>3 DEF TableHeader, AtElement, Advance
        <3>2. LastOf(table') = index BY <3>1, LastOfGrown DEF Inductive
        <3>3. ChunksFirst' BY <1>1, <3>1, <3>2, <2>F, <2>P, <2>L, ChunksBefore DEF EndsBefore
        <3> QED BY <3>1, <3>2, <3>3, <2>F, <2>P, <2>L DEF Ordered, EndsBefore
    <2>4. CASE TableRow
        <3>1. /\ table # NoGroup /\ index \in DOMAIN elements
              /\ prose' = prose /\ index' = index + 1
              /\ \/ table' = Restarted(index) /\ todo' = <<Handed(table, FALSE)>>
                 \/ table' = Joined(table, index) /\ todo' = <<>>
            BY <2>4, <2>L DEF TableRow, AtElement, Advance
        <3>2. LastOf(table') = index
            <4>1. table.members[1] \in DOMAIN elements
                BY <3>1, <2>L DEF Inductive, GroupsOK, GroupType
            <4>2. Opened(table.members[1]) \in GroupType BY <4>1, OpenedGroup DEF Inductive
            <4>3. /\ LastOf(Joined(Opened(table.members[1]), index)) = index
                  /\ LastOf(Joined(table, index)) = index
                BY <4>2, <3>1, <2>L, LastOfGrown DEF Inductive
            <4> QED BY <4>3, <3>1 DEF Restarted
        <3>3. \A k \in DOMAIN todo' : /\ k = 1 /\ LastOf(todo'[k]) = LastOf(table)
                                      /\ todo'[k].members = table.members
            <4>1. CASE todo' = <<>> BY <4>1
            <4>2. CASE todo' = <<Handed(table, FALSE)>> BY <4>2, <2>H
            <4> QED BY <4>1, <4>2, <3>1
        <3>4. ChunksFirst' BY <1>1, <3>1, <3>2, <3>3, <2>T, <2>L, ChunksBefore DEF EndsBefore
        <3> QED BY <3>1, <3>2, <3>3, <3>4, <2>T, <2>L DEF Ordered, EndsBefore
    <2>5. CASE TableEnd
        <3>1. /\ todo' = <<Handed(table, FALSE)>> /\ table' = NoGroup /\ table # NoGroup
              /\ prose' = prose /\ index' = index
            BY <2>5 DEF TableEnd
        <3>2. \A k \in DOMAIN todo' : /\ k = 1 /\ LastOf(todo'[k]) = LastOf(table)
                                      /\ todo'[k].members = table.members
            BY <3>1, <2>H
        <3>3. prose' = NoGroup BY <3>1, <2>T
        <3>4. ChunksFirst' BY <1>1, <3>1, <3>2, <3>3, <2>T, <2>L, ChunksBefore DEF EndsBefore
        <3>5. /\ LastOf(table) < index' /\ Len(table.members) > 0
            BY <3>1, <2>T, <2>L
        <3>6. ASSUME NEW k \in DOMAIN todo'
              PROVE  /\ Len(todo'[k].members) > 0 /\ LastOf(todo'[k]) < index'
                     /\ \A j \in DOMAIN todo' : ~ (j < k)
            BY <3>2, <3>5
        <3> QED BY <3>1, <3>3, <3>4, <3>6 DEF Ordered, EndsBefore
    <2>6. CASE Prose
        <3>1. /\ table' = NoGroup /\ table = NoGroup
              /\ index' = index + 1 /\ index \in DOMAIN elements
              /\ \/ prose' = Opened(index) /\ todo' = FlushedProse
                 \/ prose' = Joined(prose, index) /\ todo' = <<>>
            BY <2>6 DEF Prose, AtElement, Advance
        <3>2. LastOf(prose') = index /\ Len(prose'.members) > 0
            <4>1. CASE prose' = Opened(index) BY <4>1, <3>1, LastOfGrown DEF Inductive
            <4>2. CASE prose' = Joined(prose, index)
                BY <4>2, <3>1, <2>L, LastOfGrown DEF Inductive
            <4> QED BY <4>1, <4>2, <3>1
        <3>3. \A k \in DOMAIN todo' : /\ k = 1 /\ prose # NoGroup /\ LastOf(todo'[k]) = LastOf(prose)
                                      /\ todo'[k].members = prose.members
            BY <3>1, <2>F
        <3>4. ChunksFirst' BY <1>1, <3>1, <3>2, <3>3, <2>P, <2>L, ChunksBefore DEF EndsBefore
        <3> QED BY <3>1, <3>2, <3>3, <3>4, <2>P, <2>L DEF Ordered, EndsBefore
    <2>7. CASE ElementsEnd
        <3>1. /\ todo' = FlushedProse /\ prose' = NoGroup /\ table' = NoGroup /\ table = NoGroup
              /\ index' = index
            BY <2>7 DEF ElementsEnd
        <3>2. ChunksFirst' BY <1>1, <3>1, <2>F, <2>P, <2>L, ChunksBefore DEF EndsBefore
        <3> QED BY <3>1, <3>2, <2>F, <2>P, <2>L DEF Ordered, EndsBefore
    <2> QED BY <1>1, <2>1, <2>2, <2>3, <2>4, <2>5, <2>6, <2>7 DEF Proceed
<1>2. CASE Window
    <2> DEFINE g == Head(todo)
               c == [group |-> g, from |-> start, upto |-> WindowEnd(g)]
    <2>1. /\ todo # <<>> /\ prose' = prose /\ table' = table /\ index' = index
          /\ chunks' = IF BlankWindow(g) THEN chunks ELSE Append(chunks, c)
          /\ start' = IF LastWindow(g) THEN 0 ELSE start + Step(g)
          /\ todo' = IF LastWindow(g) THEN Tail(todo) ELSE todo
        BY <1>2 DEF Window
    <2>2. /\ todo \in Seq(HandedType) /\ start \in Nat
          /\ chunks \in Seq([group : HandedType, from : Nat, upto : Nat])
        BY DEF Inductive, ChunkingTypeOK
    <2>3. g = todo[1] /\ 1 \in DOMAIN todo BY <2>1, <2>2
    <2>4. Step(g) \in Nat /\ Step(g) > 0 BY Sizes DEF Step
    <2>5. \A k \in DOMAIN todo' :
              \/ todo' = todo
              \/ LastWindow(g) /\ k + 1 \in DOMAIN todo /\ todo'[k] = todo[k + 1] /\ k \in Nat /\ k > 0
        BY <2>1, <2>2
    <2>6. \A k \in DOMAIN todo : LastOf(todo[k]) \in Nat
        <3> TAKE k \in DOMAIN todo
        <3>1. todo[k] \in HandedType BY <2>2
        <3>2. todo[k].members \in Seq(Nat) BY <3>1 DEF HandedType
        <3>3. Len(todo[k].members) > 0 BY DEF Ordered
        <3> QED BY <3>2, <3>3, LastIsNat DEF LastOf
    <2>7. \A n : EndsBefore(n)' <=> EndsBefore(n) BY <2>1 DEF EndsBefore
    <2>8. ASSUME NEW k \in DOMAIN todo'
          PROVE  /\ Len(todo'[k].members) > 0 /\ EndsBefore(LastOf(todo'[k]))
                 /\ \A j \in DOMAIN todo' : j < k => LastOf(todo'[j]) < LastOf(todo'[k])
        BY <2>5, <2>2 DEF Ordered
    <2>9. ChunksFirst'
        <3> SUFFICES ASSUME chunks' # <<>> PROVE ChunksFirst' BY DEF ChunksFirst
        <3> DEFINE h == chunks'[Len(chunks')].group
        <3>1. /\ Len(h.members) > 0 /\ EndsBefore(LastOf(h))
              /\ LastOf(h) = LastOf(todo[1]) \/ LastOf(h) < LastOf(todo[1])
              /\ LastOf(h) \in Nat
            <4>1. CASE BlankWindow(g)
                <5>1. /\ Len(h.members) > 0 /\ EndsBefore(LastOf(h))
                      /\ LastOf(h) = LastOf(todo[1]) \/ LastOf(h) < LastOf(todo[1])
                    BY <4>1, <2>1, <2>3 DEF Ordered, ChunksFirst
                <5>2. chunks[Len(chunks)] \in [group : HandedType, from : Nat, upto : Nat]
                    BY <4>1, <2>1, <2>2, LastInSeq
                <5>3. h.members \in Seq(Nat) BY <4>1, <2>1, <5>2 DEF HandedType
                <5> QED BY <5>1, <5>3, LastIsNat DEF LastOf
            <4>2. CASE ~ BlankWindow(g)
                <5>1. chunks' = Append(chunks, c) BY <4>2, <2>1
                <5> HIDE DEF c
                <5>2. chunks'[Len(chunks')] = c BY <5>1, <2>2
                <5>3. h = g BY <5>2 DEF c
                <5> QED BY <5>3, <2>3, <2>6 DEF Ordered
            <4> QED BY <4>1, <4>2
        <3>2. ASSUME NEW k \in DOMAIN todo'
              PROVE  \/ LastOf(h) < LastOf(todo'[k])
                     \/ k = 1 /\ start' # 0 /\ LastOf(h) = LastOf(todo'[k])
            <4> HIDE DEF h
            <4>1. CASE LastWindow(g)
                <5>1. k + 1 \in DOMAIN todo /\ todo'[k] = todo[k + 1] /\ 1 < k + 1
                    BY <4>1, <2>1, <2>2
                <5>2. LastOf(todo[1]) < LastOf(todo[k + 1]) BY <5>1, <2>3 DEF Ordered
                <5>3. LastOf(todo[1]) \in Nat /\ LastOf(todo[k + 1]) \in Nat
                    BY <5>1, <2>3, <2>6
                <5> QED BY <5>1, <5>2, <5>3, <3>1
            <4>2. CASE ~ LastWindow(g)
                <5>1. todo' = todo /\ start' # 0 BY <4>2, <2>1, <2>2, <2>4
                <5>2. CASE k = 1
                    BY <5>1, <5>2, <3>1
                <5>3. CASE k # 1
                    <6>1. k \in DOMAIN todo /\ 1 < k BY <5>1, <5>3, <2>2
                    <6>2. LastOf(todo[1]) < LastOf(todo[k]) BY <6>1, <2>3 DEF Ordered
                    <6>3. LastOf(todo[1]) \in Nat /\ LastOf(todo[k]) \in Nat
                        BY <6>1, <2>3, <2>6
                    <6> QED BY <5>1, <6>2, <6>3, <3>1
                <5> QED BY <5>2, <5>3
            <4> QED BY <4>1, <4>2
        <3> QED BY <3>1, <3>2, <2>7 DEF ChunksFirst
    <2> QED BY <2>1, <2>7, <2>8, <2>9 DEF Ordered
<1> QED BY <1>1, <1>2

-----------------------------------------------------------------------------
(* Successive windows. *)

\* A window starts where the seam puts it.
LEMMA StepSeams ==
    ASSUME Inductive, Ordered, Seam, Proceed
    PROVE  Seam'
<1>T. /\ ChunkingTypeOK' /\ Ordered'
    BY StepTypes, StepOrders
<1>1. todo' \in Seq(HandedType) /\ chunks' \in Seq([group : HandedType, from : Nat, upto : Nat])
    BY <1>T DEF ChunkingTypeOK
<1> SUFFICES ASSUME chunks' # <<>>, todo' # <<>>,
                    chunks'[Len(chunks')].group = todo'[1]
             PROVE  LET c == chunks'[Len(chunks')]
                        s == IF c.group.overlap THEN OverlapTokens ELSE 0
                    IN  /\ c.upto < Len(todo'[1].text)
                        /\ c.upto - s <= start'
                        /\ \A p \in c.upto - s + 1 .. start' : todo'[1].text[p] = Whitespace
    BY DEF Seam, Shared
<1>2. 1 \in DOMAIN todo' BY <1>1
<1>3. LastOf(todo'[1]) \in Nat
    <2>1. todo'[1] \in HandedType BY <1>1, <1>2
    <2>2. todo'[1].members \in Seq(Nat) BY <2>1 DEF HandedType
    <2>3. Len(todo'[1].members) > 0 BY <1>T, <1>2 DEF Ordered
    <2> QED BY <2>2, <2>3, LastIsNat DEF LastOf
<1>4. start' # 0
    <2>1. /\ \/ LastOf(chunks'[Len(chunks')].group) < LastOf(todo'[1])
             \/ start' # 0
        BY <1>T, <1>2 DEF Ordered, ChunksFirst
    <2> QED BY <2>1, <1>3
<1>5. Window BY <1>4, LoopStep
<1> DEFINE g == Head(todo)
           d == [group |-> g, from |-> start, upto |-> WindowEnd(g)]
           c == chunks'[Len(chunks')]
           s == IF c.group.overlap THEN OverlapTokens ELSE 0
<1>6. /\ todo # <<>> /\ ~ LastWindow(g) /\ start' = start + Step(g) /\ todo' = todo
      /\ chunks' = IF BlankWindow(g) THEN chunks ELSE Append(chunks, d)
    BY <1>4, <1>5 DEF Window
<1>7. /\ todo \in Seq(HandedType) /\ start \in Nat
      /\ chunks \in Seq([group : HandedType, from : Nat, upto : Nat])
    BY DEF Inductive, ChunkingTypeOK
<1>8. g = todo[1] /\ g \in HandedType BY <1>6, <1>7
<1>9. g.text \in Seq(Token) /\ Len(g.text) \in Nat /\ g.overlap \in BOOLEAN BY <1>8 DEF HandedType
<1>10. start + Step(g) < Len(g.text) BY <1>6, <1>7, <1>9, Sizes DEF LastWindow, Step
<1>11. CASE ~ BlankWindow(g)
    <2>1. c = d
        <3>1. chunks' = Append(chunks, d) BY <1>6, <1>11
        <3> HIDE DEF d
        <3> QED BY <3>1, <1>7
    <2>2. start + MaxTokens < Len(g.text)
        BY <1>11, <1>6, <1>7, <1>9, Sizes DEF LastWindow
    <2>3. c.upto = start + MaxTokens /\ c.group = g BY <2>1, <2>2 DEF WindowEnd
    <2>4. Step(g) = MaxTokens - s BY <2>2, <2>3, <1>7, <1>9, Sizes DEF Step
    <2>5. s \in Nat BY Sizes
    <2> HIDE DEF c, s
    <2>6. start' = c.upto - s BY <2>3, <2>4, <2>5, <1>6, <1>7, Sizes
    <2>7. c.upto < Len(todo'[1].text) BY <2>2, <2>3, <1>6, <1>8
    <2>8. c.upto - s + 1 .. start' = {} BY <2>6, <2>3, <2>5, <1>7, Sizes
    <2> QED BY <2>3, <2>5, <2>6, <2>7, <2>8, <1>7, Sizes DEF c, s
<1>12. CASE BlankWindow(g)
    <2>1. chunks' = chunks /\ c = chunks[Len(chunks)] BY <1>12, <1>6
    <2>2. /\ c.upto < Len(g.text)
          /\ c.upto - s <= start
          /\ \A p \in c.upto - s + 1 .. start : g.text[p] = Whitespace
        BY <2>1, <1>6, <1>8 DEF Seam, Shared
    <2>3. c.upto \in Nat
        <3>1. chunks[Len(chunks)] \in [group : HandedType, from : Nat, upto : Nat]
            BY <2>1, <1>7, LastInSeq
        <3> QED BY <3>1, <2>1
    <2>4. s \in Nat BY Sizes
    <2>5. Step(g) \in Nat /\ Step(g) <= MaxTokens BY Sizes DEF Step
    <2> HIDE DEF c, s
    <2>6. ASSUME NEW p \in c.upto - s + 1 .. start' PROVE g.text[p] = Whitespace
        <3>1. CASE p <= start BY <3>1, <2>2, <2>3, <2>4, <2>6, <1>7
        <3>2. CASE p > start
            <4> DEFINE n == Len(g.text)
                       step == Step(g)
            <4>1. /\ start' = start + step /\ step \in Nat /\ step <= MaxTokens
                  /\ n \in Nat /\ start + step < n /\ start \in Nat
                BY <2>5, <1>6, <1>7, <1>9, <1>10
            <4>2. WindowEnd(g) = IF start + MaxTokens < n THEN start + MaxTokens ELSE n
                BY DEF WindowEnd
            <4> HIDE DEF g, n, step
            <4>3. start' <= WindowEnd(g) /\ WindowEnd(g) \in Nat BY <4>1, <4>2, Sizes
            <4>4. p \in Int /\ p <= start' BY <2>3, <2>4, <4>1
            <4>5. p \in start + 1 .. WindowEnd(g) BY <3>2, <4>1, <4>3, <4>4
            <4> QED BY <4>5, <1>12 DEF BlankWindow
        <3> QED BY <3>1, <3>2, <2>3, <2>4, <1>7
    <2>7. c.upto - s <= start' BY <2>2, <2>3, <2>4, <2>5, <1>6, <1>7
    <2> QED BY <2>2, <2>6, <2>7, <1>6, <1>8 DEF c, s
<1> QED BY <1>11, <1>12

\* A chunk that follows another of its group reaches further.
LEMMA StepAdvances ==
    ASSUME Inductive, Ordered, Seam, WindowsAdvance, Proceed
    PROVE  WindowsAdvance'
<1> DEFINE Pair(c, d) ==
               LET shared == IF c.group.overlap THEN OverlapTokens ELSE 0
               IN  c.group = d.group =>
                       /\ c.upto < d.upto
                       /\ d.from >= c.upto - shared
                       /\ \A p \in c.upto - shared + 1 .. d.from : d.group.text[p] = Whitespace
           g == Head(todo)
           d == [group |-> g, from |-> start, upto |-> WindowEnd(g)]
<1>1. WindowsAdvance <=> \A k \in 2 .. Len(chunks) : Pair(chunks[k - 1], chunks[k])
    BY DEF WindowsAdvance
<1>2. WindowsAdvance' <=> \A k \in 2 .. Len(chunks') : Pair(chunks'[k - 1], chunks'[k])
    BY DEF WindowsAdvance
<1>3. CASE chunks' = chunks BY <1>1, <1>2, <1>3
<1>4. CASE chunks' # chunks
    <2>1. Window BY <1>4, LoopStep
    <2>2. chunks' = Append(chunks, d) /\ todo # <<>> /\ ~ BlankWindow(g)
        BY <1>4, <2>1 DEF Window
    <2>3. /\ todo \in Seq(HandedType) /\ start \in Nat
          /\ chunks \in Seq([group : HandedType, from : Nat, upto : Nat])
        BY DEF Inductive, ChunkingTypeOK
    <2>4. g = todo[1] /\ g \in HandedType BY <2>2, <2>3
    <2>5. Len(g.text) \in Nat BY <2>4 DEF HandedType
    <2>6. ASSUME chunks # <<>> PROVE Pair(chunks[Len(chunks)], d)
        <3> DEFINE c == chunks[Len(chunks)]
                   s == IF c.group.overlap THEN OverlapTokens ELSE 0
        <3>1. c \in [group : HandedType, from : Nat, upto : Nat] BY <2>3, <2>6, LastInSeq
        <3>2. c.upto \in Nat /\ s \in Nat /\ s < MaxTokens BY <3>1, Sizes
        <3> SUFFICES ASSUME c.group = g
                     PROVE  /\ c.upto < WindowEnd(g)
                            /\ start >= c.upto - s
                            /\ \A p \in c.upto - s + 1 .. start : g.text[p] = Whitespace
            OBVIOUS
        <3>3. /\ c.upto < Len(g.text)
              /\ c.upto - s <= start
              /\ \A p \in c.upto - s + 1 .. start : g.text[p] = Whitespace
            BY <2>2, <2>4, <2>6 DEF Seam, Shared
        <3> HIDE DEF c, s
        <3> QED BY <3>2, <3>3, <2>3, <2>5, Sizes DEF WindowEnd
    <2> HIDE DEF d, Pair
    <2>7. ASSUME NEW k \in 2 .. Len(chunks') PROVE Pair(chunks'[k - 1], chunks'[k])
        <3>1. /\ Len(chunks) \in Nat /\ Len(chunks') = Len(chunks) + 1
              /\ \A j \in 1 .. Len(chunks) : chunks'[j] = chunks[j]
              /\ chunks'[Len(chunks) + 1] = d
            BY <2>2, <2>3, KeptByLonger
        <3>2. CASE k <= Len(chunks)
            <4>1. chunks'[k] = chunks[k] /\ chunks'[k - 1] = chunks[k - 1]
                BY <3>1, <3>2
            <4>2. k \in 2 .. Len(chunks) BY <3>1, <3>2
            <4>3. Pair(chunks[k - 1], chunks[k]) BY <4>2, <1>1
            <4> QED BY <4>1, <4>3
        <3>3. CASE k = Len(chunks) + 1
            <4>1. k - 1 = Len(chunks) /\ Len(chunks) \in 1 .. Len(chunks)
                BY <3>1, <3>3, <2>7
            <4>2. chunks # <<>> BY <4>1
            <4>3. chunks'[k] = d /\ chunks'[k - 1] = chunks[Len(chunks)]
                BY <3>1, <3>3, <4>1
            <4> QED BY <4>2, <4>3, <2>6
        <3>4. k <= Len(chunks) \/ k = Len(chunks) + 1 BY <3>1, <2>7
        <3> QED BY <3>2, <3>3, <3>4
    <2> QED BY <2>7, <1>2
<1> QED BY <1>3, <1>4

-----------------------------------------------------------------------------
(* The rows of a table. *)

\* What is handed over has the header its group had.
LEMMA HeaderHanded == \A g, b : HeaderFirst(Handed(g, b)) <=> HeaderFirst(g)
BY DEF HeaderFirst, Handed

\* An element that opens a group and is no row, or whose run starts with it.
LEMMA HeaderOpened ==
    ASSUME ChunkingTypeOK, NEW e \in DOMAIN elements,
           IsRow(e) => e = 1 \/ ~ SameRun(e - 1, e)
    PROVE  HeaderFirst(Opened(e))
<1>1. Opened(e).members = <<e>> BY OpenedGroup
<1>2. e \in Nat BY ElementFields
<1>3. <<e>>[1] = e /\ Len(<<e>>) = 1 /\ <<e>>[Len(<<e>>)] = e /\ e .. e = {e} /\ 3 .. 1 = {}
    BY <1>2
<1>4. IsRow(e) => SameRun(e, e) BY DEF SameRun, SamePath
<1> QED BY <1>1, <1>3, <1>4 DEF HeaderFirst

\* The row that a group of the same run takes in next.
LEMMA HeaderGrown ==
    ASSUME Inductive, Ordered, Runs, TableRow
    PROVE  HeaderFirst(Joined(table, index)) /\ HeaderFirst(Restarted(index))
<1> DEFINE m == table.members
           h == m[1]
<1>1. /\ table # NoGroup /\ table \in GroupType /\ m \in Seq(Nat) /\ Len(m) > 0
      /\ h \in DOMAIN elements /\ IsRow(h)
      /\ index \in DOMAIN elements /\ index \in Nat /\ SameRun(index, h)
    BY DEF TableRow, AtElement, RowOfTable, Inductive, ChunkingTypeOK, GroupsOK, GroupType, SameRun
<1>2. /\ h \in Nat /\ m[Len(m)] = index - 1
      /\ h = 1 \/ ~ SameRun(h - 1, h)
      /\ \A e \in h .. index - 1 : SameRun(e, h)
      /\ \A j \in 3 .. Len(m) : m[j] = m[j - 1] + 1
    <2>1. m[Len(m)] = index - 1 BY <1>1 DEF Ordered, LastOf
    <2>2. HeaderFirst(table) BY <1>1 DEF Runs
    <2>3. h \in Nat BY <1>1
    <2> QED BY <1>1, <2>1, <2>2, <2>3 DEF HeaderFirst
<1>3. \A e \in h .. index : SameRun(e, h) BY <1>1, <1>2
<1>4. HeaderFirst(Joined(table, index))
    <2> DEFINE n == Append(m, index)
    <2>1. Joined(table, index).members = n BY <1>1, JoinedGroup DEF Inductive
    <2>2. /\ n[1] = h /\ Len(n) = Len(m) + 1 /\ n[Len(n)] = index
          /\ \A j \in 1 .. Len(m) : n[j] = m[j]
        <3> HIDE DEF m
        <3> QED BY <1>1
    <2>3. ASSUME NEW j \in 3 .. Len(n) PROVE n[j] = n[j - 1] + 1
        <3>1. CASE j <= Len(m)
            <4>1. n[j] = m[j] /\ n[j - 1] = m[j - 1] /\ j \in 3 .. Len(m)
                <5> HIDE DEF n, m, h
                <5>1. Len(m) \in Nat BY <1>1
                <5>2. j \in 1 .. Len(m) /\ j - 1 \in 1 .. Len(m) /\ j \in 3 .. Len(m)
                    BY <5>1, <2>3, <3>1
                <5> QED BY <5>2, <2>2
            <4> HIDE DEF n, m
            <4> QED BY <4>1, <1>2
        <3>2. CASE j = Len(m) + 1
            <4>1. n[j] = index /\ n[j - 1] = m[Len(m)]
                <5> HIDE DEF n, m, h
                <5>1. Len(m) \in Nat /\ Len(m) > 0 BY <1>1
                <5>2. Len(m) \in 1 .. Len(m) /\ j - 1 = Len(m) /\ j = Len(n) BY <5>1, <2>2, <3>2
                <5> QED BY <5>2, <2>2
            <4> HIDE DEF n, m
            <4> QED BY <4>1, <1>1, <1>2
        <3> HIDE DEF n, m, h
        <3>3. Len(m) \in Nat BY <1>1
        <3>4. j <= Len(m) \/ j = Len(m) + 1 BY <3>3, <2>2, <2>3
        <3> QED BY <3>1, <3>2, <3>4
    <2> HIDE DEF n, h
    <2> QED BY <2>1, <2>2, <2>3, <1>2, <1>3 DEF HeaderFirst
<1>5. HeaderFirst(Restarted(index))
    <2>1. Opened(h) \in GroupType /\ Opened(h) # NoGroup /\ Opened(h).members = <<h>>
        BY <1>1, OpenedGroup DEF Inductive
    <2>2. Joined(Opened(h), index).members = Append(<<h>>, index)
        BY <1>1, <2>1, JoinedGroup, ZenonT(30) DEF Inductive
    <2> DEFINE n == Append(<<h>>, index)
    <2>3. Restarted(index).members = n BY <2>2 DEF Restarted
    <2>4. n[1] = h /\ Len(n) = 2 /\ n[Len(n)] = index /\ 3 .. Len(n) = {}
        BY <1>1, <1>2
    <2> HIDE DEF n, h
    <2> QED BY <2>3, <2>4, <1>2, <1>3 DEF HeaderFirst
<1> QED BY <1>4, <1>5

\* Every step leaves the header of a run first in its groups.
LEMMA StepRuns ==
    ASSUME Inductive, Ordered, Runs, Proceed
    PROVE  Runs'
<1>E. /\ elements' = elements
      /\ \A g : HeaderFirst(g)' <=> HeaderFirst(g)
    <2>1. elements' = elements
        BY DEF Proceed, Heading, LogRecord, TableHeader, TableRow, TableEnd, Prose, ElementsEnd, Window
    <2> QED BY <2>1 DEF HeaderFirst, SameRun, IsRow, SamePath
<1>S. ASSUME prose' # NoGroup => ~ IsRow(prose'.members[1]),
             table' # NoGroup => HeaderFirst(table') /\ table'.members[1] < index',
             \A k \in DOMAIN todo' : HeaderFirst(todo'[k]),
             \A k \in DOMAIN chunks' : HeaderFirst(chunks'[k].group),
             table' = NoGroup /\ index' > 1 /\ index' \in DOMAIN elements =>
                 ~ (IsRow(index') /\ SameRun(index' - 1, index'))
      PROVE  Runs'
    BY <1>E, <1>S DEF Runs, HeaderFirst, SameRun, IsRow, SamePath
<1>1. CASE ~ Window
    <2>L. /\ todo = <<>> /\ chunks' = chunks /\ index \in Nat /\ index > 0
          /\ prose \in GroupType /\ table \in GroupType /\ elements \in Seq(Elements)
        BY <1>1, LoopStep DEF Inductive, ChunkingTypeOK
    <2>C. \A k \in DOMAIN chunks' : HeaderFirst(chunks'[k].group) BY <2>L DEF Runs
    <2>P. prose # NoGroup => HeaderFirst(prose)
        BY DEF Runs, HeaderFirst
    <2>F. \A k \in DOMAIN FlushedProse : HeaderFirst(FlushedProse[k])
        BY <2>P, FlushedIsProse, HeaderHanded
    <2>H. ASSUME todo' = <<Handed(table, FALSE)>>, table # NoGroup
          PROVE  \A k \in DOMAIN todo' : HeaderFirst(todo'[k])
        <3>1. \A k \in DOMAIN todo' : todo'[k] = Handed(table, FALSE) BY <2>H, AllOfOne
        <3>2. HeaderFirst(table) BY <2>H DEF Runs
        <3> QED BY <3>1, <3>2, HeaderHanded
    <2>1. CASE Heading
        <3>1. /\ todo' = FlushedProse /\ prose' = NoGroup /\ table' = NoGroup
              /\ index' = index + 1 /\ ~ IsRow(index)
            BY <2>1 DEF Heading, AtElement, Advance, IsRow
        <3>2. ~ SameRun(index' - 1, index') BY <3>1, <2>L DEF SameRun
        <3> QED BY <3>1, <3>2, <2>C, <2>F, <1>S
    <2>2. CASE LogRecord
        <3> DEFINE own == Handed(Opened(index), FALSE)
        <3>1. /\ todo' = Append(FlushedProse, own) /\ prose' = NoGroup /\ table' = NoGroup
              /\ index' = index + 1 /\ ~ IsRow(index) /\ index \in DOMAIN elements
            BY <2>2 DEF LogRecord, AtElement, Advance, IsRow
        <3>2. ~ SameRun(index' - 1, index') BY <3>1, <2>L DEF SameRun
        <3>3. HeaderFirst(own) BY <3>1, HeaderOpened, HeaderHanded DEF Inductive
        <3>4. FlushedProse \in Seq(HandedType) BY FlushedType DEF Inductive
        <3> HIDE DEF own
        <3>5. \A k \in DOMAIN todo' : HeaderFirst(todo'[k])
            BY <3>1, <3>3, <3>4, <2>F, AllOfLonger
        <3> QED BY <3>1, <3>2, <3>5, <2>C, <1>S
    <2>3. CASE TableHeader
        <3>1. /\ todo' = FlushedProse /\ prose' = NoGroup /\ table' = Opened(index)
              /\ table = NoGroup /\ index \in DOMAIN elements /\ index' = index + 1
            BY <2>3 DEF TableHeader, AtElement, Advance
        <3>2. index = 1 \/ ~ (IsRow(index) /\ SameRun(index - 1, index))
            BY <3>1, <2>L DEF Runs
        <3>3. HeaderFirst(Opened(index)) BY <3>1, <3>2, HeaderOpened DEF Inductive
        <3>4. Opened(index) # NoGroup BY <3>1, OpenedGroup DEF Inductive
        <3>5. table'.members[1] < index'
            <4>1. Opened(index).members = <<index>> BY <3>1, OpenedGroup DEF Inductive
            <4> QED BY <4>1, <3>1, <2>L
        <3> QED BY <3>1, <3>3, <3>4, <3>5, <2>C, <2>F, <1>S
    <2>4. CASE TableRow
        <3>1. /\ table # NoGroup /\ prose' = prose
              /\ \/ table' = Restarted(index) /\ todo' = <<Handed(table, FALSE)>>
                 \/ table' = Joined(table, index) /\ todo' = <<>>
            BY <2>4, <2>L DEF TableRow
        <3>G. table' = Restarted(index) \/ table' = Joined(table, index) BY <3>1
        <3>2. prose' = NoGroup BY <3>1 DEF Ordered
        <3>3. HeaderFirst(table') BY <2>4, <3>1, HeaderGrown
        <3>4. table' # NoGroup
            <4>1. ChunkingTypeOK' /\ GroupsOK' BY StepTypes
            <4>2. Ordered' BY StepOrders
            <4>3. LastOf(Joined(table, index)) = index /\ Len(Joined(table, index).members) > 0
                BY <2>4, <2>L, LastOfGrown DEF TableRow, AtElement, Inductive
            <4>4. table.members[1] \in DOMAIN elements
                BY <3>1, <2>L DEF Inductive, GroupsOK, GroupType
            <4>5. Len(Restarted(index).members) > 0
                BY <4>4, <2>4, OpenedGroup, LastOfGrown DEF Restarted, TableRow, AtElement, Inductive
            <4>6. Len(NoGroup.members) = 0 BY DEF NoGroup
            <4> QED BY <3>G, <4>3, <4>5, <4>6
        <3>5. \A k \in DOMAIN todo' : HeaderFirst(todo'[k])
            <4>1. CASE todo' = <<>> BY <4>1
            <4>2. CASE todo' = <<Handed(table, FALSE)>> BY <4>2, <3>1, <2>H
            <4> QED BY <4>1, <4>2, <3>1
        <3>6. table'.members[1] < index'
            <4> DEFINE h == table.members[1]
            <4>1. /\ table.members \in Seq(Nat) /\ Len(table.members) > 0 /\ h \in DOMAIN elements
                  /\ h < index /\ index \in DOMAIN elements /\ index' = index + 1
                BY <3>1, <2>4, <2>L
                DEF Inductive, GroupsOK, GroupType, Runs, TableRow, AtElement, Advance
            <4>2. Opened(h) \in GroupType /\ Opened(h) # NoGroup /\ Opened(h).members = <<h>>
                BY <4>1, OpenedGroup DEF Inductive
            <4>3. Restarted(index).members = Append(<<h>>, index)
                BY <4>1, <4>2, JoinedGroup, ZenonT(30) DEF Inductive, Restarted
            <4>4. Joined(table, index).members = Append(table.members, index)
                BY <4>1, <3>1, <2>L, JoinedGroup DEF Inductive
            <4>5. Append(<<h>>, index)[1] = h /\ Append(table.members, index)[1] = h
                <5>1. \A s \in Seq(Nat) : \A i : Len(s) > 0 => Append(s, i)[1] = s[1] OBVIOUS
                <5>2. <<h>> \in Seq(Nat) /\ Len(<<h>>) = 1 /\ <<h>>[1] = h BY <4>1
                <5> QED BY <5>1, <5>2, <4>1
            <4>6. table'.members[1] = h BY <4>3, <4>4, <4>5, <3>G
            <4>7. h < index' BY <4>1, <2>L
            <4> QED BY <4>6, <4>7
        <3> QED BY <3>2, <3>3, <3>4, <3>5, <3>6, <2>C, <1>S
    <2>5. CASE TableEnd
        <3>1. /\ todo' = <<Handed(table, FALSE)>> /\ table' = NoGroup /\ table # NoGroup
              /\ prose' = prose /\ index' = index /\ ~ RowOfTable
            BY <2>5 DEF TableEnd
        <3>2. prose' = NoGroup BY <3>1 DEF Ordered
        <3>3. ASSUME index > 1, index \in DOMAIN elements, IsRow(index), SameRun(index - 1, index)
              PROVE  FALSE
            <4> DEFINE h == table.members[1]
            <4>1. /\ Len(table.members) > 0 /\ table.members \in Seq(Nat)
                  /\ h \in DOMAIN elements /\ IsRow(h) /\ LastOf(table) = index - 1
                BY <3>1, <2>L DEF Inductive, GroupsOK, GroupType, Ordered
            <4>2. HeaderFirst(table) BY <3>1 DEF Runs
            <4>3. h \in Nat /\ h <= index - 1 BY <4>1, <3>1, <2>L DEF Runs
            <4>4. SameRun(index - 1, h)
                <5>1. index - 1 \in h .. index - 1 BY <4>3, <2>L
                <5> QED BY <5>1, <4>1, <4>2 DEF HeaderFirst, LastOf
            <4> QED BY <4>4, <3>1, <3>3 DEF RowOfTable, SameRun, SamePath
        <3> QED BY <3>1, <3>2, <3>3, <2>H, <2>C, <1>S
    <2>6. CASE Prose
        <3>1. /\ table' = NoGroup /\ index' = index + 1 /\ ~ IsRow(index) /\ index \in DOMAIN elements
              /\ \/ prose' = Opened(index) /\ todo' = FlushedProse
                 \/ prose' = Joined(prose, index) /\ todo' = <<>>
            BY <2>6 DEF Prose, AtElement, Advance, IsRow
        <3>2. ~ SameRun(index' - 1, index') BY <3>1, <2>L DEF SameRun
        <3>3. ~ IsRow(prose'.members[1])
            <4>1. Opened(index).members[1] = index BY <3>1, OpenedGroup DEF Inductive
            <4>2. CASE prose' = Opened(index) BY <4>1, <4>2, <3>1
            <4>3. CASE prose' = Joined(prose, index) /\ prose = NoGroup
                BY <4>1, <4>3, <3>1, <2>L, JoinedGroup DEF Inductive
            <4>4. CASE prose' = Joined(prose, index) /\ prose # NoGroup
                <5>1. prose'.members = Append(prose.members, index)
                    BY <4>4, <3>1, <2>L, JoinedGroup DEF Inductive
                <5>2. prose.members \in Seq(Nat) /\ Len(prose.members) > 0
                    BY <4>4, <2>L DEF GroupType, Ordered
                <5>3. prose'.members[1] = prose.members[1] BY <5>1, <5>2
                <5> QED BY <5>3, <4>4 DEF Runs
            <4> QED BY <4>2, <4>3, <4>4, <3>1
        <3>4. \A k \in DOMAIN todo' : HeaderFirst(todo'[k]) BY <3>1, <2>F
        <3> QED BY <3>1, <3>2, <3>3, <3>4, <2>C, <1>S
    <2>7. CASE ElementsEnd
        <3>1. /\ todo' = FlushedProse /\ prose' = NoGroup /\ table' = NoGroup
              /\ index' = index /\ index > Len(elements)
            BY <2>7 DEF ElementsEnd
        <3>2. index' \notin DOMAIN elements BY <3>1, <2>L
        <3> QED BY <3>1, <3>2, <2>C, <2>F, <1>S
    <2> QED BY <1>1, <2>1, <2>2, <2>3, <2>4, <2>5, <2>6, <2>7 DEF Proceed
<1>2. CASE Window
    <2> DEFINE g == Head(todo)
               c == [group |-> g, from |-> start, upto |-> WindowEnd(g)]
    <2>1. /\ todo # <<>> /\ prose' = prose /\ table' = table /\ index' = index
          /\ todo' = todo \/ todo' = Tail(todo)
          /\ chunks' = chunks \/ chunks' = Append(chunks, c)
        BY <1>2 DEF Window
    <2>2. /\ todo \in Seq(HandedType)
          /\ chunks \in Seq([group : HandedType, from : Nat, upto : Nat])
        BY DEF Inductive, ChunkingTypeOK
    <2>3. HeaderFirst(g)
        <3>1. 1 \in DOMAIN todo /\ g = todo[1] BY <2>1, <2>2
        <3> QED BY <3>1 DEF Runs
    <2>4. \A k \in DOMAIN todo' : HeaderFirst(todo'[k])
        <3>1. CASE todo' = todo BY <3>1 DEF Runs
        <3>2. CASE todo' = Tail(todo)
            <4>1. \A k \in DOMAIN todo' : k + 1 \in DOMAIN todo /\ todo'[k] = todo[k + 1]
                BY <3>2, <2>1, <2>2
            <4> QED BY <4>1 DEF Runs
        <3> QED BY <3>1, <3>2, <2>1
    <2>5. \A k \in DOMAIN chunks' : HeaderFirst(chunks'[k].group)
        <3>1. CASE chunks' = chunks BY <3>1 DEF Runs
        <3>2. CASE chunks' = Append(chunks, c)
            <4>1. \A k \in DOMAIN chunks' :
                      (k \in DOMAIN chunks /\ chunks'[k] = chunks[k]) \/ chunks'[k] = c
                BY <3>2, <2>2, AllOfLonger
            <4>2. c.group = g OBVIOUS
            <4> QED BY <4>1, <4>2, <2>3 DEF Runs
        <3> QED BY <3>1, <3>2, <2>1
    <2>6. /\ prose' # NoGroup => ~ IsRow(prose'.members[1])
          /\ table' # NoGroup => HeaderFirst(table') /\ table'.members[1] < index'
          /\ table' = NoGroup /\ index' > 1 /\ index' \in DOMAIN elements =>
                 ~ (IsRow(index') /\ SameRun(index' - 1, index'))
        BY <2>1 DEF Runs
    <2> QED BY <2>4, <2>5, <2>6, <1>S
<1> QED BY <1>1, <1>2

\* Without a group and a chunk, all are in order.
LEMMA RaiseOrders == ASSUME Raise PROVE Ordered' /\ Seam' /\ Runs' /\ WindowsAdvance'
<1>1. prose' = NoGroup /\ table' = NoGroup /\ todo' = <<>> /\ chunks' = <<>> /\ index' = 0
    BY DEF Raise
<1> QED BY <1>1 DEF Ordered, ChunksFirst, Seam, Runs, WindowsAdvance

\* The groups and the windows of one call are in order.
LEMMA OrderInvariant == ChunkSpec => [](Ordered /\ Seam /\ Runs /\ WindowsAdvance)
<1> DEFINE Inv == Ordered /\ Seam /\ Runs /\ WindowsAdvance
<1>1. ChunkInit => Inv
    <2> SUFFICES ASSUME ChunkInit PROVE Inv OBVIOUS
    <2>1. prose = NoGroup /\ table = NoGroup /\ todo = <<>> /\ chunks = <<>> /\ index = 1
        BY DEF ChunkInit, Idle
    <2> QED BY <2>1 DEF Ordered, ChunksFirst, Seam, Runs, WindowsAdvance
<1>2. Inductive /\ Inv /\ [ChunkNext]_chunkVars => Inv'
    <2> SUFFICES ASSUME Inductive, Inv, [ChunkNext]_chunkVars PROVE Inv' OBVIOUS
    <2>1. CASE Proceed BY <2>1, StepOrders, StepSeams, StepRuns, StepAdvances
    <2>3. CASE Raise BY <2>3, RaiseOrders
    <2>2. CASE UNCHANGED chunkVars
        <3>1. Ordered' BY <2>2 DEF chunkVars, Ordered, ChunksFirst, EndsBefore
        <3>2. Seam' BY <2>2 DEF chunkVars, Seam
        <3>3. Runs' BY <2>2 DEF chunkVars, Runs, HeaderFirst, SameRun, IsRow, SamePath
        <3>4. WindowsAdvance' BY <2>2 DEF chunkVars, WindowsAdvance
        <3> QED BY <3>1, <3>2, <3>3, <3>4
    <2> QED BY <2>1, <2>2, <2>3 DEF ChunkNext
<1> QED BY <1>1, <1>2, ChunkerInvariant, PTL DEF ChunkSpec

\* Of two successive windows of a group the later one reaches further, and it starts the
\* configured overlap before the end of the other, or after white space, for all sizes the
\* settings allow (structure_aware.py:113-148).
THEOREM WindowsDoAdvance == ChunkSpec => []WindowsAdvance
BY OrderInvariant, PTL

\* A group of rows is the first row of its run and rows that follow one another, whatever
\* runs the elements make up (structure_aware.py:59-101).
THEOREM HeadersAreFirst == ChunkSpec => []RowsFollowHeader
<1>1. Runs => RowsFollowHeader
    BY DEF Runs, RowsFollowHeader, HeaderFirst, SameRun
<1> QED BY <1>1, OrderInvariant, PTL
=============================================================================
