------------------------------ MODULE Chunking ------------------------------
(***************************************************************************)
(* StructureAwareChunker (app/infrastructure/chunking/structure_aware.py): *)
(* the loop over a document's elements that forms groups, and the windows  *)
(* that cut a group into chunks.                                           *)
(*                                                                         *)
(* A text is a sequence of tokens, and the tokens of a group are those of  *)
(* its heading context followed by those of its elements: the separators   *)
(* between them, and what the tokenizer makes of a seam, are left out. A   *)
(* chunk is a window of its group. The tokenizer's encode() refuses a text *)
(* with one of its special tokens in it, and chunk() ends with its error.  *)
(***************************************************************************)
EXTENDS Integers, Sequences, FiniteSets, FiniteSetsExt

CONSTANTS
    Token,         \* the tokens a text is made of
    Whitespace,    \* the token that decodes to nothing but white space
    Reserved,      \* tokens of text that encode() refuses: <|endoftext|>
    TargetTokens,  \* chunk_target_tokens
    MaxTokens,     \* chunk_max_tokens
    OverlapTokens  \* chunk_overlap_tokens

\* The bounds and the cross-field rules Settings enforces at start.
ValidChunking ==
    /\ TargetTokens \in Nat /\ MaxTokens \in Nat /\ OverlapTokens \in Nat
    /\ TargetTokens <= MaxTokens
    /\ OverlapTokens < TargetTokens

ASSUME ChunkingAssumption == ValidChunking /\ Reserved \subseteq Token

ElementType == {"heading", "paragraph", "code", "table_row", "log_record"}
Elements == [type : ElementType, text : Seq(Token), path : Seq(Token),
             first : Nat, last : Nat] \* lines or pages, 0 where not known

VARIABLES
    elements, \* document.elements, in the order of their ordinals
    index,    \* the next element, 0 before chunk() is called
    prose,    \* prose_buffer, with its text, not stripped
    table,    \* the group _append_table is filling, likewise
    todo,     \* groups handed to _append_element_group, oldest first
    start,    \* where the next window of the first of them starts
    chunks    \* the chunks so far, each a window of a group

chunkVars == <<elements, index, prose, table, todo, start, chunks>>

-----------------------------------------------------------------------------
(* Groups. *)

NoGroup == [members |-> <<>>, text |-> <<>>]

\* _group_text of one element: the first member gives the heading context.
Opened(e) == [members |-> <<e>>, text |-> elements[e].path \o elements[e].text]

Joined(g, e) ==
    IF g = NoGroup
    THEN Opened(e)
    ELSE [members |-> Append(g.members, e), text |-> g.text \o elements[e].text]

\* .strip() at the end of _group_text. No element begins with white space.
Stripped(text) ==
    SubSeq(text, 1, Max({0} \cup {p \in DOMAIN text : text[p] # Whitespace}))

\* encode() of this text raises ValueError: disallowed_special is left at "all".
Refused(text) == \E p \in DOMAIN text : text[p] \in Reserved

\* Mutant: the limit of a window taken for the target of a group.
OverMaximum(g) == Len(Stripped(g.text)) > MaxTokens
OverTarget(g) == Len(Stripped(g.text)) > TargetTokens

Handed(g, overlap) ==
    [members |-> g.members, text |-> Stripped(g.text), overlap |-> overlap]

\* flush_prose
FlushedProse == IF prose = NoGroup THEN <<>> ELSE <<Handed(prose, TRUE)>>

SamePath(e, f) == elements[e].path = elements[f].path
IsRow(e) == elements[e].type = "table_row"

-----------------------------------------------------------------------------
(* The loop over the elements. Groups handed over are cut up first. *)

AtElement(types) ==
    /\ todo = <<>>
    /\ index \in DOMAIN elements
    /\ elements[index].type \in types

Advance == index' = index + 1

Heading ==
    /\ AtElement({"heading"}) /\ table = NoGroup
    /\ todo' = FlushedProse
    /\ prose' = NoGroup
    /\ Advance
    /\ UNCHANGED <<elements, table, start, chunks>>

LogRecord ==
    /\ AtElement({"log_record"}) /\ table = NoGroup
    /\ todo' = Append(FlushedProse, Handed(Opened(index), FALSE))
    /\ prose' = NoGroup
    /\ Advance
    /\ UNCHANGED <<elements, table, start, chunks>>

\* The first row of a run is taken for the table's header.
TableHeader ==
    /\ AtElement({"table_row"}) /\ table = NoGroup
    /\ todo' = FlushedProse
    /\ prose' = NoGroup
    /\ table' = Opened(index)
    /\ Advance
    /\ UNCHANGED <<elements, start, chunks>>

RowOfTable == index \in DOMAIN elements /\ IsRow(index) /\ SamePath(index, table.members[1])

\* Mutant: a full group is followed by one without the header.
HeaderDropped(e) == Opened(e)
\* group = [header, row]
Restarted(e) == Joined(Opened(table.members[1]), e)

TableRow ==
    /\ AtElement({"table_row"}) /\ table # NoGroup /\ RowOfTable
    /\ LET candidate == Joined(table, index)
       IN  IF Len(table.members) > 1 /\ OverTarget(candidate)
           THEN /\ todo' = <<Handed(table, FALSE)>>
                /\ table' = Restarted(index)
           ELSE /\ table' = candidate
                /\ UNCHANGED todo
    /\ Advance
    /\ UNCHANGED <<elements, prose, start, chunks>>

TableEnd ==
    /\ index > 0 /\ todo = <<>> /\ table # NoGroup /\ ~ RowOfTable
    /\ todo' = <<Handed(table, FALSE)>>
    /\ table' = NoGroup
    /\ UNCHANGED <<elements, index, prose, start, chunks>>

Prose ==
    /\ AtElement({"paragraph", "code"}) /\ table = NoGroup
    /\ IF prose # NoGroup /\ OverTarget(Joined(prose, index))
       THEN todo' = FlushedProse /\ prose' = Opened(index)
       ELSE todo' = <<>> /\ prose' = Joined(prose, index)
    /\ Advance
    /\ UNCHANGED <<elements, table, start, chunks>>

ElementsEnd ==
    /\ index > Len(elements) /\ index > 0
    /\ todo = <<>> /\ table = NoGroup /\ prose # NoGroup
    /\ todo' = FlushedProse
    /\ prose' = NoGroup
    /\ UNCHANGED <<elements, index, table, start, chunks>>

-----------------------------------------------------------------------------
(* _append_element_group: the windows of a group. *)

\* Mutant: the overlap added to the step.
StepTooLong(g) ==
    IF g.overlap /\ Len(g.text) > MaxTokens
    THEN MaxTokens + OverlapTokens
    ELSE MaxTokens
Step(g) ==
    IF g.overlap /\ Len(g.text) > MaxTokens
    THEN MaxTokens - OverlapTokens
    ELSE MaxTokens

WindowEnd(g) == IF start + MaxTokens < Len(g.text) THEN start + MaxTokens ELSE Len(g.text)

BlankWindow(g) == \A p \in start + 1 .. WindowEnd(g) : g.text[p] = Whitespace

\* Mutant: no break once the window reaches the end.
RangeEnds(g) == start + Step(g) >= Len(g.text)
\* The range ends, or the break is taken, which a blank window does not get to.
LastWindow(g) ==
    \/ start + Step(g) >= Len(g.text)
    \/ ~ BlankWindow(g) /\ start + MaxTokens >= Len(g.text)

\* A window that decodes to white space gives no chunk.
Window ==
    /\ todo # <<>>
    /\ LET g == Head(todo)
       IN  /\ chunks' = IF BlankWindow(g)
                        THEN chunks
                        ELSE Append(chunks,
                                    [group |-> g, from |-> start, upto |-> WindowEnd(g)])
           /\ start' = IF LastWindow(g) THEN 0 ELSE start + Step(g)
           /\ todo' = IF LastWindow(g) THEN Tail(todo) ELSE todo
    /\ UNCHANGED <<elements, index, prose, table>>

\* The text the next step has encoded, to count its tokens or to cut it up: a group's,
\* or that of a buffer that is not empty with the next element. Other steps encode none.
Encoded ==
    IF todo # <<>> THEN Head(todo).text
    ELSE IF table # NoGroup /\ RowOfTable THEN Joined(table, index).text
    ELSE IF table = NoGroup /\ prose # NoGroup /\ AtElement({"paragraph", "code"})
    THEN Joined(prose, index).text
    ELSE <<>>

\* Mutant: a text that cannot be encoded is passed over.
ProceedAnyway ==
    \/ Heading \/ LogRecord \/ TableHeader \/ TableRow \/ TableEnd
    \/ Prose \/ ElementsEnd \/ Window

Proceed ==
    /\ ~ Refused(Encoded)
    /\ \/ Heading \/ LogRecord \/ TableHeader \/ TableRow \/ TableEnd
       \/ Prose \/ ElementsEnd \/ Window

Idle == prose = NoGroup /\ table = NoGroup /\ todo = <<>> /\ start = 0 /\ chunks = <<>>

\* encode() raises: chunk() is over, and what it had gathered is gone.
Raise ==
    /\ Refused(Encoded)
    /\ index' = 0
    /\ prose' = NoGroup /\ table' = NoGroup /\ todo' = <<>> /\ start' = 0 /\ chunks' = <<>>
    /\ UNCHANGED elements

ChunkNext == Proceed \/ Raise

\* The source lines (or pages) a chunk points back to: those of its whole group. A
\* location that is not known is 0, and so is the merged one when none is.
MergedLocation(c) ==
    LET e(j) == elements[c.group.members[j]]
        all  == DOMAIN c.group.members
        firsts == {e(j).first : j \in all} \ {0}
    IN  [first |-> IF firsts = {} THEN 0 ELSE Min(firsts),
         last  |-> Max({e(j).last : j \in all})]

\* A call of chunk() on its own, with whatever a parser may hand over.
ChunkInit == elements \in Seq(Elements) /\ index = 1 /\ Idle
ChunkSpec == ChunkInit /\ [][ChunkNext]_chunkVars

\* chunk() has returned.
Chunked == index > Len(elements) /\ todo = <<>> /\ table = NoGroup /\ prose = NoGroup
-----------------------------------------------------------------------------
(* What a caller relies on. *)

GroupType == [members : Seq(Nat), text : Seq(Token)]
HandedType == [members : Seq(Nat), text : Seq(Token), overlap : BOOLEAN]

\* The types of the chunker's state.
ChunkingTypeOK ==
    /\ elements \in Seq(Elements)
    /\ index \in Nat
    /\ prose \in GroupType /\ table \in GroupType
    /\ todo \in Seq(HandedType)
    /\ start \in Nat
    /\ chunks \in Seq([group : HandedType, from : Nat, upto : Nat])

TokensOf(text) == {text[p] : p \in DOMAIN text}
Slice(c) == {c.group.text[p] : p \in c.from + 1 .. c.upto}
ChunkTokens == UNION {Slice(chunks[k]) : k \in DOMAIN chunks}
BodyTokens ==
    UNION {TokensOf(elements[e].text) :
           e \in {f \in DOMAIN elements : elements[f].type # "heading"}}

\* Whatever the groups and the windows, every token of every element that is not a
\* heading is in some chunk when chunk() returns (structure_aware.py:36-148).
NothingLost == Chunked => BodyTokens \subseteq ChunkTokens \cup {Whitespace}

\* Successive windows of one group: the later one reaches further, so that none only
\* repeats its predecessor, and it starts the configured overlap before the end of the
\* predecessor, or after nothing but white space (structure_aware.py:113-148).
WindowsAdvance ==
    \A k \in 2 .. Len(chunks) :
        LET c == chunks[k - 1]
            d == chunks[k]
            shared == IF c.group.overlap THEN OverlapTokens ELSE 0
        IN  c.group = d.group =>
                /\ c.upto < d.upto
                /\ d.from >= c.upto - shared
                /\ \A p \in c.upto - shared + 1 .. d.from : d.group.text[p] = Whitespace

\* A group of table rows is the first row of its run, which stands for the header,
\* followed by successive rows of the same run (structure_aware.py:59-101).
RowsFollowHeader ==
    \A k \in DOMAIN chunks :
        LET m == chunks[k].group.members
            SameRun(e) == IsRow(e) /\ SamePath(e, m[1])
        IN  IsRow(m[1]) =>
                /\ m[1] = 1 \/ ~ SameRun(m[1] - 1)
                /\ \A e \in m[1] .. m[Len(m)] : SameRun(e)
                /\ \A j \in 3 .. Len(m) : m[j] = m[j - 1] + 1

\* Elements are put together only while they stay within the target: what exceeds it is
\* a single element, or a header and one row (structure_aware.py:74-76, 92-99).
GroupsStayInTarget ==
    \A k \in DOMAIN chunks :
        LET g == chunks[k].group
        IN  Len(g.text) > TargetTokens =>
                Len(g.members) <= IF IsRow(g.members[1]) THEN 2 ELSE 1

=============================================================================
