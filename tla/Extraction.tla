----------------------------- MODULE Extraction -----------------------------
(***************************************************************************)
(* What _ingest of the WorkerPipeline does with a file between the status  *)
(* updates (app/application/worker_pipeline.py): the ParserRouter's        *)
(* parser, then the chunker, for one document after the other, on the      *)
(* thread pool that asyncio.to_thread shares among everything the worker   *)
(* does with files.                                                        *)
(*                                                                         *)
(* DoclingPDFParser.parse stops waiting after parse_timeout_seconds; the   *)
(* thread it leaves behind goes on, and keeps its place in the pool.       *)
(***************************************************************************)
EXTENDS Parsers

CONSTANTS
    Batches, \* the sequences of files the worker is given
    Threads  \* the size of the event loop's default executor

Formats == {"text", "markdown", "csv", "log", "pdf"}
Kinds == {"blank", "text", "long", "stamp", "fence", "h1", "h2", "h3", "h4", "h5", "h6",
          "special", "hs", "ragged", "wide", "quote", "empty",
          "table", "unplaced", "spread", "broken", "corrupt"}

\* A file whose lines are made of tokens.
Files ==
    {f \in [format : Formats, lines : Seq(Kinds)] :
        (0 .. Len(f.lines)) \X (-1 .. LongTokens + 1) \subseteq Token}

ASSUME ExtractionAssumption ==
    /\ Threads \in Nat \ {0}
    /\ Batches \subseteq Seq(Files)

VARIABLES
    batch,    \* the files to come
    abandoned \* conversions that nobody waits for any more, still running

vars == <<chunkVars, doc, phase, parserVars, failure, batch, abandoned>>

FreeThread == abandoned < Threads

NoFile == [format |-> "none", lines |-> <<>>]

-----------------------------------------------------------------------------

ExtractionInit ==
    /\ elements = <<>> /\ index = 0 /\ Idle
    /\ doc = NoFile /\ phase = "idle"
    /\ line = 1 /\ buffer = <<>> /\ from = 1 /\ fenced = FALSE
    /\ hierarchy = <<>> /\ rows = <<>> /\ warnings = {} /\ failure = "none"
    /\ batch \in Batches /\ abandoned = 0

\* claim_next; parser_for takes the parser that the job's suffix stands for.
Take ==
    /\ phase = "idle" /\ batch # <<>> /\ FreeThread
    /\ doc' = Head(batch) /\ batch' = Tail(batch)
    /\ phase' = IF Head(batch).format = "pdf" THEN "converting" ELSE "reading"
    /\ UNCHANGED <<chunkVars, parserVars, failure, abandoned>>

\* _read_lines: the whole file, unless it is too long.
ReadLines ==
    /\ phase = "reading" /\ FreeThread
    /\ IF Len(doc.lines) > MaxLines
       THEN Fail("processing_failed")
       ELSE phase' = "parsing" /\ UNCHANGED failure
    /\ UNCHANGED <<chunkVars, doc, parserVars, batch, abandoned>>

\* The checks of the file and Docling's conversion, all of whose errors become one.
ConversionEnds ==
    /\ phase = "converting"
    /\ IF "corrupt" \in {Kind(l) : l \in Lines}
       THEN Fail("processing_failed")
       ELSE phase' = "parsing" /\ UNCHANGED failure
    /\ UNCHANGED <<chunkVars, doc, parserVars, batch, abandoned>>

\* Mutant: what ran out of time is tried again at once, whether there is a thread or not.
ConversionRepeated ==
    /\ phase = "converting"
    /\ abandoned' = abandoned + 1
    /\ UNCHANGED <<chunkVars, doc, phase, parserVars, failure, batch>>

\* Mutant: what ran out of time is tried again while there are threads.
ConversionRetried ==
    /\ phase = "converting" /\ abandoned + 1 < Threads
    /\ abandoned' = abandoned + 1
    /\ UNCHANGED <<chunkVars, doc, phase, parserVars, failure, batch>>

\* wait_for gives up, on a thread it cannot stop.
ConversionTimesOut ==
    /\ phase = "converting" \/ Parsing("pdf")
    /\ abandoned' = abandoned + 1
    /\ Fail("processing_failed")
    /\ UNCHANGED <<chunkVars, doc, parserVars, batch>>

AbandonedEnds ==
    /\ abandoned > 0
    /\ abandoned' = abandoned - 1
    /\ UNCHANGED <<chunkVars, doc, phase, parserVars, failure, batch>>

ParseStep ==
    /\ Parse
    /\ UNCHANGED <<index, prose, table, todo, start, chunks, doc, batch, abandoned>>

\* persist_parsed, set_status(CHUNKING), and the call of the chunker.
ChunkCall ==
    /\ phase = "parsed" /\ FreeThread
    /\ phase' = "chunking"
    /\ index' = 1
    /\ UNCHANGED <<elements, prose, table, todo, start, chunks, doc, parserVars, failure,
                   batch, abandoned>>

ChunkStep ==
    /\ phase = "chunking"
    /\ Proceed
    /\ UNCHANGED <<doc, phase, parserVars, failure, batch, abandoned>>

\* The ValueError of encode() is none of the errors process_one knows.
ChunkRaises ==
    /\ phase = "chunking"
    /\ Raise
    /\ Fail("unexpected_processing_error")
    /\ UNCHANGED <<doc, parserVars, batch, abandoned>>

\* chunk() has returned; without a chunk there is nothing to index.
ChunkReturn ==
    /\ phase = "chunking" /\ Chunked
    /\ IF chunks = <<>>
       THEN Fail("processing_failed")
       ELSE phase' = "chunked" /\ UNCHANGED failure
    /\ UNCHANGED <<chunkVars, doc, parserVars, batch, abandoned>>

\* What is left of the job, persist_chunks or _mark_failed and the queue's outcome, runs
\* in threads too; then the next job.
Settle ==
    /\ phase \in {"chunked", "failed"} /\ FreeThread
    /\ elements' = <<>> /\ index' = 0
    /\ prose' = NoGroup /\ table' = NoGroup /\ todo' = <<>> /\ start' = 0 /\ chunks' = <<>>
    /\ doc' = NoFile /\ phase' = "idle"
    /\ line' = 1 /\ buffer' = <<>> /\ from' = 1 /\ fenced' = FALSE
    /\ hierarchy' = <<>> /\ rows' = <<>> /\ warnings' = {} /\ failure' = "none"
    /\ UNCHANGED <<batch, abandoned>>

Work ==
    \/ Take \/ ReadLines \/ ConversionEnds \/ ParseStep
    \/ ChunkCall \/ ChunkStep \/ ChunkRaises \/ ChunkReturn \/ Settle

ExtractionNext == Work \/ ConversionTimesOut \/ AbandonedEnds

\* The worker's loop keeps running: a conversion that takes long is given up. Nothing
\* is assumed of the thread it leaves behind, which may run for ever.
Fairness == WF_vars(Work \/ ConversionTimesOut)

ExtractionSpec == ExtractionInit /\ [][ExtractionNext]_vars /\ Fairness

-----------------------------------------------------------------------------
(* What the rest of the system relies on. *)

\* The types of the state.
ExtractionTypeOK ==
    /\ ChunkingTypeOK
    /\ doc \in [format : Formats \cup {"none"}, lines : Seq(Kinds)]
    /\ phase \in {"idle", "reading", "converting", "parsing", "rows",
                  "parsed", "chunking", "chunked", "failed"}
    /\ line \in Nat /\ from \in Nat /\ fenced \in BOOLEAN
    /\ buffer \in Seq(Nat) /\ hierarchy \in Seq(Token) /\ rows \in Seq(Seq(Nat))
    /\ warnings \subseteq {"unclosed_code_fence", "unstructured_log_record",
                           "ragged_csv_row"}
    /\ failure \in {"none", "processing_failed", "unexpected_processing_error"}
    /\ abandoned \in 0 .. Threads

\* The lines tokens come from; those of a heading context are none's.
SourceLines(tokens) == {t[1] : t \in {u \in tokens \ {Whitespace} : u[2] > 0}}

\* The lines a location stands for: of a CSV file it gives the number of a row, which
\* runs over several lines when a quoted field does.
Cited(at) ==
    IF doc.format = "csv"
    THEN UNION {ToSet(rows[r]) : r \in at.first .. at.last \cap DOMAIN rows}
    ELSE at.first .. at.last

\* max_element_characters may have left something out.
Cut(e) == Len(e.text) = MaxElementTokens

\* Text whose place no location gives: items of a PDF without provenance, and what
\* follows the first provenance of an item.
Unlocated ==
    IF doc.format # "pdf" THEN {}
    ELSE ({l \in Lines : Kind(l) = "unplaced"} \X {1})
         \cup ({l \in Lines : Kind(l) = "spread"} \X {2})

\* The lines of a chunk's own text, its window of the group.
OwnLines(c) == SourceLines(Slice(c) \ Unlocated)

\* Every line of a chunk's own text is among those its location stands for; that of a
\* group's first chunk starts with the first line of its text; and a location covers no
\* line of text that its elements do not hold, unless an element was cut (text.py:59-81,
\* 120-138, 268-283, structure_aware.py:159-180). A later chunk of a group cites the
\* lines of the whole group.
ChunksTraceable ==
    \A k \in DOMAIN chunks :
        LET c  == chunks[k]
            at == MergedLocation(c)
        IN  /\ OwnLines(c) \subseteq Cited(at)
            /\ c.from = 0 /\ OwnLines(c) # {} =>
                   Min(OwnLines(c)) \in Cited([first |-> at.first, last |-> at.first])
            /\ \A j \in DOMAIN c.group.members :
                   LET e == elements[c.group.members[j]]
                   IN  \/ Cut(e)
                       \/ {l \in Cited(e) : Solid(l)} \subseteq SourceLines(TokensOf(e.text))

\* The headings of a Markdown file outside code, or of a PDF.
HeadingLines ==
    {l \in Lines : /\ IsHeading(Kind(l)) /\ doc.format \in {"markdown", "pdf"}
                   /\ doc.format = "markdown" =>
                        Cardinality({f \in 1 .. l : Kind(f) = "fence"}) % 2 = 0}

\* Those whose section a line is in: no later heading of the same or a higher rank.
Enclosing(l) ==
    {h \in HeadingLines : /\ h < l
                          /\ \A g \in HeadingLines :
                               g > h /\ g < l => Level(Kind(g)) > Level(Kind(h))}

\* Every heading is at most one level below the one before it.
LevelsInOrder ==
    \A h \in HeadingLines :
        Level(Kind(h)) <= 1 + Max({0} \cup {Level(Kind(g)) : g \in Enclosing(h)})

\* A chunk's context is the chain of headings that enclose its text, for every member of
\* its group though only the first one is asked (text.py:198-215, docling_pdf.py:97-113,
\* structure_aware.py:150-157); where a document skips a level the stack is cut at the
\* wrong height, and only the innermost heading is sure.
ContextEncloses ==
    \A k \in DOMAIN chunks :
        LET path    == elements[chunks[k].group.members[1]].path
            context == {t[1] : t \in TokensOf(path)}
        IN  doc.format \in {"markdown", "pdf"} =>
              \A l \in SourceLines(TokensOf(chunks[k].group.text)) :
                LET headings == Enclosing(l)
                IN  IF LevelsInOrder
                    THEN /\ context = headings
                         /\ \A j \in 1 .. Len(path) - 1 : path[j][1] < path[j + 1][1]
                    ELSE headings # {} => path[Len(path)][1] = Max(headings)

\* A log chunk comes from one record: its first line has a stamp, or nothing but blank
\* lines before it, no other line has one, and every line up to the next stamp is in the
\* record, unless it was cut (text.py:309-321, structure_aware.py:54-58).
LogRecordsStandAlone ==
    \A k \in DOMAIN chunks :
        LET g  == chunks[k].group
            ls == SourceLines(TokensOf(g.text))
            Stamps(S) == {l \in S : Kind(l) = "stamp"}
        IN  doc.format = "log" =>
                /\ Len(g.members) = 1 /\ ls # {}
                /\ Stamps(ls) \subseteq {Min(ls)}
                /\ Kind(Min(ls)) = "stamp" \/ \A l \in 1 .. Min(ls) - 1 : ~ Solid(l)
                /\ \A l \in Lines :
                      l > Min(ls) /\ Solid(l) /\ Stamps(Min(ls) + 1 .. l) = {}
                      => l \in ls \/ Cut(elements[g.members[1]])

\* Lines that must reach a chunk: neither a heading nor blank.
BodyLines ==
    {l \in Lines : /\ Solid(l) /\ l \notin HeadingLines}

\* No line of the file's body is dropped between the file and its chunks, unless an
\* element that cites it, or has something of it, was cut (text.py:120-146, 183-232,
\* 305-340): the last paragraph, record or unclosed block is flushed too.
LinesReachChunks ==
    phase = "chunked" =>
        \A l \in BodyLines :
            \/ ToSet(LineTokens(l)) \subseteq ChunkTokens
            \/ \E e \in DOMAIN elements :
                   /\ Cut(elements[e])
                   /\ l \in Cited(elements[e]) \cup SourceLines(TokensOf(elements[e].text))

\* A line of a CSV file at whose start a quoted field is open.
Quoted(l) == Cardinality({q \in 1 .. l - 1 : Kind(q) = "quote"}) % 2 = 1

\* No row of a CSV file is empty, as a blank line or two quotes are outside quotes, and no
\* field is over csv.reader's own limit. The parser knows neither error.
RowsReadable ==
    /\ \A l \in Lines : ~ Quoted(l) => Kind(l) \notin {"blank", "empty"}
    /\ \A l \in Lines : \A s \in 1 .. l :
          ~ Quoted(s) /\ (\A m \in s + 1 .. l : Quoted(m))
          => FieldsFit([n \in 1 .. l - s + 1 |-> s + n - 1])

\* And there are rows, within the parser's limits.
RowsInOrder ==
    /\ Lines # {} /\ RowsReadable
    /\ \A l \in Lines : ~ Quoted(l) => Kind(l) # "wide"
    /\ Len(rows) <= MaxRows

\* What can be turned into elements at all.
Extractable ==
    CASE doc.format = "csv" -> Len(doc.lines) <= MaxLines /\ RowsInOrder
      [] doc.format = "pdf" -> /\ BodyLines # {}
                               /\ {"broken", "corrupt"} \cap {Kind(l) : l \in Lines} = {}
      [] OTHER              -> Len(doc.lines) <= MaxLines /\ BodyLines # {}

\* A document fails when there is nothing to extract from it, a limit is exceeded, its
\* conversion gave up or ran out of time, a CSV file has an empty row, or the tokenizer
\* refuses its text, and is chunked otherwise (text.py:93-94, 259-274,
\* docling_pdf.py:57-89, structure_aware.py:112, 183, worker_pipeline.py:102-119). It
\* fails as an unexpected error only for an empty row or too long a field of a CSV file,
\* or for the tokenizer, which none of the text that was chunked offends.
OutcomeIsDeserved ==
    LET special == \E l \in Lines : Special(l)
    IN  /\ phase = "chunked" => Extractable /\ BodyTokens \cap Reserved = {}
        /\ phase = "failed" /\ doc.format # "pdf" => ~ Extractable \/ special
        /\ failure = "unexpected_processing_error" =>
               special \/ (doc.format = "csv" /\ ~ RowsReadable)

\* However many conversions ran out of time, the worker gets to the end of its jobs,
\* unless every thread of the pool is held for ever by a conversion that nobody waits
\* for (docling_pdf.py:45-58, worker_pipeline.py:65).
EveryDocumentSettles ==
    <>(batch = <<>> /\ phase = "idle") \/ <>[](abandoned = Threads)
=============================================================================
