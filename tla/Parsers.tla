------------------------------- MODULE Parsers -------------------------------
(***************************************************************************)
(* The parsers (app/infrastructure/parsers/text.py, docling_pdf.py): loops *)
(* over the lines of a file, the rows of a CSV file or the items of a      *)
(* converted PDF that build the list of elements.                          *)
(*                                                                         *)
(* A line is a kind: what the parsers' tests tell apart in it. Its tokens  *)
(* are pairs <<line, k>>, so that a chunk can be traced back to its lines. *)
(***************************************************************************)
EXTENDS Chunking, SequencesExt

CONSTANTS
    LongTokens,       \* tokens in a "long" line; every other line has one
    MaxLines,         \* max_text_lines
    MaxRows,          \* max_csv_rows
    MaxColumns,       \* max_csv_columns
    MaxFieldTokens,   \* csv.field_size_limit(), counted in tokens
    MaxElementTokens  \* max_element_characters, counted in tokens

ASSUME ParsersAssumption ==
    /\ LongTokens \in Nat /\ LongTokens > 1
    /\ MaxLines \in Nat /\ MaxRows \in Nat
    /\ MaxColumns \in Nat /\ MaxColumns > 1 \* those of an ordinary row
    /\ MaxFieldTokens \in Nat /\ MaxFieldTokens > 0
    /\ MaxElementTokens \in Nat /\ MaxElementTokens > 0
    /\ Whitespace \in Token /\ Whitespace \notin Nat \X Int
    /\ Reserved = Token \cap (Nat \X {-1, LongTokens + 1})

VARIABLES
    doc,       \* the file: its format and its lines
    phase,     \* where the worker is with it
    line,      \* the line (row, item) the parser's loop has reached
    buffer,    \* the lines of the element being gathered
    from,      \* the line it started at: start, buffer_start
    fenced,    \* in_code
    hierarchy, \* the headings the parser takes to enclose the line, as tokens
    rows,      \* the rows csv.reader returned, each the lines it was read from
    warnings,  \* warning_codes
    failure    \* the failure code of the job, or "none"

parserVars == <<line, buffer, from, fenced, hierarchy, rows, warnings>>

Lines == DOMAIN doc.lines
Kind(l) == doc.lines[l]
Solid(l) == l \in Lines /\ Kind(l) # "blank"

\* A line of the tokenizer's special text; "hs" is a heading of the first level with it.
Special(l) == Kind(l) \in {"special", "hs"}

IsHeading(k) == k \in {"h1", "h2", "h3", "h4", "h5", "h6", "hs"}
Level(k) ==
    IF k = "hs" THEN 1
    ELSE CHOOSE n \in 1 .. 6 : k = <<"h1", "h2", "h3", "h4", "h5", "h6">>[n]

LineTokens(l) ==
    CASE Kind(l) = "blank"  -> <<Whitespace>>
      [] Kind(l) = "long"   -> [k \in 1 .. LongTokens |-> <<l, k>>]
      [] Kind(l) = "spread" -> <<<<l, 1>>, <<l, 2>>>>
      [] Special(l)         -> <<<<l, LongTokens + 1>>>>
      [] OTHER              -> <<<<l, 1>>>>

\* A heading as the context of what follows it.
HeadingToken(l) == IF Special(l) THEN <<l, -1>> ELSE <<l, 0>>
CsvPath == <<<<0, 0>>>>

-----------------------------------------------------------------------------
(* Elements. *)

\* text[:max_characters]
Bounded(text) == SubSeq(text, 1, Min({Len(text), MaxElementTokens}))

\* _element
Element(type, text, path, first, last) ==
    [type |-> type, text |-> Bounded(text), path |-> path, first |-> first, last |-> last]

TextOf(ls) == FlattenSeq([j \in DOMAIN ls |-> LineTokens(ls[j])])

\* The buffer as an element, when there is something in it.
Flushed(type, last) ==
    IF buffer = <<>>
    THEN elements
    ELSE Append(elements, Element(type, TextOf(buffer), hierarchy, from, last))

\* Mutant: the start is set only once.
StartKept ==
    /\ buffer' = Append(buffer, line)
    /\ from' = from
Gathered ==
    /\ buffer' = Append(buffer, line)
    /\ from' = IF buffer = <<>> THEN line ELSE from

\* Mutant: hierarchy[: level].
DescendTooLittle(level) ==
    Append(SubSeq(hierarchy, 1, Min({level, Len(hierarchy)})), HeadingToken(line))
\* hierarchy[: level - 1] with the heading appended
Descend(level) ==
    Append(SubSeq(hierarchy, 1, Min({level - 1, Len(hierarchy)})), HeadingToken(line))

Parsing(format) == phase = "parsing" /\ doc.format = format
NextLine == line' = line + 1

Fail(code) ==
    /\ phase' = "failed"
    /\ failure' = code

\* _parsed: a document without elements is an error.
Parsed(list) ==
    /\ elements' = list
    /\ IF list = <<>>
       THEN Fail("processing_failed")
       ELSE phase' = "parsed" /\ UNCHANGED failure

-----------------------------------------------------------------------------
(* PlainTextParser.parse: paragraphs between blank lines. *)

PlainText ==
    /\ Parsing("text") /\ line <= Len(doc.lines)
    /\ IF Solid(line)
       THEN Gathered /\ UNCHANGED elements
       ELSE buffer' = <<>> /\ elements' = Flushed("paragraph", line - 1) /\ UNCHANGED from
    /\ NextLine
    /\ UNCHANGED <<fenced, hierarchy, rows, warnings, phase, failure>>

\* Mutant: the loop without its final empty line.
NoSentinel ==
    /\ Parsing("text") /\ line > Len(doc.lines)
    /\ Parsed(elements)
    /\ buffer' = <<>>
    /\ UNCHANGED <<line, from, fenced, hierarchy, rows, warnings>>

\* The empty line the loop appends ends the last paragraph.
PlainTextEnd ==
    /\ Parsing("text") /\ line > Len(doc.lines)
    /\ Parsed(Flushed("paragraph", line - 1))
    /\ buffer' = <<>>
    /\ UNCHANGED <<line, from, fenced, hierarchy, rows, warnings>>

-----------------------------------------------------------------------------
(* MarkdownParser.parse: headings, fenced code and paragraphs. *)

AtMarkdown == Parsing("markdown") /\ line <= Len(doc.lines)

MarkdownFence ==
    /\ AtMarkdown /\ Kind(line) = "fence"
    /\ IF fenced
       THEN /\ elements' = Append(elements,
                   Element("code", TextOf(Append(buffer, line)), hierarchy, from, line))
            /\ buffer' = <<>> /\ UNCHANGED from
       ELSE /\ elements' = Flushed("paragraph", line - 1)
            /\ buffer' = <<line>> /\ from' = line
    /\ fenced' = ~ fenced
    /\ NextLine
    /\ UNCHANGED <<hierarchy, rows, warnings, phase, failure>>

MarkdownCode ==
    /\ AtMarkdown /\ fenced /\ Kind(line) # "fence"
    /\ buffer' = Append(buffer, line)
    /\ NextLine
    /\ UNCHANGED <<elements, from, fenced, hierarchy, rows, warnings, phase, failure>>

MarkdownHeading ==
    /\ AtMarkdown /\ ~ fenced /\ IsHeading(Kind(line))
    /\ LET path == Descend(Level(Kind(line)))
       IN  /\ hierarchy' = path
           /\ elements' = Append(Flushed("paragraph", line - 1),
                                 Element("heading", LineTokens(line), path, line, line))
    /\ buffer' = <<>>
    /\ NextLine
    /\ UNCHANGED <<from, fenced, rows, warnings, phase, failure>>

MarkdownText ==
    /\ AtMarkdown /\ ~ fenced /\ Kind(line) # "fence" /\ ~ IsHeading(Kind(line))
    /\ IF Solid(line)
       THEN Gathered /\ UNCHANGED elements
       ELSE buffer' = <<>> /\ elements' = Flushed("paragraph", line - 1) /\ UNCHANGED from
    /\ NextLine
    /\ UNCHANGED <<fenced, hierarchy, rows, warnings, phase, failure>>

MarkdownEnd ==
    /\ Parsing("markdown") /\ line > Len(doc.lines)
    /\ Parsed(Flushed(IF fenced THEN "code" ELSE "paragraph", Len(doc.lines)))
    /\ warnings' = warnings \cup (IF fenced THEN {"unclosed_code_fence"} ELSE {})
    /\ buffer' = <<>>
    /\ UNCHANGED <<line, from, fenced, hierarchy, rows>>

-----------------------------------------------------------------------------
(* LogParser.parse: a record runs from a line with a stamp to the next one. *)

\* Mutant: a blank line ends a record too.
StampOrBlank(l) == Kind(l) \in {"stamp", "blank"}
\* _LOG_START.match
Stamp(l) == Kind(l) = "stamp"

LogLine ==
    /\ Parsing("log") /\ line <= Len(doc.lines)
    /\ LET stamp == Stamp(line)
           kept  == IF stamp THEN <<>> ELSE buffer
       IN  /\ elements' = IF stamp THEN Flushed("log_record", line - 1) ELSE elements
           /\ buffer' = IF Solid(line) THEN Append(kept, line) ELSE kept
           /\ from' = IF kept = <<>> THEN line ELSE from
           /\ warnings' = warnings \cup (IF buffer = <<>> /\ Solid(line) /\ ~ stamp
                                         THEN {"unstructured_log_record"} ELSE {})
    /\ NextLine
    /\ UNCHANGED <<fenced, hierarchy, rows, phase, failure>>

LogEnd ==
    /\ Parsing("log") /\ line > Len(doc.lines)
    /\ Parsed(Flushed("log_record", Len(doc.lines)))
    /\ buffer' = <<>>
    /\ UNCHANGED <<line, from, fenced, hierarchy, rows, warnings>>

-----------------------------------------------------------------------------
(* CSVParser.parse: csv.reader joins the lines of a quoted field into one  *)
(* row, then every row becomes an element.                                 *)

\* The text of a row, all of it in its last field. Blank lines of a field over several
\* are left out; two quotes are an empty field, but a quote within a quoted one.
RowText(row) ==
    IF Len(row) = 1 /\ Kind(row[1]) = "empty"
    THEN <<>>
    ELSE FlattenSeq([j \in DOMAIN row |->
                        IF Solid(row[j]) THEN LineTokens(row[j]) ELSE <<>>])

AtCsv == Parsing("csv") /\ line <= Len(doc.lines)

FieldsFit(row) == Len(RowText(row)) <= MaxFieldTokens

\* A "quote" line opens a quoted last field, or closes the one that is open.
CsvLine ==
    /\ AtCsv
    /\ LET row == Append(buffer, line)
           complete == (buffer = <<>>) # (Kind(line) = "quote")
       IN  /\ FieldsFit(row)
           /\ rows' = IF complete THEN Append(rows, row) ELSE rows
           /\ buffer' = IF complete THEN <<>> ELSE row
    /\ NextLine
    /\ UNCHANGED <<elements, from, fenced, hierarchy, warnings, phase, failure>>

\* csv.reader raises for a field that is too long, an unclosed quote's for one.
CsvFieldTooLong ==
    /\ AtCsv
    /\ ~ FieldsFit(Append(buffer, line))
    /\ Fail("unexpected_processing_error")
    /\ UNCHANGED <<elements, parserVars>>

\* The fields of a row; a blank line outside quotes is a row of none.
Width(row) ==
    IF Len(row) > 1 THEN 2
    ELSE CASE Kind(row[1]) = "blank"              -> 0
           [] Kind(row[1]) \in {"ragged", "empty"} -> 1
           [] Kind(row[1]) = "wide"               -> MaxColumns + 1
           [] OTHER                               -> 2

\* The whole file has been read, an open row included; the limits.
CsvRows ==
    /\ Parsing("csv") /\ line > Len(doc.lines)
    /\ LET all == IF buffer = <<>> THEN rows ELSE Append(rows, buffer)
       IN  /\ rows' = all
           /\ IF Len(all) > MaxRows \/ all = <<>> \/ Width(all[1]) > MaxColumns
              THEN Fail("processing_failed")
              ELSE phase' = "rows" /\ UNCHANGED failure
    /\ buffer' = <<>>
    /\ UNCHANGED <<elements, line, from, fenced, hierarchy, warnings>>

\* One row. An empty text is rejected by DocumentElement, not by the parser.
CsvRow ==
    /\ phase = "rows" /\ Len(elements) < Len(rows)
    /\ LET n   == Len(elements) + 1
           row == rows[n]
       IN  /\ warnings' = IF Width(row) # Width(rows[1]) /\ Width(row) <= MaxColumns
                          THEN warnings \cup {"ragged_csv_row"} ELSE warnings
           /\ IF Width(row) > MaxColumns THEN
                  Fail("processing_failed") /\ UNCHANGED elements
              ELSE IF RowText(row) = <<>> THEN
                  Fail("unexpected_processing_error") /\ UNCHANGED elements
              ELSE
                  /\ elements' = Append(elements,
                                     Element("table_row", RowText(row), CsvPath, n, n))
                  /\ UNCHANGED <<phase, failure>>
    /\ UNCHANGED <<line, buffer, from, fenced, hierarchy, rows>>

CsvEnd ==
    /\ phase = "rows" /\ Len(elements) = Len(rows)
    /\ Parsed(elements)
    /\ UNCHANGED parserVars

-----------------------------------------------------------------------------
(* DoclingPDFParser._parse_sync after the conversion: items in reading     *)
(* order; a location is the page, here the item's own place. An "unplaced" *)
(* item has no provenance, a "spread" one goes on where only its second    *)
(* one says.                                                               *)

\* _table_elements: every row carries the table's column names.
TableRows(l) == [k \in 1 .. 2 |-> Element("table_row", <<<<l, k>>>>, hierarchy, l, l)]

\* _location
Place(l) == IF Kind(l) = "unplaced" THEN 0 ELSE l

PdfItem ==
    /\ Parsing("pdf") /\ line <= Len(doc.lines)
    /\ LET kind  == Kind(line)
           place == Place(line)
           path  == IF IsHeading(kind) THEN Descend(Level(kind)) ELSE hierarchy
           type  == IF IsHeading(kind) THEN "heading" ELSE "paragraph"
       IN  /\ hierarchy' = path
           /\ elements' =
                CASE kind \in {"blank", "broken"} -> elements
                  [] kind = "table" -> elements \o TableRows(line)
                  [] OTHER -> Append(elements,
                         Element(type, LineTokens(line), path, place, place))
           /\ IF kind = "broken"
              THEN Fail("processing_failed") ELSE UNCHANGED <<phase, failure>>
    /\ NextLine
    /\ UNCHANGED <<buffer, from, fenced, rows, warnings>>

PdfEnd ==
    /\ Parsing("pdf") /\ line > Len(doc.lines)
    /\ Parsed(elements)
    /\ UNCHANGED parserVars

Parse ==
    \/ PlainText \/ PlainTextEnd
    \/ MarkdownFence \/ MarkdownCode \/ MarkdownHeading \/ MarkdownText \/ MarkdownEnd
    \/ LogLine \/ LogEnd
    \/ CsvLine \/ CsvFieldTooLong \/ CsvRows \/ CsvRow \/ CsvEnd
    \/ PdfItem \/ PdfEnd
=============================================================================
