---------------------------- MODULE MCExtraction ----------------------------
(* Instances of Extraction for TLC: every file of a few lines, in every format. *)
EXTENDS Extraction

CONSTANTS TextLines, MarkdownLines, LogLines, CsvLines, PdfItems

FilesOf(format, kinds, n) ==
    {[format |-> format, lines |-> ls] : ls \in BoundedSeq(kinds, n)}

\* Code with more blank lines between two others than a window holds.
SpacedCode == [format |-> "markdown",
               lines |-> <<"fence">> \o [n \in 1 .. 6 |-> "blank"] \o <<"text">>]
OverLong(format) == [format |-> format, lines |-> [n \in 1 .. MaxLines + 1 |-> "text"]]
Pdf == [format |-> "pdf", lines |-> <<"text">>]
Csv == [format |-> "csv", lines |-> <<"text">>]

MCFiles ==
    FilesOf("text", {"blank", "text", "long", "special"}, TextLines)
    \cup FilesOf("markdown", {"blank", "text", "fence", "h1", "h2", "h3"}, MarkdownLines)
    \cup FilesOf("markdown", {"text", "fence", "h1", "h6", "hs", "special"}, TextLines)
    \cup FilesOf("log", {"blank", "text", "stamp", "long"}, LogLines)
    \cup FilesOf("csv", {"blank", "text", "ragged", "wide", "quote"}, CsvLines)
    \cup FilesOf("csv", {"text", "special", "quote", "empty"}, CsvLines)
    \cup FilesOf("pdf", {"blank", "text", "h1", "h3", "table", "unplaced", "spread",
                         "special", "broken", "corrupt"}, PdfItems)
    \cup {SpacedCode} \cup {OverLong(f) : f \in {"text", "csv"}}

\* One file at a time, and files in a row that compete for threads.
MCBatches == {<<f>> : f \in MCFiles} \cup {<<Pdf, Pdf, Csv>>, <<Pdf, Pdf, Pdf>>}

MCToken == {Whitespace} \cup ((0 .. MaxLines + 1) \X (-1 .. LongTokens + 1))
MCReserved == (0 .. MaxLines + 1) \X {-1, LongTokens + 1}
=============================================================================
