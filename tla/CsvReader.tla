------------------------------ MODULE CsvReader ------------------------------
(***************************************************************************)
(* The loader's CSV reader, as functions of a text: parseCsv, and the fast  *)
(* record count the progress plan is made from.  A text is a sequence of   *)
(* characters: the delimiter (matched as a whole, so one character here),  *)
(* the quote, the two of a line end, and others.                           *)
(***************************************************************************)
EXTENDS Integers, Sequences, SequencesExt

Delim == "|"
Quote == "q"
LF == "n"
CR == "r"

-----------------------------------------------------------------------------
(* parseCsv *)

end_field(s) == [s EXCEPT !.fields = Append(@, s.field), !.field = <<>>, !.field_started = FALSE]

\* The first record is the header; its width is every record's.
end_row(s) ==
    LET r == end_field(s)
    IN [r EXCEPT !.rows = Append(@, r.fields), !.fields = <<>>, !.row_started = FALSE,
                 !.failed = @ \/ (r.rows # <<>> /\ Len(r.fields) # Len(r.rows[1]))]

HasContent(s) == s.row_started \/ s.field # <<>> \/ s.fields # <<>>

\* Bug: a quote opens a quoted section anywhere in a field.
MutStep(text, s, i) ==
    LET c == text[i]
        put(r) == [r EXCEPT !.field = Append(@, c), !.field_started = TRUE, !.row_started = TRUE]
        pair == i < Len(text) /\ text[i + 1] = Quote
    IN CASE s.skip -> [s EXCEPT !.skip = FALSE]
         [] s.in_quotes /\ c = Quote /\ pair -> [s EXCEPT !.field = Append(@, Quote), !.skip = TRUE]
         [] s.in_quotes /\ c = Quote /\ ~pair -> [s EXCEPT !.in_quotes = FALSE]
         [] s.in_quotes /\ c # Quote -> [s EXCEPT !.field = Append(@, c)]
         [] ~s.in_quotes /\ c = Quote -> [s EXCEPT !.in_quotes = TRUE, !.field_started = TRUE, !.row_started = TRUE]
         [] ~s.in_quotes /\ c = Delim -> [end_field(s) EXCEPT !.row_started = TRUE]
         [] ~s.in_quotes /\ c = LF -> IF HasContent(s) THEN end_row(s) ELSE s
         [] ~s.in_quotes /\ c = CR /\ i < Len(text) /\ text[i + 1] = LF -> s
         [] OTHER -> put(s)

\* One round of the loop.  A quote opens a quoted field only as its first
\* character; in one, two quotes are one and a line end is a character.
Step(text, s, i) ==
    LET c == text[i]
        put(r) == [r EXCEPT !.field = Append(@, c), !.field_started = TRUE, !.row_started = TRUE]
        pair == i < Len(text) /\ text[i + 1] = Quote
    IN CASE s.skip -> [s EXCEPT !.skip = FALSE]
         [] s.in_quotes /\ c = Quote /\ pair -> [s EXCEPT !.field = Append(@, Quote), !.skip = TRUE]
         [] s.in_quotes /\ c = Quote /\ ~pair -> [s EXCEPT !.in_quotes = FALSE]
         [] s.in_quotes /\ c # Quote -> [s EXCEPT !.field = Append(@, c)]
         [] ~s.in_quotes /\ c = Quote /\ ~s.field_started ->
               [s EXCEPT !.in_quotes = TRUE, !.field_started = TRUE, !.row_started = TRUE]
         [] ~s.in_quotes /\ c = Delim -> [end_field(s) EXCEPT !.row_started = TRUE]
         [] ~s.in_quotes /\ c = LF -> IF HasContent(s) THEN end_row(s) ELSE s
         [] ~s.in_quotes /\ c = CR /\ i < Len(text) /\ text[i + 1] = LF -> s
         [] OTHER -> put(s)

Start == [fields |-> <<>>, field |-> <<>>, rows |-> <<>>, in_quotes |-> FALSE, field_started |-> FALSE,
          row_started |-> FALSE, skip |-> FALSE, failed |-> FALSE]

\* The header and the records, or an error: a width that differs, an
\* unterminated quote, no header.
parseCsv(text) ==
    LET step(s, i) == Step(text, s, i)
        read == FoldLeft(step, Start, [i \in DOMAIN text |-> i])
        last == IF HasContent(read) THEN end_row(read) ELSE read
    IN [ok |-> ~read.in_quotes /\ ~last.failed /\ last.rows # <<>>, rows |-> last.rows]

-----------------------------------------------------------------------------
(* countCsvRecords *)

\* io::LineReader: the physical lines, a carriage return at their end removed.
Lines(text) ==
    LET chop(l) == IF l # <<>> /\ Last(l) = CR THEN Front(l) ELSE l
        add(s, c) == IF c = LF THEN [lines |-> Append(s.lines, chop(s.line)), line |-> <<>>]
                     ELSE [s EXCEPT !.line = Append(@, c)]
        read == FoldLeft(add, [lines |-> <<>>, line |-> <<>>], text)
    IN IF read.line = <<>> THEN read.lines ELSE Append(read.lines, chop(read.line))

field_count(line) == 1 + Len(SelectSeq(line, LAMBDA c : c = Delim))

\* Bug: blank lines are counted.
MutCount(text) ==
    LET lines == Lines(text)
        data == IF lines = <<>> THEN <<>> ELSE Tail(lines)
    IN [ok |-> lines # <<>> /\ \A i \in DOMAIN data : field_count(data[i]) = field_count(lines[1]),
        records |-> Len(data)]

\* No quote in the text: the lines after the first that are not blank, each as
\* wide as the first.
tryCountByPhysicalLines(text) ==
    LET lines == Lines(text)
        data == IF lines = <<>> THEN <<>> ELSE SelectSeq(Tail(lines), LAMBDA l : l # <<>>)
    IN [ok |-> lines # <<>> /\ \A i \in DOMAIN data : field_count(data[i]) = field_count(lines[1]),
        records |-> Len(data)]

countCsvRecords(text) ==
    LET p == parseCsv(text)
    IN IF Contains(text, Quote) THEN [ok |-> p.ok, records |-> Len(p.rows) - 1]
       ELSE tryCountByPhysicalLines(text)

-----------------------------------------------------------------------------
(* Reference: writing a table *)

Doubled(f) == FlattenSeq([i \in DOMAIN f |-> IF f[i] = Quote THEN <<Quote, Quote>> ELSE <<f[i]>>])
Quoted(f) == <<Quote>> \o Doubled(f) \o <<Quote>>

\* A field that needs no quotes in a record of n fields.
MayBePlain(f, n) ==
    /\ ~Contains(f, Delim) /\ ~Contains(f, LF)
    /\ f # <<>> => Head(f) # Quote /\ Last(f) # CR
    /\ f = <<>> => n > 1

Write(row, plain, eol) ==
    LET field(i) == IF plain[i] /\ MayBePlain(row[i], Len(row)) THEN row[i] ELSE Quoted(row[i])
    IN FlattenSeq([i \in DOMAIN row |-> IF i = 1 THEN field(i) ELSE <<Delim>> \o field(i)]) \o eol

\* A table that is written, each field with or without quotes, its lines
\* ended by LF or CRLF, is read back as it was: header, fields and order.
RoundTrip(rows, plain, eol) ==
    LET read == parseCsv(FlattenSeq([i \in DOMAIN rows |-> Write(rows[i], plain, eol)]))
    IN read.ok /\ read.rows = rows

\* The count the plan is made from is the number of records the file loads, and
\* the two reject the same files, but for a text that begins with a blank line
\* (the count takes it for the header) and one that ends in a carriage return.
CountAgrees(text) ==
    LET p == parseCsv(text)
        c == countCsvRecords(text)
        blank == text # <<>> /\ (Head(text) = LF \/ IsPrefix(<<CR, LF>>, text))
    IN ~blank /\ (text # <<>> => Last(text) # CR)
         => c.ok = p.ok /\ (p.ok => c.records = Len(p.rows) - 1)
=============================================================================
