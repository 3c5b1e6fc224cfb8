------------------------------- MODULE VdrCsv -------------------------------
(***************************************************************************)
(* The rows of CSV files: how the recorder writes one                      *)
(* (RecordPlayMgr::FormatNmea0183AsCsv), and the two readers of the        *)
(* program: TimestampParser::ParseCsvLineTimestamp, with                   *)
(* RecordPlayMgr::ParseCSVHeader, for the two modes that read a file line  *)
(* by line, and the CSV library (src/libs/fast-cpp-csv-parser/...), as     *)
(* DataMonitorReplayMgr instantiates it, for the loopback replay.          *)
(*                                                                         *)
(* A text is a sequence of the four characters that the code tells apart;  *)
(* x is any other.  The names of columns are values: the first reader      *)
(* looks for two parts of names, the library is told whole names, none of  *)
(* which has one of these parts.                                           *)
(* The first reader takes a step per character, the second one per column. *)
(* A text that is a time stamp is Stamp; the conversion of a stamp is not  *)
(* modelled.                                                               *)
(***************************************************************************)
EXTENDS Integers, Sequences, FiniteSets, SequencesExt

CONSTANTS
  Rows,      \* the rows to read
  Headers,   \* the headers they are read under: sequences of names
  Messages,  \* the messages that the recorder writes
  Wanted     \* the names that DataMonitorReplayMgr tells the library

Comma == "comma"
Quote == "quote"
Space == "space"
Chars == {Comma, Quote, Space, "x"}

Stamp == <<"x">>

\* What ParseCSVHeader looks for: a name is the one of these that it contains.
Sought == {"timestamp", "message"}

Names == Sought \union Wanted \union {"other"}

ASSUME CsvAssumption ==
  /\ Rows \subseteq Seq(Chars)
  /\ Wanted # {} /\ Wanted \intersect (Sought \union {"other"}) = {}
  /\ Headers \subseteq Seq(Names)
  /\ Messages \subseteq Seq(Chars)

VARIABLES
  reader,    \* which of the two reads
  header,    \* names of the columns
  row,       \* the row
  place,     \* characters of row that were read; the library: -1 after the last column
  quoted,    \* in_quotes
  field,     \* current_field
  fields,    \* fields; the library: the columns in their order, chopped
  state      \* "header" or "rejected"; "row", "done" or "failed"

rowVars == <<reader, header, row, place, quoted, field, fields, state>>

Readers == {"lines", "library"}
AtEnd == -1

-----------------------------------------------------------------------------
(* Texts.                                                                  *)

Repeated(c) == IF c = Quote THEN <<Quote, Quote>> ELSE <<c>>

\* A text with every quote doubled, between quotes.
Enclosed(text) ==
  <<Quote>> \o FlattenSeq([i \in DOMAIN text |-> Repeated(text[i])]) \o <<Quote>>

\* The positions of the characters that are not trimmed.
Inner(text) ==
  {i \in DOMAIN text : /\ \E j \in 1..i : text[j] # Space
                       /\ \E j \in i..Len(text) : text[j] # Space}

\* wxString::Strip, trim_chars::trim
Trimmed(text) ==
  IF Inner(text) = {} THEN <<>> ELSE SubSeq(text, Min(Inner(text)), Max(Inner(text)))

\* A fault: quotes are not doubled.
FormatPlain(message) ==
  Stamp \o <<Comma, "x", Comma, Comma, Quote>> \o Trimmed(message) \o <<Quote>>

\* FormatNmea0183AsCsv: timestamp,type,id,message
FormatNmea0183AsCsv(message) ==
  Stamp \o <<Comma, "x", Comma, Comma>> \o Enclosed(Trimmed(message))

\* The columns of that name.
Columns(name) == {i \in DOMAIN header : header[i] = name}

\* timestamp,type,id,message
RecordedHeader == <<"timestamp", "other", "other", "message">>

-----------------------------------------------------------------------------
(* The reader of RecordPlayMgr and TimestampParser.                        *)

\* Of several columns with the name the last counts.
Index(name) == IF Columns(name) = {} THEN 0 ELSE Max(Columns(name))

\* Without both columns this is no CSV file.
ParseCSVHeader ==
  /\ reader = "lines" /\ state = "header"
  /\ state' = IF Sought \subseteq ToSet(header) THEN "row" ELSE "rejected"
  /\ UNCHANGED <<reader, header, row, place, quoted, field, fields>>

\* A fault: a doubled quote is two quotes.
ReadQuoteSingly ==
  /\ quoted' = ~quoted /\ place' = place + 1 /\ UNCHANGED <<field, fields>>

\* A quote that is not the first of two inside quotes is dropped.
ReadQuote ==
  IF quoted /\ place + 1 < Len(row) /\ row[place + 2] = Quote
  THEN field' = Append(field, Quote) /\ place' = place + 2 /\ UNCHANGED <<quoted, fields>>
  ELSE quoted' = ~quoted /\ place' = place + 1 /\ UNCHANGED <<field, fields>>

ReadOther(c) ==
  /\ place' = place + 1
  /\ IF c = Comma /\ ~quoted THEN fields' = Append(fields, field) /\ field' = <<>>
     ELSE field' = Append(field, c) /\ UNCHANGED fields
  /\ UNCHANGED quoted

ReadChar ==
  /\ reader = "lines" /\ state = "row" /\ place < Len(row)
  /\ LET c == row[place + 1] IN IF c = Quote THEN ReadQuote ELSE ReadOther(c)
  /\ UNCHANGED <<reader, header, row, state>>

\* The end of the row: a stamp that is there has to parse, the message has to
\* be there.
EndOfRow ==
  /\ reader = "lines" /\ state = "row" /\ place = Len(row)
  /\ fields' = Append(fields, field)
  /\ state' = IF \/ Index("timestamp") <= Len(fields') /\ fields'[Index("timestamp")] # Stamp
                 \/ Index("message") > Len(fields')
              THEN "failed" ELSE "done"
  /\ UNCHANGED <<reader, header, row, place, quoted, field>>

-----------------------------------------------------------------------------
(* The CSV library: CSVReader<N, trim_chars<' '>, double_quote_escape>.     *)

\* parse_header_line with ignore_extra_column: each wanted column once.
ReadHeader ==
  /\ reader = "library" /\ state = "header"
  /\ state' = IF \A name \in Wanted : Cardinality(Columns(name)) = 1
              THEN "row" ELSE "rejected"
  /\ UNCHANGED <<reader, header, row, place, quoted, field, fields>>

\* The quotes after the one at position i: the first of them closes it.
Closes(i) == {j \in i+1..Len(row) : row[j] = Quote}

\* find_next_column_end, from position i of the row: the position of the comma
\* that ends the column or of the end of the row, or 0 if a quote is not closed.
ColumnEnd(i) ==
  LET end[j \in 1..Len(row)+1] ==
        IF j = Len(row) + 1 THEN j
        ELSE IF row[j] = Comma THEN j
        ELSE IF row[j] # Quote THEN end[j + 1]
        ELSE IF Closes(j) = {} THEN 0 ELSE end[Min(Closes(j)) + 1]
  IN  end[i]

\* unescape: the quotes around the text go, and one of each pair between them.
Unescaped(text) ==
  LET inner == SubSeq(text, 2, Len(text) - 1)
      from[i \in 1..Len(inner)+2] ==
        IF i > Len(inner) THEN <<>>
        ELSE IF inner[i] = Quote /\ i < Len(inner) /\ inner[i + 1] = Quote
        THEN <<Quote>> \o from[i + 2]
        ELSE <<inner[i]>> \o from[i + 1]
  IN  IF Len(text) >= 2 /\ text[1] = Quote /\ Last(text) = Quote THEN from[1] ELSE text

\* chop_next_column and the body of parse_line.  Columns that are not wanted are
\* left as they are.
ReadColumn ==
  /\ reader = "library" /\ state = "row" /\ Len(fields) < Len(header)
  /\ IF place = AtEnd \/ ColumnEnd(place + 1) = 0
     THEN state' = "failed" /\ UNCHANGED <<place, fields>>      \* too_few_columns, or not closed
     ELSE LET end == ColumnEnd(place + 1)
              column == SubSeq(row, place + 1, end - 1)
          IN  /\ place' = IF end = Len(row) + 1 THEN AtEnd ELSE end
              /\ fields' = Append(fields,
                   IF header[Len(fields) + 1] \in Wanted THEN Unescaped(Trimmed(column)) ELSE column)
              /\ UNCHANGED state
  /\ UNCHANGED <<reader, header, row, quoted, field>>

\* The position of the column that col_order has for a name: the header has one.
Column(name) == CHOOSE i \in Columns(name) : TRUE

\* What read_row hands over for a name (parse_helper; a text is not converted).
ParseHelper(name) == fields[Column(name)]

\* A row may not have more columns than the header (too_many_columns).
AllColumns ==
  /\ reader = "library" /\ state = "row" /\ Len(fields) = Len(header)
  /\ state' = IF place = AtEnd THEN "done" ELSE "failed"
  /\ UNCHANGED <<reader, header, row, place, quoted, field, fields>>

-----------------------------------------------------------------------------

\* Any row under any header, and what the recorder writes.
RowInit ==
  /\ reader \in Readers
  /\ \/ header \in Headers /\ row \in Rows
     \/ header = RecordedHeader /\ row \in {FormatNmea0183AsCsv(m) : m \in Messages}
  /\ place = 0 /\ quoted = FALSE /\ field = <<>> /\ fields = <<>>
  /\ state = "header"

RowNext ==
  \/ ParseCSVHeader
  \/ ReadChar
  \/ EndOfRow
  \/ ReadHeader
  \/ ReadColumn
  \/ AllColumns

RowSpec == RowInit /\ [][RowNext]_rowVars

-----------------------------------------------------------------------------
(* What a row says, defined from its text.                                 *)

QuotesBefore(i) == Cardinality({j \in 1..i-1 : row[j] = Quote})

\* The commas with an even number of quotes before them.
Separators == {i \in DOMAIN row : row[i] = Comma /\ QuotesBefore(i) % 2 = 0}

Closed == QuotesBefore(Len(row) + 1) % 2 = 0

Width == Cardinality(Separators) + 1

\* The separators before position i.
Before(i) == Cardinality({s \in Separators : s < i})

\* The position after the n-th column, for n <= Width: a separator or the end.
EndOf(n) == CHOOSE e \in Separators \union {Len(row) + 1} : Before(e) = n - 1

\* The text of the n-th column.
Part(n) == SubSeq(row, IF n = 1 THEN 1 ELSE EndOf(n - 1) + 1, EndOf(n) - 1)

\* The text is written for the value: as it is, or between quotes.
Writes(text, value) == text = Enclosed(value) \/ (text = value /\ Quote \notin ToSet(text))

\* Every value that a text of the row could be written for.
Values == {Part(n) : n \in 1..Width} \union {SubSeq(row, i, j) : i, j \in DOMAIN row}

-----------------------------------------------------------------------------
(* Safety.                                                                 *)

\* What the recorder writes of a message RecordPlayMgr reads back as one row,
\* whose message is the one recorded without the spaces around it.  The library,
\* with the names it is told, rejects the file by its header and never reads a
\* row of it for something else.
RecordedIsRead ==
  header = RecordedHeader =>
    IF reader = "library" THEN state \in {"header", "rejected"}
    ELSE \A m \in Messages :
           row = FormatNmea0183AsCsv(m) =>
             /\ state \notin {"rejected", "failed"}
             /\ state = "done" => fields[1] = Stamp /\ Last(fields) = Trimmed(m)

\* The reader of RecordPlayMgr splits a row at its separators, whatever is in
\* it, and reads each column that is written in one of the two ways.
FieldsAreColumns ==
  /\ Len(fields) = Width
  /\ \A n \in 1..Width : \A v \in Values : Writes(Part(n), v) => fields[n] = v

\* The library reads a row if it has as many columns as the header and every
\* quote is closed; then it reads each wanted column that is written in one of
\* the two ways, spaces around it left aside.
RowsOfTheLibrary ==
  /\ state = "done" <=> Closed /\ Width = Len(header)
  /\ state = "done" =>
       \A name \in Wanted : \A v \in Values :
         Writes(Trimmed(Part(Column(name))), v) => ParseHelper(name) = v

\* Each reader reads what a row says, whatever is in it.
ReadAsWritten ==
  state \in {"done", "failed"} =>
    IF reader = "lines" THEN FieldsAreColumns ELSE RowsOfTheLibrary

=============================================================================
