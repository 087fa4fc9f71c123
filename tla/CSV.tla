--------------------------------- MODULE CSV ---------------------------------
(***************************************************************************)
(* FileFormatCSV: tables with a tab between two cells and a line for each  *)
(* row, written to a buffer and read back.  A text is a sequence of tabs,  *)
(* carriage returns, line feeds and other characters; a cell is one too,   *)
(* and nothing is escaped.                                                 *)
(***************************************************************************)
EXTENDS Naturals, FiniteSets, SequencesExt

NewLine == <<"\r", "\n">>

Breaks == {"\r", "\n"}

Fresh(useColumns) == [rows |-> << >>, columns |-> << >>, useColumns |-> useColumns, endsWithNL |-> FALSE]

\* The parts one behind the other, with the separator between two of them.
Joined(parts, separator) ==
    LET upTo[n \in DOMAIN parts] ==
            IF n = 1 THEN parts[1] ELSE upTo[n - 1] \o separator \o parts[n]
    IN  IF parts = << >> THEN << >> ELSE upTo[Len(parts)]

Line(cells) == Joined(cells, <<"\t">>)

writeCSVToBuffer(table) ==
    (IF table.useColumns THEN Line(table.columns) \o NewLine ELSE << >>)
    \o Joined([i \in DOMAIN table.rows |-> Line(table.rows[i])], NewLine)
    \o (IF table.endsWithNL THEN NewLine ELSE << >>)

\* Mutants: an empty cell at the end of a line is forgotten; a break is always one character.
CellsBetweenTabs(line) ==
    FoldLeft(LAMBDA cells, c : IF c = "\t" THEN Append(cells, << >>)
                               ELSE [cells EXCEPT ![Len(cells)] = Append(@, c)],
             << << >> >>, IF line # << >> /\ Last(line) = "\t" THEN Front(line) ELSE line)

BehindOne(text, e) == IF e \in DOMAIN text THEN e + 1 ELSE e

\* FastCsvTable::scanLine: a line has a cell more than it has tabs.
Scanned(cells, c) == IF c = "\t" THEN Append(cells, << >>)
                     ELSE [cells EXCEPT ![Len(cells)] = Append(@, c)]
Cells(line) ==
    LET upTo[i \in 0 .. Len(line)] ==
            IF i = 0 THEN << << >> >> ELSE Scanned(upTo[i - 1], line[i])
    IN  upTo[Len(line)]

\* Where the line that begins at the i-th character ends, and where the next one begins: behind
\* a carriage return, a line feed, or the one followed by the other.
LineEnd(text, i) ==
    CHOOSE e \in i .. Len(text) + 1 :
        /\ e <= Len(text) => text[e] \in Breaks
        /\ \A j \in i .. e - 1 : text[j] \notin Breaks

Is(text, i, c) == i \in DOMAIN text /\ text[i] = c

Behind(text, e) ==
    LET cr == IF Is(text, e, "\r") THEN e + 1 ELSE e
    IN IF Is(text, cr, "\n") THEN cr + 1 ELSE cr

\* The next line, from where s.at is.  There is no line behind the last line break.
scanLine(text, s) ==
    LET e == LineEnd(text, s.at)
    IN  IF s.at > Len(text) THEN s
        ELSE [at |-> Behind(text, e), rows |-> Append(s.rows, Cells(SubSeq(text, s.at, e - 1)))]

\* The cells of every line: there are no more of them than characters.
Lines(text) ==
    LET after[n \in 0 .. Len(text)] ==
            IF n = 0 THEN [at |-> 1, rows |-> << >>] ELSE scanLine(text, after[n - 1])
    IN  after[Len(text)].rows

\* The rows read are added to those there are.
WithRows(table, text, lines) ==
    [table EXCEPT !.endsWithNL = Is(text, Len(text), "\n"), !.rows = @ \o lines]

\* A table with columns is not read from a text without a line.
MayRead(text, table) == table.useColumns => text # << >>

readCSVFromBuffer(text, table) == LET lines == Lines(text) IN
    IF table.useColumns THEN WithRows([table EXCEPT !.columns = Head(lines)], text, Tail(lines))
                        ELSE WithRows(table, text, lines)

-----------------------------------------------------------------------------
CONSTANTS
    Char,      \* what texts and cells are made of
    Given,     \* the rows and names of columns a program fills tables with, whatever is in them
    MaxText,   \* bound: the longest text a program begins with
    MaxWritten, \* bound: the longest text written
    MaxRows    \* bound: the rows of a table that is added to

ASSUME GivenAssumption == Given \subseteq Seq(Seq(Char))

VARIABLES text, table

csvVars == <<text, table>>

CsvInit ==
    /\ text \in UNION {[1 .. n -> Char] : n \in 0 .. MaxText}
    /\ \E useColumns \in BOOLEAN : table = Fresh(useColumns)

\* What was read into a table is written, into a new one or one that holds rows already.
Write ==
    /\ text' = writeCSVToBuffer(table)
    /\ Len(text') <= MaxWritten
    /\ UNCHANGED table

ReadNew == \E useColumns \in BOOLEAN : LET new == Fresh(useColumns) IN
    /\ table' = IF MayRead(text, new) THEN readCSVFromBuffer(text, new) ELSE new
    /\ UNCHANGED text

ReadMore ==
    /\ MayRead(text, table)
    /\ table' = readCSVFromBuffer(text, table)
    /\ Len(table'.rows) <= MaxRows
    /\ UNCHANGED text

\* A program fills a table, all of which is public.
EndWith ==
    /\ \E nl \in BOOLEAN : table' = [table EXCEPT !.endsWithNL = nl]
    /\ UNCHANGED text

AddRow ==
    /\ Len(table.rows) < MaxRows
    /\ \E row \in Given : table' = [table EXCEPT !.rows = Append(@, row)]
    /\ UNCHANGED text

NameColumns ==
    /\ \E names \in Given : table' = [table EXCEPT !.columns = names]
    /\ UNCHANGED text

CsvNext == Write \/ ReadNew \/ ReadMore \/ EndWith \/ AddRow \/ NameColumns

CsvSpec == CsvInit /\ [][CsvNext]_csvVars

-----------------------------------------------------------------------------
\* Cells without a tab or a line break, which nothing would tell from those that separate them.
Unbroken(cells) == \A i \in DOMAIN cells : \A j \in DOMAIN cells[i] : cells[i][j] \notin Breaks \cup {"\t"}

Clean(t) ==
    /\ Unbroken(t.columns)
    /\ \A i \in DOMAIN t.rows : t.rows[i] # << >> /\ Unbroken(t.rows[i])

\* A table that its text tells apart from any other: a clean one, with columns if it uses them, and
\* a row, the last of which is not one empty cell that nothing follows.
Distinct(t) ==
    /\ Clean(t)
    /\ t.useColumns <=> t.columns # << >>
    /\ t.rows # << >>
    /\ t.endsWithNL \/ Last(t.rows) # << << >> >>

\* What is written of such a table is what is read, cell by cell, with empty cells and rows, with
\* and without columns and a line break at the end (writeCSVToBuffer, readCSVFromBuffer).
WrittenIsRead ==
    [][Write /\ Distinct(table) => readCSVFromBuffer(text', Fresh(table.useColumns)) = table]_csvVars

\* Where a line break ends: a carriage return and the line feed behind it are one.
Ends == {i \in DOMAIN text : text[i] \in Breaks /\ ~(text[i] = "\r" /\ Is(text, i + 1, "\n"))}

LineCount == Cardinality(Ends) + Cardinality({Len(text)} \ (Ends \cup {0}))

\* The lines are in a table behind its first rows: every line is one, with a cell more than tabs
\* and all other characters in their order.
Holds(t, first) ==
    LET lines == (IF t.useColumns THEN <<t.columns>> ELSE << >>) \o SubSeq(t.rows, first + 1, Len(t.rows))
        cells == FlattenSeq(lines)
    IN  /\ Len(lines) = LineCount
        /\ Len(cells) = LineCount + Cardinality({i \in DOMAIN text : text[i] = "\t"})
        /\ FlattenSeq(cells) = SelectSeq(text, LAMBDA c : c \notin Breaks \cup {"\t"})

\* However the lines of a text are broken, mixed or empty, and whether or not the last one is ended,
\* reading loses none and makes none up, in a new table and behind rows that are there
\* (FastCsvTable::scanLine, readCSVFromBuffer).
EveryLineIsRead ==
    [][MayRead(text, table') =>
          /\ ReadNew => Holds(table', 0)
          /\ ReadMore => Holds(table', Len(table.rows))]_csvVars

=============================================================================
