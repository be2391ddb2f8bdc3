----------------------------- MODULE SheetsHandler -----------------------------
(***************************************************************************)
(* Workbooks (handlers/office_sheets.py, with the reading of an .ods in    *)
(* adapters/odf.py).  A workbook is [odf, opens, size, converted, sheets], *)
(* a sheet [name, rows, stated]: rows of cells, and how many rows and      *)
(* columns an .xlsx says that it has.  A cell is [value, formula]: what    *)
(* the application that saved the file left as its value, and its formula. *)
(*                                                                         *)
(* A reference in A1 notation is [letters, number], the letters each in    *)
(* 1 .. AlphabetSize; what is not one has no letters or the number 0.      *)
(***************************************************************************)
EXTENDS HandlerAnswers

CONSTANTS AlphabetSize,  (* 26 letters in the code                         *)
          ListedCells    (* how many cells a report names: 10 in the code  *)

(* Mutant of ToA1: letters as the digits of a number.                      *)
ToA1AsDigits(row, col) ==
  LET letters[n \in 0 .. col] ==
        IF n < AlphabetSize THEN <<n + 1>>
        ELSE Append(letters[n \div AlphabetSize], (n % AlphabetSize) + 1)
  IN  [letters |-> letters[col], number |-> row + 1]

(* Columns count A, B .. AA, AB: there is no digit for nought.             *)
ToA1(row, col) ==
  LET letters[n \in 0 .. col] ==
        IF n < AlphabetSize THEN <<n + 1>>
        ELSE Append(letters[(n \div AlphabetSize) - 1], (n % AlphabetSize) + 1)
  IN  [letters |-> letters[col], number |-> row + 1]

IsReference(reference) == reference.letters # <<>> /\ reference.number >= 1

Cell(reference) ==
  [row |-> reference.number - 1,
   col |-> FoldLeft(LAMBDA col, letter : col * AlphabetSize + letter,
                    0, reference.letters) - 1]

(* One reference, or the two corners of a block in either order.           *)
ParseA1(parts, sheet) ==
  LET cells == {Cell(parts[i]) : i \in DOMAIN parts}
      rows == {c.row : c \in cells}
      cols == {c.col : c \in cells}
  IN  IF Len(parts) \notin 1 .. 2 \/ \E i \in DOMAIN parts : ~IsReference(parts[i])
      THEN Nowhere
      ELSE CellRange(sheet, Min(rows), Min(cols),
                     Max(rows) - Min(rows) + 1, Max(cols) - Min(cols) + 1)

Columns(rows) == Max({0} \cup {Len(rows[r]) : r \in DOMAIN rows})

RowsText(rows) == Joined([r \in DOMAIN rows |-> Joined(rows[r])])

(* The name of the sheet and its rows, or a line that says it has none.    *)
Shown(sheet) ==
  Joined(<< <<Written>>, IF sheet.rows = <<>> THEN <<Written>> ELSE RowsText(sheet.rows)>>)

Locator(sheet) ==
  CellRange(sheet.name, 0, 0, Max({1, Len(sheet.rows)}), Max({1, Columns(sheet.rows)}))

Affordances(has) ==
  {"read_sheet", "read_cells", "list_sheets"}
    \cup When("renderer" \in has, PageImageAffordance)

(* The sheets with each cell as the text that look gives of it.            *)
Looked(book, look(_)) ==
  [s \in DOMAIN book.sheets |->
    [name |-> book.sheets[s].name,
     rows |-> [r \in DOMAIN book.sheets[s].rows |->
                [c \in DOMAIN book.sheets[s].rows[r] |-> look(book.sheets[s].rows[r][c])]]]]

IsUncomputed(cell) == cell.formula # <<>> /\ cell.value = <<>>

FromOdf(book) ==
  [readable |-> book.opens /\ book.sheets # <<>>,
   sheets |-> Looked(book, LAMBDA cell : cell.value),
   uncomputed |-> <<>>]

(* The values and the formulas, read side by side: a formula that nothing  *)
(* computed is shown in place of its value, and is named.                  *)
FromOoxml(book) ==
  LET named(s) ==
        LET rows == book.sheets[s].rows
            row(r) == SelectSeq([c \in DOMAIN rows[r] |-> <<r, c>>],
                                LAMBDA at : IsUncomputed(rows[at[1]][at[2]]))
            cells == FlattenSeq([r \in DOMAIN rows |-> row(r)])
        IN  [i \in DOMAIN cells |->
              [sheet |-> book.sheets[s].name,
               a1 |-> ToA1(cells[i][1] - 1, cells[i][2] - 1)]]
  IN  [readable |-> book.opens,
       sheets |-> Looked(book, LAMBDA cell : IF IsUncomputed(cell) THEN cell.formula
                                             ELSE cell.value),
       uncomputed |-> FlattenSeq([s \in DOMAIN book.sheets |-> named(s)])]

Parse(book) == IF book.odf THEN FromOdf(book) ELSE FromOoxml(book)

(* The sheets of a workbook that could be read.                            *)
Readable(read) == IF read.readable THEN read.sheets ELSE <<>>

(* Once more, for the formulas: an .ods shows no other.                    *)
FormulaSheets(book) ==
  IF book.odf \/ ~book.opens THEN Readable(Parse(book))
  ELSE Looked(book, LAMBDA cell : IF cell.formula # <<>> THEN cell.formula ELSE cell.value)

(* No name is the first sheet.  The sheets picked are none or one.         *)
Pick(sheets, name) ==
  LET found == SelectSeq(sheets, LAMBDA s : name \in {"", s.name})
  IN  IF found = <<>> THEN <<>> ELSE <<Head(found)>>

(* Mutant of Shapes: the two dimensions change places.                     *)
ShapesTurned(book) ==
  [s \in DOMAIN book.sheets |->
    LET sheet == book.sheets[s]
    IN  [name |-> sheet.name,
         rows |-> IF book.odf THEN Columns(sheet.rows) ELSE sheet.stated.cols,
         cols |-> IF book.odf THEN Len(sheet.rows) ELSE sheet.stated.rows]]

(* What the card says of a sheet: of an .xlsx it is what the file states.  *)
Shapes(book) ==
  [s \in DOMAIN book.sheets |->
    LET sheet == book.sheets[s]
    IN  [name |-> sheet.name,
         rows |-> IF book.odf THEN Len(sheet.rows) ELSE sheet.stated.rows,
         cols |-> IF book.odf THEN Columns(sheet.rows) ELSE sheet.stated.cols]]

UsedRange(shape) ==
  <<ToA1(0, 0), ToA1(Max({0, shape.rows - 1}), Max({0, shape.cols - 1}))>>

Describe(book, has) ==
  LET shapes == IF Parse(book).readable THEN Shapes(book) ELSE <<>>
      place(s) == CellRange(s.name, 0, 0, Max({1, s.rows}), Max({1, s.cols}))
  IN  Card(Parse(book).readable, [i \in DOMAIN shapes |-> place(shapes[i])], Affordances(has))
        @@ [ranges |-> [i \in DOMAIN shapes |-> UsedRange(shapes[i])]]

Degraded(book) == Excused(WholeFile(book.size))

(* Rows of a sheet, of which the first is the one at offset.               *)
RowsRead(book, name, offset, rows) ==
  IF rows = <<>> THEN Degraded(book)
  ELSE Located(CellRange(name, offset, 0, Len(rows), Max({1, Columns(rows)})),
               RowsText(rows))

(* Mutant of ReadSheet: the first row is always the heading.               *)
ReadSheetBelowHeading(book, picked, ask) ==
  IF picked = <<>> THEN Degraded(book)
  ELSE RowsRead(book, picked[1].name, ask.offset,
                SubSeq(picked[1].rows, ask.offset + 2,
                       Min({ask.offset + 1 + ask.limit, Len(picked[1].rows)})))

ReadSheet(book, picked, ask) ==
  IF picked = <<>> THEN Degraded(book)
  ELSE RowsRead(book, picked[1].name, ask.offset,
                SubSeq(picked[1].rows, ask.offset + 1,
                       Min({ask.offset + ask.limit, Len(picked[1].rows)})))

(* The place of the answer is the block that was asked for, all of it.     *)
BlockRead(book, rows, block) ==
  LET lines == SubSeq(rows, block.row + 1, Min({block.row + block.rows, Len(rows)}))
      cut(row) == SubSeq(row, block.col + 1, Min({block.col + block.cols, Len(row)}))
  IN  IF block = Nowhere THEN Degraded(book)
      ELSE Located(block, RowsText([i \in DOMAIN lines |-> cut(lines[i])]))

ReadCells(book, picked, ask) ==
  IF picked = <<>> THEN Degraded(book)
  ELSE BlockRead(book, picked[1].rows, ParseA1(ask.a1, picked[1].name))

ListSheets(book) ==
  IF ~Parse(book).readable \/ book.sheets = <<>> THEN Degraded(book)
  ELSE Located(WholeFile(book.size), [i \in DOMAIN book.sheets |-> Written])

Invoke(book, ask, has) ==
  CASE ask.name \notin Affordances(has) -> Raised("UnknownAffordance")
    [] ask.name = "read_sheet" ->
         ReadSheet(book, Pick(Readable(Parse(book)), ask.sheet), ask)
    [] ask.name = "read_cells" ->
         ReadCells(book, Pick(IF ask.formulas THEN FormulaSheets(book)
                              ELSE Readable(Parse(book)), ask.sheet), ask)
    [] ask.name = "list_sheets" -> ListSheets(book)
    [] ask.name = "page_image" /\ "renderer" \in has -> RenderPageImage(book, ask.page)

UncomputedDegradation(cells) ==
  IF cells = <<>> THEN <<>>
  ELSE <<[what |-> "formulas without cached values",
          of |-> ToSet(SubSeq(cells, 1, Min({ListedCells, Len(cells)})))]>>

Fitted(text, segments, barriers, budget, degradations) ==
  Built(Fit(text, segments, barriers, budget, degradations))

NothingToRead(book, budget, what) ==
  Fitted(Summary, Mapped(<<Summary>>, <<WholeFile(book.size)>>), <<>>, budget,
         <<Degradation(what)>>)

(* The sheets end to end, each a chunk.                                    *)
Flattened(chunks, locators, budget, degradations) ==
  IF \E s \in DOMAIN locators : ~IsLocator(locators[s]) THEN Raised("ValueError")
  ELSE Fitted(Text(chunks), Mapped(chunks, locators), Between(chunks), budget, degradations)

RepresentRead(book, read, budget) ==
  CASE ~read.readable -> NothingToRead(book, budget, "workbook unopenable")
    [] read.readable /\ read.sheets = <<>> ->
         NothingToRead(book, budget, "workbook has no sheets")
    [] read.readable /\ read.sheets # <<>> ->
         Flattened([s \in DOMAIN read.sheets |-> Append(Shown(read.sheets[s]), Glue)],
                   [s \in DOMAIN read.sheets |-> Locator(read.sheets[s])], budget,
                   UncomputedDegradation(read.uncomputed))

Represent(book, budget) == RepresentRead(book, Parse(book), budget)

=============================================================================
