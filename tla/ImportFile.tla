----------------------------- MODULE ImportFile -----------------------------
(***************************************************************************)
(* One file of an import, from its sheet to the rows inserted: what the    *)
(* parser finds in the sheet (imports/excel_parser.py), the page on which  *)
(* the user checks rows (static/js/import_preview.js) and what the         *)
(* confirmation does with each line, while other users add and delete      *)
(* shipments. Sessions, temporary files and failures are in Imports.       *)
(*                                                                         *)
(* Simplifications. The sheet is the one the keywords choose. A cell is a  *)
(* header word, one of CellValues, or of a kind: "blank", "zero",          *)
(* "malformed" (neither a date nor a number), "long" (more than a text     *)
(* column holds). The two columns of a date of the road file, month and    *)
(* day, are one. Column widths of the page and texts are left out.         *)
(***************************************************************************)
EXTENDS Integers, FiniteSets, Sequences

CONSTANTS
    Sheets,       \* sequences of rows, themselves sequences of cells
    HeaderWords,  \* [word -> field]: AUTO_COLUMNS, RAIL_COLUMNS
    CellValues,   \* cells that are usable in any column
    Dates, Amounts, Texts,  \* required fields
    KeyFields,    \* fields duplicates are compared by
    MaxDataRows,  \* lines a file may have: 10000
    PreviewPageSize,  \* IMPORT_PREVIEW_PAGE_SIZE
    MaxOthers     \* bound: shipments other users add or delete

Sections == {"valid", "duplicates", "errors"}
RequiredFields == Dates \cup Amounts \cup Texts

ASSUME ImportFileAssumption ==
    /\ KeyFields \subseteq RequiredFields
    /\ DOMAIN HeaderWords \cap CellValues = {}
    /\ PreviewPageSize \in Nat \ {0}
    /\ MaxOthers \in Nat
    /\ \A s \in Sheets : DOMAIN s \subseteq Nat

VARIABLES
    sheet,        \* the sheet uploaded; constant
    upload,       \* "none", "refused" or "kept"
    foundAlready, \* lines of the temporary file marked as duplicates
    preview,      \* the page of the preview
    results,      \* [line -> ImportRowResult.status] once confirmed
    shipmentKeys, \* keys of the undeleted shipments
    confirmation, \* history: the keys found, and the lines shown as checked, when it was posted
    others        \* shipments other users added or deleted so far

importFileVars ==
    <<sheet, upload, foundAlready, preview, results, shipmentKeys, confirmation, others>>

-----------------------------------------------------------------------------
(* The parser                                                              *)

HeaderRows == 3
SheetRows == DOMAIN sheet

\* Cells of the first rows that hold a header word.
HeaderCells ==
    {cell \in (SheetRows \cap 1..HeaderRows) \X (1..4) :
        cell[2] \in DOMAIN sheet[cell[1]] /\ sheet[cell[1]][cell[2]] \in DOMAIN HeaderWords}

HeaderAt(cell) == HeaderWords[sheet[cell[1]][cell[2]]]
Later(cell, other) == cell[1] > other[1] \/ (cell[1] = other[1] /\ cell[2] >= other[2])

\* _map_headers: of two cells that name a field the later one counts, and the
\* lines begin below the last row in which any was found.
ColumnMap ==
    LET cells == HeaderCells IN
    [f \in {HeaderAt(cell) : cell \in cells} |->
        (CHOOSE cell \in cells :
            HeaderAt(cell) = f /\ \A other \in cells : HeaderAt(other) = f => Later(cell, other))[2]]
HeaderRow == LET rows == {cell[1] : cell \in HeaderCells} IN CHOOSE r \in rows : \A q \in rows : q <= r

\* Mutant: the lines beyond the limit are left out, and the rest is taken.
DataRowsUpToLimit == {r \in SheetRows : HeaderRow < r /\ r <= HeaderRow + MaxDataRows}

\* _data_rows: rows that are not empty.
DataRows ==
    LET header == HeaderRow IN {r \in SheetRows : r > header /\ \E i \in DOMAIN sheet[r] : sheet[r][i] # "blank"}

\* parse_errors: the upload is refused as a whole.
CannotBeParsed == HeaderCells = {} \/ Cardinality(DataRows) > MaxDataRows

\* What a line has in a field: a column that is missing, or beyond the end of
\* the row, is empty.
DataOf(r) ==
    LET columns == ColumnMap IN
    [f \in RequiredFields |->
        IF f \in DOMAIN columns /\ columns[f] \in DOMAIN sheet[r] THEN sheet[r][columns[f]] ELSE "blank"]

\* Mutant: an amount of zero passes, as a text does.
RowErrorsOfEmpty(r) == {f \in RequiredFields : DataOf(r)[f] = "blank"}

\* Fields that make a line an error: dates and amounts must be read, amounts
\* must be positive, texts must be there.
RowErrors(r) ==
    LET data == DataOf(r) IN
    {f \in RequiredFields : IF f \in Texts THEN data[f] = "blank" ELSE data[f] \notin CellValues}

Faultless == {r \in DataRows : RowErrors(r) = {}}
DuplicateKey(r) == LET data == DataOf(r) IN [f \in KeyFields |-> data[f]]

\* detect_duplicates: against the shipments, not within the file; a line with an
\* error has no key.
FoundDuplicates == {r \in Faultless : DuplicateKey(r) \in shipmentKeys}

-----------------------------------------------------------------------------
(* The upload and the page of the preview                                  *)

NoPreview == [open |-> FALSE, pages |-> [s \in Sections |-> 1], selected |-> {}, boxes |-> {}, selectAll |-> "no"]
NoConfirmation == [keys |-> {}, checked |-> {}]

ImportFileInit ==
    /\ sheet \in Sheets
    /\ upload = "none" /\ foundAlready = {} /\ preview = NoPreview /\ results = <<>>
    /\ shipmentKeys = {} /\ confirmation = NoConfirmation /\ others = 0

\* ImportUploadView.post
UploadFile ==
    /\ upload = "none"
    /\ upload' = IF CannotBeParsed THEN "refused" ELSE "kept"
    /\ foundAlready' = IF CannotBeParsed THEN {} ELSE FoundDuplicates
    /\ UNCHANGED <<sheet, preview, results, shipmentKeys, confirmation, others>>

\* ImportPreviewView.get: the blocks of the page, from the temporary file.
SectionOf(r) ==
    IF r \notin Faultless THEN "errors" ELSE IF r \in foundAlready THEN "duplicates" ELSE "valid"
RowsIn(section) == {r \in DataRows : SectionOf(r) = section}
ValidRows == RowsIn("valid")

\* pageSlice, pageCount: the rows of a block are in the order of the sheet.
PageRows(section, page) ==
    LET before(r) == Cardinality({q \in RowsIn(section) : q < r}) IN
    {r \in RowsIn(section) :
        before(r) \in (page - 1) * PreviewPageSize .. page * PreviewPageSize - 1}
PageCount(section) ==
    LET n == Cardinality(RowsIn(section)) IN IF n = 0 THEN 1 ELSE (n + PreviewPageSize - 1) \div PreviewPageSize

\* updateSelectAll: the box above the list is checked, half checked or empty.
SelectAllBox(selected) ==
    IF ValidRows # {} /\ selected = ValidRows THEN "yes" ELSE IF selected # {} THEN "some" ELSE "no"

\* renderAll: the boxes of the page as the selection has them.
Drawn(view) ==
    [view EXCEPT !.boxes = view.selected \cap PageRows("valid", view.pages["valid"]),
                 !.selectAll = SelectAllBox(view.selected)]

Browse(view) ==
    /\ preview' = view
    /\ UNCHANGED <<sheet, upload, foundAlready, results, shipmentKeys, confirmation, others>>

\* Every valid line is selected when the page has loaded; a reload forgets.
OpenPreview ==
    /\ upload = "kept" /\ results = <<>>
    /\ preview' = Drawn([NoPreview EXCEPT !.open = TRUE, !.selected = ValidRows])
    /\ UNCHANGED <<sheet, upload, foundAlready, results, shipmentKeys, confirmation, others>>

\* bindPager
TurnPage(section, page) ==
    /\ preview.open /\ page \in 1..PageCount(section)
    /\ page \in {preview.pages[section] - 1, preview.pages[section] + 1}
    /\ Browse(Drawn([preview EXCEPT !.pages[section] = page]))

\* The box of a row: the other boxes are not drawn again.
CheckRow(r) ==
    LET flip(S) == IF r \in S THEN S \ {r} ELSE S \cup {r} IN
    /\ preview.open /\ r \in PageRows("valid", preview.pages["valid"])
    /\ Browse([preview EXCEPT !.selected = flip(@), !.boxes = flip(@),
                              !.selectAll = SelectAllBox(flip(preview.selected))])

\* The box above the list stands for the rows of all pages.
SelectAllRows ==
    /\ preview.open
    /\ Browse(Drawn([preview EXCEPT !.selected = IF preview.selectAll = "yes" THEN {} ELSE ValidRows]))

-----------------------------------------------------------------------------
(* The confirmation                                                        *)

\* _process_import_row, in the order of its early returns; the insert of a row
\* that does not fit its column raises.
StatusOf(r, chosen) ==
    IF r \in FoundDuplicates THEN "duplicate"
    ELSE IF r \notin Faultless THEN "error"
    ELSE IF r \notin chosen THEN "skipped"
    ELSE IF \E f \in Texts : DataOf(r)[f] = "long" THEN "error" ELSE "created"

\* addSelectedInputs, and ImportPreviewView.post: with nothing selected the form
\* stays where it is; the lines are compared with the shipments once more.
Confirm ==
    /\ preview.open /\ preview.selected # {}
    /\ results' = [r \in DataRows |-> StatusOf(r, preview.selected)]
    /\ shipmentKeys' = shipmentKeys \cup {DuplicateKey(r) : r \in {s \in DataRows : results'[s] = "created"}}
    /\ confirmation' = [keys |-> shipmentKeys, checked |-> preview.selected]
    /\ preview' = NoPreview
    /\ UNCHANGED <<sheet, upload, foundAlready, others>>

\* Another user adds or deletes a shipment like one of the lines.
OtherUser(key) ==
    /\ others < MaxOthers
    /\ others' = others + 1
    /\ shipmentKeys' = IF key \in shipmentKeys THEN shipmentKeys \ {key} ELSE shipmentKeys \cup {key}
    /\ UNCHANGED <<sheet, upload, foundAlready, preview, results, confirmation>>

ImportFileNext ==
    \/ UploadFile \/ OpenPreview \/ SelectAllRows \/ Confirm
    \/ \E section \in Sections, page \in 1..2 : TurnPage(section, page)
    \/ \E r \in SheetRows : CheckRow(r)
    \/ HeaderCells # {} /\ \E r \in Faultless : OtherUser(DuplicateKey(r))

ImportFileSpec == ImportFileInit /\ [][ImportFileNext]_importFileVars

-----------------------------------------------------------------------------

\* Types.
ImportFileTypeOK ==
    /\ upload \in {"none", "refused", "kept"}
    /\ foundAlready \subseteq SheetRows /\ preview.selected \subseteq SheetRows
    /\ preview.boxes \subseteq preview.selected /\ others \in 0..MaxOthers

\* A row that looks like a line: below the first row of headers, not empty.
LooksLikeLine(r) ==
    /\ \E cell \in HeaderCells : cell[1] < r
    /\ \E i \in DOMAIN sheet[r] : sheet[r][i] # "blank"

\* Every line of the file has a result once it is confirmed, unless it stands
\* among the first three rows at or above one with a header word as a value: such
\* a row is taken for the headers and the lines above it are lost.
NoLineLost ==
    results # <<>> =>
        \A r \in SheetRows :
            LooksLikeLine(r) => r \in DOMAIN results \/ \E cell \in HeaderCells : cell[1] >= r

\* What is inserted is what the boxes of the pages showed as checked when the form
\* was sent, without the lines another user had added by then; lines with a date
\* or an amount that is none never are. A line is passed over as "unchecked by the
\* user" only if it was, or if the page had shown it as a duplicate of a shipment
\* deleted since, with no box at all.
InsertedAsShown ==
    \A r \in DOMAIN results :
        LET checked == r \in confirmation.checked
            known == DuplicateKey(r) \in confirmation.keys
        IN  /\ results[r] = "created" =>
                 checked /\ ~known /\ \A f \in RequiredFields \ Texts : DataOf(r)[f] \in CellValues
            /\ results[r] = "skipped" => r \in foundAlready \/ (r \in ValidRows /\ ~checked)
            /\ checked => results[r] \in {"created", "duplicate", "error"}

\* The boxes drawn are those of the selection, also after the user has turned
\* pages; the box above them speaks for the rows of all pages, not of one.
BoxesTellSelection ==
    preview.open =>
        /\ preview.boxes = preview.selected \cap PageRows("valid", preview.pages["valid"])
        /\ preview.selectAll = "yes" <=> ValidRows # {} /\ ValidRows \subseteq preview.selected
        /\ preview.selectAll = "no" <=> preview.selected = {}

\* The rows of a file and what becomes of them, as the user is told.
FileImportedAsShown == NoLineLost /\ InsertedAsShown /\ BoxesTellSelection
=============================================================================
