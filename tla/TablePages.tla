----------------------------- MODULE TablePages -----------------------------
(***************************************************************************)
(* The pages over the table of shipments: the list and its exports, of all *)
(* rows of a filter (ShipmentExportMixin) and of the rows checked in the   *)
(* browser (localStorage, shared by its tabs), and the page that finds     *)
(* duplicates and deletes them (core/views.py). Other users edit, delete   *)
(* and restore rows between the requests and while a file is written.      *)
(*                                                                         *)
(* Simplifications. A row is its key, the values duplicates are compared   *)
(* by, which also stands for the column a filter is on. Order, columns,    *)
(* rights and the search and date fields of the list, which are written    *)
(* like a filter, are left out.                                             *)
(***************************************************************************)
EXTENDS Integers, FiniteSets

CONSTANTS
    TableRows,       \* primary keys
    RowKeys,         \* values compared
    Comparable,      \* keys with at least three values that are not empty
    Unreadable,      \* values of a filter that cannot be parsed
    Cleaners,        \* pages of duplicates
    FullExportMax,   \* FULL_EXPORT_MAX_ROWS
    PartialExportMax,  \* PARTIAL_EXPORT_MAX_IDS
    MaxDuplicateRecords

ASSUME TableAssumption == Comparable \subseteq RowKeys /\ Unreadable \cap RowKeys = {}

VARIABLES
    tableRows,  \* [TableRows -> [live, key]]
    selection,  \* localStorage: checked rows
    partial,    \* localStorage: rows can be checked
    export,     \* the export under way, or its result
    cleaners,   \* [Cleaners -> the clusters a page of duplicates shows]
    lastCopies  \* history: deletions from such a page that left no other copy

tableVars == <<tableRows, selection, partial, export, cleaners, lastCopies>>

\* asked: rows an export was asked for; changed: history, a row changed meanwhile.
NoExport == [pc |-> "none", kind |-> "all", asked |-> {}, filter |-> {}, file |-> {}, changed |-> FALSE]

\* A page of duplicates; the search has two queries. overtaken: history, a row of
\* the clusters has changed since they were found.
NoCleaner == [pc |-> "none", clusters |-> {}, overtaken |-> FALSE]

TableInit ==
    /\ tableRows \in [TableRows -> [live : {TRUE}, key : RowKeys]]
    /\ selection = {} /\ partial = FALSE /\ export = NoExport
    /\ cleaners = [c \in Cleaners |-> NoCleaner] /\ lastCopies = {}

LiveRows == {r \in TableRows : tableRows[r].live}

\* apply_column_filters: values that cannot be parsed are dropped, and so is a
\* filter of which none is left.
Passes(filter, r) == filter \cap RowKeys = {} \/ tableRows[r].key \in filter

\* get_queryset of the list, and the one the export repeats.
ListQueryset(filter) == {r \in LiveRows : Passes(filter, r)}
ExportQueryset(filter) == {r \in LiveRows : Passes(filter, r)}

-----------------------------------------------------------------------------
(* Rows change                                                             *)

\* What other users do to a row, and who does not see it.
RowBecomes(r, row) ==
    /\ tableRows[r] # row
    /\ tableRows' = [tableRows EXCEPT ![r] = row]
    /\ export' = [export EXCEPT !.changed = @ \/ export.pc = "streams"]
    /\ cleaners' = [c \in Cleaners |->
           [cleaners[c] EXCEPT !.overtaken = @ \/ \E cluster \in cleaners[c].clusters : r \in cluster]]

EditRow(r, key) ==
    /\ tableRows[r].live
    /\ RowBecomes(r, [live |-> TRUE, key |-> key])
    /\ UNCHANGED <<selection, partial, lastCopies>>

DeleteRow(r) ==
    /\ tableRows[r].live
    /\ RowBecomes(r, [tableRows[r] EXCEPT !.live = FALSE])
    /\ UNCHANGED <<selection, partial, lastCopies>>

\* ShipmentRestoreViewMixin
RestoreRow(r) ==
    /\ ~tableRows[r].live
    /\ RowBecomes(r, [tableRows[r] EXCEPT !.live = TRUE])
    /\ UNCHANGED <<selection, partial, lastCopies>>

-----------------------------------------------------------------------------
(* Exports                                                                 *)

\* Leaving the mode forgets what was checked.
TogglePartialMode ==
    /\ partial' = ~partial
    /\ selection' = IF partial THEN {} ELSE selection
    /\ UNCHANGED <<tableRows, export, cleaners, lastCopies>>

\* A checkbox of any tab, of a row or of the whole page, as the tab was drawn:
\* rows deleted since can be checked, and boxes stay when another tab leaves the
\* mode.
Check(page, on) ==
    /\ selection' = IF on THEN selection \cup page ELSE selection \ page
    /\ UNCHANGED <<tableRows, partial, export, cleaners, lastCopies>>

\* Mutant: what is not found is left out.
SelectedFoundOrNot(ids) == ids # {} /\ Cardinality(ids) <= PartialExportMax

\* selected_export_queryset
SelectedFound(ids) == ids # {} /\ Cardinality(ids) <= PartialExportMax /\ ids \subseteq LiveRows

\* The browser forgets the selection before the server answers; a refused export
\* is a message.
ExportSelected ==
    /\ export.pc # "streams" /\ selection # {}
    /\ export' = IF SelectedFound(selection)
                 THEN [NoExport EXCEPT !.pc = "streams", !.kind = "selected", !.asked = selection]
                 ELSE NoExport
    /\ selection' = {} /\ partial' = FALSE
    /\ UNCHANGED <<tableRows, cleaners, lastCopies>>

\* The link carries the filter of the list.
ExportAll(filter) ==
    /\ export.pc # "streams"
    /\ export' = IF Cardinality(ExportQueryset(filter)) <= FullExportMax
                 THEN [NoExport EXCEPT !.pc = "streams", !.asked = ListQueryset(filter), !.filter = filter]
                 ELSE NoExport
    /\ UNCHANGED <<tableRows, selection, partial, cleaners, lastCopies>>

\* build_shipment_xlsx: the query runs again when the file is written.
WriteXlsx ==
    /\ export.pc = "streams"
    /\ export' = [export EXCEPT !.pc = "done", !.filter = {},
                                !.file = IF export.kind = "selected" THEN export.asked \cap LiveRows
                                         ELSE ExportQueryset(export.filter)]
    /\ UNCHANGED <<tableRows, selection, partial, cleaners, lastCopies>>

-----------------------------------------------------------------------------
(* Duplicates                                                              *)

\* Mutant: rows without a second one are shown.
ClustersOfOne == {{r \in LiveRows : tableRows[r].key = k} : k \in Comparable} \ {{}}

\* _find_duplicates, pass 1: rows with the same values, at least three of them
\* not empty.
Clusters == {c \in {{r \in LiveRows : tableRows[r].key = k} : k \in Comparable} : Cardinality(c) >= 2}

\* The answer to a search is an error if there are too many rows to compare.
SearchDuplicates(c) ==
    /\ cleaners' = [cleaners EXCEPT ![c] = [pc |-> "searching", overtaken |-> FALSE,
           clusters |-> IF Cardinality(LiveRows) > MaxDuplicateRecords THEN {} ELSE Clusters]]
    /\ UNCHANGED <<tableRows, selection, partial, export, lastCopies>>

\* Pass 2, a query of its own: the page shows what is left of the clusters, be it
\* a single row or one that has other values by now.
ShowDuplicates(c) ==
    /\ cleaners[c].pc = "searching"
    /\ cleaners' = [cleaners EXCEPT ![c].pc = "shown",
                                    ![c].clusters = {cluster \cap LiveRows : cluster \in @}]
    /\ UNCHANGED <<tableRows, selection, partial, export, lastCopies>>

\* The button of a row of a cluster deletes it, whatever has become of the others.
DeleteDuplicate(c, r) ==
    /\ cleaners[c].pc = "shown" /\ \E cluster \in cleaners[c].clusters : r \in cluster
    /\ tableRows[r].live
    /\ RowBecomes(r, [tableRows[r] EXCEPT !.live = FALSE])
    /\ lastCopies' = IF \E s \in LiveRows \ {r} : tableRows[s].key = tableRows[r].key THEN lastCopies
                     ELSE lastCopies \cup {IF cleaners[c].overtaken THEN "overtaken" ELSE "alone"}
    /\ UNCHANGED <<selection, partial>>

TableNext ==
    \/ TogglePartialMode \/ ExportSelected
    \/ \E r \in TableRows :
           \/ DeleteRow(r) \/ RestoreRow(r)
           \/ \E key \in RowKeys : EditRow(r, key)
    \/ \E page \in SUBSET TableRows, on \in BOOLEAN : Check(page, on)
    \/ \E filter \in SUBSET (RowKeys \cup Unreadable) : ExportAll(filter)
    \/ WriteXlsx
    \/ \E c \in Cleaners :
           SearchDuplicates(c) \/ ShowDuplicates(c) \/ \E r \in TableRows : DeleteDuplicate(c, r)

TablePagesSpec == TableInit /\ [][TableNext]_tableVars

-----------------------------------------------------------------------------

\* Types.
TablePagesTypeOK ==
    /\ tableRows \in [TableRows -> [live : BOOLEAN, key : RowKeys]]
    /\ selection \subseteq TableRows /\ partial \in BOOLEAN
    /\ export.asked \subseteq TableRows /\ export.filter \subseteq RowKeys \cup Unreadable
    /\ \A c \in Cleaners : cleaners[c].pc \in {"none", "searching", "shown"}
                            /\ cleaners[c].clusters \subseteq SUBSET TableRows

\* The file of an export holds the rows the list showed with the same filter, or
\* exactly the rows that were checked, unless a row changed while it was written.
ExportsComplete == export.pc = "done" /\ ~export.changed => export.file = export.asked

\* Deleting duplicates on their page leaves one of them, unless a row of the page
\* has changed since the first query of its search: nothing is compared again, two
\* users who clean up the same pair can delete both, and a row that was deleted
\* between the two queries leaves the other one alone on the page.
DuplicatesKeepOne == "alone" \notin lastCopies

\* The exports and the page of duplicates do what their pages show.
TablePagesSound == ExportsComplete /\ DuplicatesKeepOne
=============================================================================
