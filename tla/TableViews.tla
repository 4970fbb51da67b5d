------------------------------ MODULE TableViews ------------------------------
(***************************************************************************)
(* What a user sees of the table of shipments: the pages over its rows and *)
(* the filters of its columns, in the browser. They share no variable: the *)
(* filter a page is loaded with is an input of TablePages, which takes any. *)
(***************************************************************************)
EXTENDS TablePages, ColumnFilters

TableViewsSpec == TablePagesSpec /\ ColumnFiltersSpec

\* What the pages over the tables show and export is what the user asked for: the
\* rows, the duplicates and the filters of the columns.
TableViewsSound == TablePagesSound /\ FiltersAreAsked
=============================================================================
