----------------------------- MODULE ImportFlow -----------------------------
(***************************************************************************)
(* Imports as a person sees them: the requests with their sessions, files  *)
(* and failures (Imports), and what happens to the lines of one file       *)
(* (ImportFile). They share no variable: a file whose lines are followed   *)
(* is in one of the requests, and any request may have any lines.          *)
(***************************************************************************)
EXTENDS Imports, ImportFile

ImportFlowSpec == ImportsSpec /\ ImportFileSpec

\* A file is read as its preview showed it, and the rows a person confirmed become
\* shipments once: of the parser (app/imports/excel_parser.py) and of the requests
\* around it (app/imports/views.py).
ImportsSound == ImportedOnce /\ FileImportedAsShown
=============================================================================
