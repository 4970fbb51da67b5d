------------------------- MODULE MCBackupContents -------------------------
(* Small instances of BackupContents for TLC. *)
EXTENDS BackupContents, TLC

\* Rows, files and requests are only ever compared with each other.
Symmetric == Permutations(Docs) \cup Permutations(Files) \cup Permutations(Requests)

=============================================================================
