----------------------------- MODULE FieldConfig -----------------------------
(***************************************************************************)
(* The settings of the shipment forms (FieldSettings): the cache that      *)
(* serves them (app/core/field_config.py), the settings page, the switch   *)
(* of catalogues and the seeding that change them, and the forms that are  *)
(* built from them when a page is shown and again when it is sent          *)
(* (app/core/forms.py).                                                    *)
(*                                                                         *)
(* Simplifications. One entity. Of a row the model keeps the order, which  *)
(* the settings page keeps distinct over the rows, and the columns that    *)
(* decide what a form does with a field. The columns of lists and filters  *)
(* are written and validated with them. Every field of the version has its *)
(* row, also in a backup. A request reads the configuration once. Seeding  *)
(* is one step, with the load in a restore: the middleware refuses         *)
(* requests that change settings meanwhile. A page is an edit that the     *)
(* user sends as he got it: whatever value it loses, he did not clear.     *)
(***************************************************************************)
EXTENDS Naturals, FiniteSets

CONSTANTS
    ConfigFields,    \* field names
    SystemFields,    \* fields whose visibility is fixed (SYSTEM_FIELDS)
    Position,        \* [ConfigFields -> Nat], place in field_config.yml
    CatalogDefaults, \* CATALOG_FIELDS
    Empty,           \* no cached configuration
    Editors,         \* requests that change settings
    Pages,           \* edit pages of shipments
    MaxSettings      \* bound on the changes of settings and the faults

ASSUME FieldConfigAssumption ==
    /\ SystemFields \subseteq ConfigFields /\ CatalogDefaults \subseteq ConfigFields
    /\ Position \in [ConfigFields -> Nat]
    /\ \A f, g \in ConfigFields : f # g => Position[f] # Position[g]
    /\ MaxSettings \in Nat

VARIABLES
    settings,        \* [ConfigFields -> FieldSettings row]
    cache,           \* the cached configuration, or Empty
    editors,         \* [Editors -> request]
    pages,           \* [Pages -> page]
    filled,          \* the fields of the shipment that have a value
    settingsChanges,
    staleBecause,    \* history: how the cache came to differ from the rows
    reordered,       \* history: a catalogue switch or seeding changed an order
    savedRows        \* the rows in a backup, and "reordered" as they were backed up

configVars == <<settings, cache, editors, pages, filled, settingsChanges,
                staleBecause, reordered, savedRows>>

Orders == {Position[f] : f \in ConfigFields}
FieldRow == [order : Orders, visible : BOOLEAN, required : BOOLEAN, catalog : BOOLEAN]
Configuration == [ConfigFields -> FieldRow]

\* seed_field_config when a row is missing.
SeedRow(f) == [order |-> Position[f], visible |-> TRUE, required |-> f \in SystemFields,
               catalog |-> f \in CatalogDefaults]

NoPage == [pc |-> "closed", config |-> Empty, seen |-> Empty, steady |-> FALSE]
NoEditor == [pc |-> "free", rows |-> Empty, field |-> Empty]

ConfigInit ==
    /\ settings = [f \in ConfigFields |-> SeedRow(f)]
    /\ cache = Empty
    /\ editors = [e \in Editors |-> NoEditor]
    /\ pages = [p \in Pages |-> NoPage]
    /\ filled = ConfigFields
    /\ settingsChanges = 0
    /\ staleBecause = "current" /\ reordered = FALSE
    /\ savedRows = [rows |-> settings, reordered |-> FALSE]

Stale == cache # Empty /\ cache # settings

\* validate_field_settings, and the check of the orders before it.
RowValid(f, row) ==
    /\ f \in SystemFields => row.visible /\ row.required
    /\ row.required => row.visible
ValidConfigurations == {rows \in Configuration : \A f \in ConfigFields : RowValid(f, rows[f])}
OrdersDistinct(rows) == \A f, g \in ConfigFields : f # g => rows[f].order # rows[g].order

Counted == settingsChanges < MaxSettings /\ settingsChanges' = settingsChanges + 1

\* The rows change: pages opened before are shown with settings of the past.
RowsBecome(rows) ==
    /\ Counted
    /\ settings' = rows
    /\ pages' = IF rows = settings THEN pages ELSE [p \in Pages |-> [pages[p] EXCEPT !.steady = FALSE]]

(***************************************************************************)
(* The settings page                                                       *)
(***************************************************************************)

\* Mutant: two fields with the same place pass.
SettingsReadUnchecked(e, rows) ==
    /\ editors[e].pc = "free"
    /\ \A f \in ConfigFields : rows[f].catalog = settings[f].catalog
    /\ editors' = [editors EXCEPT ![e] = [pc |-> "saving", rows |-> rows, field |-> Empty]]
    /\ UNCHANGED <<settings, cache, pages, filled, settingsChanges, staleBecause, reordered, savedRows>>

\* POST of field_settings up to the validation: the rows as they are, with the
\* columns of the form written over them. Rejected forms change nothing.
SettingsRead(e, rows) ==
    /\ editors[e].pc = "free"
    /\ \A f \in ConfigFields : rows[f].catalog = settings[f].catalog
    /\ OrdersDistinct(rows)
    /\ editors' = [editors EXCEPT ![e] = [pc |-> "saving", rows |-> rows, field |-> Empty]]
    /\ UNCHANGED <<settings, cache, pages, filled, settingsChanges, staleBecause, reordered, savedRows>>

\* bulk_update of all columns but use_catalog and those that never change.
SettingsSaved(e, editor) ==
    /\ editors[e].pc = "saving"
    /\ RowsBecome([f \in ConfigFields |-> [editors[e].rows[f] EXCEPT !.catalog = settings[f].catalog]])
    /\ editors' = [editors EXCEPT ![e] = editor]
    /\ staleBecause' = IF cache \in {Empty, settings'} THEN staleBecause ELSE "invalidation to come"
    /\ reordered' = FALSE
    /\ UNCHANGED <<cache, filled, savedRows>>

\* Mutant: the invalidation came before the transaction.
SettingsCommitLast(e) == SettingsSaved(e, NoEditor)

SettingsCommit(e) == SettingsSaved(e, [NoEditor EXCEPT !.pc = "invalidating"])

\* invalidate_entity_config, after the transaction.
Invalidate(e) ==
    /\ editors[e].pc = "invalidating"
    /\ cache' = Empty /\ staleBecause' = "current"
    /\ editors' = [editors EXCEPT ![e] = NoEditor]
    /\ UNCHANGED <<settings, pages, filled, settingsChanges, reordered, savedRows>>

(***************************************************************************)
(* The switch of a catalogue                                               *)
(***************************************************************************)

\* POST of catalog_list: one row is read and validated.
SwitchRead(e, f) ==
    /\ editors[e].pc = "free"
    /\ ~settings[f].catalog => RowValid(f, settings[f])
    /\ editors' = [editors EXCEPT ![e] = [pc |-> "switching", rows |-> settings[f], field |-> f]]
    /\ UNCHANGED <<settings, cache, pages, filled, settingsChanges, staleBecause, reordered, savedRows>>

\* fs.save(): every column of the row, as it was read.
SwitchCommit(e) ==
    LET f == editors[e].field
        row == editors[e].rows IN
    /\ editors[e].pc = "switching"
    /\ RowsBecome([settings EXCEPT ![f] = [row EXCEPT !.catalog = ~row.catalog]])
    /\ reordered' = (reordered \/ row.order # settings[f].order)
    /\ editors' = [editors EXCEPT ![e] = [NoEditor EXCEPT !.pc = "invalidating"]]
    /\ staleBecause' = IF cache \in {Empty, settings'} THEN staleBecause ELSE "invalidation to come"
    /\ UNCHANGED <<cache, filled, savedRows>>

(***************************************************************************)
(* Faults                                                                  *)
(***************************************************************************)

\* The worker dies before it commits or before it invalidates.
EditorKilled(e) ==
    /\ editors[e].pc # "free" /\ Counted
    /\ editors' = [editors EXCEPT ![e] = NoEditor]
    /\ staleBecause' = IF Stale /\ editors[e].pc = "invalidating" THEN "killed" ELSE staleBecause
    /\ UNCHANGED <<settings, cache, pages, filled, reordered, savedRows>>

\* seed_field_config on a row that exists: an order of 0 counts as unset, and so
\* does a default catalogue that is switched off.
Seeded(f, row) ==
    [row EXCEPT !.order = IF row.order = 0 THEN Position[f] ELSE row.order,
                !.catalog = row.catalog \/ f \in CatalogDefaults]
SeededRows(rows) == [f \in ConfigFields |-> Seeded(f, rows[f])]

\* The container starts: entrypoint.sh seeds before gunicorn accepts requests.
Restart ==
    LET rows == SeededRows(settings) IN
    /\ Counted
    /\ settings' = rows
    /\ cache' = Empty /\ staleBecause' = "current"
    /\ reordered' = (reordered \/ \E f \in ConfigFields : rows[f].order # settings[f].order)
    /\ editors' = [e \in Editors |-> NoEditor]
    /\ pages' = [p \in Pages |->
                   IF pages[p].pc \in {"shown", "closed"} THEN [pages[p] EXCEPT !.steady = @ /\ rows = settings]
                   ELSE NoPage]
    /\ UNCHANGED <<filled, savedRows>>

\* The rows are dumped into a backup.
BackupRows ==
    /\ savedRows' = [rows |-> settings, reordered |-> reordered]
    /\ UNCHANGED <<settings, cache, editors, pages, filled, settingsChanges, staleBecause, reordered>>

\* A restore brings back the rows of a backup, places they share included, and
\* seeds them. Its process need not share the cache of the web workers.
RestoreRows ==
    LET rows == SeededRows(savedRows.rows) IN
    /\ RowsBecome(rows)
    /\ \/ cache' = Empty /\ staleBecause' = "current"
       \/ /\ UNCHANGED cache
          /\ staleBecause' = IF cache \in {Empty, rows} THEN staleBecause ELSE "restored"
    /\ reordered' = (savedRows.reordered \/ \E f \in ConfigFields : rows[f].order # savedRows.rows[f].order)
    /\ UNCHANGED <<editors, filled, savedRows>>

\* CACHE_TTL has passed.
Expire ==
    /\ cache # Empty
    /\ cache' = Empty /\ staleBecause' = "current"
    /\ UNCHANGED <<settings, editors, pages, filled, settingsChanges, reordered, savedRows>>

(***************************************************************************)
(* Readers: get_entity_config and the forms                                *)
(***************************************************************************)

\* A request asks for the configuration: the cached one, or the rows, which it
\* will put into the cache afterwards. "steady" is history: the page was served
\* the settings of the database and these have not changed since.
Ask(p, from, hit, miss) ==
    /\ pages[p].pc = from
    /\ pages' = IF cache # Empty
                THEN [pages EXCEPT ![p].pc = hit, ![p].config = cache, ![p].steady = cache = settings /\ (@ \/ from = "closed")]
                ELSE [pages EXCEPT ![p].pc = miss, ![p].config = settings, ![p].steady = @ \/ from = "closed"]
    /\ UNCHANGED <<settings, cache, editors, filled, settingsChanges, staleBecause, reordered, savedRows>>

OpenPage(p) == Ask(p, "closed", "opened", "opening")

\* cache.set, with rows that may have changed since they were read.
Fill(p) ==
    /\ pages[p].pc \in {"opening", "sending"}
    /\ cache' = pages[p].config
    /\ staleBecause' = IF cache' = settings THEN "current" ELSE "filled late"
    /\ pages' = [pages EXCEPT ![p].pc = IF @ = "opening" THEN "opened" ELSE "sent"]
    /\ UNCHANGED <<settings, editors, filled, settingsChanges, reordered, savedRows>>

\* The page is rendered: it has the inputs of the configuration.
ShowPage(p) ==
    /\ pages[p].pc = "opened"
    /\ pages' = [pages EXCEPT ![p].pc = "shown", ![p].seen = pages[p].config]
    /\ UNCHANGED <<settings, cache, editors, filled, settingsChanges, staleBecause, reordered, savedRows>>

SendPage(p) == Ask(p, "shown", "sent", "sending")

\* CatalogHybridFormMixin.__init__: the inputs a field has in a page.
Inputs(config, f) ==
    IF ~config[f].visible THEN "none" ELSE IF config[f].catalog THEN "select" ELSE "plain"

\* Mutant: hidden fields stay in the form.
BlankHidden(p) ==
    {f \in ConfigFields : \/ ~pages[p].config[f].visible
                          \/ Inputs(pages[p].seen, f) # Inputs(pages[p].config, f)}

\* clean: the fields whose inputs the page did not send read as empty.
Blank(p) ==
    {f \in ConfigFields : /\ pages[p].config[f].visible
                          /\ Inputs(pages[p].seen, f) # Inputs(pages[p].config, f)}

\* The shipment is saved, unless a required field reads as empty.
CheckPage(p) ==
    LET blank == Blank(p)
        rejected == \E f \in blank \cup (ConfigFields \ filled) : pages[p].config[f].required IN
    /\ pages[p].pc = "sent"
    /\ filled' = IF rejected THEN filled ELSE filled \ blank
    /\ pages' = [pages EXCEPT ![p] = NoPage]
    /\ UNCHANGED <<settings, cache, editors, settingsChanges, staleBecause, reordered, savedRows>>

EditorNext(e) ==
    \/ \E rows \in ValidConfigurations : SettingsRead(e, rows)
    \/ \E f \in ConfigFields : SwitchRead(e, f)
    \/ SettingsCommit(e) \/ SwitchCommit(e) \/ Invalidate(e) \/ EditorKilled(e)

PageNext(p) == OpenPage(p) \/ Fill(p) \/ ShowPage(p) \/ SendPage(p) \/ CheckPage(p)

ConfigNext ==
    \/ \E e \in Editors : EditorNext(e)
    \/ \E p \in Pages : PageNext(p)
    \/ Restart \/ BackupRows \/ RestoreRows \/ Expire

ConfigSpec == ConfigInit /\ [][ConfigNext]_configVars

-----------------------------------------------------------------------------

\* Types; every row stays valid on its own although the switch of a catalogue
\* writes back columns that the settings page has changed meanwhile.
FieldConfigTypeOK ==
    /\ settings \in ValidConfigurations /\ savedRows.rows \in ValidConfigurations
    /\ cache \in Configuration \cup {Empty}
    /\ filled \subseteq ConfigFields
    /\ SystemFields \subseteq filled

\* The cache serves settings that are not those of the database only while
\* somebody's invalidation is still to come, or until the TTL when a reader that
\* overlapped with a change filled it late, when a worker died before it
\* invalidated, or when a restore replaced the rows.
StaleCacheHasACause ==
    cache \notin {Empty, settings} =>
        \/ staleBecause \in {"filled late", "killed", "restored"}
        \/ staleBecause = "invalidation to come" /\ \E e \in Editors : editors[e].pc = "invalidating"

\* Two fields share a place only after the switch of a catalogue wrote an old
\* order back, or seeding, at a start or in a restore, took the place 0 for an
\* unset one, since the settings page last saved them, or before the backup was
\* made that was restored since.
PlacesDistinct == OrdersDistinct(settings) \/ reordered

\* The settings that are served, and the order they give, are those an editor
\* saved, but for the reasons above.
SettingsExplained == StaleCacheHasACause /\ PlacesDistinct

\* A page that is sent as it was got clears no field, hidden fields and those of
\* catalogues included, unless the settings changed since its request asked for
\* them, or a stale cache served it others than those of the database, when it was
\* asked for or when it was sent (StaleCacheHasACause says when it may).
NothingLostUnchanged ==
    [][filled' # filled => \E p \in Pages : pages[p].pc = "sent" /\ ~pages[p].steady /\ pages'[p] = NoPage]_configVars
=============================================================================
