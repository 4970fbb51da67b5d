------------------------------ MODULE Shipments ------------------------------
(***************************************************************************)
(* Shipments as the web forms change them (app/core/shipment_views.py) and *)
(* the catalogue their names come from (app/catalogs/views.py): creation,  *)
(* an update guarded by the token of the form (updated_at), soft deletion, *)
(* restoration, the audit log, and renames of catalogue values that        *)
(* rewrite shipments behind the back of open forms.                        *)
(*                                                                         *)
(* Simplifications. Car and rail shipments have the same views. A shipment *)
(* is its one catalogue field: the form writes all fields at once, so the  *)
(* others behave alike. updated_at is a counter: no two requests read the  *)
(* same microsecond. A tab is a page in a browser together with the        *)
(* request it sends; another tab may show the same shipment. Of the audit  *)
(* log the newest entry of each shipment is kept.                          *)
(***************************************************************************)
EXTENDS Naturals, FiniteSets, Sequences

CONSTANTS
    ShipmentIds,    \* primary keys
    Names, NoName,  \* names of the catalogue; the empty field
    None,           \* no shipment, no catalogue value
    ValueIds,       \* primary keys of CatalogValue, of one catalog_type
    Tabs,           \* pages of users who edit shipments
    Admins,         \* requests that change the catalogue
    MaxStamp,       \* bound on the saves of shipments
    MaxRenames,     \* bound on the changes of the catalogue
    MaxRequestKills \* bound on workers killed

ASSUME ShipmentsAssumption ==
    /\ NoName \notin Names /\ None \notin ShipmentIds \cup ValueIds
    /\ MaxStamp \in Nat /\ MaxRenames \in Nat /\ MaxRequestKills \in Nat

VARIABLES
    shipments,      \* [ShipmentIds -> row]
    catalogue,      \* [ValueIds -> CatalogValue row]
    audit,          \* [ShipmentIds -> newest entry of the audit log]
    tabs,           \* [Tabs -> page and request]
    admins,         \* [Admins -> request]
    clock,          \* the last updated_at given
    catalogueChanges, requestKills,
    saves,          \* history: how often each shipment was saved
    behind,         \* history: shipments whose newest audit entry tells another name
    renamedAway,    \* history: names that a rename with update_shipments removed
    reintroduced    \* history: shipments into which a form wrote such a name

shipmentVars == <<shipments, catalogue, audit, tabs, admins, clock, catalogueChanges, requestKills,
                  saves, behind, renamedAway, reintroduced>>
catalogueVars == <<catalogue, admins, catalogueChanges, renamedAway>>
historyVars == <<saves, behind, reintroduced>>

\* SoftDeleteModel
Row == [state : {"absent", "live", "deleted"}, name : Names \cup {NoName}, stamp : 0..MaxStamp]
NoRow == [state |-> "absent", name |-> NoName, stamp |-> 0]

\* The managers objects and all_objects.
Live(s) == shipments[s].state = "live"
Exists(s) == shipments[s].state # "absent"

\* A page: the request of the tab, the shipment it shows and its token, the name
\* the request has read and the one the form sends. History: the last save
\* that is in the page, and whether the user was shown it or told of a conflict.
NoTab == [pc |-> "closed", ship |-> None, token |-> 0, read |-> NoName, write |-> NoName,
          seen |-> 0, told |-> FALSE]

\* CatalogValue, and a request that changes one.
NoValue == [name |-> NoName, active |-> FALSE]
NoAdmin == [pc |-> "free", id |-> None, read |-> NoValue, name |-> NoName, propagate |-> FALSE]

HasName(n) == \E v \in ValueIds : catalogue[v].name = n

\* log_shipment. History: what the author of an update knew of the version he
\* replaces, and whether the entry before told another name, or the row of this
\* one was read before another save.
NoEntry == [action |-> "none", old |-> NoName, new |-> NoName, author |-> "none", behind |-> FALSE]
Knowledge(tab, s) ==
    IF saves[s] # tab.seen THEN "unaware" ELSE IF tab.told THEN "told" ELSE "redrawn"
Logged(s, action, old, new, author, overtaken) ==
    audit' = [audit EXCEPT ![s] = [action |-> action, old |-> old, new |-> new,
                                   author |-> author, behind |-> s \in behind \/ overtaken]]

\* The names an entry begins and ends with: a deletion tells the old one only, a
\* restoration the new one.
Begins(entry) == IF entry.action = "restore" THEN entry.new ELSE entry.old
Ends(entry) == IF entry.action = "delete" THEN entry.old ELSE entry.new

ShipmentsInit ==
    /\ shipments = [s \in ShipmentIds |-> NoRow]
    /\ catalogue = [v \in ValueIds |-> NoValue]
    /\ audit = [s \in ShipmentIds |-> NoEntry]
    /\ tabs = [t \in Tabs |-> NoTab]
    /\ admins = [a \in Admins |-> NoAdmin]
    /\ clock = 0 /\ catalogueChanges = 0 /\ requestKills = 0
    /\ saves = [s \in ShipmentIds |-> 0] /\ behind = {} /\ renamedAway = {} /\ reintroduced = {}

Tick == clock < MaxStamp /\ clock' = clock + 1

IsSaved(s) == saves' = [saves EXCEPT ![s] = @ + 1]

\* A form writes name n into s.
Writes(s, n) ==
    /\ IsSaved(s)
    /\ behind' = behind \ {s}
    /\ reintroduced' = IF n \in renamedAway THEN reintroduced \cup {s} ELSE reintroduced \ {s}

(***************************************************************************)
(* Creation, in two statements without a transaction                       *)
(***************************************************************************)

\* ShipmentCreateMixin.form_valid up to super().form_valid
CreateShipment(t, s, n) ==
    /\ tabs[t].pc = "closed" /\ ~Exists(s)
    /\ Tick
    /\ shipments' = [shipments EXCEPT ![s] = [state |-> "live", name |-> n, stamp |-> clock']]
    /\ tabs' = [tabs EXCEPT ![t] = [NoTab EXCEPT !.pc = "created", !.ship = s, !.write = n]]
    /\ Writes(s, n)
    /\ UNCHANGED <<catalogueVars, audit, requestKills>>

\* log_shipment of the creation, with the object as it was saved. Another user
\* may have updated it since: the newest entry then tells the older name.
AuditCreation(t, s) ==
    /\ tabs[t].pc = "created" /\ tabs[t].ship = s
    /\ Logged(s, "create", NoName, tabs[t].write, "none", FALSE)
    /\ behind' = IF audit[s] = NoEntry THEN behind ELSE behind \cup {s}
    /\ tabs' = [tabs EXCEPT ![t] = NoTab]
    /\ UNCHANGED <<catalogueVars, shipments, clock, requestKills, saves, reintroduced>>

(***************************************************************************)
(* Update                                                                  *)
(***************************************************************************)

\* GET of the update page: the form with the row and its token.
OpenForm(t, s) ==
    /\ tabs[t].pc = "closed" /\ Live(s)
    /\ tabs' = [tabs EXCEPT ![t] = [NoTab EXCEPT !.pc = "open", !.ship = s,
                    !.token = shipments[s].stamp, !.seen = saves[s], !.told = TRUE]]
    /\ UNCHANGED <<catalogueVars, shipments, audit, clock, requestKills, historyVars>>

\* The page rendered with the row as it is now; "told" if the message says so.
Rendered(t, s, told) ==
    tabs' = [tabs EXCEPT ![t].pc = "open", ![t].token = shipments[s].stamp, ![t].seen = saves[s],
                ![t].told = told \/ (@ /\ tabs[t].seen = saves[s])]

\* Another field is invalid: UpdateView.post has set self.object to the row as it
\* is now, and the page that form_invalid renders takes its token from there.
PostInvalid(t, s) ==
    /\ tabs[t].pc = "open" /\ tabs[t].ship = s /\ Live(s)
    /\ Rendered(t, s, FALSE)
    /\ UNCHANGED <<catalogueVars, shipments, audit, clock, requestKills, historyVars>>

\* get_object finds no live row: 404.
PostGone(t, s) ==
    /\ tabs[t].pc = "open" /\ tabs[t].ship = s /\ ~Live(s)
    /\ tabs' = [tabs EXCEPT ![t] = NoTab]
    /\ UNCHANGED <<catalogueVars, shipments, audit, clock, requestKills, historyVars>>

\* ShipmentUpdateMixin.form_valid: the token is not the one of the row.
PostConflict(t, s) ==
    /\ tabs[t].pc = "open" /\ tabs[t].ship = s /\ Live(s)
    /\ tabs[t].token # shipments[s].stamp
    /\ Rendered(t, s, TRUE)
    /\ UNCHANGED <<catalogueVars, shipments, audit, clock, requestKills, historyVars>>

\* ... or it is: the row that was read is the old value of the audit entry.
PostValid(t, s, n) ==
    /\ tabs[t].pc = "open" /\ tabs[t].ship = s /\ Live(s)
    /\ tabs[t].token = shipments[s].stamp
    /\ tabs' = [tabs EXCEPT ![t].pc = "checked", ![t].read = shipments[s].name, ![t].write = n]
    /\ UNCHANGED <<catalogueVars, shipments, audit, clock, requestKills, historyVars>>

\* Mutant: the UPDATE looks for the primary key alone.
MatchesAnyVersion(t, s) == Live(s)

\* Rows that the UPDATE of form_valid finds.
Matches(t, s) == Live(s) /\ shipments[s].stamp = tabs[t].token

\* UPDATE and audit entry, in one transaction.
Updated(t, s, old, new) ==
    LET tab == tabs[t] IN
    /\ tab.pc = "checked" /\ tab.ship = s /\ Matches(t, s)
    /\ Tick
    /\ shipments' = [shipments EXCEPT ![s].name = tab.write, ![s].stamp = clock']
    /\ Logged(s, "update", old, new, Knowledge(tab, s), FALSE)
    /\ tabs' = [tabs EXCEPT ![t] = NoTab]
    /\ Writes(s, tab.write)
    /\ UNCHANGED <<catalogueVars, requestKills>>

\* Mutant: the old values are taken from the instance the form has filled in.
UpdateLogsFormAsOld(t, s) == Updated(t, s, tabs[t].write, tabs[t].write)

UpdateCommit(t, s) == Updated(t, s, tabs[t].read, tabs[t].write)

\* Nothing was updated: the page with the conflict, or DoesNotExist.
UpdateMisses(t, s) ==
    /\ tabs[t].pc = "checked" /\ tabs[t].ship = s /\ ~Matches(t, s)
    /\ IF Live(s) THEN Rendered(t, s, TRUE) ELSE tabs' = [tabs EXCEPT ![t] = NoTab]
    /\ UNCHANGED <<catalogueVars, shipments, audit, clock, requestKills, historyVars>>

(***************************************************************************)
(* Deletion and restoration: unconditional saves of two or three columns   *)
(***************************************************************************)

\* The row is read before the transaction of the commit.
ReadFor(t, s, pc) ==
    /\ tabs' = [tabs EXCEPT ![t] = [NoTab EXCEPT !.pc = pc, !.ship = s,
                    !.read = shipments[s].name, !.seen = saves[s]]]
    /\ UNCHANGED <<catalogueVars, shipments, audit, clock, requestKills, historyVars>>

\* ShipmentDeleteMixin.form_valid, and the POST branch of the duplicates page.
DeleteRead(t, s) == tabs[t].pc = "closed" /\ Live(s) /\ ReadFor(t, s, "deleting")

\* ShipmentRestoreViewMixin.post
RestoreRead(t, s) ==
    tabs[t].pc = "closed" /\ shipments[s].state = "deleted" /\ ReadFor(t, s, "restoring")

\* obj.save(update_fields=...) whatever became of the row, and the audit entry
\* with the row as it was read, in one transaction.
SavedAt(t, s, state, stamp) ==
    LET tab == tabs[t]
        deletes == state = "deleted" IN
    /\ tab.ship = s
    /\ shipments' = [shipments EXCEPT ![s].state = state, ![s].stamp = stamp]
    /\ IsSaved(s)
    /\ Logged(s, IF deletes THEN "delete" ELSE "restore", IF deletes THEN tab.read ELSE NoName,
              IF deletes THEN NoName ELSE tab.read, "none", saves[s] # tab.seen)
    /\ behind' = IF tab.read = shipments[s].name THEN behind \ {s} ELSE behind \cup {s}
    /\ tabs' = [tabs EXCEPT ![t] = NoTab]
    /\ UNCHANGED <<catalogueVars, requestKills, reintroduced>>

\* Mutant: updated_at is not among the update_fields.
SavedWithoutTime(t, s, state) == Tick /\ SavedAt(t, s, state, shipments[s].stamp)

Saved(t, s, state) == Tick /\ SavedAt(t, s, state, clock')

DeleteCommit(t, s) == tabs[t].pc = "deleting" /\ Saved(t, s, "deleted")
RestoreCommit(t, s) == tabs[t].pc = "restoring" /\ Saved(t, s, "live")

\* The worker of a request dies: its open transaction is rolled back.
RequestKilled(t) ==
    /\ tabs[t].pc \in {"created", "checked", "deleting", "restoring"}
    /\ requestKills < MaxRequestKills /\ requestKills' = requestKills + 1
    /\ tabs' = [tabs EXCEPT ![t] = NoTab]
    /\ UNCHANGED <<catalogueVars, shipments, audit, clock, historyVars>>

(***************************************************************************)
(* The catalogue                                                           *)
(***************************************************************************)

Changes == catalogueChanges < MaxRenames /\ catalogueChanges' = catalogueChanges + 1
Free(a) == admins' = [admins EXCEPT ![a] = NoAdmin]

\* catalog_value_add: get_or_create.
AddValue(a, v, n) ==
    /\ admins[a].pc = "free" /\ catalogue[v] = NoValue /\ ~HasName(n)
    /\ Changes
    /\ catalogue' = [catalogue EXCEPT ![v] = [name |-> n, active |-> TRUE]]
    /\ Free(a)
    /\ UNCHANGED <<shipments, audit, tabs, clock, requestKills, historyVars, renamedAway>>

\* The object is read: by catalog_value_toggle, or by catalog_value_edit, which
\* also looks whether another value has the new name.
ReadValue(a, v, intent, n, propagate) ==
    /\ admins[a].pc = "free" /\ catalogue[v] # NoValue
    /\ intent = "rename" => ~HasName(n)
    /\ admins' = [admins EXCEPT ![a] = [pc |-> intent, id |-> v, read |-> catalogue[v], name |-> n, propagate |-> propagate]]
    /\ UNCHANGED <<shipments, catalogue, audit, tabs, clock, catalogueChanges, requestKills, historyVars, renamedAway>>

\* Mutant: the manager of the live rows, as before V12-08.
PropagatesLive(a, s) == admins[a].propagate /\ Live(s) /\ shipments[s].name = admins[a].read.name

\* Shipments the rename rewrites: all_objects, with the old name.
Propagates(a, s) == admins[a].propagate /\ Exists(s) /\ shipments[s].name = admins[a].read.name

\* catalog_value_edit: obj.save(update_fields=["name"]) and the update of the
\* shipments, which leaves updated_at alone.
RenameCommit(a) ==
    LET own == admins[a] IN
    /\ own.pc = "rename" /\ catalogue[own.id] # NoValue /\ ~HasName(own.name)
    /\ Changes
    /\ catalogue' = [catalogue EXCEPT ![own.id].name = own.name]
    /\ shipments' = [s \in ShipmentIds |->
                       IF Propagates(a, s) THEN [shipments[s] EXCEPT !.name = own.name] ELSE shipments[s]]
    /\ behind' = behind \cup {s \in ShipmentIds : Propagates(a, s)} /\ UNCHANGED saves
    /\ renamedAway' = (IF own.propagate THEN renamedAway \cup {own.read.name} ELSE renamedAway) \ {own.name}
    /\ reintroduced' = {s \in reintroduced : shipments'[s].name \in renamedAway'}
    /\ Free(a)
    /\ UNCHANGED <<audit, tabs, clock, requestKills>>

\* IntegrityError, or DatabaseError since the row is gone: rolled back.
RenameFails(a) ==
    LET own == admins[a] IN
    /\ own.pc = "rename" /\ (catalogue[own.id] = NoValue \/ HasName(own.name))
    /\ Free(a)
    /\ UNCHANGED <<shipments, catalogue, audit, tabs, clock, catalogueChanges, requestKills, historyVars, renamedAway>>

\* catalog_value_toggle: obj.save() writes the row as it was read, the name
\* included, and inserts it again when it was deleted. The name is unique.
ToggleCommit(a) ==
    LET own == admins[a] IN
    /\ own.pc = "toggle"
    /\ Changes
    /\ IF \E v \in ValueIds \ {own.id} : catalogue[v].name = own.read.name
       THEN UNCHANGED catalogue
       ELSE catalogue' = [catalogue EXCEPT ![own.id] = [own.read EXCEPT !.active = ~own.read.active]]
    /\ Free(a)
    /\ UNCHANGED <<shipments, audit, tabs, clock, requestKills, historyVars, renamedAway>>

\* catalog_value_delete
DeleteValue(a, v) ==
    /\ admins[a].pc = "free" /\ catalogue[v] # NoValue
    /\ Changes
    /\ catalogue' = [catalogue EXCEPT ![v] = NoValue]
    /\ Free(a)
    /\ UNCHANGED <<shipments, audit, tabs, clock, requestKills, historyVars, renamedAway>>

TabNext(t) ==
    \E s \in ShipmentIds :
        \/ \E n \in Names : CreateShipment(t, s, n) \/ PostValid(t, s, n)
        \/ AuditCreation(t, s) \/ OpenForm(t, s)
        \/ PostInvalid(t, s) \/ PostGone(t, s) \/ PostConflict(t, s)
        \/ UpdateCommit(t, s) \/ UpdateMisses(t, s)
        \/ DeleteRead(t, s) \/ DeleteCommit(t, s) \/ RestoreRead(t, s) \/ RestoreCommit(t, s)

AdminNext(a) ==
    \/ \E v \in ValueIds, n \in Names :
         \/ AddValue(a, v, n)
         \/ \E propagate \in BOOLEAN : ReadValue(a, v, "rename", n, propagate)
    \/ \E v \in ValueIds : ReadValue(a, v, "toggle", NoName, FALSE) \/ DeleteValue(a, v)
    \/ RenameCommit(a) \/ RenameFails(a) \/ ToggleCommit(a)

ShipmentsNext ==
    \/ \E t \in Tabs : TabNext(t) \/ RequestKilled(t)
    \/ \E a \in Admins : AdminNext(a)

ShipmentsSpec == ShipmentsInit /\ [][ShipmentsNext]_shipmentVars

-----------------------------------------------------------------------------

NamesOrNone == Names \cup {NoName}
Page == [pc : {"closed", "open", "created", "checked", "deleting", "restoring"},
         ship : ShipmentIds \cup {None}, token : 0..MaxStamp, read : NamesOrNone, write : NamesOrNone,
         seen : Nat, told : BOOLEAN]
ValueRow == [name : NamesOrNone, active : BOOLEAN]
AuditEntry == [action : {"none", "create", "update", "delete", "restore"}, old : NamesOrNone, new : NamesOrNone,
               author : {"none", "unaware", "redrawn", "told"}, behind : BOOLEAN]
CatalogueRequest == [pc : {"free", "rename", "toggle"}, id : ValueIds \cup {None}, read : ValueRow,
                     name : NamesOrNone, propagate : BOOLEAN]

\* Types of the variables.
ShipmentsTypeOK ==
    /\ shipments \in [ShipmentIds -> Row]
    /\ catalogue \in [ValueIds -> ValueRow]
    /\ audit \in [ShipmentIds -> AuditEntry]
    /\ tabs \in [Tabs -> Page]
    /\ admins \in [Admins -> CatalogueRequest]
    /\ clock \in 0..MaxStamp
    /\ saves \in [ShipmentIds -> Nat]
    /\ behind \subseteq ShipmentIds /\ reintroduced \subseteq ShipmentIds
    /\ \A t \in Tabs : tabs[t].token <= clock

\* The audit log tells the history of a shipment without gaps: an update, a
\* deletion or a restoration begins with the name the entry before it ended with.
\* Not so after a rename of the catalogue, which rewrites names without an entry
\* of the shipment, or a creation logged late, nor if the shipment was saved
\* between the read and the save of a deletion or a restoration: the log has the
\* row as it was read (shipment_views.py, ShipmentRestoreViewMixin), there or for
\* the entry that follows.
AuditTellsTheHistory ==
    [][\A s \in ShipmentIds :
        audit[s] # NoEntry /\ audit'[s] # audit[s] /\ audit'[s].action # "create" =>
            Begins(audit'[s]) = Ends(audit[s]) \/ audit'[s].behind]_shipmentVars

\* Two saves of the same form never both succeed, nor does one that overlaps with
\* a deletion, a restoration or another save: an update replaces a version its
\* author was shown or told of, unless his page was rendered again because of an
\* error in a field.
OverwritesOnlyAfterInvalidForm == \A s \in ShipmentIds : audit[s].author # "unaware"

\* What the test of two parallel saves promises (shipments_auto/tests.py:355,
\* does not overwrite first save): no save replaces a version its author was
\* neither shown nor told of.
SavesReplaceWhatWasShown == \A s \in ShipmentIds : audit[s].action = "update" => audit[s].author = "told"

\* A name that a rename removed from the shipments, deleted ones included, comes
\* back into a shipment only by a form that writes it (V12-08).
NoNameLeftBehind ==
    \A s \in ShipmentIds : Exists(s) /\ shipments[s].name \in renamedAway => s \in reintroduced
=============================================================================
