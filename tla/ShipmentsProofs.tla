--------------------------- MODULE ShipmentsProofs ---------------------------
(***************************************************************************)
(* Proofs about Shipments, for every number of shipments, users, catalogue *)
(* values, saves, renames and killed workers, and about the views of the   *)
(* table, for every number of rows, columns, values and requests.          *)
(***************************************************************************)
EXTENDS Shipments, TableViews, FiniteSetTheorems, TLAPS

\* Every save gives updated_at a value that no page has as its token: a token
\* that is still the one of the row is that of the last save.
TokensTellSaves ==
    /\ \A s \in ShipmentIds : shipments[s].stamp <= clock
    /\ \A t \in Tabs, s \in ShipmentIds :
         tabs[t].pc \in {"open", "checked"} /\ tabs[t].ship = s /\ tabs[t].token = shipments[s].stamp
           => tabs[t].seen = saves[s]

\* The newest entry tells the name of the shipment, and so do the requests that
\* are about to write one, but for renames and late entries.
EntriesTellNames ==
    /\ \A s \in ShipmentIds :
         audit[s] # NoEntry => Exists(s) /\ (s \in behind \/ Ends(audit[s]) = shipments[s].name)
    /\ \A t \in Tabs, s \in ShipmentIds :
         /\ tabs[t].ship = s /\ tabs[t].pc # "closed" => Exists(s)
         /\ tabs[t].pc = "checked" /\ tabs[t].ship = s /\ tabs[t].token = shipments[s].stamp
              => s \in behind \/ tabs[t].read = shipments[s].name
         /\ tabs[t].pc \in {"deleting", "restoring"} /\ tabs[t].ship = s
              => /\ tabs[t].seen <= saves[s]
                 /\ tabs[t].seen = saves[s] => s \in behind \/ tabs[t].read = shipments[s].name
         /\ tabs[t].pc = "created" /\ tabs[t].ship = s /\ audit[s] = NoEntry
              => s \in behind \/ tabs[t].write = shipments[s].name

ShipmentsInv ==
    /\ ShipmentsTypeOK /\ TokensTellSaves /\ EntriesTellNames
    /\ OverwritesOnlyAfterInvalidForm /\ NoNameLeftBehind


(***************************************************************************)
(* Types                                                                   *)
(***************************************************************************)

LEMMA TypesInit == ShipmentsInit => ShipmentsTypeOK
  BY ShipmentsAssumption
  DEF ShipmentsInit, ShipmentsTypeOK, Row, NoRow, NamesOrNone, Page, NoTab, ValueRow, NoValue,
      AuditEntry, NoEntry, CatalogueRequest, NoAdmin

\* The pages a step may leave behind are pages.
LEMMA PagesTyped ==
    ASSUME ShipmentsTypeOK, NEW t \in Tabs, NEW s \in ShipmentIds
    PROVE  /\ NoTab \in Page
           /\ \A pc \in {"deleting", "restoring"} :
                [NoTab EXCEPT !.pc = pc, !.ship = s, !.read = shipments[s].name, !.seen = saves[s]] \in Page
           /\ [NoTab EXCEPT !.pc = "open", !.ship = s, !.token = shipments[s].stamp,
                 !.seen = saves[s], !.told = TRUE] \in Page
           /\ \A told \in BOOLEAN :
                [tabs[t] EXCEPT !.pc = "open", !.token = shipments[s].stamp, !.seen = saves[s],
                   !.told = told] \in Page
           /\ \A n \in Names :
                /\ [NoTab EXCEPT !.pc = "created", !.ship = s, !.write = n] \in Page
                /\ [tabs[t] EXCEPT !.pc = "checked", !.read = shipments[s].name, !.write = n] \in Page
<1>1. /\ shipments[s].stamp \in 0..MaxStamp /\ shipments[s].name \in NamesOrNone
      /\ saves[s] \in Nat /\ Names \subseteq NamesOrNone /\ tabs[t] \in Page
  BY DEF ShipmentsTypeOK, Row, NamesOrNone
<1>2. NoTab \in Page
  BY ShipmentsAssumption DEF Page, NoTab, NamesOrNone
<1>3. ASSUME NEW pc \in {"deleting", "restoring"}
      PROVE  [NoTab EXCEPT !.pc = pc, !.ship = s, !.read = shipments[s].name, !.seen = saves[s]] \in Page
  BY <1>1, <1>2 DEF Page
<1>5. [NoTab EXCEPT !.pc = "open", !.ship = s, !.token = shipments[s].stamp,
         !.seen = saves[s], !.told = TRUE] \in Page
  BY <1>1, <1>2 DEF Page
<1>6. ASSUME NEW told \in BOOLEAN
      PROVE  [tabs[t] EXCEPT !.pc = "open", !.token = shipments[s].stamp, !.seen = saves[s],
                !.told = told] \in Page
  BY <1>1 DEF Page
<1>7. ASSUME NEW n \in Names
      PROVE  /\ [NoTab EXCEPT !.pc = "created", !.ship = s, !.write = n] \in Page
             /\ [tabs[t] EXCEPT !.pc = "checked", !.read = shipments[s].name, !.write = n] \in Page
  <2>1. [NoTab EXCEPT !.pc = "created", !.ship = s, !.write = n] \in Page
    BY <1>1, <1>2 DEF Page
  <2>2. [tabs[t] EXCEPT !.pc = "checked", !.read = shipments[s].name, !.write = n] \in Page
    BY <1>1 DEF Page
  <2> QED BY <2>1, <2>2
<1> QED BY <1>2, <1>3, <1>5, <1>6, <1>7

\* Steps of a page leave a page behind, and read its token from the row.
LEMMA TabStepTyped ==
    ASSUME ShipmentsTypeOK, NEW t \in Tabs, TabNext(t) \/ RequestKilled(t)
    PROVE  tabs' \in [Tabs -> Page] /\ \A u \in Tabs \ {t} : tabs'[u] = tabs[u]
<1> USE DEF ShipmentsTypeOK
<1>0. NoTab \in Page
  BY ShipmentsAssumption DEF Page, NoTab, NamesOrNone
<1>1. CASE RequestKilled(t)
  BY <1>0, <1>1 DEF RequestKilled
<1>2. CASE TabNext(t)
  <2>0. PICK s \in ShipmentIds :
          \/ \E n \in Names : CreateShipment(t, s, n) \/ PostValid(t, s, n)
          \/ AuditCreation(t, s) \/ OpenForm(t, s)
          \/ PostInvalid(t, s) \/ PostGone(t, s) \/ PostConflict(t, s)
          \/ UpdateCommit(t, s) \/ UpdateMisses(t, s)
          \/ DeleteRead(t, s) \/ DeleteCommit(t, s) \/ RestoreRead(t, s) \/ RestoreCommit(t, s)
    BY <1>2 DEF TabNext
  <2>1. ASSUME NEW n \in Names, CreateShipment(t, s, n)
        PROVE  tabs' \in [Tabs -> Page] /\ \A u \in Tabs \ {t} : tabs'[u] = tabs[u]
    BY <2>1, PagesTyped DEF CreateShipment
  <2>2. ASSUME NEW n \in Names, PostValid(t, s, n)
        PROVE  tabs' \in [Tabs -> Page] /\ \A u \in Tabs \ {t} : tabs'[u] = tabs[u]
    <3>1. tabs' = [tabs EXCEPT ![t] = [@ EXCEPT !.pc = "checked", !.read = shipments[s].name, !.write = n]]
      BY <2>2 DEF PostValid
    <3> QED BY <3>1, PagesTyped
  <2>3. ASSUME NEW told \in BOOLEAN, Rendered(t, s, told)
        PROVE  tabs' \in [Tabs -> Page] /\ \A u \in Tabs \ {t} : tabs'[u] = tabs[u]
    <3> DEFINE knows == told \/ (tabs[t].told /\ tabs[t].seen = saves[s])
    <3>1. tabs' = [tabs EXCEPT ![t] = [tabs[t] EXCEPT !.pc = "open", !.token = shipments[s].stamp,
                      !.seen = saves[s], !.told = knows]]
      BY <2>3 DEF Rendered
    <3>2. knows \in BOOLEAN
      OBVIOUS
    <3> HIDE DEF knows
    <3>3. [tabs[t] EXCEPT !.pc = "open", !.token = shipments[s].stamp, !.seen = saves[s], !.told = knows] \in Page
      BY <3>2, <1>2, <2>0, PagesTyped
    <3> QED BY <3>1, <3>3
  <2>4. CASE AuditCreation(t, s)
    BY <1>0, <2>4 DEF AuditCreation
  <2>5. CASE OpenForm(t, s)
    BY <2>5, PagesTyped DEF OpenForm
  <2>6. CASE PostInvalid(t, s) \/ PostConflict(t, s)
    BY <2>6, <2>3 DEF PostInvalid, PostConflict
  <2>7. CASE PostGone(t, s)
    BY <1>0, <2>7 DEF PostGone
  <2>8. CASE UpdateCommit(t, s)
    BY <1>0, <2>8 DEF UpdateCommit, Updated
  <2>9. CASE UpdateMisses(t, s)
    BY <1>0, <2>3, <2>9 DEF UpdateMisses
  <2>10. CASE DeleteRead(t, s) \/ RestoreRead(t, s)
    BY <2>10, PagesTyped DEF DeleteRead, RestoreRead, ReadFor
  <2>11. CASE DeleteCommit(t, s) \/ RestoreCommit(t, s)
    BY <1>0, <2>11 DEF DeleteCommit, RestoreCommit, Saved, SavedAt
  <2> QED BY <2>0, <2>1, <2>2, <2>4, <2>5, <2>6, <2>7, <2>8, <2>9, <2>10, <2>11
<1> QED BY <1>1, <1>2

\* Requests of the catalogue leave the pages and the entries alone.
LEMMA AdminStepTyped ==
    ASSUME ShipmentsTypeOK, NEW a \in Admins, AdminNext(a)
    PROVE  /\ ShipmentsTypeOK'
           /\ UNCHANGED <<audit, tabs, clock, saves>>
<1> USE DEF ShipmentsTypeOK
<1>0. /\ NoAdmin \in CatalogueRequest /\ NoValue \in ValueRow /\ admins[a] \in CatalogueRequest
      /\ Names \subseteq NamesOrNone
  BY DEF NoAdmin, NoValue, CatalogueRequest, ValueRow, NamesOrNone
<1>1. ASSUME NEW v \in ValueIds, NEW n \in Names, AddValue(a, v, n)
      PROVE  ShipmentsTypeOK' /\ UNCHANGED <<audit, tabs, clock, saves>>
  <2>1. [name |-> n, active |-> TRUE] \in ValueRow
    BY <1>0 DEF ValueRow
  <2> QED BY <1>0, <1>1, <2>1 DEF AddValue, Free, historyVars
<1>2. ASSUME NEW v \in ValueIds, NEW intent \in {"rename", "toggle"}, NEW n \in NamesOrNone,
             NEW propagate \in BOOLEAN, ReadValue(a, v, intent, n, propagate)
      PROVE  ShipmentsTypeOK' /\ UNCHANGED <<audit, tabs, clock, saves>>
  <2>1. [pc |-> intent, id |-> v, read |-> catalogue[v], name |-> n, propagate |-> propagate] \in CatalogueRequest
    BY DEF CatalogueRequest
  <2> QED BY <1>2, <2>1 DEF ReadValue, historyVars
<1>3. ASSUME NEW v \in ValueIds, DeleteValue(a, v)
      PROVE  ShipmentsTypeOK' /\ UNCHANGED <<audit, tabs, clock, saves>>
  BY <1>0, <1>3 DEF DeleteValue, Free, historyVars
<1>4. CASE RenameCommit(a)
  <2>1. admins[a].name \in NamesOrNone
    BY <1>0 DEF CatalogueRequest
  <2>2. shipments' \in [ShipmentIds -> Row]
    <3>1. \A s \in ShipmentIds : [shipments[s] EXCEPT !.name = admins[a].name] \in Row
      BY <2>1 DEF Row, NamesOrNone
    <3> QED BY <1>4, <3>1 DEF RenameCommit
  <2>3. catalogue' \in [ValueIds -> ValueRow]
    <3>1. \A v \in ValueIds : [catalogue[v] EXCEPT !.name = admins[a].name] \in ValueRow
      BY <2>1 DEF ValueRow
    <3> QED BY <1>4, <3>1 DEF RenameCommit
  <2> QED BY <1>0, <1>4, <2>2, <2>3 DEF RenameCommit, Free
<1>5. CASE RenameFails(a)
  BY <1>0, <1>5 DEF RenameFails, Free, historyVars
<1>6. CASE ToggleCommit(a)
  <2>1. [admins[a].read EXCEPT !.active = ~admins[a].read.active] \in ValueRow
    BY <1>0 DEF CatalogueRequest, ValueRow
  <2> QED BY <1>0, <1>6, <2>1 DEF ToggleCommit, Free, historyVars
<1>7. NoName \in NamesOrNone
  BY DEF NamesOrNone
<1> QED BY <1>0, <1>1, <1>2, <1>3, <1>4, <1>5, <1>6, <1>7 DEF AdminNext

\* An entry of the log is an entry.
LEMMA EntryTyped ==
    ASSUME ShipmentsTypeOK, NEW t \in Tabs, NEW s \in ShipmentIds, NEW old \in NamesOrNone, NEW new \in NamesOrNone,
           NEW action \in {"create", "update", "delete", "restore"},
           NEW author \in {"none", "unaware", "redrawn", "told"}, NEW overtaken \in BOOLEAN,
           Logged(s, action, old, new, author, overtaken)
    PROVE  /\ audit' \in [ShipmentIds -> AuditEntry]
           /\ audit'[s] = [action |-> action, old |-> old, new |-> new,
                           author |-> author, behind |-> s \in behind \/ overtaken]
           /\ \A r \in ShipmentIds \ {s} : audit'[r] = audit[r]
<1> DEFINE late == s \in behind \/ overtaken
<1>1. late \in BOOLEAN
  OBVIOUS
<1>2. audit' = [audit EXCEPT ![s] = [action |-> action, old |-> old, new |-> new,
                                     author |-> author, behind |-> late]]
  BY DEF Logged
<1> HIDE DEF late
<1>3. [action |-> action, old |-> old, new |-> new, author |-> author, behind |-> late] \in AuditEntry
  BY <1>1 DEF AuditEntry
<1>4. /\ audit' \in [ShipmentIds -> AuditEntry]
      /\ audit'[s] = [action |-> action, old |-> old, new |-> new, author |-> author, behind |-> late]
      /\ \A r \in ShipmentIds \ {s} : audit'[r] = audit[r]
  BY <1>2, <1>3 DEF ShipmentsTypeOK
<1> QED BY <1>4 DEF late

\* A save gives a shipment a new time.
LEMMA SaveTyped ==
    ASSUME ShipmentsTypeOK, NEW s \in ShipmentIds, Tick, NEW row \in Row, row.stamp = clock',
           shipments' = [shipments EXCEPT ![s] = row], IsSaved(s)
    PROVE  /\ shipments' \in [ShipmentIds -> Row] /\ saves' \in [ShipmentIds -> Nat]
           /\ clock' \in 0..MaxStamp /\ clock' = clock + 1
BY ShipmentsAssumption DEF ShipmentsTypeOK, Tick, IsSaved

(***************************************************************************)
(* Most requests change their own page only: it is closed, about to write  *)
(* the deletion flag, shows the row, or was compared with it.              *)
(***************************************************************************)

PageStep(t, s) ==
    \/ RequestKilled(t) \/ (\E n \in Names : PostValid(t, s, n)) \/ OpenForm(t, s)
    \/ PostInvalid(t, s) \/ PostGone(t, s) \/ PostConflict(t, s) \/ UpdateMisses(t, s)
    \/ DeleteRead(t, s) \/ RestoreRead(t, s)

Shows(page, s) == page.ship = s /\ page.token = shipments[s].stamp /\ Exists(s)

PageAfter(t, s, page) ==
    \/ page.pc = "closed" /\ page.token = 0
    \/ /\ page.pc \in {"deleting", "restoring"} /\ page.ship = s /\ Exists(s) /\ page.token = 0
       /\ page.read = shipments[s].name /\ page.seen = saves[s]
    \/ page.pc = "open" /\ Shows(page, s) /\ page.seen = saves[s]
    \/ /\ page.pc = "checked" /\ Shows(page, s) /\ page.read = shipments[s].name
       /\ tabs[t].pc = "open" /\ Shows(tabs[t], s) /\ page.seen = tabs[t].seen

LEMMA RenderedPage ==
    ASSUME ShipmentsTypeOK, NEW t \in Tabs, NEW s \in ShipmentIds, NEW told \in BOOLEAN,
           tabs[t].ship = s, Exists(s), Rendered(t, s, told)
    PROVE  PageAfter(t, s, tabs'[t])
BY DEF ShipmentsTypeOK, Page, Rendered, PageAfter, Shows

LEMMA PageStepShape ==
    ASSUME ShipmentsTypeOK, NEW t \in Tabs, NEW s \in ShipmentIds, PageStep(t, s)
    PROVE  /\ UNCHANGED <<shipments, catalogue, audit, admins, clock, catalogueChanges, saves,
                          behind, renamedAway, reintroduced>>
           /\ PageAfter(t, s, tabs'[t])
<1> USE DEF Live, Exists
<1>0. /\ tabs = [u \in Tabs |-> tabs[u]]
      /\ \A page : tabs' = [tabs EXCEPT ![t] = page] => tabs'[t] = page
      /\ tabs[t] \in Page
  BY DEF ShipmentsTypeOK
<1>1. UNCHANGED <<shipments, catalogue, audit, admins, clock, catalogueChanges, saves,
                  behind, renamedAway, reintroduced>>
  BY DEF PageStep, RequestKilled, PostValid, OpenForm, PostInvalid, PostGone, PostConflict,
         UpdateMisses, DeleteRead, RestoreRead, ReadFor, catalogueVars, historyVars
<1> SUFFICES PageAfter(t, s, tabs'[t])
  BY <1>1
<1>2. NoTab.pc = "closed" /\ NoTab.token = 0
  BY DEF NoTab
<1>3. CASE RequestKilled(t) \/ PostGone(t, s) \/ (UpdateMisses(t, s) /\ ~Live(s))
  <2>1. tabs'[t] = NoTab
    BY <1>0, <1>3 DEF RequestKilled, PostGone, UpdateMisses
  <2> QED BY <1>2, <2>1 DEF PageAfter
<1>4. ASSUME NEW n \in Names, PostValid(t, s, n)
      PROVE  PageAfter(t, s, tabs'[t])
  <2>1. tabs'[t] = [tabs[t] EXCEPT !.pc = "checked", !.read = shipments[s].name, !.write = n]
    BY <1>0, <1>4 DEF PostValid
  <2> QED BY <1>0, <1>4, <2>1 DEF PostValid, PageAfter, Shows, Page
<1>5. CASE OpenForm(t, s)
  <2>1. tabs'[t] = [NoTab EXCEPT !.pc = "open", !.ship = s, !.token = shipments[s].stamp,
                      !.seen = saves[s], !.told = TRUE]
    BY <1>0, <1>5 DEF OpenForm
  <2>2. /\ tabs'[t].pc = "open" /\ tabs'[t].ship = s
        /\ tabs'[t].token = shipments[s].stamp /\ tabs'[t].seen = saves[s]
    BY <2>1 DEF NoTab
  <2>3. shipments[s].state = "live"
    BY <1>5 DEF OpenForm
  <2> QED BY <2>2, <2>3 DEF PageAfter, Shows
<1>6. CASE PostInvalid(t, s) \/ PostConflict(t, s) \/ (UpdateMisses(t, s) /\ Live(s))
  BY <1>6, RenderedPage DEF PostInvalid, PostConflict, UpdateMisses
<1>7. ASSUME NEW pc \in {"deleting", "restoring"}, ReadFor(t, s, pc), Exists(s)
      PROVE  PageAfter(t, s, tabs'[t])
  <2>1. tabs'[t] = [NoTab EXCEPT !.pc = pc, !.ship = s, !.read = shipments[s].name, !.seen = saves[s]]
    BY <1>0, <1>7 DEF ReadFor
  <2>2. /\ tabs'[t].pc = pc /\ tabs'[t].ship = s /\ tabs'[t].token = 0
        /\ tabs'[t].read = shipments[s].name /\ tabs'[t].seen = saves[s]
    BY <2>1 DEF NoTab
  <2> QED BY <1>7, <2>2 DEF PageAfter
<1>8. CASE DeleteRead(t, s) \/ RestoreRead(t, s)
  BY <1>7, <1>8 DEF DeleteRead, RestoreRead
<1> QED BY <1>3, <1>4, <1>5, <1>6, <1>7, <1>8 DEF PageStep

LEMMA PageStepInv ==
    ASSUME ShipmentsInv, NEW t \in Tabs, NEW s \in ShipmentIds, PageStep(t, s)
    PROVE  ShipmentsInv'
<1> USE DEF ShipmentsInv
<1>1. /\ UNCHANGED <<shipments, catalogue, audit, admins, clock, catalogueChanges, saves,
                     behind, renamedAway, reintroduced>>
      /\ PageAfter(t, s, tabs'[t])
  BY PageStepShape
<1>2. tabs' \in [Tabs -> Page] /\ \A u \in Tabs \ {t} : tabs'[u] = tabs[u]
  BY TabStepTyped DEF PageStep, TabNext
<1>3. \A u \in Tabs : tabs'[u].token <= clock'
  BY <1>1, <1>2, ShipmentsAssumption DEF TokensTellSaves, PageAfter, Shows, ShipmentsTypeOK
<1>4. ShipmentsTypeOK'
  BY <1>1, <1>2, <1>3 DEF ShipmentsTypeOK
<1>5. TokensTellSaves'
  BY <1>1, <1>2 DEF TokensTellSaves, PageAfter, Shows
<1>6. EntriesTellNames'
  <2>1. saves[s] \in Nat
    BY DEF ShipmentsTypeOK
  <2>2. ASSUME NEW u \in Tabs, NEW r \in ShipmentIds, tabs'[u].ship = r, tabs'[u].pc # "closed"
        PROVE  /\ Exists(r)
               /\ tabs'[u].pc = "checked" /\ tabs'[u].token = shipments[r].stamp
                    => r \in behind \/ tabs'[u].read = shipments[r].name
               /\ tabs'[u].pc \in {"deleting", "restoring"}
                    => /\ tabs'[u].seen <= saves[r]
                       /\ tabs'[u].seen = saves[r] => r \in behind \/ tabs'[u].read = shipments[r].name
               /\ tabs'[u].pc = "created" /\ audit[r] = NoEntry
                    => r \in behind \/ tabs'[u].write = shipments[r].name
    <3>1. CASE u = t
      <4>1. r = s
        BY <1>1, <2>2, <3>1 DEF PageAfter, Shows
      <4> QED BY <1>1, <2>1, <2>2, <3>1, <4>1 DEF PageAfter, Shows
    <3>2. CASE u # t
      BY <1>2, <2>2, <3>2 DEF EntriesTellNames
    <3> QED BY <3>1, <3>2
  <2> QED BY <1>1, <2>2 DEF EntriesTellNames, Exists
<1>7. OverwritesOnlyAfterInvalidForm' /\ NoNameLeftBehind'
  BY <1>1 DEF OverwritesOnlyAfterInvalidForm, NoNameLeftBehind, Exists
<1> QED BY <1>4, <1>5, <1>6, <1>7

(***************************************************************************)
(* Saves: the new time is later than every token.                          *)
(***************************************************************************)

\* What a save of s by t changes: the row, the page of t, and no entry but that of s.
IsSave(t, s) ==
    /\ \E row \in Row : row.stamp = clock' /\ row.state # "absent"
         /\ shipments' = [shipments EXCEPT ![s] = row]
    /\ Tick /\ IsSaved(s)
    /\ tabs' \in [Tabs -> Page] /\ \A u \in Tabs \ {t} : tabs'[u] = tabs[u]
    /\ \/ tabs'[t].pc = "closed"
       \/ tabs'[t].pc = "created" /\ tabs'[t].ship = s
    /\ tabs'[t].token = 0
    /\ audit' \in [ShipmentIds -> AuditEntry] /\ \A r \in ShipmentIds \ {s} : audit'[r] = audit[r]
    /\ behind' \subseteq ShipmentIds /\ behind' \ {s} = behind \ {s}
    /\ reintroduced' \subseteq ShipmentIds /\ reintroduced' \ {s} = reintroduced \ {s}
    /\ UNCHANGED <<catalogue, admins, renamedAway>>

LEMMA SaveKeepsTokens ==
    ASSUME ShipmentsInv, NEW t \in Tabs, NEW s \in ShipmentIds, IsSave(t, s)
    PROVE  ShipmentsTypeOK' /\ TokensTellSaves'
<1> USE DEF ShipmentsInv, IsSave
<1>1. PICK row \in Row : /\ row.stamp = clock' /\ row.state # "absent"
                         /\ shipments' = [shipments EXCEPT ![s] = row]
  OBVIOUS
<1>2. /\ shipments' \in [ShipmentIds -> Row] /\ saves' \in [ShipmentIds -> Nat]
      /\ clock' \in 0..MaxStamp /\ clock' = clock + 1
  BY <1>1, SaveTyped
<1>3. clock \in Nat /\ clock' \in Nat
  BY <1>2, ShipmentsAssumption DEF ShipmentsTypeOK
<1>4. \A u \in Tabs : tabs[u].token \in Nat /\ tabs[u].token <= clock
  BY ShipmentsAssumption DEF ShipmentsTypeOK, Page
<1>5. \A u \in Tabs : tabs'[u].token <= clock'
  BY <1>2, <1>3, <1>4
<1>6. ShipmentsTypeOK'
  BY <1>2, <1>5 DEF ShipmentsTypeOK
<1>7. \A r \in ShipmentIds : r # s => shipments'[r] = shipments[r] /\ saves'[r] = saves[r]
  BY <1>1 DEF ShipmentsTypeOK, IsSaved
<1>8. shipments'[s].stamp = clock'
  BY <1>1 DEF ShipmentsTypeOK
<1>9. \A r \in ShipmentIds : shipments[r].stamp \in Nat
  BY ShipmentsAssumption DEF ShipmentsTypeOK, Row
<1>10. \A r \in ShipmentIds : shipments'[r].stamp <= clock'
  BY <1>2, <1>3, <1>7, <1>8, <1>9 DEF TokensTellSaves
<1>11. ASSUME NEW u \in Tabs, NEW r \in ShipmentIds, tabs'[u].pc \in {"open", "checked"},
              tabs'[u].ship = r, tabs'[u].token = shipments'[r].stamp
       PROVE  tabs'[u].seen = saves'[r]
  <2>1. u # t
    BY <1>11
  <2>2. r # s
    BY <1>2, <1>3, <1>4, <1>8, <1>11, <2>1
  <2> QED BY <1>7, <1>11, <2>1, <2>2 DEF TokensTellSaves
<1> QED BY <1>6, <1>10, <1>11 DEF TokensTellSaves

\* No other page has the time of the save as its token.
LEMMA SaveOutdatesTokens ==
    ASSUME ShipmentsInv, NEW t \in Tabs, NEW s \in ShipmentIds, IsSave(t, s)
    PROVE  /\ \A u \in Tabs : u # t => tabs'[u] = tabs[u] /\ tabs'[u].token # shipments'[s].stamp
           /\ \A r \in ShipmentIds : r # s => /\ shipments'[r] = shipments[r] /\ audit'[r] = audit[r]
                                              /\ r \in behind' <=> r \in behind
                                              /\ r \in reintroduced' <=> r \in reintroduced
           /\ shipments'[s].state # "absent"
<1> USE DEF ShipmentsInv, IsSave
<1>1. PICK row \in Row : /\ row.stamp = clock' /\ row.state # "absent"
                         /\ shipments' = [shipments EXCEPT ![s] = row]
  OBVIOUS
<1>2. shipments'[s] = row /\ \A r \in ShipmentIds : r # s => shipments'[r] = shipments[r]
  BY <1>1 DEF ShipmentsTypeOK
<1>3. clock \in Nat /\ clock' = clock + 1
  BY ShipmentsAssumption DEF ShipmentsTypeOK, Tick
<1>4. \A u \in Tabs : tabs[u].token \in Nat /\ tabs[u].token <= clock
  BY ShipmentsAssumption DEF ShipmentsTypeOK, Page
<1>5. \A u \in Tabs : tabs[u].token # clock'
  BY <1>3, <1>4
<1> QED BY <1>1, <1>2, <1>5

\* A save keeps the invariant if the entry and the sets of s fit its new row.
LEMMA SaveInv ==
    ASSUME ShipmentsInv, NEW t \in Tabs, NEW s \in ShipmentIds, IsSave(t, s),
           audit'[s] # NoEntry => s \in behind' \/ Ends(audit'[s]) = shipments'[s].name,
           tabs'[t].pc = "created" => tabs'[t].write = shipments'[s].name,
           \A u \in Tabs \ {t} : tabs[u].pc = "created" /\ tabs[u].ship = s /\ audit'[s] = NoEntry =>
               s \in behind' \/ tabs[u].write = shipments'[s].name,
           audit'[s].author # "unaware",
           shipments'[s].name \in renamedAway => s \in reintroduced'
    PROVE  ShipmentsInv'
<1>1. ShipmentsTypeOK' /\ TokensTellSaves'
  BY SaveKeepsTokens
<1>2. /\ \A u \in Tabs : u # t => tabs'[u] = tabs[u] /\ tabs'[u].token # shipments'[s].stamp
      /\ \A r \in ShipmentIds : r # s => /\ shipments'[r] = shipments[r] /\ audit'[r] = audit[r]
                                         /\ r \in behind' <=> r \in behind
                                         /\ r \in reintroduced' <=> r \in reintroduced
      /\ shipments'[s].state # "absent"
  BY SaveOutdatesTokens
<1>3. OverwritesOnlyAfterInvalidForm'
  BY <1>2 DEF ShipmentsInv, OverwritesOnlyAfterInvalidForm
<1>4. NoNameLeftBehind'
  BY <1>2 DEF ShipmentsInv, NoNameLeftBehind, Exists, IsSave
<1>5. \A r \in ShipmentIds :
        audit'[r] # NoEntry => /\ shipments'[r].state # "absent"
                               /\ r \in behind' \/ Ends(audit'[r]) = shipments'[r].name
  BY <1>2 DEF ShipmentsInv, EntriesTellNames, Exists
<1>6. ASSUME NEW u \in Tabs, NEW r \in ShipmentIds, tabs'[u].ship = r, tabs'[u].pc # "closed"
      PROVE  /\ shipments'[r].state # "absent"
             /\ tabs'[u].pc = "checked" /\ tabs'[u].token = shipments'[r].stamp
                  => r \in behind' \/ tabs'[u].read = shipments'[r].name
             /\ tabs'[u].pc \in {"deleting", "restoring"}
                  => /\ tabs'[u].seen <= saves'[r]
                     /\ tabs'[u].seen = saves'[r] => r \in behind' \/ tabs'[u].read = shipments'[r].name
             /\ tabs'[u].pc = "created" /\ audit'[r] = NoEntry
                  => r \in behind' \/ tabs'[u].write = shipments'[r].name
  <2>1. CASE u = t
    <3>1. tabs'[t].pc = "created" /\ r = s
      BY <1>6, <2>1 DEF IsSave
    <3> QED BY <1>2, <2>1, <3>1
  <2>2. CASE u # t /\ r = s
    <3>1. tabs[u].seen \in Nat /\ saves[s] \in Nat /\ saves'[s] = saves[s] + 1
      BY DEF ShipmentsInv, ShipmentsTypeOK, Page, IsSave, IsSaved
    <3>2. tabs[u].pc \in {"deleting", "restoring"} => tabs[u].seen <= saves[s]
      BY <1>2, <1>6, <2>2 DEF ShipmentsInv, EntriesTellNames
    <3> QED BY <1>2, <1>6, <2>2, <3>1, <3>2
  <2>3. CASE u # t /\ r # s
    <3>1. saves'[r] = saves[r]
      BY <2>3 DEF ShipmentsInv, ShipmentsTypeOK, IsSave, IsSaved
    <3> QED BY <1>2, <1>6, <2>3, <3>1 DEF ShipmentsInv, EntriesTellNames, Exists
  <2> QED BY <2>1, <2>2, <2>3
<1>7. EntriesTellNames'
  BY <1>5, <1>6 DEF EntriesTellNames, Exists
<1> QED BY <1>1, <1>3, <1>4, <1>7 DEF ShipmentsInv

LEMMA CreateInv ==
    ASSUME ShipmentsInv, NEW t \in Tabs, NEW s \in ShipmentIds, NEW n \in Names, CreateShipment(t, s, n)
    PROVE  ShipmentsInv'
<1> DEFINE row == [state |-> "live", name |-> n, stamp |-> clock']
<1> USE DEF ShipmentsInv
<1>1. row \in Row
  BY ShipmentsAssumption DEF CreateShipment, Tick, Row, ShipmentsTypeOK
<1>2. /\ tabs' \in [Tabs -> Page] /\ \A u \in Tabs \ {t} : tabs'[u] = tabs[u]
      /\ tabs'[t] = [NoTab EXCEPT !.pc = "created", !.ship = s, !.write = n]
  BY PagesTyped DEF CreateShipment, ShipmentsTypeOK
<1>3. tabs'[t].pc = "created" /\ tabs'[t].ship = s /\ tabs'[t].token = 0 /\ tabs'[t].write = n
  BY <1>2 DEF NoTab
<1>4. row.stamp = clock' /\ row.state # "absent" /\ row.name = n
      /\ shipments' = [shipments EXCEPT ![s] = row]
  BY DEF CreateShipment
<1>5. shipments'[s].name = n
  BY <1>4 DEF ShipmentsTypeOK
<1> HIDE DEF row
<1>6. IsSave(t, s)
  BY <1>1, <1>2, <1>3, <1>4 DEF IsSave, CreateShipment, Writes, ShipmentsTypeOK, catalogueVars
<1>7. audit[s] = NoEntry /\ audit'[s] = NoEntry /\ NoEntry.author = "none"
  BY DEF EntriesTellNames, CreateShipment, NoEntry
<1>8. \A u \in Tabs : ~(tabs[u].pc = "created" /\ tabs[u].ship = s)
  BY DEF EntriesTellNames, CreateShipment
<1>9. shipments'[s].name \in renamedAway => s \in reintroduced'
  BY <1>5 DEF CreateShipment, Writes
<1> QED BY <1>3, <1>5, <1>6, <1>7, <1>8, <1>9, SaveInv

LEMMA UpdateInv ==
    ASSUME ShipmentsInv, NEW t \in Tabs, NEW s \in ShipmentIds, UpdateCommit(t, s)
    PROVE  /\ ShipmentsInv'
           /\ \A r \in ShipmentIds :
                audit[r] # NoEntry /\ audit'[r] # audit[r] =>
                    Begins(audit'[r]) = Ends(audit[r]) \/ audit'[r].behind
<1> DEFINE row == [shipments[s] EXCEPT !.name = tabs[t].write, !.stamp = clock']
           author == Knowledge(tabs[t], s)
<1> USE DEF ShipmentsInv
<1>1. /\ tabs[t].pc = "checked" /\ tabs[t].ship = s /\ tabs[t].token = shipments[s].stamp
      /\ Logged(s, "update", tabs[t].read, tabs[t].write, author, FALSE) /\ Writes(s, tabs[t].write) /\ Tick
      /\ shipments' = [shipments EXCEPT ![s].name = tabs[t].write, ![s].stamp = clock']
      /\ tabs' = [tabs EXCEPT ![t] = NoTab] /\ Exists(s)
      /\ UNCHANGED <<catalogue, admins, renamedAway>>
  BY DEF UpdateCommit, Updated, Matches, Live, Exists, catalogueVars
<1>2. tabs[t] \in Page /\ shipments[s] \in Row /\ shipments' = [shipments EXCEPT ![s] = row]
  BY <1>1 DEF ShipmentsTypeOK
<1>3. clock' \in 0..MaxStamp
  BY <1>1, ShipmentsAssumption DEF Tick, ShipmentsTypeOK
<1>4. tabs[t].write \in NamesOrNone /\ tabs[t].read \in NamesOrNone
  BY <1>2 DEF Page
<1>5. row \in Row /\ row.stamp = clock' /\ row.state # "absent" /\ row.name = tabs[t].write
  BY <1>1, <1>2, <1>3, <1>4 DEF Row, NamesOrNone, Exists
<1>6. shipments'[s].name = tabs[t].write
  BY <1>2, <1>5 DEF ShipmentsTypeOK
<1>7. /\ tabs' \in [Tabs -> Page] /\ \A u \in Tabs \ {t} : tabs'[u] = tabs[u]
      /\ tabs'[t].pc = "closed" /\ tabs'[t].token = 0
  <2>1. NoTab \in Page /\ NoTab.pc = "closed" /\ NoTab.token = 0
    BY PagesTyped DEF NoTab
  <2> QED BY <1>1, <2>1 DEF ShipmentsTypeOK
<1>8. author \in {"none", "redrawn", "told"}
  BY <1>1 DEF TokensTellSaves, Knowledge
<1> HIDE DEF row, author
<1>9. /\ audit' \in [ShipmentIds -> AuditEntry]
      /\ audit'[s] = [action |-> "update", old |-> tabs[t].read, new |-> tabs[t].write,
                      author |-> author, behind |-> s \in behind \/ FALSE]
      /\ \A r \in ShipmentIds \ {s} : audit'[r] = audit[r]
  <2> DEFINE action == "update"
             overtaken == FALSE
  <2>1. /\ action \in {"create", "update", "delete", "restore"} /\ overtaken \in BOOLEAN
        /\ author \in {"none", "unaware", "redrawn", "told"}
        /\ Logged(s, action, tabs[t].read, tabs[t].write, author, overtaken)
    BY <1>1, <1>8
  <2> HIDE DEF action, overtaken
  <2>2. /\ audit' \in [ShipmentIds -> AuditEntry]
        /\ audit'[s] = [action |-> action, old |-> tabs[t].read, new |-> tabs[t].write,
                        author |-> author, behind |-> s \in behind \/ overtaken]
        /\ \A r \in ShipmentIds \ {s} : audit'[r] = audit[r]
    BY <1>4, <2>1, EntryTyped
  <2> QED BY <2>2 DEF action, overtaken
<1>10. /\ audit'[s].action = "update" /\ audit'[s].author = author
       /\ Ends(audit'[s]) = tabs[t].write /\ Begins(audit'[s]) = tabs[t].read
       /\ audit'[s].behind = (s \in behind)
  BY <1>9 DEF Begins, Ends
<1>11. IsSave(t, s)
  BY <1>1, <1>2, <1>5, <1>7, <1>9, <1>10 DEF IsSave, Writes, ShipmentsTypeOK
<1>12. audit'[s] # NoEntry
  BY <1>10 DEF NoEntry
<1>13. shipments'[s].name \in renamedAway => s \in reintroduced'
  BY <1>1, <1>6 DEF Writes
<1>14. ShipmentsInv'
  BY <1>6, <1>7, <1>8, <1>10, <1>11, <1>12, <1>13, SaveInv
<1>15. audit[s] # NoEntry => Begins(audit'[s]) = Ends(audit[s]) \/ audit'[s].behind
  BY <1>1, <1>10 DEF EntriesTellNames
<1> QED BY <1>9, <1>14, <1>15

\* A deletion or a restoration joins up, unless its row was read before a save.
LEMMA DeletionInv ==
    ASSUME ShipmentsInv, NEW t \in Tabs, NEW s \in ShipmentIds, DeleteCommit(t, s) \/ RestoreCommit(t, s)
    PROVE  /\ ShipmentsInv'
           /\ \A r \in ShipmentIds :
                audit[r] # NoEntry /\ audit'[r] # audit[r] =>
                    Begins(audit'[r]) = Ends(audit[r]) \/ audit'[r].behind
<1> USE DEF ShipmentsInv
<1>1. PICK state \in {"live", "deleted"} : Saved(t, s, state)
  BY DEF DeleteCommit, RestoreCommit
<1> DEFINE row == [shipments[s] EXCEPT !.state = state, !.stamp = clock']
           action == IF state = "deleted" THEN "delete" ELSE "restore"
           old == IF state = "deleted" THEN tabs[t].read ELSE NoName
           new == IF state = "deleted" THEN NoName ELSE tabs[t].read
           overtaken == saves[s] # tabs[t].seen
<1>2. /\ Tick /\ IsSaved(s) /\ tabs' = [tabs EXCEPT ![t] = NoTab]
      /\ shipments' = [shipments EXCEPT ![s].state = state, ![s].stamp = clock']
      /\ Logged(s, action, old, new, "none", overtaken)
      /\ behind' = IF tabs[t].read = shipments[s].name THEN behind \ {s} ELSE behind \cup {s}
      /\ UNCHANGED <<catalogue, admins, renamedAway, reintroduced>>
  BY <1>1 DEF Saved, SavedAt, catalogueVars
<1>3. shipments[s] \in Row /\ shipments' = [shipments EXCEPT ![s] = row] /\ tabs[t] \in Page
  BY <1>2 DEF ShipmentsTypeOK
<1>4. clock' \in 0..MaxStamp
  BY <1>2, ShipmentsAssumption DEF Tick, ShipmentsTypeOK
<1>5. row \in Row /\ row.stamp = clock' /\ row.state # "absent" /\ row.name = shipments[s].name
  BY <1>3, <1>4 DEF Row
<1> HIDE DEF row
<1>6. shipments'[s].name = shipments[s].name
  BY <1>3, <1>5 DEF ShipmentsTypeOK
<1>7. /\ tabs' \in [Tabs -> Page] /\ \A u \in Tabs \ {t} : tabs'[u] = tabs[u]
      /\ tabs'[t].pc = "closed" /\ tabs'[t].token = 0
  <2>1. NoTab \in Page /\ NoTab.pc = "closed" /\ NoTab.token = 0
    BY PagesTyped DEF NoTab
  <2> QED BY <1>2, <2>1 DEF ShipmentsTypeOK
<1>8. /\ action \in {"create", "update", "delete", "restore"} /\ overtaken \in BOOLEAN
      /\ old \in NamesOrNone /\ new \in NamesOrNone
  <2>1. tabs[t].read \in NamesOrNone /\ NoName \in NamesOrNone
    BY <1>3 DEF Page, NamesOrNone
  <2> QED BY <2>1
<1>9. /\ audit' \in [ShipmentIds -> AuditEntry]
      /\ audit'[s] = [action |-> action, old |-> old, new |-> new, author |-> "none",
                      behind |-> s \in behind \/ overtaken]
      /\ \A r \in ShipmentIds \ {s} : audit'[r] = audit[r]
  <2> HIDE DEF action, old, new, overtaken
  <2> QED BY <1>2, <1>8, EntryTyped
<1>10. /\ Begins(audit'[s]) = tabs[t].read /\ Ends(audit'[s]) = tabs[t].read
       /\ audit'[s].action # "none" /\ audit'[s].author = "none"
       /\ audit'[s].behind = (s \in behind \/ overtaken)
  BY <1>9 DEF Begins, Ends
<1>11. /\ tabs[t].pc \in {"deleting", "restoring"} /\ tabs[t].ship = s /\ Exists(s)
       /\ tabs[t].seen = saves[s] => s \in behind \/ tabs[t].read = shipments[s].name
  BY DEF DeleteCommit, RestoreCommit, Saved, SavedAt, EntriesTellNames
<1>12. IsSave(t, s)
  BY <1>2, <1>3, <1>5, <1>7, <1>9 DEF IsSave, ShipmentsTypeOK
<1>13. audit'[s] # NoEntry /\ audit'[s].author # "unaware"
  BY <1>10 DEF NoEntry
<1>14. s \in behind' \/ Ends(audit'[s]) = shipments'[s].name
  BY <1>2, <1>6, <1>10
<1>15. shipments'[s].name \in renamedAway => s \in reintroduced'
  BY <1>2, <1>6, <1>11 DEF NoNameLeftBehind
<1>16. ShipmentsInv'
  BY <1>7, <1>12, <1>13, <1>14, <1>15, SaveInv
<1>17. audit[s] # NoEntry => Begins(audit'[s]) = Ends(audit[s]) \/ audit'[s].behind
  <2>1. audit[s] # NoEntry => s \in behind \/ Ends(audit[s]) = shipments[s].name
    BY DEF EntriesTellNames
  <2>2. CASE overtaken \/ s \in behind
    BY <1>10, <2>2
  <2>3. CASE ~overtaken /\ s \notin behind
    BY <1>10, <1>11, <2>1, <2>3
  <2> QED BY <2>2, <2>3
<1> QED BY <1>9, <1>16, <1>17

\* The entry of a creation is behind if another one came before it.
LEMMA AuditCreationInv ==
    ASSUME ShipmentsInv, NEW t \in Tabs, NEW s \in ShipmentIds, AuditCreation(t, s)
    PROVE  /\ ShipmentsInv'
           /\ \A r \in ShipmentIds : audit'[r] # audit[r] => audit'[r].action = "create"
<1> USE DEF ShipmentsInv
<1>1. /\ tabs[t].pc = "created" /\ tabs[t].ship = s
      /\ Logged(s, "create", NoName, tabs[t].write, "none", FALSE)
      /\ behind' = IF audit[s] = NoEntry THEN behind ELSE behind \cup {s}
      /\ tabs' = [tabs EXCEPT ![t] = NoTab]
      /\ UNCHANGED <<catalogue, admins, renamedAway, shipments, clock, saves, reintroduced>>
  BY DEF AuditCreation, catalogueVars
<1>2. tabs[t] \in Page
  BY DEF ShipmentsTypeOK
<1>3. tabs[t].write \in NamesOrNone /\ NoName \in NamesOrNone
  BY <1>2 DEF Page, NamesOrNone
<1>4. /\ audit' \in [ShipmentIds -> AuditEntry]
      /\ audit'[s] = [action |-> "create", old |-> NoName, new |-> tabs[t].write,
                      author |-> "none", behind |-> s \in behind \/ FALSE]
      /\ \A r \in ShipmentIds \ {s} : audit'[r] = audit[r]
  <2> DEFINE action == "create"
             author == "none"
             overtaken == FALSE
  <2>1. /\ action \in {"create", "update", "delete", "restore"} /\ overtaken \in BOOLEAN
        /\ author \in {"none", "unaware", "redrawn", "told"}
        /\ Logged(s, action, NoName, tabs[t].write, author, overtaken)
    BY <1>1
  <2> HIDE DEF action, author, overtaken
  <2>2. /\ audit' \in [ShipmentIds -> AuditEntry]
        /\ audit'[s] = [action |-> action, old |-> NoName, new |-> tabs[t].write,
                        author |-> author, behind |-> s \in behind \/ overtaken]
        /\ \A r \in ShipmentIds \ {s} : audit'[r] = audit[r]
    BY <1>3, <2>1, EntryTyped
  <2> QED BY <2>2 DEF action, author, overtaken
<1>5. /\ Ends(audit'[s]) = tabs[t].write /\ audit'[s].action = "create" /\ audit'[s].author = "none"
      /\ \A r \in ShipmentIds \ {s} : audit'[r] = audit[r]
  BY <1>4 DEF Ends
<1>6. audit'[s] # NoEntry
  BY <1>5 DEF NoEntry
<1>7. /\ tabs' \in [Tabs -> Page] /\ \A u \in Tabs \ {t} : tabs'[u] = tabs[u]
      /\ tabs'[t].pc = "closed" /\ tabs'[t].token = 0
  <2>1. NoTab \in Page /\ NoTab.pc = "closed" /\ NoTab.token = 0
    BY PagesTyped DEF NoTab
  <2> QED BY <1>1, <2>1 DEF ShipmentsTypeOK
<1>8. \A u \in Tabs : tabs'[u].token <= clock'
  BY <1>1, <1>7, ShipmentsAssumption DEF ShipmentsTypeOK
<1>9. ShipmentsTypeOK'
  BY <1>1, <1>4, <1>7, <1>8 DEF ShipmentsTypeOK
<1>10. TokensTellSaves'
  BY <1>1, <1>7 DEF TokensTellSaves
<1>11. EntriesTellNames'
  <2>1. \A r \in ShipmentIds : /\ r \in behind => r \in behind'
                               /\ shipments'[r] = shipments[r]
                               /\ audit'[r] = NoEntry => audit[r] = NoEntry
    BY <1>1, <1>5, <1>6
  <2>2. s \in behind' \/ tabs[t].write = shipments[s].name
    BY <1>1 DEF EntriesTellNames
  <2>3. Exists(s)
    BY <1>1 DEF EntriesTellNames
  <2>4. ASSUME NEW r \in ShipmentIds, audit'[r] # NoEntry
        PROVE  shipments'[r].state # "absent" /\ (r \in behind' \/ Ends(audit'[r]) = shipments'[r].name)
    <3>1. CASE r = s
      BY <1>5, <2>1, <2>2, <2>3, <3>1 DEF Exists
    <3>2. CASE r # s
      BY <1>5, <2>1, <2>4, <3>2 DEF EntriesTellNames, Exists
    <3> QED BY <3>1, <3>2
  <2>5. ASSUME NEW u \in Tabs, NEW r \in ShipmentIds, tabs'[u].ship = r, tabs'[u].pc # "closed"
        PROVE  /\ shipments'[r].state # "absent"
               /\ tabs'[u].pc = "checked" /\ tabs'[u].token = shipments'[r].stamp
                    => r \in behind' \/ tabs'[u].read = shipments'[r].name
               /\ tabs'[u].pc \in {"deleting", "restoring"}
                    => /\ tabs'[u].seen <= saves'[r]
                       /\ tabs'[u].seen = saves'[r] => r \in behind' \/ tabs'[u].read = shipments'[r].name
               /\ tabs'[u].pc = "created" /\ audit'[r] = NoEntry
                    => r \in behind' \/ tabs'[u].write = shipments'[r].name
    BY <1>1, <1>7, <2>1, <2>5 DEF EntriesTellNames, Exists
  <2> QED BY <2>4, <2>5 DEF EntriesTellNames, Exists
<1>12. OverwritesOnlyAfterInvalidForm' /\ NoNameLeftBehind'
  BY <1>1, <1>5 DEF OverwritesOnlyAfterInvalidForm, NoNameLeftBehind, Exists
<1> QED BY <1>5, <1>9, <1>10, <1>11, <1>12

(***************************************************************************)
(* The catalogue                                                           *)
(***************************************************************************)

\* A rename leaves updated_at and the log alone; the names it writes are behind.
LEMMA RenameInv ==
    ASSUME ShipmentsInv, NEW a \in Admins, RenameCommit(a), ShipmentsTypeOK',
           UNCHANGED <<audit, tabs, clock, saves>>
    PROVE  ShipmentsInv'
<1> USE DEF ShipmentsInv
<1>1. ASSUME NEW s \in ShipmentIds
      PROVE  /\ shipments'[s].stamp = shipments[s].stamp /\ shipments'[s].state = shipments[s].state
             /\ s \in behind => s \in behind'
             /\ s \in behind' \/ shipments'[s].name = shipments[s].name
             /\ Propagates(a, s) => shipments'[s].name = admins[a].name
             /\ ~Propagates(a, s) => shipments'[s] = shipments[s]
             /\ s \in reintroduced' <=> s \in reintroduced /\ shipments'[s].name \in renamedAway'
  <2>1. /\ shipments'[s] = IF Propagates(a, s) THEN [shipments[s] EXCEPT !.name = admins[a].name] ELSE shipments[s]
        /\ behind' = behind \cup {r \in ShipmentIds : Propagates(a, r)}
        /\ reintroduced' = {r \in reintroduced : shipments'[r].name \in renamedAway'}
    BY DEF RenameCommit
  <2>2. shipments[s] \in Row
    BY DEF ShipmentsTypeOK
  <2> QED BY <2>1, <2>2 DEF Row
<1>2. TokensTellSaves'
  BY <1>1 DEF TokensTellSaves
<1>3. EntriesTellNames'
  BY <1>1 DEF EntriesTellNames, Exists
<1>4. OverwritesOnlyAfterInvalidForm'
  BY DEF OverwritesOnlyAfterInvalidForm
<1>5. NoNameLeftBehind'
  <2> SUFFICES ASSUME NEW s \in ShipmentIds, shipments'[s].state # "absent", shipments'[s].name \in renamedAway'
               PROVE  s \in reintroduced
    BY <1>1 DEF NoNameLeftBehind, Exists
  <2>1. renamedAway' = (IF admins[a].propagate THEN renamedAway \cup {admins[a].read.name} ELSE renamedAway)
                           \ {admins[a].name}
    BY DEF RenameCommit
  <2>2. ~Propagates(a, s) /\ shipments'[s] = shipments[s] /\ Exists(s)
    BY <1>1, <2>1 DEF Exists
  <2>3. shipments[s].name \in renamedAway
    BY <2>1, <2>2 DEF Propagates
  <2> QED BY <2>2, <2>3 DEF NoNameLeftBehind
<1> QED BY <1>2, <1>3, <1>4, <1>5

LEMMA AdminInv ==
    ASSUME ShipmentsInv, NEW a \in Admins, AdminNext(a)
    PROVE  ShipmentsInv' /\ UNCHANGED audit
<1>1. ShipmentsTypeOK' /\ UNCHANGED <<audit, tabs, clock, saves>>
  BY AdminStepTyped DEF ShipmentsInv
<1>2. CASE RenameCommit(a)
  BY <1>1, <1>2, RenameInv
<1>3. CASE ~RenameCommit(a)
  <2>1. UNCHANGED <<shipments, behind, reintroduced, renamedAway>>
    BY <1>3 DEF AdminNext, AddValue, ReadValue, RenameFails, ToggleCommit, DeleteValue, historyVars
  <2> QED BY <1>1, <2>1 DEF ShipmentsInv, TokensTellSaves, EntriesTellNames, Exists,
                            OverwritesOnlyAfterInvalidForm, NoNameLeftBehind
<1> QED BY <1>1, <1>2, <1>3

(***************************************************************************)
(* The invariant, and what it gives                                        *)
(***************************************************************************)

LEMMA KilledInv ==
    ASSUME ShipmentsInv, NEW t \in Tabs, RequestKilled(t)
    PROVE  ShipmentsInv' /\ UNCHANGED audit
<1> USE DEF ShipmentsInv
<1>1. /\ UNCHANGED <<shipments, catalogue, audit, admins, clock, saves, behind, renamedAway, reintroduced>>
      /\ tabs' = [tabs EXCEPT ![t] = NoTab]
  BY DEF RequestKilled, catalogueVars, historyVars
<1>2. tabs' \in [Tabs -> Page] /\ \A u \in Tabs \ {t} : tabs'[u] = tabs[u]
  BY TabStepTyped
<1>3. tabs'[t].pc = "closed" /\ tabs'[t].token = 0
  BY <1>1 DEF NoTab, ShipmentsTypeOK
<1>4. \A u \in Tabs : tabs'[u].token <= clock'
  BY <1>1, <1>2, <1>3, ShipmentsAssumption DEF ShipmentsTypeOK
<1>5. ShipmentsTypeOK'
  BY <1>1, <1>2, <1>4 DEF ShipmentsTypeOK
<1>6. TokensTellSaves' /\ EntriesTellNames'
  BY <1>1, <1>2, <1>3 DEF TokensTellSaves, EntriesTellNames, Exists
<1> QED BY <1>1, <1>5, <1>6 DEF OverwritesOnlyAfterInvalidForm, NoNameLeftBehind, Exists

LEMMA InvInit == ShipmentsInit => ShipmentsInv
<1> SUFFICES ASSUME ShipmentsInit PROVE ShipmentsInv
  OBVIOUS
<1>1. ShipmentsTypeOK
  BY TypesInit
<1>2. \A s \in ShipmentIds : /\ shipments[s].stamp = 0 /\ shipments[s].state = "absent"
                             /\ audit[s] = NoEntry /\ audit[s].author = "none"
  BY DEF ShipmentsInit, NoRow, NoEntry
<1>3. \A t \in Tabs : tabs[t].pc = "closed"
  BY DEF ShipmentsInit, NoTab
<1>4. clock = 0
  BY DEF ShipmentsInit
<1> QED BY <1>1, <1>2, <1>3, <1>4 DEF ShipmentsInv, TokensTellSaves, EntriesTellNames, Exists,
                                      OverwritesOnlyAfterInvalidForm, NoNameLeftBehind

AuditStep ==
    \A s \in ShipmentIds :
        audit[s] # NoEntry /\ audit'[s] # audit[s] /\ audit'[s].action # "create" =>
            Begins(audit'[s]) = Ends(audit[s]) \/ audit'[s].behind

LEMMA InvStep == ShipmentsInv /\ [ShipmentsNext]_shipmentVars => ShipmentsInv' /\ AuditStep
<1> SUFFICES ASSUME ShipmentsInv, [ShipmentsNext]_shipmentVars PROVE ShipmentsInv' /\ AuditStep
  OBVIOUS
<1>1. CASE UNCHANGED shipmentVars
  BY <1>1 DEF shipmentVars, ShipmentsInv, ShipmentsTypeOK, TokensTellSaves, EntriesTellNames, Exists,
              OverwritesOnlyAfterInvalidForm, NoNameLeftBehind, AuditStep
<1>2. ASSUME NEW a \in Admins, AdminNext(a)
      PROVE  ShipmentsInv' /\ AuditStep
  BY <1>2, AdminInv DEF AuditStep
<1>3. ASSUME NEW t \in Tabs, RequestKilled(t)
      PROVE  ShipmentsInv' /\ AuditStep
  BY <1>3, KilledInv DEF AuditStep
<1>4. ASSUME NEW t \in Tabs, TabNext(t)
      PROVE  ShipmentsInv' /\ AuditStep
  <2>1. PICK s \in ShipmentIds :
          \/ \E n \in Names : CreateShipment(t, s, n) \/ PostValid(t, s, n)
          \/ AuditCreation(t, s) \/ OpenForm(t, s)
          \/ PostInvalid(t, s) \/ PostGone(t, s) \/ PostConflict(t, s)
          \/ UpdateCommit(t, s) \/ UpdateMisses(t, s)
          \/ DeleteRead(t, s) \/ DeleteCommit(t, s) \/ RestoreRead(t, s) \/ RestoreCommit(t, s)
    BY <1>4 DEF TabNext
  <2>2. CASE PageStep(t, s)
    <3>1. UNCHANGED audit
      BY <2>2, PageStepShape DEF ShipmentsInv
    <3> QED BY <2>2, <3>1, PageStepInv DEF AuditStep
  <2>3. ASSUME NEW n \in Names, CreateShipment(t, s, n)
        PROVE  ShipmentsInv' /\ AuditStep
    <3>1. UNCHANGED audit
      BY <2>3 DEF CreateShipment
    <3> QED BY <2>3, <3>1, CreateInv DEF AuditStep
  <2>4. CASE AuditCreation(t, s)
    BY <2>4, AuditCreationInv DEF AuditStep
  <2>5. CASE UpdateCommit(t, s)
    BY <2>5, UpdateInv DEF AuditStep
  <2>6. CASE DeleteCommit(t, s) \/ RestoreCommit(t, s)
    BY <2>6, DeletionInv DEF AuditStep
  <2> QED BY <2>1, <2>2, <2>3, <2>4, <2>5, <2>6 DEF PageStep
<1> QED BY <1>1, <1>2, <1>3, <1>4 DEF ShipmentsNext

LEMMA InvAlways == ShipmentsSpec => []ShipmentsInv
BY InvInit, InvStep, PTL DEF ShipmentsSpec

\* Every reachable state has the types of the model; in particular no page holds
\* a token later than the last save.
THEOREM ShipmentsTyping == ShipmentsSpec => []ShipmentsTypeOK
<1>1. ShipmentsInv => ShipmentsTypeOK
  BY DEF ShipmentsInv
<1> QED BY <1>1, InvAlways, PTL

\* Whatever the number of users, no update of a shipment replaces a version its
\* author was neither shown nor told of nor given by a redrawn form: the UPDATE
\* of form_valid (shipment_views.py) compares updated_at with the token, and every
\* save, deletion and restoration gives updated_at a new value.
THEOREM NoUnseenOverwrite == ShipmentsSpec => []OverwritesOnlyAfterInvalidForm
<1>1. ShipmentsInv => OverwritesOnlyAfterInvalidForm
  BY DEF ShipmentsInv
<1> QED BY <1>1, InvAlways, PTL

\* A rename with update_shipments (catalogs/views.py, catalog_value_edit) leaves
\* its old name in no shipment, deleted ones included, unless a form wrote it since.
THEOREM NamesFollow == ShipmentsSpec => []NoNameLeftBehind
<1>1. ShipmentsInv => NoNameLeftBehind
  BY DEF ShipmentsInv
<1> QED BY <1>1, InvAlways, PTL

\* The entries of log_shipment join up: an update, a deletion or a restoration
\* begins with the name the entry before ended with, but for renames, creations
\* logged late, and deletions and restorations overtaken by another save.
THEOREM AuditIsComplete == ShipmentsSpec => AuditTellsTheHistory
<1>1. ShipmentsInv /\ [ShipmentsNext]_shipmentVars =>
        [\A s \in ShipmentIds :
           audit[s] # NoEntry /\ audit'[s] # audit[s] /\ audit'[s].action # "create" =>
               Begins(audit'[s]) = Ends(audit[s]) \/ audit'[s].behind]_shipmentVars
  BY InvStep DEF AuditStep
<1> QED BY <1>1, InvAlways, PTL DEF ShipmentsSpec, AuditTellsTheHistory

(***************************************************************************)
(* Pages over the table: exports and duplicates                            *)
(***************************************************************************)

TableTyped ==
    /\ tableRows \in [TableRows -> [live : BOOLEAN, key : RowKeys]]
    /\ selection \subseteq TableRows /\ partial \in BOOLEAN

\* What an export that writes will find again, if no row changes before it does.
ExportOK ==
    /\ export \in [pc : {"none", "streams", "done"}, kind : {"all", "selected"}, asked : SUBSET TableRows,
                   filter : SUBSET (RowKeys \cup Unreadable), file : SUBSET TableRows, changed : BOOLEAN]
    /\ export.pc = "streams" /\ ~export.changed =>
           \/ export.kind = "selected" /\ export.asked \subseteq LiveRows
           \/ export.kind = "all" /\ export.asked = ExportQueryset(export.filter)
    /\ ExportsComplete

\* Every row of a cluster that is still as it was drawn has another one like it.
Alike(cluster) ==
    \A r \in cluster :
        /\ tableRows[r].live
        /\ \E s \in cluster : s # r
        /\ \A s \in cluster : tableRows[s].key = tableRows[r].key

CleanerPage ==
    [pc : {"none", "searching", "shown"}, clusters : SUBSET SUBSET TableRows, overtaken : BOOLEAN]

CleanersOK ==
    /\ cleaners \in [Cleaners -> CleanerPage]
    /\ \A c \in Cleaners : ~cleaners[c].overtaken => \A cluster \in cleaners[c].clusters : Alike(cluster)

TableInv == TableTyped /\ ExportOK /\ CleanersOK /\ DuplicatesKeepOne

LEMMA TableInitInv == TableInit => TableInv
<1> SUFFICES ASSUME TableInit PROVE TableInv
  OBVIOUS
<1>1. TableTyped
  <2>1. [live : {TRUE}, key : RowKeys] \subseteq [live : BOOLEAN, key : RowKeys]
    OBVIOUS
  <2> QED BY <2>1 DEF TableInit, TableTyped
<1>2. ExportOK
  BY DEF TableInit, ExportOK, ExportsComplete, NoExport
<1>3. CleanersOK
  BY DEF TableInit, CleanersOK, CleanerPage, NoCleaner
<1> QED BY <1>1, <1>2, <1>3 DEF TableInv, TableInit, DuplicatesKeepOne

\* A cluster is of live rows that are alike, and none is alone.
LEMMA ClustersAlike ==
    ASSUME NEW cluster \in Clusters
    PROVE  cluster \subseteq TableRows /\ Alike(cluster)
<1>1. PICK k \in Comparable : cluster = {r \in LiveRows : tableRows[r].key = k}
  BY DEF Clusters
<1>2. Cardinality(cluster) >= 2
  BY DEF Clusters
<1>3. \A r \in cluster : r \in TableRows /\ tableRows[r].live /\ tableRows[r].key = k
  BY <1>1 DEF LiveRows
<1>4. ASSUME NEW r \in cluster PROVE \E s \in cluster : s # r
  <2>1. ASSUME \A s \in cluster : s = r PROVE FALSE
    <3>1. cluster = {r}
      BY <2>1
    <3>2. Cardinality({r}) = 1
      BY FS_Singleton
    <3> QED BY <1>2, <3>1, <3>2
  <2> QED BY <2>1
<1> QED BY <1>3, <1>4 DEF Alike

\* A row that becomes another disturbs only exports that write and pages that show it.
LEMMA RowBecomesInv ==
    ASSUME TableInv, NEW r \in TableRows, NEW row \in [live : BOOLEAN, key : RowKeys], RowBecomes(r, row),
           UNCHANGED <<selection, partial>>
    PROVE  TableTyped' /\ ExportOK' /\ CleanersOK'
<1> USE DEF TableInv
<1>1. /\ tableRows' = [tableRows EXCEPT ![r] = row]
      /\ export' = [export EXCEPT !.changed = @ \/ export.pc = "streams"]
      /\ cleaners' = [c \in Cleaners |->
             [cleaners[c] EXCEPT !.overtaken = @ \/ \E cluster \in cleaners[c].clusters : r \in cluster]]
  BY DEF RowBecomes
<1>2. TableTyped'
  BY <1>1 DEF TableTyped
<1>3. ExportOK'
  <2>1. (export.changed \/ export.pc = "streams") \in BOOLEAN
    OBVIOUS
  <2>2. /\ export' \in [pc : {"none", "streams", "done"}, kind : {"all", "selected"}, asked : SUBSET TableRows,
                        filter : SUBSET (RowKeys \cup Unreadable), file : SUBSET TableRows, changed : BOOLEAN]
        /\ export'.pc = export.pc /\ export'.file = export.file /\ export'.asked = export.asked
        /\ export'.changed = (export.changed \/ export.pc = "streams")
    BY <1>1, <2>1 DEF ExportOK
  <2> QED BY <2>2 DEF ExportOK, ExportsComplete
<1>4. ASSUME NEW c \in Cleaners
      PROVE  /\ cleaners'[c] \in CleanerPage
             /\ ~cleaners'[c].overtaken => \A cluster \in cleaners'[c].clusters : Alike(cluster)'
  <2> DEFINE shows == cleaners[c].overtaken \/ \E cluster \in cleaners[c].clusters : r \in cluster
  <2>1. cleaners'[c] = [cleaners[c] EXCEPT !.overtaken = shows] /\ shows \in BOOLEAN
    BY <1>1
  <2>2. /\ cleaners'[c] \in CleanerPage
        /\ cleaners'[c].clusters = cleaners[c].clusters
        /\ cleaners'[c].overtaken = shows
    <3>1. cleaners[c] \in CleanerPage
      BY DEF CleanersOK
    <3> HIDE DEF shows
    <3> QED BY <2>1, <3>1 DEF CleanerPage
  <2>3. ASSUME ~cleaners'[c].overtaken, NEW cluster \in cleaners'[c].clusters PROVE Alike(cluster)'
    <3>1. ~cleaners[c].overtaken /\ cluster \in cleaners[c].clusters /\ r \notin cluster
      BY <2>2, <2>3
    <3>2. Alike(cluster) /\ cluster \subseteq TableRows
      BY <3>1 DEF CleanersOK, CleanerPage
    <3>3. \A s \in cluster : tableRows'[s] = tableRows[s]
      BY <1>1, <3>1, <3>2 DEF TableTyped
    <3> QED BY <3>2, <3>3 DEF Alike
  <2> QED BY <2>2, <2>3
<1>5. CleanersOK'
  <2>1. cleaners' = [c \in Cleaners |-> cleaners'[c]]
    BY <1>1
  <2>2. cleaners' \in [Cleaners -> CleanerPage]
    BY <1>4, <2>1
  <2> QED BY <1>4, <2>2 DEF CleanersOK
<1> QED BY <1>2, <1>3, <1>5

LEMMA RowChangesInv ==
    ASSUME TableInv, NEW r \in TableRows,
           DeleteRow(r) \/ RestoreRow(r) \/ \E key \in RowKeys : EditRow(r, key)
    PROVE  TableInv'
<1>1. tableRows[r] \in [live : BOOLEAN, key : RowKeys]
  BY DEF TableInv, TableTyped
<1>2. UNCHANGED <<selection, partial, lastCopies>>
  BY DEF DeleteRow, RestoreRow, EditRow
<1>3. \E row \in [live : BOOLEAN, key : RowKeys] : RowBecomes(r, row)
  BY <1>1 DEF DeleteRow, RestoreRow, EditRow
<1> QED BY <1>2, <1>3, RowBecomesInv DEF TableInv, DuplicatesKeepOne

\* A button of a page that is as it was drawn leaves the row's copy.
LEMMA DeleteDuplicateInv ==
    ASSUME TableInv, NEW c \in Cleaners, NEW r \in TableRows, DeleteDuplicate(c, r)
    PROVE  TableInv'
<1> USE DEF TableInv
<1>1. tableRows[r] \in [live : BOOLEAN, key : RowKeys]
  BY DEF TableTyped
<1>2. [tableRows[r] EXCEPT !.live = FALSE] \in [live : BOOLEAN, key : RowKeys]
  BY <1>1
<1>3. TableTyped' /\ ExportOK' /\ CleanersOK'
  BY <1>2, RowBecomesInv DEF DeleteDuplicate
<1> DEFINE copied == \E s \in LiveRows \ {r} : tableRows[s].key = tableRows[r].key
<1>0. lastCopies' = IF copied THEN lastCopies
                    ELSE lastCopies \cup {IF cleaners[c].overtaken THEN "overtaken" ELSE "alone"}
  BY DEF DeleteDuplicate
<1>4. CASE cleaners[c].overtaken
  <2> HIDE DEF copied
  <2>1. "alone" \notin lastCopies'
    BY <1>0, <1>4 DEF DuplicatesKeepOne
  <2> QED BY <1>3, <2>1 DEF DuplicatesKeepOne
<1>5. CASE ~cleaners[c].overtaken
  <2>1. PICK cluster \in cleaners[c].clusters : r \in cluster
    BY DEF DeleteDuplicate
  <2>2. Alike(cluster) /\ cluster \subseteq TableRows
    BY <1>5 DEF CleanersOK, CleanerPage
  <2>3. PICK s \in cluster : s # r
    BY <2>1, <2>2 DEF Alike
  <2>4. s \in LiveRows \ {r} /\ tableRows[s].key = tableRows[r].key
    BY <2>1, <2>2, <2>3 DEF Alike, LiveRows
  <2>5. copied
    BY <2>4
  <2> HIDE DEF copied
  <2>6. lastCopies' = lastCopies
    BY <1>0, <2>5
  <2> QED BY <1>3, <2>6 DEF DuplicatesKeepOne
<1> QED BY <1>4, <1>5

LEMMA SearchDuplicatesInv ==
    ASSUME TableInv, NEW c \in Cleaners, SearchDuplicates(c)
    PROVE  TableInv'
<1> USE DEF TableInv
<1> DEFINE shown == IF Cardinality(LiveRows) > MaxDuplicateRecords THEN {} ELSE Clusters
<1>1. /\ cleaners' = [cleaners EXCEPT ![c] = [pc |-> "searching", overtaken |-> FALSE, clusters |-> shown]]
      /\ UNCHANGED <<tableRows, selection, partial, export, lastCopies>>
  BY DEF SearchDuplicates
<1>2. shown \in SUBSET SUBSET TableRows /\ \A cluster \in shown : Alike(cluster)
  <2>1. shown = {} \/ shown = Clusters
    OBVIOUS
  <2> HIDE DEF shown
  <2> QED BY <2>1, ClustersAlike
<1> HIDE DEF shown
<1>3. CleanersOK'
  <2>1. /\ cleaners' \in [Cleaners -> CleanerPage]
        /\ cleaners'[c] = [pc |-> "searching", overtaken |-> FALSE, clusters |-> shown]
        /\ \A d \in Cleaners : d # c => cleaners'[d] = cleaners[d]
    BY <1>1, <1>2 DEF CleanersOK, CleanerPage
  <2>2. \A cluster : Alike(cluster) => Alike(cluster)'
    BY <1>1 DEF Alike
  <2> QED BY <1>2, <2>1, <2>2 DEF CleanersOK
<1>4. TableTyped' /\ ExportOK' /\ DuplicatesKeepOne'
  BY <1>1 DEF TableTyped, ExportOK, ExportsComplete, ExportQueryset, LiveRows, Passes, DuplicatesKeepOne
<1> QED BY <1>3, <1>4

\* Clusters that nobody has changed are shown as they were found.
LEMMA ShowDuplicatesInv ==
    ASSUME TableInv, NEW c \in Cleaners, ShowDuplicates(c)
    PROVE  TableInv'
<1> USE DEF TableInv
<1> DEFINE shown == {cluster \cap LiveRows : cluster \in cleaners[c].clusters}
<1>0. cleaners[c] \in CleanerPage
  BY DEF CleanersOK
<1>1. /\ cleaners' = [cleaners EXCEPT ![c].pc = "shown", ![c].clusters = shown]
      /\ UNCHANGED <<tableRows, selection, partial, export, lastCopies>>
  BY DEF ShowDuplicates
<1>2. shown \in SUBSET SUBSET TableRows
  BY DEF LiveRows
<1>3. ASSUME ~cleaners[c].overtaken, NEW cluster \in shown PROVE Alike(cluster)
  <2>1. PICK found \in cleaners[c].clusters : cluster = found \cap LiveRows
    OBVIOUS
  <2>2. Alike(found) /\ found \subseteq TableRows
    BY <1>0, <1>3 DEF CleanersOK, CleanerPage
  <2>3. found \subseteq LiveRows
    BY <2>2 DEF Alike, LiveRows
  <2>4. cluster = found
    BY <2>1, <2>3
  <2> QED BY <2>2, <2>4
<1> HIDE DEF shown
<1>4. CleanersOK'
  <2>1. /\ cleaners' \in [Cleaners -> CleanerPage]
        /\ cleaners'[c].clusters = shown /\ cleaners'[c].overtaken = cleaners[c].overtaken
        /\ \A d \in Cleaners : d # c => cleaners'[d] = cleaners[d]
    BY <1>0, <1>1, <1>2 DEF CleanersOK, CleanerPage
  <2>2. \A cluster : Alike(cluster) => Alike(cluster)'
    BY <1>1 DEF Alike
  <2> QED BY <1>3, <2>1, <2>2 DEF CleanersOK
<1>5. TableTyped' /\ ExportOK' /\ DuplicatesKeepOne'
  BY <1>1 DEF TableTyped, ExportOK, ExportsComplete, ExportQueryset, LiveRows, Passes, DuplicatesKeepOne
<1> QED BY <1>4, <1>5

LEMMA SelectionInv ==
    ASSUME TableInv, TogglePartialMode \/ \E page \in SUBSET TableRows, on \in BOOLEAN : Check(page, on)
    PROVE  TableInv'
<1>1. UNCHANGED <<tableRows, export, cleaners, lastCopies>>
  BY DEF TogglePartialMode, Check
<1>2. selection' \subseteq TableRows /\ partial' \in BOOLEAN
  BY DEF TogglePartialMode, Check, TableInv, TableTyped
<1> QED BY <1>1, <1>2 DEF TableInv, TableTyped, ExportOK, ExportsComplete, ExportQueryset, LiveRows, Passes,
                          CleanersOK, Alike, DuplicatesKeepOne

LEMMA RowsStand ==
    ASSUME TableInv, UNCHANGED <<tableRows, cleaners, lastCopies>>,
           selection' \subseteq TableRows, partial' \in BOOLEAN
    PROVE  TableTyped' /\ CleanersOK' /\ DuplicatesKeepOne'
<1>1. TableTyped'
  BY DEF TableInv, TableTyped
<1>2. \A cluster : Alike(cluster)' = Alike(cluster)
  BY DEF Alike
<1>3. CleanersOK'
  BY <1>2 DEF TableInv, CleanersOK
<1>4. DuplicatesKeepOne'
  BY DEF TableInv, DuplicatesKeepOne
<1> QED BY <1>1, <1>3, <1>4

LEMMA NoExportOK ==
    ASSUME TableInv, export' = NoExport
    PROVE  ExportOK'
BY DEF ExportOK, ExportsComplete, NoExport

LEMMA ExportSelectedInv ==
    ASSUME TableInv, ExportSelected
    PROVE  TableInv'
<1>1. /\ selection' = {} /\ partial' = FALSE /\ UNCHANGED <<tableRows, cleaners, lastCopies>>
      /\ \/ export' = NoExport
         \/ /\ export' = [NoExport EXCEPT !.pc = "streams", !.kind = "selected", !.asked = selection]
            /\ selection \subseteq LiveRows
  BY DEF ExportSelected, SelectedFound
<1>2. ASSUME export' = NoExport PROVE ExportOK'
  BY <1>2, NoExportOK
<1>3. ASSUME export' # NoExport PROVE ExportOK'
  <2>1. export' = [pc |-> "streams", kind |-> "selected", asked |-> selection, filter |-> {}, file |-> {},
                   changed |-> FALSE]
    BY <1>1, <1>3 DEF NoExport
  <2>2. selection \subseteq LiveRows' /\ selection \subseteq TableRows
    BY <1>1, <1>3 DEF LiveRows
  <2> QED BY <2>1, <2>2 DEF ExportOK, ExportsComplete
<1>4. TableTyped' /\ CleanersOK' /\ DuplicatesKeepOne'
  <2>1. selection' \subseteq TableRows /\ partial' \in BOOLEAN
    BY <1>1 DEF TableInv, TableTyped
  <2>2. UNCHANGED <<tableRows, cleaners, lastCopies>>
    BY <1>1
  <2> QED BY <2>1, <2>2, RowsStand
<1> QED BY <1>2, <1>3, <1>4 DEF TableInv

LEMMA ExportAllInv ==
    ASSUME TableInv, NEW filter \in SUBSET (RowKeys \cup Unreadable), ExportAll(filter)
    PROVE  TableInv'
<1>1. /\ UNCHANGED <<tableRows, selection, partial, cleaners, lastCopies>>
      /\ \/ export' = NoExport
         \/ export' = [NoExport EXCEPT !.pc = "streams", !.asked = ListQueryset(filter), !.filter = filter]
  BY DEF ExportAll
<1>2. ASSUME export' = NoExport PROVE ExportOK'
  BY <1>2, NoExportOK
<1>3. ASSUME export' # NoExport PROVE ExportOK'
  <2>1. export' = [pc |-> "streams", kind |-> "all", asked |-> ListQueryset(filter), filter |-> filter,
                   file |-> {}, changed |-> FALSE]
    BY <1>1, <1>3 DEF NoExport
  <2>2. ListQueryset(filter) \subseteq TableRows /\ ListQueryset(filter) = ExportQueryset(filter)'
    BY <1>1 DEF ListQueryset, ExportQueryset, LiveRows, Passes
  <2> QED BY <2>1, <2>2 DEF ExportOK, ExportsComplete
<1>4. TableTyped' /\ CleanersOK' /\ DuplicatesKeepOne'
  <2>1. selection' \subseteq TableRows /\ partial' \in BOOLEAN
    BY <1>1 DEF TableInv, TableTyped
  <2>2. UNCHANGED <<tableRows, cleaners, lastCopies>>
    BY <1>1
  <2> QED BY <2>1, <2>2, RowsStand
<1> QED BY <1>2, <1>3, <1>4 DEF TableInv

LEMMA WriteXlsxInv ==
    ASSUME TableInv, WriteXlsx
    PROVE  TableInv'
<1> USE DEF TableInv
<1> DEFINE found == IF export.kind = "selected" THEN export.asked \cap LiveRows ELSE ExportQueryset(export.filter)
<1>1. /\ export.pc = "streams" /\ export' = [export EXCEPT !.pc = "done", !.filter = {}, !.file = found]
      /\ UNCHANGED <<tableRows, selection, partial, cleaners, lastCopies>>
  BY DEF WriteXlsx
<1>2. found \in SUBSET TableRows /\ (~export.changed => found = export.asked)
  BY <1>1 DEF ExportOK, ExportQueryset, LiveRows
<1> HIDE DEF found
<1>3. ExportOK'
  BY <1>1, <1>2 DEF ExportOK, ExportsComplete
<1> QED BY <1>1, <1>3 DEF TableTyped, CleanersOK, Alike, DuplicatesKeepOne

LEMMA TableStepInv ==
    ASSUME TableInv, [TableNext]_tableVars
    PROVE  TableInv'
<1>1. CASE UNCHANGED tableVars
  BY <1>1 DEF tableVars, TableInv, TableTyped, ExportOK, ExportsComplete, ExportQueryset, LiveRows, Passes,
              CleanersOK, Alike, DuplicatesKeepOne
<1>2. CASE TableNext
  BY <1>2, RowChangesInv, DeleteDuplicateInv, SearchDuplicatesInv, ShowDuplicatesInv, SelectionInv, ExportSelectedInv, ExportAllInv,
     WriteXlsxInv
     DEF TableNext
<1> QED BY <1>1, <1>2

(***************************************************************************)
(* Column filters                                                          *)
(***************************************************************************)

AllColumns == Columns \cup PlainColumns

\* The list is part of the answer to the request it names; only one that got none
\* is empty for another reason.
ListOf(p) ==
    \/ p.listed = Answer(p.of.column, p.of.search).values /\ p.more = Answer(p.of.column, p.of.search).more
    \/ p.listed = {}

PopupOK(p) ==
    /\ p \in [column : AllColumns \cup {NoColumn}, open : BOOLEAN, url : Columns \cup {NoColumn},
              listed : SUBSET Values, more : BOOLEAN, checked : SUBSET Values, box : Searches,
              of : [column : AllColumns \cup {NoColumn}, search : Searches]]
    /\ p.checked \subseteq p.listed
    /\ ListOf(p)
    /\ p.open => p.column \in AllColumns

FiltersTyped ==
    /\ filters \in [AllColumns -> SUBSET Values]
    /\ timer \in [search : Searches, checked : SUBSET Values, on : BOOLEAN]
    /\ requests \subseteq [column : Columns \cup {NoColumn}, search : Searches, checked : SUBSET Values]

FiltersInv == FiltersTyped /\ PopupOK(popup) /\ FiltersAreAsked

LEMMA AnswerIs ==
    ASSUME NEW f \in AllColumns \cup {NoColumn}, NEW search \in Searches
    PROVE  /\ Answer(f, search).values \subseteq Values /\ Answer(f, search).more \in BOOLEAN
           /\ f \in Columns => Answer(f, search).values \subseteq ColumnValues[f]
           /\ f \notin Columns => Answer(f, search).values = {}
           /\ f \in Columns /\ search = NoSearch /\ ~Answer(f, search).more =>
                  Answer(f, search).values = ColumnValues[f]
<1> DEFINE found == IF f \notin Columns THEN {} ELSE {v \in ColumnValues[f] : search \in {NoSearch, v}}
           first == {v \in found : Cardinality({w \in found : w < v}) < Limit}
<1>1. Answer(f, search) = [values |-> first, more |-> first # found] /\ (first # found) \in BOOLEAN
  BY DEF Answer
<1>2. first \subseteq found
  OBVIOUS
<1>3. f \in Columns => found \subseteq ColumnValues[f] /\ ColumnValues[f] \subseteq Values
  BY DEF Values
<1>4. f \notin Columns => found = {}
  OBVIOUS
<1>5. f \in Columns /\ search = NoSearch => found = ColumnValues[f]
  OBVIOUS
<1> HIDE DEF first, found
<1>6. Answer(f, search).values = first /\ Answer(f, search).more = (first # found)
  BY <1>1
<1> QED BY <1>1, <1>2, <1>3, <1>4, <1>5, <1>6

LEMMA ClosedOK ==
    ASSUME NEW f \in AllColumns \cup {NoColumn}, NEW url \in Columns \cup {NoColumn}, NEW open \in BOOLEAN,
           open => f \in AllColumns
    PROVE  PopupOK([Closed EXCEPT !.column = f, !.open = open, !.url = url])
BY DEF PopupOK, ListOf, Closed, NoAnswer, Searches

LEMMA FetchTyped ==
    ASSUME NEW f \in Columns \cup {NoColumn}, NEW search \in Searches, NEW checked \in SUBSET Values,
           FiltersTyped, Fetch(f, search, checked)
    PROVE  requests' \subseteq [column : Columns \cup {NoColumn}, search : Searches, checked : SUBSET Values]
BY DEF FiltersTyped, Fetch

LEMMA OpenPopupInv ==
    ASSUME FiltersInv, NEW f \in AllColumns, OpenPopup(f)
    PROVE  FiltersInv'
<1> USE DEF FiltersInv
<1>1. /\ popup' = [Closed EXCEPT !.column = f, !.open = TRUE, !.url = IF f \in Columns THEN f ELSE NoColumn]
      /\ UNCHANGED <<filters, timer, applied>>
      /\ IF f \in Columns THEN Fetch(f, NoSearch, filters[f]) ELSE UNCHANGED requests
  BY DEF OpenPopup
<1>2. PopupOK(popup)'
  <2>1. (IF f \in Columns THEN f ELSE NoColumn) \in Columns \cup {NoColumn}
    OBVIOUS
  <2>2. PopupOK(popup')
    BY <1>1, <2>1, ClosedOK
  <2> QED BY <2>2 DEF PopupOK, ListOf
<1>3. requests' \subseteq [column : Columns \cup {NoColumn}, search : Searches, checked : SUBSET Values]
  <2>1. NoSearch \in Searches /\ filters[f] \in SUBSET Values
    BY DEF Searches, FiltersTyped
  <2> QED BY <1>1, <2>1, FetchTyped DEF FiltersTyped
<1> QED BY <1>1, <1>2, <1>3 DEF FiltersTyped, FiltersAreAsked

LEMMA ClosePopupInv ==
    ASSUME FiltersInv, ClosePopup
    PROVE  FiltersInv'
<1> USE DEF FiltersInv
<1>1. popup' = [Closed EXCEPT !.url = popup.url] /\ UNCHANGED <<filters, timer, requests, applied>>
  BY DEF ClosePopup
<1>2. PopupOK(popup')
  BY <1>1 DEF PopupOK, ListOf, Closed, NoAnswer, Searches
<1> QED BY <1>1, <1>2 DEF FiltersTyped, FiltersAreAsked, PopupOK, ListOf

\* The search box, the timer behind it, and the boxes of the values.
LEMMA InPopupInv ==
    ASSUME FiltersInv,
           \/ TimerFires \/ \E search \in Searches : Search(search)
           \/ \E v \in Values : CheckValue(v)
           \/ \E all \in BOOLEAN : SelectAll(all)
    PROVE  FiltersInv'
<1> USE DEF FiltersInv
<1>1. CASE TimerFires
  <2>1. popup.url \in Columns \cup {NoColumn} /\ timer.search \in Searches /\ timer.checked \in SUBSET Values
    BY DEF PopupOK, FiltersTyped
  <2>2. requests' \subseteq [column : Columns \cup {NoColumn}, search : Searches, checked : SUBSET Values]
    BY <1>1, <2>1, FetchTyped DEF TimerFires
  <2>3. timer' \in [search : Searches, checked : SUBSET Values, on : BOOLEAN]
    BY <1>1 DEF TimerFires, NoTimer, Searches
  <2> QED BY <1>1, <2>2, <2>3 DEF TimerFires, FiltersTyped, FiltersAreAsked, PopupOK, ListOf
<1>2. ASSUME NEW search \in Searches, Search(search) PROVE FiltersInv'
  <2>1. /\ popup' = [popup EXCEPT !.box = search] /\ UNCHANGED <<filters, requests, applied>>
        /\ timer' = [search |-> search, checked |-> popup.checked, on |-> TRUE]
    BY <1>2 DEF Search
  <2>2. PopupOK(popup')
    BY <2>1 DEF PopupOK, ListOf
  <2>3. timer' \in [search : Searches, checked : SUBSET Values, on : BOOLEAN]
    BY <2>1 DEF PopupOK
  <2> QED BY <2>1, <2>2, <2>3 DEF FiltersTyped, FiltersAreAsked, PopupOK, ListOf
<1>3. ASSUME (\E v \in Values : CheckValue(v)) \/ \E all \in BOOLEAN : SelectAll(all) PROVE FiltersInv'
  <2>1. PICK checked : popup' = [popup EXCEPT !.checked = checked] /\ checked \subseteq popup.listed
    <3>1. popup.checked \subseteq popup.listed
      BY DEF PopupOK
    <3>2. ASSUME NEW v \in Values, CheckValue(v)
          PROVE  \E checked : popup' = [popup EXCEPT !.checked = checked] /\ checked \subseteq popup.listed
      <4> DEFINE checked == IF v \in popup.checked THEN popup.checked \ {v} ELSE popup.checked \cup {v}
      <4>1. popup' = [popup EXCEPT !.checked = checked]
        BY <3>2 DEF CheckValue, PopupOK
      <4>2. v \in popup.listed
        BY <3>2 DEF CheckValue
      <4> QED BY <3>1, <4>1, <4>2
    <3>3. ASSUME NEW all \in BOOLEAN, SelectAll(all)
          PROVE  \E checked : popup' = [popup EXCEPT !.checked = checked] /\ checked \subseteq popup.listed
      BY <3>3 DEF SelectAll
    <3> QED BY <1>3, <3>2, <3>3
  <2>2. UNCHANGED <<filters, timer, requests, applied>>
    BY <1>3 DEF CheckValue, SelectAll
  <2>3. PopupOK(popup')
    BY <2>1 DEF PopupOK, ListOf
  <2> QED BY <2>2, <2>3 DEF FiltersTyped, FiltersAreAsked, PopupOK, ListOf
<1> QED BY <1>1, <1>2, <1>3

\* Whoever asked: what is drawn is the answer to the request it is kept with.
LEMMA AnsweredInv ==
    ASSUME FiltersInv, NEW request \in requests, AnswerArrives(request) \/ RequestFails(request)
    PROVE  FiltersInv'
<1> USE DEF FiltersInv
<1>1. PICK answer \in {Answer(request.column, request.search), [values |-> {}, more |-> FALSE]} :
          Answered(request, answer)
  BY DEF AnswerArrives, RequestFails
<1>2. /\ request.column \in Columns \cup {NoColumn} /\ request.search \in Searches
      /\ request.checked \in SUBSET Values
  BY DEF FiltersTyped
<1>3. answer.values \subseteq Values /\ answer.more \in BOOLEAN
  <2>1. request.column \in AllColumns \cup {NoColumn}
    BY <1>2 DEF AllColumns
  <2>2. CASE answer = Answer(request.column, request.search)
    BY <1>2, <2>1, <2>2, AnswerIs
  <2>3. CASE answer = [values |-> {}, more |-> FALSE]
    BY <2>3
  <2> QED BY <1>1, <2>2, <2>3
<1>4. PopupOK(popup')
  <2>1. CASE popup.column \notin Columns
    BY <1>1, <2>1 DEF Answered
  <2>2. CASE popup.column \in Columns
    <3>1. popup' = [popup EXCEPT !.listed = answer.values, !.more = answer.more,
                                 !.checked = answer.values \cap request.checked,
                                 !.of = [column |-> request.column, search |-> request.search]]
      BY <1>1, <2>2 DEF Answered
    <3>2. /\ popup'.listed = answer.values /\ popup'.more = answer.more
          /\ popup'.of.column = request.column /\ popup'.of.search = request.search
          /\ popup'.checked = answer.values \cap request.checked
          /\ popup'.open = popup.open /\ popup'.column = popup.column
      BY <3>1 DEF PopupOK
    <3>3. ListOf(popup')
      BY <1>1, <3>2 DEF ListOf
    <3>4. popup' \in [column : AllColumns \cup {NoColumn}, open : BOOLEAN, url : Columns \cup {NoColumn},
                      listed : SUBSET Values, more : BOOLEAN, checked : SUBSET Values, box : Searches,
                      of : [column : AllColumns \cup {NoColumn}, search : Searches]]
      BY <1>2, <1>3, <3>1 DEF PopupOK, AllColumns
    <3> QED BY <3>2, <3>3, <3>4 DEF PopupOK
  <2> QED BY <2>1, <2>2
<1>5. requests' \subseteq requests /\ UNCHANGED <<filters, timer, applied>>
  BY <1>1 DEF Answered
<1> QED BY <1>4, <1>5 DEF FiltersTyped, FiltersAreAsked, PopupOK, ListOf

\* The page is loaded with a filter: typed, removed, reset, or checked on the list.
LEMMA LoadsInv ==
    ASSUME FiltersInv, NEW f \in AllColumns, NEW values \in SUBSET Values, NEW why, LoadsWith(f, values, why),
           why = "checked" => FiltersAreAsked'
    PROVE  FiltersInv'
<1> USE DEF FiltersInv
<1>1. /\ filters' = [filters EXCEPT ![f] = values] /\ popup' = Closed /\ timer' = NoTimer /\ requests' = {}
      /\ applied'.pc = why
  BY DEF LoadsWith
<1>2. PopupOK(popup')
  BY <1>1 DEF PopupOK, ListOf, Closed, NoAnswer, Searches
<1>3. FiltersTyped'
  BY <1>1 DEF FiltersTyped, NoTimer, Searches
<1>4. FiltersAreAsked'
  BY <1>1 DEF FiltersAreAsked
<1> QED BY <1>2, <1>3, <1>4 DEF PopupOK, ListOf

\* The list that answers what the popup asks: its values are of the column, and
\* one that is checked as a whole, neither searched nor cut off, is the column.
LEMMA ApplyValuesInv ==
    ASSUME FiltersInv, ApplyValues
    PROVE  FiltersInv'
<1> USE DEF FiltersInv
<1> DEFINE values == IF NoFilterNeeded THEN {} ELSE popup.checked
<1>1. popup.column \in Columns /\ LoadsWith(popup.column, values, "checked")
  BY DEF ApplyValues
<1>2. popup.checked \subseteq popup.listed /\ ListOf(popup) /\ values \in SUBSET Values /\ popup.box \in Searches
  BY DEF PopupOK
<1>3. applied' = [pc |-> "checked", values |-> values, popup |-> popup]
  BY <1>1 DEF LoadsWith
<1>4. ASSUME popup.of \in {NoAnswer, [column |-> popup.column, search |-> popup.box]}
      PROVE  /\ values \subseteq ColumnValues[popup.column]
             /\ values = {} => popup.checked \in {{}, ColumnValues[popup.column]}
  <2>1. CASE popup.listed = {}
    BY <1>2, <2>1 DEF NoFilterNeeded
  <2>2. CASE popup.listed # {}
    <3>1. /\ popup.listed = Answer(popup.of.column, popup.of.search).values
          /\ popup.more = Answer(popup.of.column, popup.of.search).more
      BY <1>2, <2>2 DEF ListOf
    <3>2. popup.of # NoAnswer
      <4>1. NoColumn \notin Columns /\ NoSearch \in Searches
        BY ColumnsAssumption DEF Searches
      <4>2. Answer(NoColumn, NoSearch).values = {}
        BY <4>1, AnswerIs
      <4> QED BY <2>2, <3>1, <4>2 DEF NoAnswer
    <3>3. popup.of.column = popup.column /\ popup.of.search = popup.box
      BY <1>4, <3>2
    <3>4. popup.column \in AllColumns \cup {NoColumn}
      BY <1>1 DEF AllColumns
    <3>5. popup.listed \subseteq ColumnValues[popup.column]
      BY <1>1, <1>2, <3>1, <3>3, <3>4, AnswerIs
    <3>6. NoFilterNeeded => popup.checked = ColumnValues[popup.column]
      BY <1>1, <1>2, <3>1, <3>3, <3>4, AnswerIs DEF NoFilterNeeded
    <3> QED BY <1>2, <3>5, <3>6
  <2> QED BY <2>1, <2>2
<1> HIDE DEF values
<1>5. FiltersAreAsked'
  BY <1>3, <1>4 DEF FiltersAreAsked
<1> QED BY <1>1, <1>2, <1>5, LoadsInv DEF AllColumns

LEMMA FiltersStepInv ==
    ASSUME FiltersInv, [ColumnFiltersNext]_filterVars
    PROVE  FiltersInv'
<1>1. CASE UNCHANGED filterVars
  BY <1>1 DEF filterVars, FiltersInv, FiltersTyped, PopupOK, ListOf, FiltersAreAsked
<1>2. ASSUME NEW f \in AllColumns, NEW v \in filters[f], RemoveValue(f, v) PROVE FiltersInv'
  <2>1. filters[f] \ {v} \in SUBSET Values
    BY DEF FiltersInv, FiltersTyped
  <2> QED BY <1>2, <2>1, LoadsInv DEF RemoveValue
<1>3. CASE ResetFilter
  <2>1. popup.column \in AllColumns /\ LoadsWith(popup.column, {}, "reset")
    BY <1>3 DEF ResetFilter, FiltersInv, PopupOK
  <2> QED BY <2>1, LoadsInv
<1>4. ASSUME NEW values \in {{}} \cup {{v} : v \in Values}, ApplyPlain(values) PROVE FiltersInv'
  <2>1. popup.column \in AllColumns /\ LoadsWith(popup.column, values, "typed") /\ values \in SUBSET Values
    BY <1>4 DEF ApplyPlain, AllColumns
  <2> QED BY <2>1, LoadsInv
<1>5. CASE ColumnFiltersNext
  BY <1>2, <1>3, <1>4, <1>5, OpenPopupInv, ClosePopupInv, InPopupInv, AnsweredInv, ApplyValuesInv
     DEF ColumnFiltersNext, AllColumns
<1> QED BY <1>1, <1>5

LEMMA FiltersInitInv == FiltersInit => FiltersInv
<1> SUFFICES ASSUME FiltersInit PROVE FiltersInv
  OBVIOUS
<1>1. filters \in [AllColumns -> SUBSET Values]
  <2>1. PICK f \in Columns, v \in Values \cup {NoSearch} :
            filters = [g \in AllColumns |-> IF g = f THEN {v} \cap ColumnValues[f] ELSE {}]
    BY DEF FiltersInit, AllColumns
  <2>2. {v} \cap ColumnValues[f] \in SUBSET Values
    BY DEF Values
  <2> QED BY <2>1, <2>2
<1>2. FiltersTyped
  BY <1>1 DEF FiltersInit, FiltersTyped, NoTimer, Searches
<1>3. PopupOK(popup)
  BY DEF FiltersInit, PopupOK, ListOf, Closed, NoAnswer, Searches
<1> QED BY <1>2, <1>3 DEF FiltersInv, FiltersInit, FiltersAreAsked, NotYet

\* An export holds what its page showed if no row changes while it is written;
\* deleting a duplicate leaves a copy if no row of its page has changed since the
\* first query of the search; and a filter has the values its popup asked for
\* (app/core/views.py, shipment_views.py, static/js/column_filters.js): for every
\* number of rows, pages, columns, values and requests in flight.
THEOREM TableViewsAreSound == TableViewsSpec => []TableViewsSound
<1>1. TableInv => TablePagesSound
  BY DEF TableInv, ExportOK, TablePagesSound
<1>2. FiltersInv => FiltersAreAsked
  BY DEF FiltersInv
<1>3. TablePagesSpec => []TablePagesSound
  BY <1>1, TableInitInv, TableStepInv, PTL DEF TablePagesSpec
<1>4. ColumnFiltersSpec => []FiltersAreAsked
  BY <1>2, FiltersInitInv, FiltersStepInv, PTL DEF ColumnFiltersSpec
<1> QED BY <1>3, <1>4, PTL DEF TableViewsSpec, TableViewsSound

\* The types of the pages and of the filters.
THEOREM TableViewsTyped == TableViewsSpec => [](TablePagesTypeOK /\ ColumnFiltersTypeOK)
<1>1. TableInv => TablePagesTypeOK
  BY DEF TableInv, TableTyped, ExportOK, CleanersOK, CleanerPage, TablePagesTypeOK
<1>2. FiltersInv => ColumnFiltersTypeOK
  BY DEF FiltersInv, FiltersTyped, PopupOK, ColumnFiltersTypeOK, AllColumns
<1>3. TablePagesSpec => []TablePagesTypeOK
  BY <1>1, TableInitInv, TableStepInv, PTL DEF TablePagesSpec
<1>4. ColumnFiltersSpec => []ColumnFiltersTypeOK
  BY <1>2, FiltersInitInv, FiltersStepInv, PTL DEF ColumnFiltersSpec
<1> QED BY <1>3, <1>4, PTL DEF TableViewsSpec
=============================================================================
