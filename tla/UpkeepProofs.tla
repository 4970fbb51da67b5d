----------------------------- MODULE UpkeepProofs -----------------------------
(***************************************************************************)
(* Proofs about what administrators and operators do beside the work with  *)
(* shipments. What administrators set: the accounts, for every number of   *)
(* users, superusers and requests, and the settings of the fields, for     *)
(* every number of editors and pages. What keeps the site going: the       *)
(* schedules of backups, for weeks and days of every length, the scripts   *)
(* of the host, for every number of days and of process identifiers, the   *)
(* release tooling, for every number of commits and of packages, and the   *)
(* versions a site starts and restores, for every list of them.            *)
(***************************************************************************)
EXTENDS Accounts, FieldConfig, HostScripts, Schedules, Release, Deployment, SequenceTheorems,
        WellFoundedInduction, TLAPS

(***************************************************************************)
(* Accounts: users, groups and passwords                                   *)
(***************************************************************************)

Begun(r) == accountForms[r].pc # "new"

\* Requests, and the rows they have read.
FormsOK ==
    \A r \in AccountForms :
        LET form == accountForms[r] IN
        /\ form.pc \in {"new", "read", "groups", "done"}
        /\ form = NoForm \/ form \in [pc : {"read", "groups", "done"}, by : Accounts, kind : Fields,
                                      target : Accounts \ Superusers, row : AccountRow]
        /\ form.pc # "new" /\ form.kind = "deactivate" => form.target # form.by
        /\ form.pc = "groups" => form.kind = "edit"

\* The password a request will set is not known before it ends.
PasswordsFresh ==
    \A r \in AccountForms : accountForms[r].pc \in {"new", "read"} =>
        /\ \A u \in Accounts : accounts[u].password # r /\ r \notin replaced[u]
        /\ \A q \in AccountForms : Begun(q) => accountForms[q].row.password # r

AccountsInv ==
    /\ accounts \in [Accounts -> AccountRow] /\ inGroup \subseteq Accounts \ Superusers
    /\ accountForms = [r \in AccountForms |-> accountForms[r]]
    /\ replaced \in [Accounts -> SUBSET ({0} \cup AccountForms)]
    /\ FormsOK /\ PasswordsFresh /\ AccountsKept

LEMMA AccountsInitInv == AccountsInit => AccountsInv
<1> SUFFICES ASSUME AccountsInit PROVE AccountsInv
  OBVIOUS
<1>1. /\ accounts \in [Accounts -> AccountRow] /\ inGroup \subseteq Accounts \ Superusers
      /\ accountForms = [r \in AccountForms |-> accountForms[r]]
      /\ replaced \in [Accounts -> SUBSET ({0} \cup AccountForms)]
  BY DEF AccountsInit, AccountRow
<1>2. \A r \in AccountForms : accountForms[r] = NoForm /\ accountForms[r].pc = "new" /\ r # 0
  BY AccountsAssumption DEF AccountsInit, NoForm
<1>3. \A u \in Accounts : accounts[u].active /\ accounts[u].password = 0 /\ replaced[u] = {}
  BY DEF AccountsInit
<1>4. FormsOK
  BY <1>2 DEF FormsOK
<1>5. PasswordsFresh
  BY <1>2, <1>3 DEF PasswordsFresh, Begun
<1>6. AdministratorsRemain
  BY <1>3 DEF AccountsInit, AdministratorsRemain, MayChange
<1>7. ReplacedPasswordsInvalid
  BY <1>3 DEF ReplacedPasswordsInvalid
<1> QED BY <1>1, <1>4, <1>5, <1>6, <1>7 DEF AccountsInv, AccountsKept

LEMMA FormBeginsInv ==
    ASSUME AccountsInv, NEW r \in AccountForms, NEW u \in Accounts, NEW t \in Accounts, NEW kind \in Fields,
           FormBegins(r, u, kind, t)
    PROVE  AccountsInv'
<1> DEFINE form == [pc |-> "read", by |-> u, kind |-> kind, target |-> t, row |-> accounts[t]]
<1> USE DEF AccountsInv
<1>1. /\ accountForms'[r] = form /\ \A q \in AccountForms \ {r} : accountForms'[q] = accountForms[q]
      /\ accountForms' = [q \in AccountForms |-> accountForms'[q]]
  BY DEF FormBegins
<1>2. UNCHANGED <<accounts, inGroup, replaced, undone, lockout>> /\ accountForms[r].pc = "new"
  BY DEF FormBegins
<1>3. /\ form \in [pc : {"read", "groups", "done"}, by : Accounts, kind : Fields,
                   target : Accounts \ Superusers, row : AccountRow]
      /\ form.pc = "read" /\ form.row = accounts[t] /\ (form.kind = "deactivate" => form.target # form.by)
  BY DEF FormBegins, Allowed
<1> HIDE DEF form
<1>4. FormsOK'
  BY <1>1, <1>3 DEF FormsOK
<1>5. PasswordsFresh'
  BY <1>1, <1>2, <1>3 DEF PasswordsFresh, Begun
<1>6. AccountsKept'
  BY <1>2 DEF AccountsKept, AdministratorsRemain, ReplacedPasswordsInvalid, MayChange
<1> QED BY <1>1, <1>2, <1>4, <1>5, <1>6

\* A step that ends the first part of a request: its form keeps what it was.
LEMMA FormMoves ==
    ASSUME AccountsInv, NEW r \in AccountForms, NEW pc \in {"groups", "done"},
           accountForms[r].pc \in {"read", "groups"}, pc = "groups" => accountForms[r].kind = "edit",
           accountForms' = [accountForms EXCEPT ![r].pc = pc]
    PROVE  /\ FormsOK' /\ accountForms' = [q \in AccountForms |-> accountForms'[q]]
           /\ accountForms'[r].pc = pc
           /\ \A q \in AccountForms : /\ q # r => accountForms'[q] = accountForms[q]
                                      /\ Begun(q)' => Begun(q) /\ accountForms'[q].row = accountForms[q].row
<1> USE DEF AccountsInv
<1>1. accountForms[r] \in [pc : {"read", "groups", "done"}, by : Accounts, kind : Fields,
                           target : Accounts \ Superusers, row : AccountRow]
  BY DEF FormsOK, NoForm
<1>2. /\ accountForms'[r] = [accountForms[r] EXCEPT !.pc = pc]
      /\ \A q \in AccountForms \ {r} : accountForms'[q] = accountForms[q]
      /\ accountForms' = [q \in AccountForms |-> accountForms'[q]]
  OBVIOUS
<1>3. /\ accountForms'[r] \in [pc : {"read", "groups", "done"}, by : Accounts, kind : Fields,
                               target : Accounts \ Superusers, row : AccountRow]
      /\ accountForms'[r].pc = pc /\ accountForms'[r].row = accountForms[r].row
      /\ accountForms'[r].kind = accountForms[r].kind /\ accountForms'[r].target = accountForms[r].target
      /\ accountForms'[r].by = accountForms[r].by
  BY <1>1, <1>2
<1>4. FormsOK'
  BY <1>2, <1>3 DEF FormsOK
<1> QED BY <1>2, <1>3, <1>4 DEF Begun

\* If nobody noted how rights were lost, the author of the step still has his.
LEMMA AuthorRemains ==
    ASSUME AccountsInv, NEW r \in AccountForms, accountForms[r].pc \in {"read", "groups"},
           LossBy(r) = "none"
    PROVE  LET form == accountForms[r] IN
           /\ form.by \in Accounts \ Superusers /\ MayChange(form.by)
           /\ form.by # form.target \/ form.kind \notin {"edit", "deactivate"}
BY DEF AccountsInv, FormsOK, NoForm, LossBy

LEMMA SavesInv ==
    ASSUME AccountsInv, NEW r \in AccountForms, NEW row \in AccountRow, NEW pc \in {"groups", "done"},
           accountForms[r].pc = "read", pc = "groups" => accountForms[r].kind = "edit",
           Saves(r, row, pc),
           \* what the password becomes: it stays, is new, or the account is noted
           \/ row.password = accounts[accountForms[r].target].password /\ UNCHANGED undone
           \/ row.password = r /\ undone' = undone \ {accountForms[r].target}
           \/ row.password = accountForms[r].row.password /\ undone' = undone \cup {accountForms[r].target},
           \* who keeps the rights: the author if he changed himself
           accountForms[r].kind \notin {"edit", "deactivate"} =>
               (accounts[accountForms[r].target].active => row.active)
    PROVE  AccountsInv'
<1> DEFINE u == accountForms[r].target
<1> USE DEF AccountsInv
<1>1. /\ u \in Accounts /\ accountForms[r].row \in AccountRow
  BY DEF FormsOK, NoForm
<1>2. /\ accounts' = [accounts EXCEPT ![u] = row] /\ UNCHANGED inGroup /\ lockout' = LossBy(r)
      /\ replaced' = [replaced EXCEPT ![u] =
            IF row.password = accounts[u].password THEN @ ELSE @ \cup {accounts[u].password}]
      /\ accountForms' = [accountForms EXCEPT ![r].pc = pc]
  BY DEF Saves
<1>3. /\ FormsOK' /\ accountForms' = [q \in AccountForms |-> accountForms'[q]]
      /\ accountForms'[r].pc = pc
      /\ \A q \in AccountForms : /\ q # r => accountForms'[q] = accountForms[q]
                                 /\ Begun(q)' => Begun(q) /\ accountForms'[q].row = accountForms[q].row
  BY <1>2, FormMoves
<1>4. /\ accounts' \in [Accounts -> AccountRow] /\ accounts'[u] = row
      /\ \A v \in Accounts \ {u} : accounts'[v] = accounts[v]
  BY <1>1, <1>2
<1>5. accounts[u].password \in {0} \cup AccountForms
  BY <1>1 DEF AccountRow
<1>6. /\ replaced' \in [Accounts -> SUBSET ({0} \cup AccountForms)]
      /\ replaced'[u] = IF row.password = accounts[u].password THEN replaced[u]
                        ELSE replaced[u] \cup {accounts[u].password}
      /\ \A v \in Accounts \ {u} : replaced'[v] = replaced[v]
  BY <1>1, <1>2, <1>5
<1>7. \/ row.password = accounts[u].password /\ undone' = undone
      \/ row.password = r /\ undone' = undone \ {u}
      \/ row.password = accountForms[r].row.password /\ undone' = undone \cup {u}
  OBVIOUS
<1>8. lockout' # "none" \/ \E v \in Accounts \ Superusers : MayChange(v)'
  <2> SUFFICES ASSUME LossBy(r) = "none" PROVE \E v \in Accounts \ Superusers : MayChange(v)'
    BY <1>2
  <2> DEFINE v == accountForms[r].by
  <2>1. /\ v \in Accounts \ Superusers /\ MayChange(v)
        /\ v # u \/ accountForms[r].kind \notin {"edit", "deactivate"}
    BY AuthorRemains
  <2>2. accounts'[v].active
    BY <1>4, <2>1 DEF MayChange
  <2> QED BY <1>2, <2>1, <2>2 DEF MayChange
<1> HIDE DEF u
<1>9. PasswordsFresh'
  <2> SUFFICES ASSUME NEW q \in AccountForms, accountForms'[q].pc \in {"new", "read"}
               PROVE  /\ \A v \in Accounts : accounts'[v].password # q /\ q \notin replaced'[v]
                      /\ \A p \in AccountForms : Begun(p)' => accountForms'[p].row.password # q
    BY DEF PasswordsFresh
  <2>1. q # r /\ accountForms[q].pc \in {"new", "read"} /\ Begun(r)
    BY <1>3 DEF Begun
  <2>2. /\ \A v \in Accounts : accounts[v].password # q /\ q \notin replaced[v]
        /\ \A p \in AccountForms : Begun(p) => accountForms[p].row.password # q
    BY <2>1 DEF PasswordsFresh
  <2>3. row.password # q
    BY <1>1, <1>7, <2>1, <2>2
  <2> QED BY <1>1, <1>3, <1>4, <1>6, <2>2, <2>3
<1>10. ReplacedPasswordsInvalid'
  <2> SUFFICES ASSUME NEW v \in Accounts, v \notin undone'
               PROVE  accounts'[v].password \notin replaced'[v]
    BY DEF ReplacedPasswordsInvalid
  <2>1. v \notin undone => accounts[v].password \notin replaced[v]
    BY DEF AccountsKept, ReplacedPasswordsInvalid
  <2>2. r \notin replaced[v] /\ r # accounts[v].password
    BY DEF PasswordsFresh
  <2>3. v \notin undone \/ (v = u /\ row.password = r)
    BY <1>7
  <2> QED BY <1>4, <1>6, <1>7, <2>1, <2>2, <2>3
<1> QED BY <1>2, <1>3, <1>4, <1>6, <1>8, <1>9, <1>10 DEF AccountsKept, AdministratorsRemain

LEMMA GroupsSetInv ==
    ASSUME AccountsInv, NEW r \in AccountForms, NEW member \in BOOLEAN, GroupsSet(r, member)
    PROVE  AccountsInv'
<1> USE DEF AccountsInv
<1>1. /\ UNCHANGED <<accounts, replaced, undone>> /\ lockout' = LossBy(r)
      /\ accountForms[r].pc = "groups" /\ accountForms' = [accountForms EXCEPT ![r].pc = "done"]
      /\ inGroup' = IF member THEN inGroup \cup {accountForms[r].target} ELSE inGroup \ {accountForms[r].target}
  BY DEF GroupsSet
<1>2. /\ FormsOK' /\ accountForms' = [q \in AccountForms |-> accountForms'[q]]
      /\ accountForms'[r].pc = "done"
      /\ \A q \in AccountForms : /\ q # r => accountForms'[q] = accountForms[q]
                                 /\ Begun(q)' => Begun(q) /\ accountForms'[q].row = accountForms[q].row
  BY <1>1, FormMoves
<1>3. accountForms[r].target \in Accounts \ Superusers /\ accountForms[r].kind = "edit"
  BY <1>1 DEF FormsOK, NoForm
<1>4. inGroup' \subseteq Accounts \ Superusers
  BY <1>1, <1>3
<1>5. PasswordsFresh'
  BY <1>1, <1>2 DEF PasswordsFresh
<1>6. AdministratorsRemain'
  <2> SUFFICES ASSUME LossBy(r) = "none" PROVE \E v \in Accounts \ Superusers : MayChange(v)'
    BY <1>1 DEF AdministratorsRemain
  <2> DEFINE v == accountForms[r].by
  <2>1. v \in Accounts \ Superusers /\ MayChange(v) /\ v # accountForms[r].target
    BY <1>1, <1>3, AuthorRemains
  <2> QED BY <1>1, <2>1 DEF MayChange
<1> QED BY <1>1, <1>2, <1>4, <1>5, <1>6 DEF AccountsKept, ReplacedPasswordsInvalid

LEMMA FieldSavedInv ==
    ASSUME AccountsInv, NEW r \in AccountForms, FieldSaved(r)
    PROVE  AccountsInv'
<1> DEFINE u == accountForms[r].target
           row == Changed(accounts[u], r)
<1> USE DEF AccountsInv
<1>1. /\ accountForms[r].pc = "read" /\ accountForms[r].kind # "edit" /\ Saves(r, row, "done")
      /\ undone' = IF accountForms[r].kind = "password" THEN undone \ {u} ELSE undone
      /\ u \in Accounts
  BY DEF FieldSaved, FormsOK, NoForm
<1>2. accounts[u] \in AccountRow
  BY <1>1
<1>3. /\ row \in AccountRow
      /\ \/ row.password = accounts[u].password /\ accountForms[r].kind # "password"
         \/ row.password = r /\ accountForms[r].kind = "password"
      /\ accountForms[r].kind # "deactivate" /\ accounts[u].active => row.active
  <2>1. accountForms[r].kind \in Fields
    BY <1>1 DEF FormsOK, NoForm
  <2> QED BY <1>1, <1>2, <2>1 DEF Changed, AccountRow, Fields
<1> HIDE DEF row
<1> QED BY <1>1, <1>3, SavesInv

LEMMA RowSavedInv ==
    ASSUME AccountsInv, NEW r \in AccountForms, NEW active \in BOOLEAN, RowSaved(r, active)
    PROVE  AccountsInv'
<1> DEFINE row == [accountForms[r].row EXCEPT !.active = active]
<1> USE DEF AccountsInv
<1>1. /\ accountForms[r].pc = "read" /\ accountForms[r].kind = "edit" /\ Saves(r, row, "groups")
      /\ accountForms[r].row \in AccountRow
      /\ undone' = IF accountForms[r].row.password = accounts[accountForms[r].target].password
                    THEN undone ELSE undone \cup {accountForms[r].target}
  BY DEF RowSaved, FormsOK, NoForm
<1>2. row \in AccountRow /\ row.password = accountForms[r].row.password
  BY <1>1 DEF AccountRow
<1> HIDE DEF row
<1> QED BY <1>1, <1>2, SavesInv

LEMMA FormKilledInv ==
    ASSUME AccountsInv, NEW r \in AccountForms, FormKilled(r)
    PROVE  AccountsInv'
<1> USE DEF AccountsInv
<1>1. /\ UNCHANGED <<accounts, inGroup, replaced, undone, lockout>>
      /\ accountForms[r].pc \in {"read", "groups"} /\ accountForms' = [accountForms EXCEPT ![r].pc = "done"]
  BY DEF FormKilled
<1>2. /\ FormsOK' /\ accountForms' = [q \in AccountForms |-> accountForms'[q]]
      /\ accountForms'[r].pc = "done"
      /\ \A q \in AccountForms : /\ q # r => accountForms'[q] = accountForms[q]
                                 /\ Begun(q)' => Begun(q) /\ accountForms'[q].row = accountForms[q].row
  BY <1>1, FormMoves
<1>3. PasswordsFresh'
  BY <1>1, <1>2 DEF PasswordsFresh
<1>4. AccountsKept'
  BY <1>1 DEF AccountsKept, AdministratorsRemain, ReplacedPasswordsInvalid, MayChange
<1> QED BY <1>1, <1>2, <1>3, <1>4

LEMMA AccountsStepInv ==
    ASSUME AccountsInv, [AccountsNext]_accountVars
    PROVE  AccountsInv'
<1>1. CASE UNCHANGED accountVars
  BY <1>1 DEF accountVars, AccountsInv, FormsOK, PasswordsFresh, Begun, AccountsKept,
              AdministratorsRemain, ReplacedPasswordsInvalid, MayChange
<1>2. CASE AccountsNext
  <2>1. PICK r \in AccountForms :
          \/ \E u, t \in Accounts, kind \in Fields : FormBegins(r, u, kind, t)
          \/ FieldSaved(r) \/ FormKilled(r)
          \/ \E b \in BOOLEAN : RowSaved(r, b) \/ GroupsSet(r, b)
    BY <1>2 DEF AccountsNext
  <2>2. CASE \E u, t \in Accounts, kind \in Fields : FormBegins(r, u, kind, t)
    BY <2>2, FormBeginsInv
  <2>3. CASE \E b \in BOOLEAN : RowSaved(r, b) \/ GroupsSet(r, b)
    BY <2>3, RowSavedInv, GroupsSetInv
  <2> QED BY <2>1, <2>2, <2>3, FieldSavedInv, FormKilledInv
<1> QED BY <1>1, <1>2

\* Whatever requests overlap: when nobody of the group may change users any more,
\* the last save was that of a superuser, of somebody who edited himself or of one
\* who had lost the right meanwhile; and a replaced password is valid again only
\* where an edit had read the row before and saved it afterwards, whole
\* (app/accounts/views.py, app/accounts/forms.py).
THEOREM AccountsAreKept == AccountsSpec => []AccountsKept
<1>1. AccountsInv => AccountsKept
  BY DEF AccountsInv
<1> QED BY <1>1, AccountsInitInv, AccountsStepInv, PTL DEF AccountsSpec

\* Users, groups and histories stay of their types.
THEOREM AccountsTyped == AccountsSpec => []AccountsTypeOK
<1>1. AccountsInv => AccountsTypeOK
  BY DEF AccountsInv, AccountsTypeOK
<1> QED BY <1>1, AccountsInitInv, AccountsStepInv, PTL DEF AccountsSpec

(***************************************************************************)
(* FieldConfig: the cached settings and the pages built from them          *)
(***************************************************************************)

\* A request that changes settings holds rows that are valid on their own.
EditorOK(e) ==
    \/ editors[e] = NoEditor
    \/ editors[e] = [pc |-> "invalidating", rows |-> Empty, field |-> Empty]
    \/ \E rows \in ValidConfigurations :
          OrdersDistinct(rows) /\ editors[e] = [pc |-> "saving", rows |-> rows, field |-> Empty]
    \/ \E f \in ConfigFields, row \in FieldRow :
          RowValid(f, row) /\ editors[e] = [pc |-> "switching", rows |-> row, field |-> f]

\* A page of which nobody changed the settings was built from those of now.
Served == ValidConfigurations \cup {Empty}
PageRecord == [pc : {"closed", "opening", "opened", "shown", "sending", "sent"},
               config : Served, seen : Served, steady : BOOLEAN]
PageOK(p) ==
    /\ pages[p] \in PageRecord
    /\ pages[p].pc # "closed" => pages[p].config \in ValidConfigurations
    /\ pages[p].steady /\ pages[p].pc # "closed" =>
          /\ pages[p].config = settings
          /\ pages[p].pc \in {"shown", "sending", "sent"} => pages[p].seen = settings

FieldConfigInv ==
    /\ settings \in ValidConfigurations /\ savedRows.rows \in ValidConfigurations
    /\ OrdersDistinct(savedRows.rows) \/ savedRows.reordered
    /\ cache = Empty \/ cache \in ValidConfigurations
    /\ filled \subseteq ConfigFields /\ SystemFields \subseteq filled
    /\ editors = [e \in Editors |-> editors[e]] /\ \A e \in Editors : EditorOK(e)
    /\ pages = [p \in Pages |-> pages[p]] /\ \A p \in Pages : PageOK(p)
    /\ SettingsExplained

LEMMA SeedRowsValid ==
    /\ [f \in ConfigFields |-> SeedRow(f)] \in ValidConfigurations
    /\ OrdersDistinct([f \in ConfigFields |-> SeedRow(f)])
<1>1. \A f \in ConfigFields : SeedRow(f) \in FieldRow /\ RowValid(f, SeedRow(f)) /\ SeedRow(f).order = Position[f]
  <2> SUFFICES ASSUME NEW f \in ConfigFields
               PROVE  SeedRow(f) \in FieldRow /\ RowValid(f, SeedRow(f)) /\ SeedRow(f).order = Position[f]
    OBVIOUS
  <2>1. Position[f] \in Orders
    BY DEF Orders
  <2>2. (f \in SystemFields) \in BOOLEAN /\ (f \in CatalogDefaults) \in BOOLEAN
    OBVIOUS
  <2>3. SeedRow(f) \in FieldRow
    BY <2>1, <2>2 DEF SeedRow, FieldRow
  <2>4. SeedRow(f).order = Position[f] /\ RowValid(f, SeedRow(f))
    BY DEF SeedRow, RowValid
  <2> QED BY <2>3, <2>4
<1>2. \A f, g \in ConfigFields : f # g => Position[f] # Position[g]
  BY FieldConfigAssumption
<1> QED BY <1>1, <1>2 DEF ValidConfigurations, Configuration, OrdersDistinct

LEMMA ConfigInitInv == ConfigInit => FieldConfigInv
<1> SUFFICES ASSUME ConfigInit PROVE FieldConfigInv
  OBVIOUS
<1>1. /\ settings \in ValidConfigurations /\ SettingsExplained
  BY SeedRowsValid DEF ConfigInit, SettingsExplained, StaleCacheHasACause, PlacesDistinct
<1>3. savedRows.rows \in ValidConfigurations /\ (OrdersDistinct(savedRows.rows) \/ savedRows.reordered)
  BY SeedRowsValid DEF ConfigInit
<1>2. \A p \in Pages : PageOK(p)
  BY DEF ConfigInit, PageOK, NoPage, PageRecord, Served
<1> QED BY <1>1, <1>3, <1>2, FieldConfigAssumption DEF ConfigInit, FieldConfigInv, EditorOK

\* Only the column use_catalog of a valid row changes: it stays valid.
LEMMA CatalogOfRow ==
    ASSUME NEW f, NEW row \in FieldRow, NEW b \in BOOLEAN
    PROVE  /\ [row EXCEPT !.catalog = b] \in FieldRow
           /\ [row EXCEPT !.catalog = b].order = row.order
           /\ RowValid(f, [row EXCEPT !.catalog = b]) <=> RowValid(f, row)
BY DEF FieldRow, RowValid

LEMMA ValidRowsOf ==
    ASSUME NEW rows \in ValidConfigurations, NEW f \in ConfigFields
    PROVE  rows[f] \in FieldRow /\ RowValid(f, rows[f]) /\ rows[f].catalog \in BOOLEAN
BY DEF ValidConfigurations, Configuration, FieldRow

\* The rows change, for all who look at them.
LEMMA RowsBecomeOK ==
    ASSUME FieldConfigInv, NEW rows \in ValidConfigurations, RowsBecome(rows)
    PROVE  /\ settings' = rows
           /\ pages' = [p \in Pages |-> pages'[p]] /\ \A p \in Pages : PageOK(p)'
<1> USE DEF FieldConfigInv
<1>1. CASE rows = settings
  <2>1. pages' = pages /\ settings' = settings
    BY <1>1 DEF RowsBecome
  <2> QED BY <1>1, <2>1 DEF PageOK
<1>2. CASE rows # settings
  <2>1. /\ settings' = rows
        /\ pages' = [p \in Pages |-> [pages[p] EXCEPT !.steady = FALSE]]
    BY <1>2 DEF RowsBecome
  <2>2. \A p \in Pages : PageOK(p)'
    <3> SUFFICES ASSUME NEW p \in Pages PROVE PageOK(p)'
      OBVIOUS
    <3>1. pages[p] \in PageRecord
      BY DEF PageOK
    <3>2. pages'[p] = [pages[p] EXCEPT !.steady = FALSE]
      BY <2>1
    <3>3. /\ pages'[p] \in PageRecord /\ pages'[p].pc = pages[p].pc /\ pages'[p].config = pages[p].config
          /\ pages'[p].steady = FALSE
      BY <3>1, <3>2 DEF PageRecord
    <3> QED BY <3>3 DEF PageOK, PageRecord, Served
  <2> QED BY <2>1, <2>2
<1> QED BY <1>1, <1>2

LEMMA EditorMoves ==
    ASSUME FieldConfigInv, NEW e \in Editors, NEW editor, editors' = [editors EXCEPT ![e] = editor],
           \/ editor = NoEditor
           \/ editor = [pc |-> "invalidating", rows |-> Empty, field |-> Empty]
           \/ \E rows \in ValidConfigurations :
                OrdersDistinct(rows) /\ editor = [pc |-> "saving", rows |-> rows, field |-> Empty]
           \/ \E f \in ConfigFields, row \in FieldRow :
                RowValid(f, row) /\ editor = [pc |-> "switching", rows |-> row, field |-> f]
    PROVE  /\ editors' = [d \in Editors |-> editors'[d]] /\ \A d \in Editors : EditorOK(d)'
           /\ editors'[e] = editor /\ \A d \in Editors \ {e} : editors'[d] = editors[d]
<1> USE DEF FieldConfigInv
<1>1. /\ editors'[e] = editor /\ \A d \in Editors \ {e} : editors'[d] = editors[d]
      /\ editors' = [d \in Editors |-> editors'[d]]
  OBVIOUS
<1>2. EditorOK(e)'
  BY <1>1 DEF EditorOK
<1>3. \A d \in Editors \ {e} : EditorOK(d)'
  BY <1>1 DEF EditorOK
<1> QED BY <1>1, <1>2, <1>3

LEMMA EditorReadsInv ==
    ASSUME FieldConfigInv, NEW e \in Editors,
           \/ \E rows \in ValidConfigurations : SettingsRead(e, rows)
           \/ \E f \in ConfigFields : SwitchRead(e, f)
    PROVE  FieldConfigInv'
<1> USE DEF FieldConfigInv
<1>1. PICK editor :
        /\ editors[e].pc = "free" /\ editors' = [editors EXCEPT ![e] = editor]
        /\ \/ \E rows \in ValidConfigurations :
                OrdersDistinct(rows) /\ editor = [pc |-> "saving", rows |-> rows, field |-> Empty]
           \/ \E f \in ConfigFields, row \in FieldRow :
                RowValid(f, row) /\ editor = [pc |-> "switching", rows |-> row, field |-> f]
        /\ UNCHANGED <<settings, cache, pages, filled, staleBecause, reordered, savedRows>>
  <2>1. CASE \E rows \in ValidConfigurations : SettingsRead(e, rows)
    BY <2>1 DEF SettingsRead
  <2>2. CASE \E f \in ConfigFields : SwitchRead(e, f)
    BY <2>2, ValidRowsOf DEF SwitchRead
  <2> QED BY <2>1, <2>2
<1>2. /\ editors' = [d \in Editors |-> editors'[d]] /\ \A d \in Editors : EditorOK(d)'
      /\ \A d \in Editors \ {e} : editors'[d] = editors[d]
  BY <1>1, EditorMoves
<1>3. SettingsExplained'
  BY <1>1, <1>2 DEF SettingsExplained, StaleCacheHasACause, PlacesDistinct, OrdersDistinct
<1> QED BY <1>1, <1>2, <1>3 DEF PageOK

LEMMA EditorInvalidating ==
    [NoEditor EXCEPT !.pc = "invalidating"] = [pc |-> "invalidating", rows |-> Empty, field |-> Empty]
BY DEF NoEditor

LEMMA NotBoolean == ASSUME NEW b \in BOOLEAN PROVE (~b) \in BOOLEAN
OBVIOUS

\* What a request that saves or switches holds.
LEMMA EditorHolds ==
    ASSUME NEW e \in Editors, EditorOK(e)
    PROVE  /\ editors[e].pc = "saving" =>
                editors[e].rows \in ValidConfigurations /\ OrdersDistinct(editors[e].rows)
           /\ editors[e].pc = "switching" =>
                /\ editors[e].field \in ConfigFields /\ editors[e].rows \in FieldRow
                /\ RowValid(editors[e].field, editors[e].rows)
<1>1. CASE editors[e] = NoEditor \/ editors[e] = [pc |-> "invalidating", rows |-> Empty, field |-> Empty]
  BY <1>1 DEF NoEditor
<1>2. ASSUME NEW rows \in ValidConfigurations, OrdersDistinct(rows),
             editors[e] = [pc |-> "saving", rows |-> rows, field |-> Empty]
      PROVE  /\ editors[e].pc = "saving" /\ editors[e].rows = rows
  BY <1>2
<1>3. ASSUME NEW f \in ConfigFields, NEW row \in FieldRow, RowValid(f, row),
             editors[e] = [pc |-> "switching", rows |-> row, field |-> f]
      PROVE  editors[e].pc = "switching" /\ editors[e].rows = row /\ editors[e].field = f
  BY <1>3
<1> QED BY <1>1, <1>2, <1>3 DEF EditorOK

LEMMA SettingsCommitInv ==
    ASSUME FieldConfigInv, NEW e \in Editors, SettingsCommit(e)
    PROVE  FieldConfigInv'
<1> USE DEF FieldConfigInv
<1> DEFINE rows == [f \in ConfigFields |-> [editors[e].rows[f] EXCEPT !.catalog = settings[f].catalog]]
<1>1. /\ editors[e].pc = "saving" /\ RowsBecome(rows)
      /\ editors' = [editors EXCEPT ![e] = [pc |-> "invalidating", rows |-> Empty, field |-> Empty]]
      /\ staleBecause' = IF cache \in {Empty, settings'} THEN staleBecause ELSE "invalidation to come"
      /\ reordered' = FALSE
      /\ UNCHANGED <<cache, filled, savedRows>>
  BY EditorInvalidating DEF SettingsCommit, SettingsSaved
<1>2. editors[e].rows \in ValidConfigurations /\ OrdersDistinct(editors[e].rows)
  BY <1>1, EditorHolds
<1>3. \A f \in ConfigFields : /\ rows[f] \in FieldRow /\ RowValid(f, rows[f])
                              /\ rows[f].order = editors[e].rows[f].order
  BY <1>2, ValidRowsOf, CatalogOfRow
<1>4. rows \in ValidConfigurations /\ OrdersDistinct(rows)
  BY <1>2, <1>3 DEF ValidConfigurations, Configuration, OrdersDistinct
<1> HIDE DEF rows
<1>5. /\ settings' = rows
      /\ pages' = [p \in Pages |-> pages'[p]] /\ \A p \in Pages : PageOK(p)'
  BY <1>1, <1>4, RowsBecomeOK
<1>6. /\ editors' = [d \in Editors |-> editors'[d]] /\ \A d \in Editors : EditorOK(d)'
      /\ editors'[e].pc = "invalidating"
  BY <1>1, EditorMoves
<1>7. SettingsExplained'
  BY <1>1, <1>4, <1>5, <1>6 DEF SettingsExplained, StaleCacheHasACause, PlacesDistinct
<1> QED BY <1>1, <1>4, <1>5, <1>6, <1>7

LEMMA SwitchCommitInv ==
    ASSUME FieldConfigInv, NEW e \in Editors, SwitchCommit(e)
    PROVE  FieldConfigInv'
<1> USE DEF FieldConfigInv
<1> DEFINE f == editors[e].field
           row == editors[e].rows
<1>1. f \in ConfigFields /\ row \in FieldRow /\ RowValid(f, row)
  BY EditorHolds DEF SwitchCommit
<1> DEFINE rows == [settings EXCEPT ![f] = [row EXCEPT !.catalog = ~row.catalog]]
<1>2. /\ RowsBecome(rows)
      /\ reordered' = (reordered \/ row.order # settings[f].order)
      /\ editors' = [editors EXCEPT ![e] = [pc |-> "invalidating", rows |-> Empty, field |-> Empty]]
      /\ staleBecause' = IF cache \in {Empty, settings'} THEN staleBecause ELSE "invalidation to come"
      /\ UNCHANGED <<cache, filled, savedRows>>
  BY EditorInvalidating DEF SwitchCommit
<1> HIDE DEF f, row
<1>3. /\ rows[f] \in FieldRow /\ RowValid(f, rows[f]) /\ rows[f].order = row.order
      /\ \A g \in ConfigFields \ {f} : rows[g] = settings[g]
  <2>1. row.catalog \in BOOLEAN /\ (~row.catalog) \in BOOLEAN
    <3>1. row.catalog \in BOOLEAN
      BY <1>1 DEF FieldRow
    <3> QED BY <3>1, NotBoolean
  <2>2. rows[f] = [row EXCEPT !.catalog = ~row.catalog] /\ \A g \in ConfigFields \ {f} : rows[g] = settings[g]
    BY <1>1 DEF ValidConfigurations, Configuration
  <2>3. /\ [row EXCEPT !.catalog = ~row.catalog] \in FieldRow
        /\ [row EXCEPT !.catalog = ~row.catalog].order = row.order
        /\ RowValid(f, [row EXCEPT !.catalog = ~row.catalog])
    BY <1>1, <2>1, CatalogOfRow
  <2> HIDE DEF rows
  <2> QED BY <2>2, <2>3
<1>4. rows \in ValidConfigurations
  BY <1>3, ValidRowsOf DEF ValidConfigurations, Configuration
<1>5. OrdersDistinct(rows) \/ reordered'
  <2> HIDE DEF rows
  <2>1. CASE row.order = settings[f].order
    <3>1. \A g \in ConfigFields : rows[g].order = settings[g].order
      BY <1>3, <2>1
    <3> QED BY <1>2, <3>1 DEF SettingsExplained, PlacesDistinct, OrdersDistinct
  <2>2. CASE row.order # settings[f].order
    BY <1>2, <2>2
  <2> QED BY <2>1, <2>2
<1> HIDE DEF rows
<1>6. /\ settings' = rows
      /\ pages' = [p \in Pages |-> pages'[p]] /\ \A p \in Pages : PageOK(p)'
  BY <1>2, <1>4, RowsBecomeOK
<1>7. /\ editors' = [d \in Editors |-> editors'[d]] /\ \A d \in Editors : EditorOK(d)'
      /\ editors'[e].pc = "invalidating"
  BY <1>2, EditorMoves
<1>8. SettingsExplained'
  BY <1>2, <1>5, <1>6, <1>7 DEF SettingsExplained, StaleCacheHasACause, PlacesDistinct
<1> QED BY <1>2, <1>4, <1>6, <1>7, <1>8

LEMMA InvalidateInv ==
    ASSUME FieldConfigInv, NEW e \in Editors, Invalidate(e)
    PROVE  FieldConfigInv'
<1> USE DEF FieldConfigInv
<1>1. /\ cache' = Empty /\ staleBecause' = "current"
      /\ editors' = [editors EXCEPT ![e] = NoEditor]
      /\ UNCHANGED <<settings, pages, filled, reordered, savedRows>>
  BY DEF Invalidate
<1>2. editors' = [d \in Editors |-> editors'[d]] /\ \A d \in Editors : EditorOK(d)'
  BY <1>1, EditorMoves
<1>3. SettingsExplained'
  BY <1>1 DEF SettingsExplained, StaleCacheHasACause, PlacesDistinct, OrdersDistinct
<1> QED BY <1>1, <1>2, <1>3 DEF PageOK

LEMMA EditorKilledInv ==
    ASSUME FieldConfigInv, NEW e \in Editors, EditorKilled(e)
    PROVE  FieldConfigInv'
<1> USE DEF FieldConfigInv
<1>1. /\ editors' = [editors EXCEPT ![e] = NoEditor]
      /\ staleBecause' = IF Stale /\ editors[e].pc = "invalidating" THEN "killed" ELSE staleBecause
      /\ UNCHANGED <<settings, cache, pages, filled, reordered, savedRows>>
  BY DEF EditorKilled
<1>2. /\ editors' = [d \in Editors |-> editors'[d]] /\ \A d \in Editors : EditorOK(d)'
      /\ \A d \in Editors \ {e} : editors'[d] = editors[d]
  BY <1>1, EditorMoves
<1>3. SettingsExplained'
  BY <1>1, <1>2 DEF SettingsExplained, StaleCacheHasACause, PlacesDistinct, OrdersDistinct, Stale
<1> QED BY <1>1, <1>2, <1>3 DEF PageOK

\* Seeding keeps rows valid.
LEMMA SeededRowsValid ==
    ASSUME NEW rows \in ValidConfigurations
    PROVE  SeededRows(rows) \in ValidConfigurations
<1>1. \A f \in ConfigFields : Seeded(f, rows[f]) \in FieldRow /\ RowValid(f, Seeded(f, rows[f]))
  <2> SUFFICES ASSUME NEW f \in ConfigFields
               PROVE  Seeded(f, rows[f]) \in FieldRow /\ RowValid(f, Seeded(f, rows[f]))
    OBVIOUS
  <2>1. rows[f] \in FieldRow /\ RowValid(f, rows[f])
    BY ValidRowsOf
  <2> DEFINE order == IF rows[f].order = 0 THEN Position[f] ELSE rows[f].order
             catalog == rows[f].catalog \/ f \in CatalogDefaults
  <2>2. order \in Orders
    BY <2>1 DEF Orders, FieldRow
  <2>3. catalog \in BOOLEAN
    OBVIOUS
  <2>4. Seeded(f, rows[f]) = [rows[f] EXCEPT !.order = order, !.catalog = catalog]
    BY DEF Seeded
  <2> HIDE DEF order, catalog
  <2> QED BY <2>1, <2>2, <2>3, <2>4 DEF FieldRow, RowValid
<1> QED BY <1>1 DEF SeededRows, ValidConfigurations, Configuration

LEMMA RestartInv ==
    ASSUME FieldConfigInv, Restart
    PROVE  FieldConfigInv'
<1> USE DEF FieldConfigInv
<1> DEFINE rows == SeededRows(settings)
<1>1. /\ settings' = rows
      /\ cache' = Empty /\ staleBecause' = "current"
      /\ reordered' = (reordered \/ \E f \in ConfigFields : rows[f].order # settings[f].order)
      /\ editors' = [e \in Editors |-> NoEditor]
      /\ pages' = [p \in Pages |->
                     IF pages[p].pc \in {"shown", "closed"} THEN [pages[p] EXCEPT !.steady = @ /\ rows = settings]
                     ELSE NoPage]
      /\ UNCHANGED <<filled, savedRows>>
  BY DEF Restart
<1>2. rows \in ValidConfigurations
  BY SeededRowsValid
<1>3. OrdersDistinct(rows) \/ reordered'
  <2> HIDE DEF rows
  <2> QED BY <1>1 DEF SettingsExplained, PlacesDistinct, OrdersDistinct
<1> HIDE DEF rows
<1>4. \A p \in Pages : PageOK(p)'
  <2> SUFFICES ASSUME NEW p \in Pages PROVE PageOK(p)'
    OBVIOUS
  <2>1. CASE pages[p].pc \in {"shown", "closed"}
    <3> DEFINE steady == pages[p].steady /\ rows = settings
    <3>1. pages'[p] = [pages[p] EXCEPT !.steady = steady] /\ PageOK(p)
      BY <1>1, <2>1
    <3>2. steady \in BOOLEAN /\ (steady => pages[p].steady /\ settings' = settings)
      BY <1>1
    <3> HIDE DEF steady
    <3>3. /\ pages'[p] \in PageRecord /\ pages'[p].pc = pages[p].pc /\ pages'[p].config = pages[p].config
          /\ pages'[p].steady = steady /\ pages'[p].seen = pages[p].seen
      BY <3>1, <3>2 DEF PageOK, PageRecord
    <3> QED BY <3>1, <3>2, <3>3 DEF PageOK
  <2>2. CASE pages[p].pc \notin {"shown", "closed"}
    BY <1>1, <2>2 DEF PageOK, NoPage, PageRecord, Served
  <2> QED BY <2>1, <2>2
<1>5. SettingsExplained'
  BY <1>1, <1>3 DEF SettingsExplained, StaleCacheHasACause, PlacesDistinct
<1> QED BY <1>1, <1>2, <1>4, <1>5 DEF EditorOK

LEMMA BackupRowsInv ==
    ASSUME FieldConfigInv, BackupRows
    PROVE  FieldConfigInv'
<1> USE DEF FieldConfigInv
<1>1. /\ savedRows'.rows = settings /\ savedRows'.reordered = reordered
      /\ UNCHANGED <<settings, cache, editors, pages, filled, staleBecause, reordered>>
  BY DEF BackupRows
<1>2. SettingsExplained'
  BY <1>1 DEF SettingsExplained, StaleCacheHasACause, PlacesDistinct, OrdersDistinct
<1>3. OrdersDistinct(savedRows'.rows) \/ savedRows'.reordered
  BY <1>1 DEF SettingsExplained, PlacesDistinct, OrdersDistinct
<1> QED BY <1>1, <1>2, <1>3 DEF PageOK, EditorOK

LEMMA RestoreRowsInv ==
    ASSUME FieldConfigInv, RestoreRows
    PROVE  FieldConfigInv'
<1> USE DEF FieldConfigInv
<1> DEFINE rows == SeededRows(savedRows.rows)
<1>1. /\ RowsBecome(rows)
      /\ \/ cache' = Empty
         \/ /\ UNCHANGED cache
            /\ staleBecause' = IF cache \in {Empty, rows} THEN staleBecause ELSE "restored"
      /\ reordered' = (savedRows.reordered \/ \E f \in ConfigFields : rows[f].order # savedRows.rows[f].order)
      /\ UNCHANGED <<editors, filled, savedRows>>
  BY DEF RestoreRows
<1>2. rows \in ValidConfigurations
  BY SeededRowsValid
<1> HIDE DEF rows
<1>3. OrdersDistinct(rows) \/ reordered'
  BY <1>1 DEF OrdersDistinct
<1>4. /\ settings' = rows
      /\ pages' = [p \in Pages |-> pages'[p]] /\ \A p \in Pages : PageOK(p)'
  BY <1>1, <1>2, RowsBecomeOK
<1>5. SettingsExplained'
  BY <1>1, <1>3, <1>4 DEF SettingsExplained, StaleCacheHasACause, PlacesDistinct
<1> QED BY <1>1, <1>2, <1>4, <1>5 DEF EditorOK

\* A reader's step changes his page and the cache only.
LEMMA PageMoves ==
    ASSUME FieldConfigInv, NEW p \in Pages, NEW page, pages' = [pages EXCEPT ![p] = page],
           UNCHANGED <<settings, editors, reordered, savedRows>>,
           cache' = Empty \/ cache' \in ValidConfigurations,
           StaleCacheHasACause',
           filled' \subseteq ConfigFields, SystemFields \subseteq filled',
           page \in PageRecord,
           page.pc # "closed" => page.config \in ValidConfigurations,
           page.steady /\ page.pc # "closed" =>
              /\ page.config = settings
              /\ page.pc \in {"shown", "sending", "sent"} => page.seen = settings
    PROVE  FieldConfigInv'
<1> USE DEF FieldConfigInv
<1>1. /\ pages'[p] = page /\ \A q \in Pages \ {p} : pages'[q] = pages[q]
      /\ pages' = [q \in Pages |-> pages'[q]]
  OBVIOUS
<1>2. PageOK(p)'
  BY <1>1 DEF PageOK
<1>3. \A q \in Pages \ {p} : PageOK(q)'
  BY <1>1 DEF PageOK
<1>4. PlacesDistinct'
  BY DEF SettingsExplained, PlacesDistinct, OrdersDistinct
<1> QED BY <1>1, <1>2, <1>3, <1>4 DEF EditorOK, SettingsExplained

LEMMA AskInv ==
    ASSUME FieldConfigInv, NEW p \in Pages, OpenPage(p) \/ SendPage(p)
    PROVE  FieldConfigInv'
<1> USE DEF FieldConfigInv
<1>1. PICK from \in {"closed", "shown"} :
        /\ pages[p].pc = from
        /\ UNCHANGED <<settings, cache, editors, filled, staleBecause, reordered, savedRows>>
        /\ \/ /\ cache # Empty
              /\ pages' = [pages EXCEPT ![p].pc = IF from = "closed" THEN "opened" ELSE "sent", ![p].config = cache,
                                        ![p].steady = cache = settings /\ (@ \/ from = "closed")]
           \/ pages' = [pages EXCEPT ![p].pc = IF from = "closed" THEN "opening" ELSE "sending",
                                     ![p].config = settings, ![p].steady = @ \/ from = "closed"]
  BY DEF OpenPage, SendPage, Ask
<1>2. /\ pages[p] \in PageRecord
      /\ from = "shown" /\ pages[p].steady => pages[p].seen = settings
  BY <1>1 DEF PageOK
<1>3. StaleCacheHasACause'
  BY <1>1 DEF SettingsExplained, StaleCacheHasACause
<1> DEFINE kept == pages[p].steady \/ from = "closed"
<1>4. kept \in BOOLEAN /\ (cache = settings /\ kept) \in BOOLEAN
  BY <1>2
<1>5. CASE /\ cache # Empty
           /\ pages' = [pages EXCEPT ![p].pc = IF from = "closed" THEN "opened" ELSE "sent", ![p].config = cache,
                                     ![p].steady = cache = settings /\ (@ \/ from = "closed")]
  <2> DEFINE current == cache = settings /\ kept
             page == [pages[p] EXCEPT !.pc = IF from = "closed" THEN "opened" ELSE "sent", !.config = cache,
                                      !.steady = current]
  <2>1. pages' = [pages EXCEPT ![p] = page]
    BY <1>5, Zenon
  <2>2. current \in BOOLEAN /\ (current => cache = settings /\ kept)
    BY <1>4
  <2> HIDE DEF current
  <2>3. /\ page \in PageRecord /\ page.pc = (IF from = "closed" THEN "opened" ELSE "sent")
        /\ page.config = cache /\ page.seen = pages[p].seen /\ page.steady = current
    BY <1>2, <1>5, <2>2 DEF PageRecord, Served
  <2> HIDE DEF page
  <2>4. page.config \in ValidConfigurations
    BY <1>5, <2>3
  <2>5. page.steady /\ page.pc # "closed" =>
              /\ page.config = settings
              /\ page.pc \in {"shown", "sending", "sent"} => page.seen = settings
    BY <1>1, <1>2, <2>2, <2>3
  <2>6. UNCHANGED <<settings, cache, editors, filled, reordered, savedRows>>
    BY <1>1
  <2> QED BY <1>3, <2>1, <2>3, <2>4, <2>5, <2>6, PageMoves
<1>6. CASE pages' = [pages EXCEPT ![p].pc = IF from = "closed" THEN "opening" ELSE "sending",
                                  ![p].config = settings, ![p].steady = @ \/ from = "closed"]
  <2> DEFINE page == [pages[p] EXCEPT !.pc = IF from = "closed" THEN "opening" ELSE "sending", !.config = settings,
                                      !.steady = kept]
  <2>1. pages' = [pages EXCEPT ![p] = page]
    BY <1>6, Zenon
  <2>2. kept \in BOOLEAN /\ (kept => pages[p].steady \/ from = "closed")
    BY <1>4
  <2> HIDE DEF kept
  <2>3. /\ page \in PageRecord /\ page.pc = (IF from = "closed" THEN "opening" ELSE "sending")
        /\ page.config = settings /\ page.seen = pages[p].seen /\ page.steady = kept
    BY <1>2, <2>2 DEF PageRecord, Served
  <2> HIDE DEF page
  <2> QED BY <1>1, <1>2, <1>3, <2>1, <2>2, <2>3, PageMoves
<1> QED BY <1>1, <1>5, <1>6

LEMMA FillInv ==
    ASSUME FieldConfigInv, NEW p \in Pages, Fill(p)
    PROVE  FieldConfigInv'
<1> USE DEF FieldConfigInv
<1> DEFINE page == [pages[p] EXCEPT !.pc = IF @ = "opening" THEN "opened" ELSE "sent"]
<1>1. /\ pages[p].pc \in {"opening", "sending"} /\ cache' = pages[p].config
      /\ staleBecause' = IF cache' = settings THEN "current" ELSE "filled late"
      /\ pages' = [pages EXCEPT ![p] = page]
      /\ UNCHANGED <<settings, editors, filled, reordered, savedRows>>
  BY DEF Fill
<1>2. PageOK(p)
  OBVIOUS
<1>3. /\ page \in PageRecord /\ page.pc = (IF pages[p].pc = "opening" THEN "opened" ELSE "sent")
      /\ page.config = pages[p].config /\ page.seen = pages[p].seen /\ page.steady = pages[p].steady
  BY <1>2 DEF PageOK, PageRecord
<1>4. StaleCacheHasACause' /\ cache' \in ValidConfigurations
  BY <1>1, <1>2 DEF StaleCacheHasACause, PageOK
<1> HIDE DEF page
<1>5. page.steady /\ page.pc # "closed" =>
            /\ page.config = settings
            /\ page.pc \in {"shown", "sending", "sent"} => page.seen = settings
  BY <1>1, <1>2, <1>3 DEF PageOK
<1> QED BY <1>1, <1>2, <1>3, <1>4, <1>5, PageMoves DEF PageOK

LEMMA ShowPageInv ==
    ASSUME FieldConfigInv, NEW p \in Pages, ShowPage(p)
    PROVE  FieldConfigInv'
<1> USE DEF FieldConfigInv
<1> DEFINE page == [pages[p] EXCEPT !.pc = "shown", !.seen = pages[p].config]
<1>1. /\ pages[p].pc = "opened" /\ pages' = [pages EXCEPT ![p] = page]
      /\ UNCHANGED <<settings, cache, editors, filled, staleBecause, reordered, savedRows>>
  BY Zenon DEF ShowPage
<1>2. PageOK(p)
  OBVIOUS
<1>3. /\ page \in PageRecord /\ page.pc = "shown"
      /\ page.config = pages[p].config /\ page.seen = pages[p].config /\ page.steady = pages[p].steady
  BY <1>2 DEF PageOK, PageRecord
<1>4. StaleCacheHasACause'
  BY <1>1 DEF SettingsExplained, StaleCacheHasACause
<1> HIDE DEF page
<1>5. page.steady /\ page.pc # "closed" =>
            /\ page.config = settings
            /\ page.pc \in {"shown", "sending", "sent"} => page.seen = settings
  BY <1>1, <1>2, <1>3 DEF PageOK
<1> QED BY <1>1, <1>2, <1>3, <1>4, <1>5, PageMoves DEF PageOK

\* The inputs of the page are those of the form it is sent to.
LEMMA SteadyPage ==
    ASSUME FieldConfigInv, NEW p \in Pages, pages[p].pc = "sent", pages[p].steady
    PROVE  Blank(p) = {}
BY DEF FieldConfigInv, PageOK, Blank

LEMMA CheckPageInv ==
    ASSUME FieldConfigInv, NEW p \in Pages, CheckPage(p)
    PROVE  /\ FieldConfigInv'
           /\ filled' # filled => pages[p].pc = "sent" /\ ~pages[p].steady /\ pages'[p] = NoPage
<1> USE DEF FieldConfigInv
<1> DEFINE blank == Blank(p)
           rejected == \E f \in blank \cup (ConfigFields \ filled) : pages[p].config[f].required
<1>1. /\ pages[p].pc = "sent"
      /\ filled' = IF rejected THEN filled ELSE filled \ blank
      /\ pages' = [pages EXCEPT ![p] = NoPage]
      /\ UNCHANGED <<settings, cache, editors, staleBecause, reordered, savedRows>>
  BY DEF CheckPage
<1>2. PageOK(p) /\ pages[p].config \in ValidConfigurations
  BY <1>1 DEF PageOK
<1>3. blank \subseteq ConfigFields
  BY DEF Blank
<1>4. filled' \subseteq ConfigFields /\ SystemFields \subseteq filled'
  <2>1. \A f \in SystemFields : pages[p].config[f].required
    BY <1>2, ValidRowsOf, FieldConfigAssumption DEF RowValid
  <2>2. CASE rejected
    BY <1>1, <2>2
  <2>3. CASE ~rejected
    <3>1. SystemFields \cap blank = {}
      BY <2>1, <2>3
    <3> QED BY <1>1, <2>3, <3>1
  <2> QED BY <2>2, <2>3
<1>5. filled' # filled => ~pages[p].steady /\ pages'[p] = NoPage
  <2> SUFFICES ASSUME filled' # filled PROVE ~pages[p].steady /\ pages'[p] = NoPage
    OBVIOUS
  <2>1. blank # {}
    BY <1>1
  <2> HIDE DEF blank, rejected
  <2> QED BY <1>1, <2>1, SteadyPage DEF blank
<1>6. StaleCacheHasACause'
  BY <1>1 DEF SettingsExplained, StaleCacheHasACause
<1>7. NoPage \in PageRecord /\ NoPage.pc = "closed" /\ NoPage.steady = FALSE
  BY DEF NoPage, PageRecord, Served
<1> HIDE DEF blank, rejected
<1> QED BY <1>1, <1>4, <1>5, <1>6, <1>7, PageMoves

LEMMA ConfigStepInv ==
    ASSUME FieldConfigInv, [ConfigNext]_configVars
    PROVE  /\ FieldConfigInv'
           /\ filled' # filled =>
                \E p \in Pages : pages[p].pc = "sent" /\ ~pages[p].steady /\ pages'[p] = NoPage
<1>1. CASE UNCHANGED configVars
  BY <1>1 DEF configVars, FieldConfigInv, PageOK, EditorOK, SettingsExplained, StaleCacheHasACause,
              PlacesDistinct, OrdersDistinct
<1>2. CASE \E e \in Editors : EditorNext(e)
  <2>1. PICK e \in Editors : EditorNext(e)
    BY <1>2
  <2>2. FieldConfigInv'
    BY <2>1, EditorReadsInv, SettingsCommitInv, SwitchCommitInv, InvalidateInv, EditorKilledInv DEF EditorNext
  <2>3. UNCHANGED filled
    BY <2>1 DEF EditorNext, SettingsRead, SwitchRead, SettingsCommit, SettingsSaved, SwitchCommit, Invalidate,
                EditorKilled
  <2> QED BY <2>2, <2>3
<1>3. CASE \E p \in Pages : PageNext(p)
  <2>1. PICK p \in Pages : PageNext(p)
    BY <1>3
  <2>2. CASE CheckPage(p)
    BY <2>2, CheckPageInv
  <2>3. CASE ~CheckPage(p)
    <3>1. FieldConfigInv'
      BY <2>1, <2>3, AskInv, FillInv, ShowPageInv DEF PageNext
    <3>2. UNCHANGED filled
      BY <2>1, <2>3 DEF PageNext, OpenPage, SendPage, Ask, Fill, ShowPage
    <3> QED BY <3>1, <3>2
  <2> QED BY <2>2, <2>3
<1>4. CASE Restart
  BY <1>4, RestartInv DEF Restart
<1>5. CASE BackupRows
  BY <1>5, BackupRowsInv DEF BackupRows
<1>6. CASE RestoreRows
  BY <1>6, RestoreRowsInv DEF RestoreRows
<1>7. CASE Expire
  BY <1>7 DEF Expire, FieldConfigInv, PageOK, EditorOK, SettingsExplained, StaleCacheHasACause,
              PlacesDistinct, OrdersDistinct
<1> QED BY <1>1, <1>2, <1>3, <1>4, <1>5, <1>6, <1>7 DEF ConfigNext

\* The cache serves other settings than the database, and fields share a place,
\* only for the causes the property lists, whatever editors, readers, restarts,
\* backups and restores overlap (app/core/field_config.py, app/core/views.py,
\* seed_field_config.py).
THEOREM SettingsAreExplained == ConfigSpec => []SettingsExplained
<1>1. FieldConfigInv => SettingsExplained
  BY DEF FieldConfigInv
<1> QED BY <1>1, ConfigInitInv, ConfigStepInv, PTL DEF ConfigSpec

\* The rows are at all times a configuration the form accepts, also after a switch,
\* a restart or a restore (core/field_config.py, field_settings_validation.py).
THEOREM ConfigTyped == ConfigSpec => []FieldConfigTypeOK
<1>1. FieldConfigInv => FieldConfigTypeOK
  BY DEF FieldConfigInv, FieldConfigTypeOK, ValidConfigurations
<1> QED BY <1>1, ConfigInitInv, ConfigStepInv, PTL DEF ConfigSpec

\* A page that is sent as it was got clears no field, unless the settings changed
\* since its request asked for them, or a stale cache served it when it was asked
\* for or when it was sent (app/core/forms.py, app/core/field_config.py).
THEOREM NothingIsLostUnchanged == ConfigSpec => NothingLostUnchanged
<1>1. FieldConfigInv /\ [ConfigNext]_configVars =>
        [filled' # filled => \E p \in Pages : pages[p].pc = "sent" /\ ~pages[p].steady /\ pages'[p] = NoPage]_configVars
  BY ConfigStepInv
<1> QED BY <1>1, ConfigInitInv, ConfigStepInv, PTL DEF ConfigSpec, NothingLostUnchanged

(***************************************************************************)
(* Numbers                                                                 *)
(***************************************************************************)

\* A non-empty set of natural numbers has a least element, and a bounded one a
\* greatest one.
LEMMA LeastOf ==
    ASSUME NEW S \in SUBSET Nat, S # {}
    PROVE  \E x \in S : \A y \in S : x <= y
<1> DEFINE less == OpToRel(<, Nat)
<1>1. IsWellFoundedOn(less, Nat)
  BY NatLessThanWellFounded
<1>2. \A x, y \in Nat : x < y => <<x, y>> \in less
  BY DEF OpToRel
<1> HIDE DEF less
<1>3. \E x \in S : \A y \in S : <<y, x>> \notin less
  BY <1>1, WFMin
<1>4. PICK x \in S : \A y \in S : <<y, x>> \notin less
  BY <1>3
<1>5. ASSUME NEW y \in S PROVE x <= y
  <2>1. x \in Nat /\ y \in Nat /\ ~(y < x)
    BY <1>2, <1>4
  <2> QED BY <2>1
<1> QED BY <1>5

LEMMA GreatestOf ==
    ASSUME NEW n \in Nat, NEW S \in SUBSET (0..n), S # {}
    PROVE  \E x \in S : \A y \in S : y <= x
<1> DEFINE T == {n - x : x \in S}
<1>1. T \in SUBSET Nat /\ T # {}
  <2>1. \A x \in S : x \in Nat /\ n - x \in Nat
    OBVIOUS
  <2> QED BY <2>1
<1>2. PICK t \in T : \A u \in T : t <= u
  BY <1>1, LeastOf
<1>3. PICK x \in S : t = n - x
  OBVIOUS
<1>4. \A y \in S : n - y \in T
  OBVIOUS
<1> HIDE DEF T
<1> QED BY <1>2, <1>3, <1>4

(***************************************************************************)
(* Schedules: the next run of a schedule                                   *)
(***************************************************************************)

LEMMA Divided ==
    ASSUME NEW t \in Nat, NEW p \in Nat \ {0}
    PROVE  /\ t \div p \in Nat /\ t % p \in 0..(p - 1)
           /\ t = (t \div p) * p + (t % p)
<1>1. t \div p \in Int /\ t % p \in Int /\ t \div p >= 0
  OBVIOUS
<1>2. t % p >= 0 /\ t % p < p
  OBVIOUS
<1>3. t = (t \div p) * p + (t % p)
  OBVIOUS
<1> QED BY <1>1, <1>2, <1>3

LEMMA Times ==
    ASSUME NEW p \in Nat, NEW d \in Int, NEW e \in Int
    PROVE  /\ d * p \in Int
           /\ d <= e => d * p <= e * p
           /\ d < e => d * p + p <= e * p
<1>1. d * p \in Int
  OBVIOUS
<1>2. d <= e => d * p <= e * p
  OBVIOUS
<1>3. d < e => d * p + p <= e * p
  OBVIOUS
<1> QED BY <1>1, <1>2, <1>3

\* Quotient and remainder are the only ones.
LEMMA Remainder ==
    ASSUME NEW p \in Nat \ {0}, NEW q \in Nat, NEW r \in 0..(p - 1)
    PROVE  (q * p + r) % p = r
<1> DEFINE x == q * p + r
           a == x \div p
           b == x % p
<1>1. q * p \in Nat
  OBVIOUS
<1>2. x \in Nat
  BY <1>1
<1>3. a \in Nat /\ b \in 0..(p - 1) /\ x = a * p + b
  BY <1>2, Divided
<1>4. x = q * p + r
  OBVIOUS
<1> HIDE DEF a, b, x
<1>5. CASE a < q
  <2>1. a * p + p <= q * p /\ a * p \in Int
    BY <1>3, <1>5, Times
  <2> QED BY <2>1, <1>1, <1>3, <1>4
<1>6. CASE q < a
  <2>1. q * p + p <= a * p /\ a * p \in Int
    BY <1>3, <1>6, Times
  <2> QED BY <2>1, <1>1, <1>3, <1>4
<1>7. CASE q = a
  BY <1>1, <1>3, <1>4, <1>7 DEF b, x
<1> QED BY <1>3, <1>5, <1>6, <1>7

\* Each day of the week comes within a week.
LEMMA DayOfWeek ==
    ASSUME NEW W \in Nat \ {0}, NEW D \in Nat, NEW w \in 0..(W - 1)
    PROVE  \E d \in (D + 1)..(D + W) : d % W = w
<1> DEFINE q == D \div W
           r == D % W
<1>1. q \in Nat /\ r \in 0..(W - 1) /\ D = q * W + r
  BY Divided
<1> HIDE DEF q, r
<1>2. q * W \in Nat /\ (q + 1) * W = q * W + W
  BY <1>1
<1>3. CASE w > r
  <2>1. (q * W + w) % W = w
    BY <1>1, Remainder
  <2>2. q * W + w \in (D + 1)..(D + W)
    BY <1>1, <1>2, <1>3
  <2> QED BY <2>1, <2>2
<1>4. CASE ~(w > r)
  <2>1. ((q + 1) * W + w) % W = w
    BY <1>1, Remainder
  <2>2. (q + 1) * W + w \in (D + 1)..(D + W)
    BY <1>1, <1>2, <1>4
  <2> QED BY <2>1, <2>2
<1> QED BY <1>3, <1>4

\* A schedule of the form, of a dump or of the database.
FormOK(s) ==
    /\ s.weekdays \subseteq 0..(WeekLength - 1)
    /\ s.time \in 0..(PartsOfDay - 1)
    /\ s.enabled => s.weekdays # {}

\* Candidates follow the order of the days.
LEMMA Candidates ==
    ASSUME ScheduleAssumption, NEW s, FormOK(s), NEW t \in Nat, NEW d \in Int, NEW e \in Int
    PROVE  /\ Candidate(s, d) \in Int
           /\ d >= 0 => Candidate(s, d) \in Nat
           /\ d <= e => Candidate(s, d) <= Candidate(s, e)
           /\ d > DayOf(t) => Candidate(s, d) > t
           /\ Candidate(s, d) > t => d >= DayOf(t)
           /\ DayOf(t) \in Nat
<1>1. PartsOfDay \in Nat \ {0} /\ s.time \in 0..(PartsOfDay - 1)
  BY DEF ScheduleAssumption, FormOK
<1>2. PICK P \in Nat \ {0}, x \in Nat : P = PartsOfDay /\ x = s.time /\ x < P
  BY <1>1
<1>3. PICK D \in Nat, r \in Nat : D = DayOf(t) /\ t = D * P + r /\ r < P
  <2>1. t \div P \in Nat /\ t % P \in 0..(P - 1) /\ t = (t \div P) * P + (t % P)
    BY Divided
  <2>2. DayOf(t) = t \div P
    BY <1>2 DEF DayOf
  <2>3. t % P \in Nat /\ t % P < P
    BY <2>1
  <2> QED BY <2>1, <2>2, <2>3
<1>4. Candidate(s, d) = d * P + x /\ Candidate(s, e) = e * P + x
  BY <1>2 DEF Candidate
<1>5. /\ d * P \in Int /\ e * P \in Int /\ D * P \in Int
      /\ d <= e => d * P <= e * P
      /\ d < D => d * P + P <= D * P
      /\ D < d => D * P + P <= d * P
      /\ 0 <= d => 0 <= d * P
  <2>1. 0 * P = 0
    OBVIOUS
  <2> QED BY <2>1, <1>2, <1>3, Times
<1>6. Candidate(s, d) \in Int /\ (d >= 0 => Candidate(s, d) \in Nat) /\ (d <= e => Candidate(s, d) <= Candidate(s, e))
  BY <1>2, <1>4, <1>5
<1>7. d > DayOf(t) => Candidate(s, d) > t
  BY <1>2, <1>3, <1>4, <1>5
<1>8. Candidate(s, d) > t => d >= DayOf(t)
  BY <1>2, <1>3, <1>4, <1>5
<1> QED BY <1>3, <1>6, <1>7, <1>8

\* calculate_next_run finds the first slot after the moment, and finds one
\* whenever the schedule has a weekday.
LEMMA NextRunIsFirst ==
    ASSUME ScheduleAssumption, NEW s, FormOK(s), NEW after \in Nat
    PROVE  /\ NextRun(s, after) \in Nat \cup {Unset}
           /\ NextRun(s, after) # Unset => NextRun(s, after) > after
           /\ s.weekdays # {} => NextRun(s, after) # Unset
           /\ NextRun(s, after) # Unset => \A e \in Nat : OnDay(s, e) /\ Candidate(s, e) > after =>
                NextRun(s, after) <= Candidate(s, e)
<1> DEFINE D == DayOf(after)
           days == {d \in D..(D + WeekLength) : OnDay(s, d) /\ Candidate(s, d) > after}
           first == CHOOSE d \in days : \A e \in days : d <= e
<1>1. WeekLength \in Nat \ {0} /\ D \in Nat /\ s.weekdays \subseteq 0..(WeekLength - 1)
  <2>1. 0 \in Int
    OBVIOUS
  <2>2. D \in Nat
    BY <2>1, Candidates
  <2> QED BY <2>2 DEF ScheduleAssumption, FormOK
<1>2. NextRun(s, after) = IF days = {} THEN Unset ELSE Candidate(s, first)
  BY DEF NextRun
<1>3. \A d \in Int : /\ Candidate(s, d) \in Int /\ (d >= 0 => Candidate(s, d) \in Nat)
                     /\ d > D => Candidate(s, d) > after
                     /\ Candidate(s, d) > after => d >= D
                     /\ \A e \in Int : d <= e => Candidate(s, d) <= Candidate(s, e)
  BY Candidates
<1> HIDE DEF D
<1>4. ASSUME s.weekdays # {} PROVE days # {}
  <2>1. PICK w \in s.weekdays : TRUE
    BY <1>4
  <2>2. w \in 0..(WeekLength - 1)
    BY <1>1
  <2>3. PICK d \in (D + 1)..(D + WeekLength) : d % WeekLength = w
    BY <1>1, <2>2, DayOfWeek
  <2>4. d \in Int /\ d \in D..(D + WeekLength) /\ d > D
    BY <1>1
  <2>5. OnDay(s, d) /\ Candidate(s, d) > after
    BY <1>3, <2>3, <2>4 DEF OnDay
  <2> QED BY <2>4, <2>5
<1>5. days \subseteq Nat
  BY <1>1
<1>6. ASSUME days # {} PROVE first \in days /\ \A e \in days : first <= e
  <2>1. \E d \in days : \A e \in days : d <= e
    BY <1>5, <1>6, LeastOf
  <2> QED BY <2>1
<1>7. ASSUME days # {}, NEW e \in Nat, OnDay(s, e), Candidate(s, e) > after
      PROVE  Candidate(s, first) <= Candidate(s, e)
  <2>1. first \in days /\ first \in Nat /\ first <= D + WeekLength
    <3>1. first \in days
      BY <1>6, <1>7
    <3> HIDE DEF first
    <3>2. first \in D..(D + WeekLength)
      BY <3>1
    <3> QED BY <3>1, <3>2, <1>1
  <2>2. first <= e
    <3>1. CASE e \in D..(D + WeekLength)
      BY <3>1, <1>6, <1>7
    <3>2. CASE e \notin D..(D + WeekLength)
      <4>1. e >= D
        BY <1>3, <1>7
      <4> QED BY <3>2, <4>1, <2>1, <1>1
    <3> QED BY <3>1, <3>2
  <2> QED BY <2>1, <2>2, <1>3
<1>8. ASSUME days # {} PROVE Candidate(s, first) \in Nat /\ Candidate(s, first) > after
  <2>1. first \in days /\ first \in Nat
    BY <1>5, <1>6, <1>8
  <2> HIDE DEF first
  <2> QED BY <2>1, <1>3
<1> HIDE DEF days, first
<1>9. Unset \notin Nat
  BY DEF Unset
<1> QED BY <1>2, <1>4, <1>7, <1>8, <1>9

ScheduleRecord ==
    [enabled : BOOLEAN, weekdays : SUBSET (0..(WeekLength - 1)), time : 0..(PartsOfDay - 1),
     next : Nat \cup {Unset}, since : Nat, covered : Nat]

\* The next run of a schedule is the first slot it has not covered.
ScheduleOK(s) ==
    /\ s \in ScheduleRecord
    /\ s.enabled => s.weekdays # {}
    /\ s.next = NextRun(s, s.covered)

\* The runs of a schedule: in order, over, and before the next one.
RunsOK(k) ==
    /\ runsOf[k] \in Seq(Nat)
    /\ \A i \in DOMAIN runsOf[k] :
         /\ runsOf[k][i] <= moment
         /\ schedules[k].next # Unset => runsOf[k][i] < schedules[k].next
    /\ \A i, j \in DOMAIN runsOf[k] : i < j => runsOf[k][i] < runsOf[k][j]

SchedulesInv ==
    /\ moment \in Nat
    /\ scheduleTick \in [pc : {"idle", "maintenance"}, now : Nat] /\ scheduleTick.now <= moment
    /\ schedules \in [ScheduleTypes -> ScheduleRecord] /\ scheduleDump \in [ScheduleTypes -> ScheduleRecord]
    /\ runsOf \in [ScheduleTypes -> Seq(Nat)]
    /\ \A k \in ScheduleTypes : ScheduleOK(schedules[k]) /\ ScheduleOK(scheduleDump[k]) /\ RunsOK(k)
    /\ scheduleForm.pc = "computed" =>
         /\ scheduleForm.next \in [ScheduleTypes -> ScheduleRecord]
         /\ \A k \in ScheduleTypes : ScheduleOK(scheduleForm.next[k])

LEMMA SameNextRun ==
    ASSUME NEW s, NEW u, NEW after, s.weekdays = u.weekdays, s.time = u.time
    PROVE  NextRun(s, after) = NextRun(u, after)
<1>1. \A d : (OnDay(s, d) <=> OnDay(u, d)) /\ Candidate(s, d) = Candidate(u, d)
  BY DEF OnDay, Candidate
<1> DEFINE daysOf(x) == {d \in DayOf(after)..(DayOf(after) + WeekLength) : OnDay(x, d) /\ Candidate(x, d) > after}
<1>2. daysOf(s) = daysOf(u)
  BY <1>1
<1> QED BY <1>1, <1>2 DEF NextRun

LEMMA RecordIsForm ==
    ASSUME NEW s, s \in ScheduleRecord, s.enabled => s.weekdays # {}
    PROVE  FormOK(s)
BY DEF ScheduleRecord, FormOK

\* What the form and the scheduler compute are schedules with their next run.
LEMMA ScheduledOK ==
    ASSUME ScheduleAssumption, NEW form, NEW after \in Nat, form.enabled \in BOOLEAN,
           form.weekdays \in SUBSET (0..(WeekLength - 1)), form.time \in 0..(PartsOfDay - 1),
           form.enabled => form.weekdays # {}
    PROVE  ScheduleOK(Scheduled(form, after))
<1> DEFINE s == Scheduled(form, after)
<1>1. /\ s.enabled = form.enabled /\ s.weekdays = form.weekdays /\ s.time = form.time
      /\ s.covered = after /\ s.next = NextRun(form, after)
  BY DEF Scheduled
<1>2. NextRun(form, after) \in Nat \cup {Unset}
  BY NextRunIsFirst DEF FormOK
<1>3. s \in ScheduleRecord
  BY <1>2 DEF Scheduled, ScheduleRecord
<1>4. NextRun(s, after) = NextRun(form, after)
  BY <1>1, SameNextRun
<1> HIDE DEF s
<1>5. ScheduleOK(s)
  BY <1>1, <1>3, <1>4 DEF ScheduleOK
<1> QED BY <1>5 DEF s

LEMMA ClaimedOK ==
    ASSUME ScheduleAssumption, NEW s, ScheduleOK(s), NEW at \in Nat
    PROVE  LET u == [s EXCEPT !.next = NextRun(s, at), !.covered = at] IN
           ScheduleOK(u) /\ u.next = NextRun(s, at) /\ u.enabled = s.enabled
<1> DEFINE u == [s EXCEPT !.next = NextRun(s, at), !.covered = at]
<1>1. s \in ScheduleRecord /\ FormOK(s)
  BY RecordIsForm DEF ScheduleOK
<1>2. NextRun(s, at) \in Nat \cup {Unset}
  BY <1>1, NextRunIsFirst
<1>3. /\ u \in ScheduleRecord /\ u.next = NextRun(s, at) /\ u.covered = at
      /\ u.enabled = s.enabled /\ u.weekdays = s.weekdays /\ u.time = s.time
  BY <1>1, <1>2 DEF ScheduleRecord
<1> HIDE DEF u
<1>4. NextRun(u, at) = NextRun(s, at)
  BY <1>3, SameNextRun
<1>5. ScheduleOK(u)
  BY <1>3, <1>4 DEF ScheduleOK
<1> QED BY <1>3, <1>5 DEF u

LEMMA SchedulesStart ==
    ASSUME ScheduleAssumption, SchedulesInit
    PROVE  SchedulesInv
<1> DEFINE form(k) == [enabled |-> TRUE, time |-> 0,
                       weekdays |-> IF k = "full" THEN {WeekLength - 1} ELSE 0..(WeekLength - 2)]
<1>1. WeekLength \in Nat \ {0, 1} /\ PartsOfDay \in Nat \ {0} /\ 0 \in Nat
  BY DEF ScheduleAssumption
<1>2. ASSUME NEW k \in ScheduleTypes PROVE ScheduleOK(Scheduled(form(k), 0))
  <2>1. 0 \in 0..(WeekLength - 2) /\ 0 \in 0..(PartsOfDay - 1)
    BY <1>1
  <2>2. form(k).weekdays \in SUBSET (0..(WeekLength - 1)) /\ form(k).weekdays # {}
    <3>1. {WeekLength - 1} \subseteq 0..(WeekLength - 1) /\ 0..(WeekLength - 2) \subseteq 0..(WeekLength - 1)
      BY <1>1
    <3>2. form(k).weekdays = IF k = "full" THEN {WeekLength - 1} ELSE 0..(WeekLength - 2)
      OBVIOUS
    <3> HIDE DEF form
    <3> QED BY <2>1, <3>1, <3>2
  <2>3. form(k).enabled \in BOOLEAN /\ form(k).time \in 0..(PartsOfDay - 1)
    BY <2>1
  <2> HIDE DEF form
  <2> QED BY <1>1, <2>2, <2>3, ScheduledOK
<1>3. schedules = [k \in ScheduleTypes |-> Scheduled(form(k), 0)]
  BY DEF SchedulesInit
<1> HIDE DEF form
<1>4. \A k \in ScheduleTypes : ScheduleOK(schedules[k]) /\ schedules[k] \in ScheduleRecord
  BY <1>2, <1>3 DEF ScheduleOK
<1>5. schedules \in [ScheduleTypes -> ScheduleRecord] /\ scheduleDump = schedules
  BY <1>3, <1>4 DEF SchedulesInit
<1>6. \A k \in ScheduleTypes : RunsOK(k)
  <2>1. <<>> \in Seq(Nat) /\ DOMAIN <<>> = {}
    BY EmptySeq, LenProperties
  <2> QED BY <2>1 DEF SchedulesInit, RunsOK
<1>7. runsOf \in [ScheduleTypes -> Seq(Nat)] /\ moment \in Nat /\ scheduleForm.pc # "computed"
      /\ scheduleTick \in [pc : {"idle", "maintenance"}, now : Nat] /\ scheduleTick.now <= moment
  <2>1. <<>> \in Seq(Nat)
    BY EmptySeq
  <2>2. moment = 0 /\ scheduleTick = [pc |-> "idle", now |-> 0] /\ scheduleForm.pc = "none"
    BY DEF SchedulesInit, NoSave
  <2>3. runsOf \in [ScheduleTypes -> Seq(Nat)]
    BY <2>1 DEF SchedulesInit
  <2>4. scheduleTick \in [pc : {"idle", "maintenance"}, now : Nat] /\ scheduleTick.now <= moment
    BY <2>2
  <2> QED BY <2>2, <2>3, <2>4
<1> QED BY <1>4, <1>5, <1>6, <1>7 DEF SchedulesInv

\* The claim of a due schedule.
LEMMA ClaimKeeps ==
    ASSUME ScheduleAssumption, SchedulesInv, TickClaims
    PROVE  SchedulesInv'
<1> DEFINE at == scheduleTick.now
<1>1. at \in Nat /\ at <= moment /\ moment \in Nat /\ moment' = moment
      /\ scheduleTick' = [scheduleTick EXCEPT !.pc = "idle"]
      /\ UNCHANGED <<scheduleForm, scheduleDump>>
  BY DEF SchedulesInv, TickClaims
<1>2. scheduleTick' \in [pc : {"idle", "maintenance"}, now : Nat] /\ scheduleTick'.now <= moment'
  BY <1>1 DEF SchedulesInv
<1>3. CASE UNCHANGED <<schedules, activeRun, runsOf>>
  <2>1. \A k \in ScheduleTypes : RunsOK(k)'
    BY <1>1, <1>3 DEF SchedulesInv, RunsOK
  <2> QED BY <1>1, <1>2, <1>3, <2>1 DEF SchedulesInv
<1>4. ASSUME NEW k \in ScheduleTypes, Due(schedules[k], at),
             runsOf' = [runsOf EXCEPT ![k] = Append(@, SlotOf(schedules[k], at))],
             schedules' = [schedules EXCEPT ![k].next = NextRun(schedules[k], at), ![k].covered = at]
      PROVE  SchedulesInv'
  <2> DEFINE s == schedules[k]
             u == [s EXCEPT !.next = NextRun(s, at), !.covered = at]
             runs == runsOf[k]
  <2>1. ScheduleOK(s) /\ s \in ScheduleRecord /\ s.enabled /\ FormOK(s)
    BY <1>4, RecordIsForm DEF SchedulesInv, ScheduleOK, Due
  <2>2. ScheduleOK(u) /\ u.next = NextRun(s, at) /\ u \in ScheduleRecord
    <3>1. ScheduleOK(u) /\ u.next = NextRun(s, at)
      BY <2>1, <1>1, ClaimedOK
    <3> HIDE DEF u
    <3> QED BY <3>1 DEF ScheduleOK
  <2>3. schedules' = [schedules EXCEPT ![k] = u]
    BY <1>4, Zenon
  <2>4. s.next # Unset /\ s.next \in Nat
    <3>1. s.covered \in Nat /\ s.weekdays # {} /\ s.next = NextRun(s, s.covered)
      BY <2>1 DEF ScheduleRecord, ScheduleOK
    <3> QED BY <2>1, <3>1, NextRunIsFirst
  <2>5. s.next <= at /\ SlotOf(s, at) = s.next
    BY <1>4, <2>4 DEF Due, SlotOf
  <2>6. u.next > at \/ u.next = Unset
    BY <2>1, <2>2, <1>1, NextRunIsFirst
  <2> HIDE DEF u
  <2>7. /\ schedules' \in [ScheduleTypes -> ScheduleRecord] /\ schedules'[k] = u
        /\ \A l \in ScheduleTypes : l # k => schedules'[l] = schedules[l]
    BY <2>2, <2>3 DEF SchedulesInv
  <2>8. runs \in Seq(Nat) /\ RunsOK(k)
    BY DEF SchedulesInv, RunsOK
  <2> DEFINE more == Append(runs, s.next)
  <2>9. PICK n \in Nat : n = Len(runs) /\ DOMAIN runs = 1..n
    BY <2>8, LenProperties
  <2>10. /\ more \in Seq(Nat) /\ Len(more) = n + 1
         /\ \A i \in 1..n : more[i] = runs[i]
         /\ more[n + 1] = s.next
    BY <2>4, <2>8, <2>9, AppendProperties
  <2>11. DOMAIN more = 1..(n + 1)
    BY <2>10, LenProperties
  <2> HIDE DEF more
  <2>12. /\ runsOf' \in [ScheduleTypes -> Seq(Nat)] /\ runsOf'[k] = more
         /\ \A l \in ScheduleTypes : l # k => runsOf'[l] = runsOf[l]
    <3>1. runsOf' = [runsOf EXCEPT ![k] = more] /\ runsOf \in [ScheduleTypes -> Seq(Nat)]
      BY <1>4, <2>5 DEF more, SchedulesInv
    <3> QED BY <3>1, <2>10
  <2>13. \A i \in 1..n : runs[i] \in Nat /\ runs[i] < s.next
    <3>1. \A i \in 1..n : runs[i] \in Nat
      BY <2>8, <2>9, ElementOfSeq
    <3> QED BY <3>1, <2>4, <2>8, <2>9 DEF RunsOK
  <2>14. \A i \in 1..(n + 1) : i \in 1..n \/ i = n + 1
    BY <2>9
  <2>15. ASSUME NEW l \in ScheduleTypes PROVE ScheduleOK(schedules[l])' /\ RunsOK(l)'
    <3>1. CASE l = k
      <4>1. ScheduleOK(schedules[k])'
        BY <2>2, <2>7 DEF ScheduleOK
      <4>2. \A i \in 1..(n + 1) : more[i] <= moment' /\ (u.next # Unset => more[i] < u.next)
        <5>1. \A i \in 1..(n + 1) : more[i] \in Nat /\ more[i] <= s.next
          BY <2>4, <2>10, <2>13, <2>14
        <5>2. u.next \in Nat \cup {Unset} /\ s.next \in Nat /\ at \in Nat
          BY <2>2, <2>4, <1>1 DEF ScheduleRecord
        <5> HIDE DEF s, at
        <5> QED BY <5>1, <5>2, <2>5, <2>6, <1>1 DEF Unset
      <4>3. ASSUME NEW i \in 1..(n + 1), NEW j \in 1..(n + 1), i < j PROVE more[i] < more[j]
        <5>1. i \in 1..n
          BY <4>3, <2>9
        <5> QED BY <5>1, <4>3, <2>8, <2>9, <2>10, <2>13, <2>14 DEF RunsOK
      <4> QED BY <3>1, <4>1, <4>2, <4>3, <2>7, <2>10, <2>11, <2>12 DEF RunsOK
    <3>2. CASE l # k
      <4>1. schedules'[l] = schedules[l] /\ runsOf'[l] = runsOf[l] /\ ScheduleOK(schedules[l]) /\ RunsOK(l)
        BY <3>2, <2>7, <2>12 DEF SchedulesInv
      <4> QED BY <4>1, <1>1 DEF ScheduleOK, RunsOK
    <3> QED BY <3>1, <3>2
  <2> QED BY <1>1, <1>2, <2>7, <2>12, <2>15 DEF SchedulesInv
<1> QED BY <1>3, <1>4 DEF TickClaims

\* The form is saved: what it has computed replaces the schedules.
LEMMA SaveKeeps ==
    ASSUME ScheduleAssumption, SchedulesInv, SaveBegins \/ SaveCommits
    PROVE  SchedulesInv'
<1>1. CASE SaveBegins
  <2>1. PICK forms \in [ScheduleTypes -> ScheduleForms] :
          scheduleForm' = [pc |-> "computed", next |-> [k \in ScheduleTypes |-> Scheduled(forms[k], moment)]]
    BY <1>1 DEF SaveBegins
  <2>2. moment \in Nat /\ UNCHANGED <<moment, schedules, scheduleTick, scheduleDump, runsOf>>
    BY <1>1 DEF SaveBegins, SchedulesInv
  <2>3. ASSUME NEW k \in ScheduleTypes PROVE ScheduleOK(Scheduled(forms[k], moment))
    <3>1. forms[k] \in ScheduleForms
      BY <2>1
    <3>2. /\ forms[k].enabled \in BOOLEAN /\ forms[k].weekdays \in SUBSET (0..(WeekLength - 1))
          /\ forms[k].time \in 0..(PartsOfDay - 1) /\ (forms[k].enabled => forms[k].weekdays # {})
      BY <3>1 DEF ScheduleAssumption
    <3> QED BY <3>2, <2>2, ScheduledOK
  <2>4. \A k \in ScheduleTypes : ScheduleOK(scheduleForm'.next[k])
    BY <2>1, <2>3
  <2>5. scheduleForm'.next \in [ScheduleTypes -> ScheduleRecord]
    BY <2>1, <2>3 DEF ScheduleOK
  <2>6. \A k \in ScheduleTypes : RunsOK(k)'
    BY <2>2 DEF SchedulesInv, RunsOK
  <2>7. \A k \in ScheduleTypes : ScheduleOK(scheduleForm.next[k])'
    BY <2>4 DEF ScheduleOK
  <2> QED BY <2>2, <2>5, <2>6, <2>7 DEF SchedulesInv
<1>2. CASE SaveCommits
  <2> DEFINE saved == scheduleForm.next
  <2>1. /\ saved \in [ScheduleTypes -> ScheduleRecord] /\ \A k \in ScheduleTypes : ScheduleOK(saved[k])
        /\ schedules' = saved /\ scheduleForm'.pc = "none" /\ UNCHANGED <<moment, scheduleTick, scheduleDump>>
        /\ runsOf' = [k \in ScheduleTypes |-> IF saved[k].next \in 0..moment THEN <<>> ELSE runsOf[k]]
    BY <1>2 DEF SaveCommits, SchedulesInv, NoSave
  <2> HIDE DEF saved
  <2>2. <<>> \in Seq(Nat) /\ DOMAIN <<>> = {}
    BY EmptySeq, LenProperties
  <2>3. runsOf' \in [ScheduleTypes -> Seq(Nat)]
    BY <2>1, <2>2 DEF SchedulesInv
  <2>4. ASSUME NEW k \in ScheduleTypes PROVE RunsOK(k)'
    <3>1. CASE saved[k].next \in 0..moment
      BY <3>1, <2>1, <2>2 DEF RunsOK
    <3>2. CASE saved[k].next \notin 0..moment
      <4>1. runsOf'[k] = runsOf[k] /\ RunsOK(k) /\ moment' = moment /\ moment \in Nat /\ schedules'[k] = saved[k]
        BY <3>2, <2>1 DEF SchedulesInv
      <4>2. saved[k].next \in Nat \cup {Unset}
        BY <2>1 DEF ScheduleRecord
      <4>3. \A i \in DOMAIN runsOf[k] : runsOf[k][i] \in Nat
        BY <4>1, LenProperties, ElementOfSeq DEF RunsOK
      <4>4. saved[k].next # Unset => saved[k].next > moment
        BY <3>2, <4>1, <4>2
      <4>5. \A i \in DOMAIN runsOf[k] : saved[k].next # Unset => runsOf[k][i] < saved[k].next
        BY <4>1, <4>2, <4>3, <4>4 DEF RunsOK
      <4> QED BY <4>1, <4>5 DEF RunsOK
    <3> QED BY <3>1, <3>2
  <2>5. \A k \in ScheduleTypes : ScheduleOK(schedules[k])'
    BY <2>1 DEF ScheduleOK
  <2> QED BY <2>1, <2>3, <2>4, <2>5 DEF SchedulesInv
<1> QED BY <1>1, <1>2

LEMMA SchedulesKeep ==
    ASSUME ScheduleAssumption, SchedulesInv, [SchedulesNext]_scheduleVars
    PROVE  SchedulesInv'
<1>1. CASE ClockTicks
  <2>1. moment \in Nat /\ moment' = moment + 1
        /\ UNCHANGED <<schedules, scheduleTick, scheduleForm, scheduleDump, runsOf>>
    BY <1>1 DEF ClockTicks, SchedulesInv
  <2>2. scheduleTick.now \in Nat /\ scheduleTick.now <= moment
    BY DEF SchedulesInv
  <2>3. ASSUME NEW k \in ScheduleTypes PROVE RunsOK(k)'
    <3>1. RunsOK(k)
      BY DEF SchedulesInv
    <3>2. \A i \in DOMAIN runsOf[k] : runsOf[k][i] \in Nat
      BY <3>1, LenProperties, ElementOfSeq DEF RunsOK
    <3> QED BY <2>1, <3>1, <3>2 DEF RunsOK
  <2> QED BY <2>1, <2>2, <2>3 DEF SchedulesInv
<1>2. CASE TickBegins
  <2>1. scheduleTick' = [pc |-> "maintenance", now |-> moment] /\ moment \in Nat
        /\ UNCHANGED <<moment, schedules, scheduleForm, scheduleDump, runsOf>>
    BY <1>2 DEF TickBegins, SchedulesInv
  <2>2. \A k \in ScheduleTypes : RunsOK(k)'
    BY <2>1 DEF SchedulesInv, RunsOK
  <2> QED BY <2>1, <2>2 DEF SchedulesInv
<1>3. CASE DumpSchedules
  <2>1. scheduleDump' = schedules /\ UNCHANGED <<moment, schedules, scheduleTick, scheduleForm, runsOf>>
    BY <1>3 DEF DumpSchedules
  <2>2. \A k \in ScheduleTypes : RunsOK(k)'
    BY <2>1 DEF SchedulesInv, RunsOK
  <2> QED BY <2>1, <2>2 DEF SchedulesInv
<1>4. CASE ReloadSchedules
  <2>1. schedules' = scheduleDump /\ runsOf' = [k \in ScheduleTypes |-> <<>>]
        /\ UNCHANGED <<moment, scheduleTick, scheduleForm, scheduleDump>>
    BY <1>4 DEF ReloadSchedules
  <2>2. <<>> \in Seq(Nat) /\ DOMAIN <<>> = {}
    BY EmptySeq, LenProperties
  <2>3. \A k \in ScheduleTypes : RunsOK(k)'
    BY <2>1, <2>2 DEF RunsOK
  <2> QED BY <2>1, <2>2, <2>3 DEF SchedulesInv
<1>5. CASE UNCHANGED <<moment, schedules, scheduleTick, scheduleForm, scheduleDump, runsOf>>
  <2>1. \A k \in ScheduleTypes : RunsOK(k)'
    BY <1>5 DEF SchedulesInv, RunsOK
  <2> QED BY <1>5, <2>1 DEF SchedulesInv
<1> QED BY <1>1, <1>2, <1>3, <1>4, <1>5, ClaimKeeps, SaveKeeps
     DEF SchedulesNext, OperationEnds, UserStartsOperation, scheduleVars

\* A slot that nothing has covered is due, and runs are in the order of slots.
THEOREM SlotsRunOnce == SchedulesSpec => []ScheduledOnce
<1>1. SchedulesInit => SchedulesInv
  BY ScheduleAssumption, SchedulesStart
<1>2. SchedulesInv /\ [SchedulesNext]_scheduleVars => SchedulesInv'
  BY ScheduleAssumption, SchedulesKeep
<1>3. SchedulesInv => NoSlotLost
  <2> SUFFICES ASSUME SchedulesInv, NEW k \in ScheduleTypes, schedules[k].enabled, NEW t \in Missed(k)
               PROVE  schedules[k].next # Unset /\ schedules[k].next <= t
    BY DEF NoSlotLost
  <2> DEFINE s == schedules[k]
  <2>1. PICK d \in 0..DayOf(moment) : OnDay(s, d) /\ t = Candidate(s, d)
    BY DEF Missed
  <2>2. t > s.covered
    BY DEF Missed
  <2>3. /\ s \in ScheduleRecord /\ s.covered \in Nat /\ s.weekdays # {} /\ FormOK(s)
        /\ s.next = NextRun(s, s.covered)
    BY RecordIsForm DEF SchedulesInv, ScheduleOK, ScheduleRecord
  <2>4. d \in Nat
    BY <2>1
  <2> HIDE DEF s
  <2>5. NextRun(s, s.covered) # Unset /\ NextRun(s, s.covered) <= Candidate(s, d)
    BY <2>1, <2>2, <2>3, <2>4, ScheduleAssumption, NextRunIsFirst
  <2> QED BY <2>1, <2>3, <2>5 DEF s
<1>4. SchedulesInv => NoSlotTwice
  BY DEF SchedulesInv, RunsOK, NoSlotTwice
<1>5. SchedulesInv => ScheduledOnce
  BY <1>3, <1>4 DEF ScheduledOnce
<1> QED BY <1>1, <1>2, <1>5, PTL DEF SchedulesSpec

\* Time stays below its bound, and one run at most is active.
THEOREM SchedulesTyped == SchedulesSpec => []SchedulesTypeOK
<1> DEFINE Inv == /\ SchedulesInv
                  /\ moment \in 0..MaxMoment /\ activeRun \in ScheduleTypes \cup {"none", "other"}
<1>1. SchedulesInit => Inv
  BY ScheduleAssumption, SchedulesStart DEF SchedulesInit, ScheduleAssumption
<1>2. Inv /\ [SchedulesNext]_scheduleVars => Inv'
  <2> SUFFICES ASSUME Inv, [SchedulesNext]_scheduleVars
               PROVE  moment' \in 0..MaxMoment /\ activeRun' \in ScheduleTypes \cup {"none", "other"}
    BY ScheduleAssumption, SchedulesKeep
  <2>1. MaxMoment \in Nat
    BY ScheduleAssumption DEF ScheduleAssumption
  <2>2. ClockTicks \/ moment' = moment
    <3>1. TickClaims => moment' = moment
      BY DEF TickClaims
    <3>2. SaveBegins \/ SaveCommits \/ ReloadSchedules => moment' = moment
      BY DEF SaveBegins, SaveCommits, ReloadSchedules
    <3> QED BY <3>1, <3>2
            DEF SchedulesNext, scheduleVars, TickBegins, OperationEnds, UserStartsOperation, DumpSchedules
  <2>3. activeRun' \in ScheduleTypes \cup {"none", "other"}
    BY DEF SchedulesNext, scheduleVars, ClockTicks, TickBegins, TickClaims, OperationEnds, UserStartsOperation,
           DumpSchedules, ReloadSchedules, SaveBegins, SaveCommits
  <2> QED BY <2>1, <2>2, <2>3 DEF ClockTicks
<1>3. Inv => SchedulesTypeOK
  BY DEF SchedulesInv, ScheduleOK, ScheduleRecord, SchedulesTypeOK
<1> HIDE DEF Inv
<1> QED BY <1>1, <1>2, <1>3, PTL DEF SchedulesSpec

(***************************************************************************)
(* HostScripts: the nightly copies and the restore of them                 *)
(***************************************************************************)

PairOf(day) == \A kind \in {"db", "uploads"} : [kind |-> kind, day |-> day, whole |-> TRUE] \in hostFiles

BackupRuns == [pc : {"idle", "dump", "tar", "prune db", "prune uploads"}, day : 0..MaxDay]
RestoreRuns == [pc : {"idle", "load", "check", "extract", "aside", "in", "clean"},
                pid : Pids \cup {0}, archive : Archives]

\* A run of backup.sh belongs to the present day, and what it prunes is older
\* than the pair it has made.
BackupRunOK ==
    /\ backupSh \in BackupRuns
    /\ backupSh.pc # "idle" => backupSh.day = today
    /\ backupSh.pc \in {"tar"} => BackupFile("db", TRUE) \in hostFiles
    /\ backupSh.pc \in {"prune db", "prune uploads"} => PairOf(today)

\* Between the two renames of restore.sh the uploads are aside; before them its
\* own place is free, after them the new uploads are there.
RestoreRunOK ==
    /\ restoreSh \in RestoreRuns
    /\ restoreSh.pc # "idle" => restoreSh.pid \in Pids
    /\ restoreSh.pc = "aside" => asides[restoreSh.pid] = "none"
    /\ restoreSh.pc = "in" => uploadsDir = "none"
    /\ restoreSh.pc = "clean" => uploadsDir # "none"

HostInv ==
    /\ today \in 0..MaxDay /\ asides = [p \in Pids |-> asides[p]]
    /\ BackupRunOK /\ RestoreRunOK /\ HostDataRemains

restoreVars == <<restoreSh, hostDb, uploadsDir, asides, reused>>

LEMMA IdleRuns ==
    /\ NoBackupSh.pc = "idle" /\ NoBackupSh \in BackupRuns
    /\ NoRestoreSh.pc = "idle" /\ NoRestoreSh \in RestoreRuns
BY HostAssumption DEF NoBackupSh, BackupRuns, NoRestoreSh, RestoreRuns, Archives

\* Steps of backup.sh and of the clock.
LEMMA BackupSteps ==
    ASSUME HostInv,
           \/ DayPasses \/ BackupShStarts \/ Dumped \/ Tarred \/ BackupShEnds
           \/ \E kind \in {"db", "uploads"} : Prune(kind)
    PROVE  HostInv'
<1> USE DEF HostInv
<1>1. UNCHANGED restoreVars
  BY DEF restoreVars, DayPasses, BackupShStarts, Dumped, Tarred, BackupShEnds, Prune
<1>2. RestoreRunOK' /\ HostUploadsRemain' /\ asides' = [p \in Pids |-> asides'[p]]
  BY <1>1 DEF restoreVars, RestoreRunOK, HostUploadsRemain, HostDataRemains
<1> SUFFICES today' \in 0..MaxDay /\ BackupRunOK' /\ HostBackupRemains'
  BY <1>2 DEF HostDataRemains
<1> USE DEF HostDataRemains
<1>3. CASE DayPasses
  <2>1. today' \in 0..MaxDay
    BY <1>3, HostAssumption DEF DayPasses
  <2> QED BY <1>3, <2>1 DEF DayPasses, BackupRunOK, HostBackupRemains, WholePair
<1>4. CASE BackupShStarts
  BY <1>4 DEF BackupShStarts, BackupRunOK, BackupRuns, HostBackupRemains, WholePair
<1>5. CASE Dumped
  <2>1. \A file \in hostFiles : file.whole = TRUE => file \in hostFiles'
    BY <1>5 DEF Dumped, BackupFile
  <2>2. HostBackupRemains'
    BY <1>5, <2>1 DEF Dumped, HostBackupRemains, WholePair
  <2>3. /\ today' = today /\ backupSh.day = today /\ backupSh' = [backupSh EXCEPT !.pc = "tar"]
    BY <1>5 DEF Dumped, BackupRunOK
  <2>4. /\ backupSh'.pc = "tar" /\ backupSh'.day = today
        /\ backupSh' \in BackupRuns
    BY <2>3 DEF BackupRunOK, BackupRuns
  <2>5. [kind |-> "db", day |-> today, whole |-> TRUE] \in hostFiles'
    BY <1>5, <2>3 DEF Dumped, BackupFile
  <2> QED BY <2>2, <2>3, <2>4, <2>5 DEF BackupRunOK, BackupFile
<1>6. CASE Tarred
  <2>0. hostFiles' = (hostFiles \ {BackupFile("uploads", FALSE)}) \cup {BackupFile("uploads", TRUE)}
    BY <1>6 DEF Tarred
  <2>1. \A file \in hostFiles : file.whole = TRUE => file \in hostFiles'
    BY <2>0 DEF BackupFile
  <2>2. /\ today' = today /\ backupSh.pc = "tar" /\ backupSh.day = today
        /\ backupSh' = [backupSh EXCEPT !.pc = "prune db"]
    BY <1>6 DEF Tarred, BackupRunOK
  <2>3. /\ backupSh'.pc = "prune db" /\ backupSh'.day = today
        /\ backupSh' \in BackupRuns
    BY <2>2 DEF BackupRunOK, BackupRuns
  <2>4. [kind |-> "db", day |-> today, whole |-> TRUE] \in hostFiles'
    BY <2>1, <2>2 DEF BackupRunOK, BackupFile
  <2>5. [kind |-> "uploads", day |-> today, whole |-> TRUE] \in hostFiles'
    BY <2>0, <2>2 DEF BackupFile
  <2>6. PairOf(today)'
    BY <2>2, <2>4, <2>5 DEF PairOf
  <2>7. HostBackupRemains'
    BY <2>2, <2>6 DEF HostBackupRemains, WholePair, PairOf
  <2> QED BY <2>2, <2>3, <2>6, <2>7 DEF BackupRunOK
<1>7. CASE BackupShEnds
  BY <1>7, IdleRuns DEF BackupShEnds, BackupRunOK, HostBackupRemains, WholePair
<1>8. ASSUME NEW kind \in {"db", "uploads"}, Prune(kind)
      PROVE  BackupRunOK' /\ HostBackupRemains' /\ today' = today
  <2>1. /\ backupSh.pc \in {"prune db", "prune uploads"} /\ today' = today
        /\ hostFiles' = {file \in hostFiles : file.kind = kind => today - file.day <= KeepDays}
        /\ backupSh' = [backupSh EXCEPT !.pc = "prune uploads"] \/ backupSh' = NoBackupSh
    BY <1>8 DEF Prune
  <2>2. backupSh.day = today /\ PairOf(today)
    BY <2>1 DEF BackupRunOK
  <2>3. today - today <= KeepDays
    BY HostAssumption
  <2>4. PairOf(today)'
    BY <2>1, <2>2, <2>3 DEF PairOf
  <2>5. HostBackupRemains'
    BY <2>1, <2>4 DEF HostBackupRemains, WholePair, PairOf
  <2>6. /\ backupSh' \in BackupRuns
        /\ backupSh'.pc # "idle" => backupSh'.pc = "prune uploads" /\ backupSh'.day = today
    BY <2>1, <2>2, IdleRuns DEF BackupRunOK, BackupRuns
  <2> QED BY <2>1, <2>4, <2>5, <2>6 DEF BackupRunOK
<1> QED BY <1>3, <1>4, <1>5, <1>6, <1>7, <1>8

\* Steps of restore.sh.
LEMMA RestoreSteps ==
    ASSUME HostInv,
           \/ \E pid \in Pids, archive \in Archives, db \in BOOLEAN : RestoreShStarts(pid, archive, db)
           \/ DbLoaded \/ ArchiveChecked \/ Extract \/ MoveAside \/ MoveIn \/ RemoveAside \/ RestoreShEnds
           \/ \E back \in BOOLEAN : MoveInFails(back)
    PROVE  HostInv'
<1> USE DEF HostInv, HostDataRemains
<1>1. UNCHANGED <<today, hostFiles, backupSh, everPair>>
  BY DEF RestoreShStarts, DbLoaded, ArchiveChecked, Extract, MoveAside, MoveIn, RemoveAside,
         RestoreShEnds, MoveInFails
<1>2. today' \in 0..MaxDay /\ BackupRunOK' /\ HostBackupRemains'
  BY <1>1 DEF BackupRunOK, BackupFile, PairOf, HostBackupRemains, WholePair
<1> SUFFICES asides' = [p \in Pids |-> asides'[p]] /\ RestoreRunOK' /\ HostUploadsRemain'
  BY <1>2
<1>3. CASE \E pid \in Pids, archive \in Archives, db \in BOOLEAN : RestoreShStarts(pid, archive, db)
  <2>1. PICK pid \in Pids, archive \in Archives, db \in BOOLEAN : RestoreShStarts(pid, archive, db)
    BY <1>3
  <2>2. restoreSh' \in RestoreRuns /\ restoreSh'.pid \in Pids /\ restoreSh'.pc \in {"load", "check"}
    BY <2>1 DEF RestoreShStarts, RestoreRuns
  <2>3. UNCHANGED <<uploadsDir, asides, reused>>
    BY <2>1 DEF RestoreShStarts
  <2> QED BY <2>2, <2>3 DEF RestoreRunOK, HostUploadsRemain
<1>4. CASE DbLoaded \/ ArchiveChecked \/ RestoreShEnds
  <2>1. /\ UNCHANGED <<uploadsDir, asides, reused>>
        /\ \/ restoreSh' = NoRestoreSh
           \/ restoreSh' = [restoreSh EXCEPT !.pc = "check"] \/ restoreSh' = [restoreSh EXCEPT !.pc = "extract"]
        /\ restoreSh.pc # "idle"
    BY <1>4 DEF DbLoaded, ArchiveChecked, RestoreShEnds
  <2> QED BY <2>1, IdleRuns DEF RestoreRunOK, RestoreRuns, HostUploadsRemain
<1>5. CASE Extract
  BY <1>5 DEF Extract, RestoreRunOK, RestoreRuns, HostUploadsRemain
<1>6. CASE MoveAside
  BY <1>6 DEF MoveAside, RestoreRunOK, RestoreRuns, HostUploadsRemain
<1>7. CASE MoveIn
  BY <1>7 DEF MoveIn, RestoreRunOK, RestoreRuns, HostUploadsRemain
<1>8. CASE \E back \in BOOLEAN : MoveInFails(back)
  <2>1. PICK back \in BOOLEAN : MoveInFails(back)
    BY <1>8
  <2>2. /\ restoreSh' = NoRestoreSh /\ UNCHANGED reused /\ restoreSh.pid \in Pids
        /\ uploadsDir' = IF back THEN asides[restoreSh.pid] ELSE "none"
        /\ asides' = [asides EXCEPT ![restoreSh.pid] = IF back THEN "none" ELSE asides[restoreSh.pid]]
    BY <2>1 DEF MoveInFails, RestoreRunOK
  <2>3. RestoreRunOK'
    BY <2>2, IdleRuns DEF RestoreRunOK
  <2>4. HostUploadsRemain'
    BY <2>1, <2>2 DEF MoveInFails, RestoreRunOK, HostUploadsRemain
  <2> QED BY <2>2, <2>3, <2>4
<1>9. CASE RemoveAside
  BY <1>9, IdleRuns DEF RemoveAside, RestoreRunOK, HostUploadsRemain
<1> QED BY <1>3, <1>4, <1>5, <1>6, <1>7, <1>8, <1>9

LEMMA HostInitInv == HostInit => HostInv
<1> SUFFICES ASSUME HostInit PROVE HostInv
  OBVIOUS
<1>1. today \in 0..MaxDay /\ asides = [p \in Pids |-> asides[p]]
  BY HostAssumption DEF HostInit
<1>2. BackupRunOK /\ RestoreRunOK
  BY IdleRuns DEF HostInit, BackupRunOK, RestoreRunOK
<1>3. HostDataRemains
  BY DEF HostInit, HostDataRemains, HostBackupRemains, HostUploadsRemain
<1> QED BY <1>1, <1>2, <1>3 DEF HostInv

LEMMA HostStepInv == HostInv /\ [HostNext]_hostVars => HostInv'
<1> SUFFICES ASSUME HostInv, [HostNext]_hostVars PROVE HostInv'
  OBVIOUS
<1>1. CASE UNCHANGED hostVars
  BY <1>1 DEF hostVars, HostInv, BackupRunOK, BackupFile, PairOf, RestoreRunOK, HostDataRemains,
              HostBackupRemains, WholePair, HostUploadsRemain
<1>2. CASE HostNext
  BY <1>2, BackupSteps, RestoreSteps DEF HostNext
<1> QED BY <1>1, <1>2

\* Steps of the scripts leave files of runs that began no later than today, and
\* nothing but whole directories that were there before.
LEMMA HostTypes ==
    ASSUME HostInv, HostTypeOK, [HostNext]_hostVars
    PROVE  HostTypeOK'
<1> DEFINE HostFile == [kind : {"db", "uploads"}, day : 0..MaxDay, whole : BOOLEAN]
<1>1. today' \in 0..MaxDay
  BY HostStepInv DEF HostInv
<1>2. hostFiles' \subseteq HostFile
  <2>1. hostFiles \subseteq HostFile /\ today \in 0..MaxDay /\ backupSh.day \in 0..MaxDay
    BY DEF HostTypeOK, HostInv, BackupRunOK, BackupRuns
  <2>2. ASSUME NEW kind \in {"db", "uploads"}, NEW whole \in BOOLEAN
        PROVE  BackupFile(kind, whole) \in HostFile /\ [kind |-> kind, day |-> today, whole |-> whole] \in HostFile
    BY <2>1 DEF BackupFile
  <2> HIDE DEF HostFile
  <2> QED BY <2>1, <2>2
          DEF HostNext, hostVars, DayPasses, BackupShStarts, Dumped, Tarred, BackupShEnds, Prune, RestoreShStarts,
              DbLoaded, ArchiveChecked, Extract, MoveAside, MoveIn, RemoveAside, RestoreShEnds, MoveInFails
<1>3. hostDb' \in {"whole", "mixed"}
  BY DEF HostTypeOK, HostNext, hostVars, DayPasses, BackupShStarts, Dumped, Tarred, BackupShEnds, Prune,
         RestoreShStarts, DbLoaded, ArchiveChecked, Extract, MoveAside, MoveIn, RemoveAside, RestoreShEnds,
         MoveInFails
<1>4. /\ uploadsDir' \in {"current", "restored", "none"}
      /\ asides' \in [Pids -> {"current", "restored", "none"}]
  <2>1. restoreSh.pc # "idle" => restoreSh.pid \in Pids
    BY DEF HostInv, RestoreRunOK
  <2> QED BY <2>1
          DEF HostTypeOK, HostNext, hostVars, DayPasses, BackupShStarts, Dumped, Tarred, BackupShEnds, Prune,
              RestoreShStarts, DbLoaded, ArchiveChecked, Extract, MoveAside, MoveIn, RemoveAside, RestoreShEnds,
              MoveInFails
<1> QED BY <1>1, <1>2, <1>3, <1>4 DEF HostTypeOK

\* A whole backup remains once there is one, and a whole uploads directory but
\* after a process identifier was used again, wherever the scripts of deploy/ fail
\* or are killed.
THEOREM HostDataSafe == HostSpec => []HostDataRemains
<1>1. HostInv => HostDataRemains
  BY DEF HostInv
<1> QED BY <1>1, HostInitInv, HostStepInv, PTL DEF HostSpec

\* Whatever the scripts of deploy/ do, what they leave are dumps and archives with a
\* date, and directories that hold the uploads of before or the restored ones.
THEOREM HostTyped == HostSpec => []HostTypeOK
<1>1. HostInit => HostTypeOK
  BY HostAssumption DEF HostInit, HostTypeOK
<1> QED BY <1>1, HostInitInv, HostStepInv, HostTypes, PTL DEF HostSpec

(***************************************************************************)
(* Release: what is published and what an audit package shows              *)
(***************************************************************************)

ReleasePcs == {"idle", "identified", "gates", "passed", "copying", "prepared", "finalizing", "replacing", "renaming"}
RunRecord == [pc : ReleasePcs, name : OutputNames, force : BOOLEAN, commit : Nat, copied : SUBSET Nat,
              found : Nat, strays : SUBSET Nat, quiet : BOOLEAN]
AuditRecord == [pc : {"idle", "selected", "checking", "copying source", "copying release", "packing"},
                force : BOOLEAN, selected : OutputNames \cup {NoPackage}, copied : Nat, west : BOOLEAN,
                quiet : BOOLEAN]
PackageRecord == [official : BOOLEAN, commit : Nat, copied : SUBSET Nat, found : Nat, strays : SUBSET Nat,
                  intact : BOOLEAN, mtime : Nat, quiet : BOOLEAN]

TreeOK ==
    /\ now \in Nat /\ head \in Nat /\ committed \in Nat /\ content \in Nat /\ ignored \in 0..1 /\ edits \in Nat
    /\ committed <= now
    /\ \A commit \in commits : commit[1] \in Nat /\ commit[2] \in Nat /\ commit[2] <= now

\* A run that nobody disturbs is about the last commit, and copies that.
RunOK ==
    /\ release \in RunRecord
    /\ release.pc # "idle" /\ release.quiet => release.commit = head
    /\ release.pc \notin {"idle", "identified"} =>
         /\ release.name # Named => release.name <= now
         /\ release.quiet => content = head /\ release.found = ignored
         /\ release.quiet /\ release.name # Named => committed <= release.name
    /\ release.pc \in {"identified", "gates", "passed"} => release.copied = {} /\ release.strays = {}
    /\ release.pc \in {"copying", "prepared", "finalizing", "replacing", "renaming"} /\ release.quiet =>
         release.copied = {content} /\ release.strays = {ignored}

\* An output without a newer commit shows the one that HEAD is, unless HEAD was
\* moved away.
OutputOK(n) ==
    outputs[n] # NoPackage =>
        /\ outputs[n] \in PackageRecord
        /\ BuiltAt(n) <= now
        /\ outputs[n].official /\ outputs[n].quiet =>
             /\ outputs[n].copied = {outputs[n].commit} /\ outputs[n].strays = {outputs[n].found}
             /\ committed <= BuiltAt(n) => n \in leftBehind \/ outputs[n].commit = head

\* What an audit package that nobody disturbs has selected and checked.
AuditOK ==
    /\ auditRun \in AuditRecord
    /\ auditRun.quiet /\ auditRun.pc \in {"selected", "checking", "copying source", "copying release"}
         /\ auditRun.selected # NoPackage =>
             /\ outputs[auditRun.selected] # NoPackage
             /\ outputs[auditRun.selected].official /\ outputs[auditRun.selected].intact
             /\ auditRun.pc \in {"copying source", "copying release"} /\ outputs[auditRun.selected].quiet =>
                  auditRun.west \/ auditRun.selected \in leftBehind \/ outputs[auditRun.selected].commit = content
    /\ auditRun.quiet /\ auditRun.pc = "copying release" => auditRun.copied = content

ShowsOneVersion(package) ==
    package # NoPackage /\ package.quiet => package.official /\ (package.same \/ package.west \/ package.left)

ReleaseInv ==
    /\ TreeOK /\ RunOK /\ AuditOK
    /\ outputs = [n \in OutputNames |-> outputs[n]] /\ \A n \in OutputNames : OutputOK(n)
    /\ ShowsOneVersion(auditFolder) /\ ShowsOneVersion(auditZip)

LEMMA PackageOf ==
    ASSUME NEW run \in RunRecord, NEW official \in BOOLEAN, now \in Nat
    PROVE  /\ Package(run, official) \in PackageRecord
           /\ Package(run, official).official = official
           /\ Package(run, official).commit = run.commit /\ Package(run, official).copied = run.copied
           /\ Package(run, official).found = run.found /\ Package(run, official).strays = run.strays
           /\ Package(run, official).quiet = run.quiet
           /\ Package(run, official).mtime = IF run.name = Named THEN now ELSE 0
BY DEF Package, PackageRecord, RunRecord

LEMMA CollectedRun ==
    ASSUME NEW run \in RunRecord, content \in Nat, ignored \in Nat
    PROVE  /\ Collected(run) \in RunRecord
           /\ Collected(run).pc = run.pc /\ Collected(run).name = run.name /\ Collected(run).commit = run.commit
           /\ Collected(run).found = run.found /\ Collected(run).quiet = run.quiet
           /\ Collected(run).copied = run.copied \cup {content} /\ Collected(run).strays = run.strays \cup {ignored}
BY DEF Collected, RunRecord

LEMMA ReleaseInitInv == ReleaseInit => ReleaseInv
<1> SUFFICES ASSUME ReleaseInit PROVE ReleaseInv
  OBVIOUS
<1> USE ReleaseAssumption
<1>1. PICK first \in {NoPackage, Package([NoRun EXCEPT !.name = 0, !.copied = {0}, !.strays = {0}], TRUE)} :
        outputs = [n \in OutputNames |-> IF n = 0 THEN first ELSE NoPackage]
  BY DEF ReleaseInit
<1>2. Named # 0 /\ 0 \in OutputNames
  BY DEF OutputNames
<1> DEFINE run == [NoRun EXCEPT !.name = 0, !.copied = {0}, !.strays = {0}]
<1>3. /\ run \in RunRecord
      /\ run.name = 0 /\ run.commit = 0 /\ run.copied = {0} /\ run.strays = {0} /\ run.found = 0
  <2>1. NoRun \in RunRecord /\ NoRun.commit = 0 /\ NoRun.found = 0
    BY DEF NoRun, RunRecord, ReleasePcs, OutputNames
  <2>2. {0} \in SUBSET Nat
    OBVIOUS
  <2> QED BY <1>2, <2>1, <2>2 DEF RunRecord
<1> HIDE DEF run
<1>4. now \in Nat
  BY DEF ReleaseInit
<1>5. first # NoPackage =>
        /\ first \in PackageRecord /\ first.copied = {0} /\ first.commit = 0
        /\ first.strays = {0} /\ first.found = 0
  <2>1. first = NoPackage \/ first = Package(run, TRUE)
    BY <1>1 DEF run
  <2>2. /\ Package(run, TRUE) \in PackageRecord
        /\ Package(run, TRUE).copied = run.copied /\ Package(run, TRUE).commit = run.commit
        /\ Package(run, TRUE).strays = run.strays /\ Package(run, TRUE).found = run.found
    BY <1>3, <1>4, PackageOf
  <2> QED BY <1>3, <2>1, <2>2
<1>6. \A n \in OutputNames : OutputOK(n)
  BY <1>1, <1>2, <1>5 DEF OutputOK, BuiltAt, ReleaseInit
<1>7. TreeOK
  BY DEF TreeOK, ReleaseInit
<1>8. RunOK
  BY DEF RunOK, ReleaseInit, NoRun, RunRecord, ReleasePcs, OutputNames
<1>9. AuditOK
  BY DEF AuditOK, ReleaseInit, NoAudit, AuditRecord
<1>10. outputs = [n \in OutputNames |-> outputs[n]]
  BY <1>1
<1> QED BY <1>6, <1>7, <1>8, <1>9, <1>10 DEF ReleaseInv, ReleaseInit, ShowsOneVersion

\* After an edit or a commit, runs that are open are disturbed.
LEMMA DisturbOK ==
    ASSUME RunOK, AuditOK, Disturb,
           head' \in Nat, content' \in Nat, UNCHANGED <<outputs>>, now \in Nat, now' \in Nat, now <= now'
    PROVE  RunOK' /\ AuditOK'
<1>1. /\ release \in RunRecord /\ release' = [release EXCEPT !.quiet = release.pc = "idle"]
      /\ auditRun \in AuditRecord /\ auditRun' = [auditRun EXCEPT !.quiet = auditRun.pc = "idle"]
  BY DEF RunOK, AuditOK, Disturb
<1>2. (release.pc = "idle") \in BOOLEAN /\ (auditRun.pc = "idle") \in BOOLEAN
  OBVIOUS
<1>3. /\ release' \in RunRecord /\ release'.pc = release.pc /\ release'.name = release.name
      /\ release'.copied = release.copied /\ release'.strays = release.strays
      /\ release'.quiet <=> release.pc = "idle"
  BY <1>1, <1>2 DEF RunRecord
<1>4. /\ auditRun' \in AuditRecord /\ auditRun'.pc = auditRun.pc
      /\ auditRun'.quiet <=> auditRun.pc = "idle"
  BY <1>1, <1>2 DEF AuditRecord
<1>5. release.name # Named => release.name \in Nat
  BY <1>1 DEF RunRecord, OutputNames
<1>6. RunOK'
  BY <1>3, <1>5 DEF RunOK
<1>7. AuditOK'
  BY <1>4 DEF AuditOK
<1> QED BY <1>6, <1>7

LEMMA DeveloperInv ==
    ASSUME ReleaseInv, Edit \/ Litter \/ Commit
    PROVE  ReleaseInv'
<1> USE DEF ReleaseInv
<1>1. /\ UNCHANGED <<outputs, leftBehind, auditFolder, auditZip>> /\ Disturb
      /\ now' \in Nat /\ head' \in Nat /\ content' \in Nat /\ committed' \in Nat /\ committed' <= now' /\ now <= now'
      /\ ignored' \in 0..1 /\ edits' \in Nat
      /\ \/ UNCHANGED <<now, head, committed, commits>>
         \/ committed' = now + 1 /\ now' = now + 1 /\ commits' = commits \cup {<<content, now'>>}
  BY DEF Edit, Litter, NewContent, Commit, TreeOK, TimePasses, outputVars
<1>2. RunOK' /\ AuditOK'
  BY <1>1, DisturbOK DEF TreeOK
<1>3. \A n \in OutputNames : OutputOK(n)'
  <2> SUFFICES ASSUME NEW n \in OutputNames, outputs[n] # NoPackage PROVE OutputOK(n)'
    BY <1>1 DEF OutputOK
  <2>1. OutputOK(n) /\ BuiltAt(n) \in Nat /\ BuiltAt(n)' = BuiltAt(n) /\ now \in Nat /\ committed \in Nat
    <3>1. OutputOK(n) /\ now \in Nat /\ committed \in Nat /\ outputs' = outputs
      BY <1>1 DEF TreeOK
    <3>2. outputs[n].mtime \in Nat
      BY <3>1 DEF OutputOK, PackageRecord
    <3> QED BY <3>1, <3>2 DEF BuiltAt, OutputNames
  <2>2. BuiltAt(n) <= now' /\ (committed' <= BuiltAt(n) => UNCHANGED <<committed, head>>)
    BY <1>1, <2>1 DEF OutputOK
  <2> QED BY <1>1, <2>1, <2>2 DEF OutputOK
<1>4. TreeOK'
  <2>1. \A commit \in commits' : commit[1] \in Nat /\ commit[2] \in Nat /\ commit[2] <= now'
    <3> SUFFICES ASSUME NEW commit \in commits' PROVE commit[1] \in Nat /\ commit[2] \in Nat /\ commit[2] <= now'
      OBVIOUS
    <3>1. CASE commit \in commits
      BY <1>1, <3>1 DEF TreeOK
    <3>2. CASE commit = <<content, now'>>
      BY <1>1, <3>2 DEF TreeOK
    <3> QED BY <1>1, <3>1, <3>2
  <2> QED BY <1>1, <2>1 DEF TreeOK
<1> QED BY <1>1, <1>2, <1>3, <1>4 DEF ShowsOneVersion

\* HEAD moves, and so does the tree.
LEMMA CheckoutInv ==
    ASSUME ReleaseInv, NEW commit \in commits, Checkout(commit)
    PROVE  ReleaseInv'
<1> USE DEF ReleaseInv
<1>1. /\ head' = commit[1] /\ content' = commit[1] /\ committed' = commit[2]
      /\ leftBehind' = {n \in OutputNames : /\ outputs[n] # NoPackage /\ outputs[n].commit # head'
                                           /\ committed' <= BuiltAt(n)}
      /\ Disturb /\ UNCHANGED <<now, ignored, commits, edits, outputs, auditFolder, auditZip>>
  BY DEF Checkout
<1>2. TreeOK'
  BY <1>1 DEF TreeOK
<1>3. RunOK' /\ AuditOK'
  BY <1>1, <1>2, DisturbOK DEF TreeOK
<1>4. \A n \in OutputNames : OutputOK(n)'
  <2> SUFFICES ASSUME NEW n \in OutputNames, outputs[n] # NoPackage PROVE OutputOK(n)'
    BY <1>1 DEF OutputOK
  <2>1. OutputOK(n) /\ BuiltAt(n)' = BuiltAt(n)
    BY <1>1 DEF BuiltAt
  <2>2. committed' <= BuiltAt(n) => n \in leftBehind' \/ outputs[n].commit = head'
    BY <1>1
  <2> QED BY <1>1, <2>1, <2>2 DEF OutputOK
<1> QED BY <1>1, <1>2, <1>3, <1>4 DEF ShowsOneVersion

LEMMA CommitElsewhereInv ==
    ASSUME ReleaseInv, CommitElsewhere
    PROVE  ReleaseInv'
<1> USE DEF ReleaseInv
<1>1. PICK time \in 0..now : commits' = commits \cup {<<edits', time>>}
  BY DEF CommitElsewhere
<1>2. /\ edits' = edits + 1
      /\ UNCHANGED <<now, head, committed, content, ignored, outputs, leftBehind, release, auditRun, auditFolder, auditZip>>
  BY DEF CommitElsewhere, NewContent, outputVars, auditVars
<1>3. TreeOK'
  <2>1. \A commit \in commits' : commit[1] \in Nat /\ commit[2] \in Nat /\ commit[2] <= now
    <3> SUFFICES ASSUME NEW commit \in commits' PROVE commit[1] \in Nat /\ commit[2] \in Nat /\ commit[2] <= now
      OBVIOUS
    <3>1. CASE commit \in commits
      BY <3>1 DEF TreeOK
    <3>2. CASE commit = <<edits', time>>
      BY <1>2, <3>2 DEF TreeOK
    <3> QED BY <1>1, <3>1, <3>2
  <2> QED BY <1>2, <2>1 DEF TreeOK
<1>4. RunOK' /\ AuditOK' /\ \A n \in OutputNames : OutputOK(n)'
  BY <1>2 DEF RunOK, AuditOK, OutputOK, BuiltAt
<1> QED BY <1>2, <1>3, <1>4 DEF ShowsOneVersion

LEMMA StampIsTime ==
    ASSUME NEW n \in OutputNames, OutputOK(n), outputs[n] # NoPackage
    PROVE  BuiltAt(n) \in Nat /\ BuiltAt(n) <= now
<1>1. outputs[n].mtime \in Nat
  BY DEF OutputOK, PackageRecord
<1>2. n # Named => n \in Nat
  BY DEF OutputNames
<1> QED BY <1>1, <1>2 DEF OutputOK, BuiltAt

\* A step of the run alone.
LEMMA RunMoves ==
    ASSUME ReleaseInv, UNCHANGED <<treeVars, auditVars, outputVars>>, now' = now \/ now' = now + 1, RunOK'
    PROVE  ReleaseInv'
<1> USE DEF ReleaseInv
<1>1. UNCHANGED <<head, committed, content, ignored, commits, edits, outputs, leftBehind, auditRun, auditFolder, auditZip>>
  BY DEF treeVars, auditVars, outputVars
<1>2. now \in Nat /\ now' \in Nat /\ now <= now'
  BY DEF TreeOK
<1>3. \A n \in OutputNames : OutputOK(n)'
  <2> SUFFICES ASSUME NEW n \in OutputNames PROVE OutputOK(n)'
    OBVIOUS
  <2>1. outputs[n] # NoPackage => BuiltAt(n) \in Nat /\ BuiltAt(n) <= now
    BY StampIsTime
  <2>2. outputs[n] # NoPackage => BuiltAt(n) <= now'
    BY <1>2, <2>1
  <2> QED BY <1>1, <2>2 DEF OutputOK, BuiltAt
<1>4. TreeOK'
  BY <1>1, <1>2 DEF TreeOK
<1>5. AuditOK'
  BY <1>1 DEF AuditOK
<1>7. ShowsOneVersion(auditFolder)' /\ ShowsOneVersion(auditZip)'
  BY <1>1 DEF ShowsOneVersion
<1>6. outputs' = [n \in OutputNames |-> outputs'[n]]
  BY <1>1
<1> QED BY <1>3, <1>4, <1>5, <1>6, <1>7

\* An output changes, and an audit package in the making notices nothing.
LEMMA OutputBecomesInv ==
    ASSUME ReleaseInv, NEW n \in OutputNames, NEW package, OutputBecomes(n, package),
           leftBehind' \in {leftBehind, leftBehind \ {n}},
           now' = now \/ now' = now + 1, RunOK',
           package # NoPackage =>
              LET stamp == IF n = Named THEN package.mtime ELSE n IN
              /\ package \in PackageRecord /\ stamp <= now
              /\ package.official /\ package.quiet =>
                   /\ package.copied = {package.commit} /\ package.strays = {package.found}
                   /\ committed <= stamp => n \in leftBehind' \/ package.commit = head
    PROVE  ReleaseInv'
<1> USE DEF ReleaseInv
<1>1. /\ outputs' = [outputs EXCEPT ![n] = package]
      /\ auditRun' = [auditRun EXCEPT !.quiet = auditRun.pc = "idle"]
      /\ UNCHANGED <<head, committed, content, ignored, commits, edits, auditFolder, auditZip>>
  BY DEF OutputBecomes, treeVars
<1>2. now \in Nat /\ now' \in Nat /\ now <= now'
  BY DEF TreeOK
<1>3. /\ outputs'[n] = package /\ \A m \in OutputNames \ {n} : outputs'[m] = outputs[m]
      /\ outputs' = [m \in OutputNames |-> outputs'[m]]
  BY <1>1
<1>4. OutputOK(n)'
  <2> SUFFICES ASSUME package # NoPackage PROVE OutputOK(n)'
    BY <1>3 DEF OutputOK
  <2> DEFINE stamp == IF n = Named THEN package.mtime ELSE n
  <2>1. BuiltAt(n)' = stamp /\ stamp \in Nat /\ stamp <= now
    BY <1>3 DEF BuiltAt, PackageRecord, OutputNames
  <2>2. stamp <= now'
    BY <1>2, <2>1
  <2> QED BY <1>1, <1>3, <2>1, <2>2 DEF OutputOK
<1>5. ASSUME NEW m \in OutputNames \ {n} PROVE OutputOK(m)'
  <2>1. outputs[m] # NoPackage => BuiltAt(m) \in Nat /\ BuiltAt(m) <= now
    BY StampIsTime
  <2>2. outputs[m] # NoPackage => BuiltAt(m) <= now'
    BY <1>2, <2>1
  <2>3. m \in leftBehind' <=> m \in leftBehind
    BY <1>5
  <2> QED BY <1>1, <1>3, <2>2, <2>3 DEF OutputOK, BuiltAt
<1>6. AuditOK'
  <2>1. (auditRun.pc = "idle") \in BOOLEAN /\ auditRun \in AuditRecord
    BY DEF AuditOK
  <2>2. /\ auditRun' \in AuditRecord /\ auditRun'.pc = auditRun.pc
        /\ auditRun'.quiet <=> auditRun.pc = "idle"
    BY <1>1, <2>1 DEF AuditRecord
  <2> QED BY <2>2 DEF AuditOK
<1> QED BY <1>1, <1>2, <1>3, <1>4, <1>5, <1>6 DEF TreeOK, ShowsOneVersion

LEMMA NoRunOK ==
    ASSUME release' = NoRun
    PROVE  RunOK'
BY DEF RunOK, NoRun, RunRecord, ReleasePcs, OutputNames

\* The run moves on from a step after the gates and before the last one.
LEMMA RunStepOK ==
    ASSUME ReleaseInv, UNCHANGED <<now, head, committed, content, ignored>>, NEW pc \in ReleasePcs,
           release' = [release EXCEPT !.pc = pc],
           \/ release.pc = "gates" /\ pc = "passed"
           \/ /\ release.pc \in {"copying", "prepared", "finalizing", "replacing"}
              /\ pc \in {"prepared", "finalizing", "replacing", "renaming"}
    PROVE  RunOK'
<1> USE DEF ReleaseInv
<1>1. release \in RunRecord
  BY DEF RunOK
<1>2. /\ release' \in RunRecord /\ release'.pc = pc /\ release'.quiet = release.quiet
      /\ release'.name = release.name /\ release'.commit = release.commit /\ release'.copied = release.copied
      /\ release'.found = release.found /\ release'.strays = release.strays
  BY <1>1 DEF RunRecord
<1> QED BY <1>2 DEF RunOK

LEMMA ReleaseBeginsInv ==
    ASSUME ReleaseInv, NEW name \in {0, Named}, NEW force \in BOOLEAN, ReleaseBegins(name, force)
    PROVE  ReleaseInv'
<1> USE DEF ReleaseInv
<1> DEFINE run == [NoRun EXCEPT !.pc = "identified", !.name = name, !.force = force, !.commit = head]
<1>1. release' = run /\ UNCHANGED <<now, treeVars, auditVars, outputVars>>
  BY DEF ReleaseBegins, ReleaseOnly
<1>2. name \in OutputNames /\ head \in Nat
  BY ReleaseAssumption DEF OutputNames, TreeOK
<1>3. run \in RunRecord /\ run.pc = "identified" /\ run.commit = head /\ run.copied = {} /\ run.strays = {}
  BY <1>2 DEF NoRun, RunRecord, ReleasePcs
<1> HIDE DEF run
<1>4. RunOK'
  BY <1>1, <1>3 DEF RunOK, treeVars
<1> QED BY <1>1, <1>4, RunMoves

LEMMA IdentityPreflightInv ==
    ASSUME ReleaseInv, IdentityPreflight
    PROVE  ReleaseInv'
<1> USE DEF ReleaseInv
<1>1. /\ release.pc = "identified" /\ UNCHANGED <<treeVars, auditVars, outputVars>>
      /\ \/ ~Dirty /\ Identify(release.name)
         \/ UNCHANGED now /\ release' = NoRun
  BY DEF IdentityPreflight, SourceChecked, treeVars, auditVars, outputVars
<1>2. CASE UNCHANGED now /\ release' = NoRun
  BY <1>1, <1>2, NoRunOK, RunMoves
<1>3. CASE ~Dirty /\ Identify(release.name)
  <2> DEFINE name == IF release.name = Named THEN Named ELSE now'
  <2>1. /\ content = head /\ now < MaxTime /\ now' = now + 1
        /\ release' = [release EXCEPT !.pc = "gates", !.name = name, !.found = ignored]
        /\ release \in RunRecord /\ ignored \in Nat
    BY <1>3 DEF Identify, TimePasses, Dirty, RunOK, TreeOK
  <2>2. name \in OutputNames /\ (name # Named => name = now')
    BY <2>1, ReleaseAssumption DEF OutputNames, TreeOK
  <2> HIDE DEF name
  <2>3. /\ release' \in RunRecord /\ release'.pc = "gates" /\ release'.quiet = release.quiet
        /\ release'.name = name /\ release'.commit = release.commit /\ release'.found = ignored
        /\ release'.copied = release.copied /\ release'.strays = release.strays
    BY <2>1, <2>2 DEF RunRecord, ReleasePcs
  <2>4. committed <= now' /\ now' <= now'
    BY <2>1 DEF TreeOK
  <2>5. RunOK'
    BY <1>1, <2>1, <2>2, <2>3, <2>4 DEF RunOK, treeVars
  <2> QED BY <1>1, <2>1, <2>5, RunMoves
<1> QED BY <1>1, <1>2, <1>3

LEMMA PrepareInv ==
    ASSUME ReleaseInv, PrepareBegins \/ PrepareEnds
    PROVE  ReleaseInv'
<1> USE DEF ReleaseInv
<1>1. /\ UNCHANGED <<now, treeVars, auditVars, outputVars>> /\ release \in RunRecord
      /\ content \in Nat /\ ignored \in Nat /\ UNCHANGED <<now, head, committed, content, ignored>>
  BY DEF PrepareBegins, PrepareEnds, ReleaseOnly, RunOK, TreeOK, treeVars
<1>2. CASE release' = NoRun
  BY <1>1, <1>2, NoRunOK, RunMoves
<1>3. ASSUME NEW from \in {"passed", "copying"}, NEW pc \in {"copying", "prepared"}, release.pc = from,
             from = "passed" <=> pc = "copying", release' = Collected([release EXCEPT !.pc = pc])
      PROVE  ReleaseInv'
  <2> DEFINE run == [release EXCEPT !.pc = pc]
  <2>1. /\ run \in RunRecord /\ run.pc = pc /\ run.quiet = release.quiet
        /\ run.name = release.name /\ run.commit = release.commit /\ run.found = release.found
        /\ run.copied = release.copied /\ run.strays = release.strays
    BY <1>1 DEF RunRecord, ReleasePcs
  <2> HIDE DEF run
  <2>2. /\ release' \in RunRecord /\ release'.pc = pc /\ release'.quiet = release.quiet
        /\ release'.name = release.name /\ release'.commit = release.commit /\ release'.found = release.found
        /\ release'.copied = release.copied \cup {content} /\ release'.strays = release.strays \cup {ignored}
    BY <1>1, <1>3, <2>1, CollectedRun DEF run
  <2>3. RunOK'
    BY <1>1, <1>3, <2>2 DEF RunOK
  <2> QED BY <1>1, <2>3, RunMoves
<1> QED BY <1>2, <1>3 DEF PrepareBegins, PrepareEnds

LEMMA RunOnlyInv ==
    ASSUME ReleaseInv,
           \/ GatesPass \/ GateFails \/ PrepareFails \/ DockerGates \/ DockerGatesFail
           \/ FinalizeValid \/ FinalizeInvalid \/ PublishFails \/ ReleaseKilled
    PROVE  ReleaseInv'
<1> USE DEF ReleaseInv
<1>1. UNCHANGED <<treeVars, auditVars, outputVars>> /\ (now' = now \/ now' = now + 1)
  BY DEF GatesPass, GateFails, PrepareFails, DockerGates, DockerGatesFail, FinalizeValid, FinalizeInvalid,
         PublishFails, ReleaseKilled, ReleaseOnly, TimePasses
<1>2. CASE release' = NoRun
  BY <1>1, <1>2, NoRunOK, RunMoves
<1>3. CASE release' # NoRun
  <2>1. UNCHANGED <<now, head, committed, content, ignored>>
    BY <1>3 DEF GatesPass, GateFails, PrepareFails, DockerGates, DockerGatesFail, FinalizeValid, FinalizeInvalid,
           PublishFails, ReleaseKilled, ReleaseOnly, EndsRun, treeVars
  <2>2. \/ release.pc = "gates" /\ release' = [release EXCEPT !.pc = "passed"]
        \/ release.pc = "prepared" /\ release' = [release EXCEPT !.pc = "finalizing"]
        \/ release.pc = "finalizing" /\ release' = [release EXCEPT !.pc = "replacing"]
    BY <1>3 DEF GatesPass, GateFails, PrepareFails, DockerGates, DockerGatesFail, FinalizeValid, FinalizeInvalid,
           PublishFails, ReleaseKilled, EndsRun, Step
  <2>3. RunOK'
    BY <2>1, <2>2, RunStepOK DEF ReleasePcs
  <2> QED BY <1>1, <2>3, RunMoves
<1> QED BY <1>2, <1>3

LEMMA RemoveOldOutputInv ==
    ASSUME ReleaseInv, RemoveOldOutput
    PROVE  ReleaseInv'
<1> USE DEF ReleaseInv
<1>1. /\ release.pc = "replacing" /\ release' = [release EXCEPT !.pc = "renaming"]
      /\ OutputBecomes(release.name, NoPackage) /\ UNCHANGED <<now, head, committed, content, ignored>>
      /\ leftBehind' = leftBehind \ {release.name}
  BY DEF RemoveOldOutput, Step, OutputBecomes, treeVars
<1>2. RunOK'
  BY <1>1, RunStepOK DEF ReleasePcs
<1>3. release.name \in OutputNames
  BY DEF RunOK, RunRecord
<1> QED BY <1>1, <1>2, <1>3, OutputBecomesInv

LEMMA PublishInv ==
    ASSUME ReleaseInv, Publish
    PROVE  ReleaseInv'
<1> USE DEF ReleaseInv
<1> DEFINE package == Package(release, TRUE)
           name == release.name
<1>1. /\ release.pc = "renaming" /\ release' = NoRun
      /\ OutputBecomes(name, package) /\ UNCHANGED now /\ leftBehind' = leftBehind \ {name}
  BY DEF Publish, EndsRun
<1>2. release \in RunRecord /\ now \in Nat /\ committed <= now
  BY DEF RunOK, TreeOK
<1>3. /\ package \in PackageRecord /\ package.commit = release.commit /\ package.copied = release.copied
      /\ package.found = release.found /\ package.strays = release.strays
      /\ package.quiet = release.quiet /\ package.mtime = IF name = Named THEN now ELSE 0
  BY <1>2, PackageOf
<1> HIDE DEF package
<1>4. /\ name \in OutputNames /\ (name # Named => name <= now)
      /\ release.quiet => /\ release.commit = head /\ content = head /\ release.copied = {content}
                          /\ release.found = ignored /\ release.strays = {ignored}
  BY <1>1 DEF RunOK, RunRecord
<1> DEFINE stamp == IF name = Named THEN package.mtime ELSE name
<1>5. stamp <= now
  BY <1>2, <1>3, <1>4
<1>6. package.quiet =>
        package.copied = {package.commit} /\ package.commit = head /\ package.strays = {package.found}
  BY <1>3, <1>4
<1>7. RunOK'
  BY <1>1, NoRunOK
<1> QED BY <1>1, <1>3, <1>4, <1>5, <1>6, <1>7, OutputBecomesInv

LEMMA ScratchInv ==
    ASSUME ReleaseInv, NEW force \in BOOLEAN, Scratch(force)
    PROVE  ReleaseInv'
<1> USE DEF ReleaseInv
<1> DEFINE run == Collected(NoRun)
           package == Package(run, FALSE)
<1>1. /\ OutputBecomes(Named, package) /\ UNCHANGED <<now, release, head, committed, content, ignored>>
      /\ leftBehind' = leftBehind \ {Named}
  BY DEF Scratch, OutputBecomes, treeVars
<1>2. now \in Nat /\ content \in Nat /\ ignored \in Nat /\ Named \in OutputNames
  BY DEF TreeOK, OutputNames
<1>3. run \in RunRecord /\ run.name = Named
  <2>1. NoRun \in RunRecord /\ NoRun.name = Named
    BY DEF NoRun, RunRecord, ReleasePcs, OutputNames
  <2> QED BY <1>2, <2>1, CollectedRun
<1> HIDE DEF run
<1>4. package \in PackageRecord /\ package.official = FALSE /\ package.mtime = now
  BY <1>2, <1>3, PackageOf
<1> HIDE DEF package
<1>5. RunOK'
  BY <1>1 DEF RunOK
<1> QED BY <1>1, <1>2, <1>4, <1>5, OutputBecomesInv

LEMMA AlterInv ==
    ASSUME ReleaseInv, NEW n \in OutputNames, Alter(n)
    PROVE  ReleaseInv'
<1> USE DEF ReleaseInv
<1> DEFINE package == [outputs[n] EXCEPT !.intact = FALSE]
<1>1. /\ OutputBecomes(n, package) /\ UNCHANGED <<leftBehind, release, head, committed, content, ignored>>
      /\ now' = now + 1
  BY DEF Alter, OutputBecomes, TimePasses, treeVars
<1>2. OutputOK(n) /\ outputs[n] # NoPackage
  BY DEF Alter
<1>3. /\ package \in PackageRecord /\ package.official = outputs[n].official
      /\ package.quiet = outputs[n].quiet /\ package.copied = outputs[n].copied
      /\ package.commit = outputs[n].commit /\ package.mtime = outputs[n].mtime
      /\ package.found = outputs[n].found /\ package.strays = outputs[n].strays
  BY <1>2 DEF OutputOK, PackageRecord
<1> HIDE DEF package
<1>4. RunOK'
  <2>1. release.name # Named => release.name \in Nat
    BY DEF RunOK, RunRecord, OutputNames
  <2>2. now \in Nat
    BY DEF TreeOK
  <2> QED BY <1>1, <2>1, <2>2 DEF RunOK
<1> QED BY <1>1, <1>2, <1>3, <1>4, OutputBecomesInv DEF OutputOK, BuiltAt

\* A step of the audit package alone.
LEMMA AuditMoves ==
    ASSUME ReleaseInv, AuditOnly, now' = now \/ now' = now + 1, AuditOK',
           ShowsOneVersion(auditFolder)', ShowsOneVersion(auditZip)'
    PROVE  ReleaseInv'
<1> USE DEF ReleaseInv
<1>1. UNCHANGED <<head, committed, content, ignored, commits, edits, outputs, leftBehind, release>>
  BY DEF AuditOnly, treeVars, outputVars
<1>2. now \in Nat /\ now' \in Nat /\ now <= now'
  BY DEF TreeOK
<1>3. \A n \in OutputNames : OutputOK(n)'
  <2> SUFFICES ASSUME NEW n \in OutputNames PROVE OutputOK(n)'
    OBVIOUS
  <2>1. outputs[n] # NoPackage => BuiltAt(n) \in Nat /\ BuiltAt(n) <= now
    BY StampIsTime
  <2>2. outputs[n] # NoPackage => BuiltAt(n) <= now'
    BY <1>2, <2>1
  <2> QED BY <1>1, <2>2 DEF OutputOK, BuiltAt
<1>4. RunOK'
  <2>1. release.name # Named => release.name \in Nat
    BY DEF RunOK, RunRecord, OutputNames
  <2> QED BY <1>1, <1>2, <2>1 DEF RunOK
<1>5. TreeOK' /\ outputs' = [n \in OutputNames |-> outputs'[n]]
  BY <1>1, <1>2 DEF TreeOK
<1> QED BY <1>3, <1>4, <1>5

LEMMA NoAuditOK ==
    ASSUME auditRun' = NoAudit
    PROVE  AuditOK'
BY DEF AuditOK, NoAudit, AuditRecord

\* latest_release_output returns an output, if there is one.
LEMMA LatestIsOutput ==
    ASSUME Latest # NoPackage
    PROVE  Latest \in OutputNames /\ outputs[Latest] # NoPackage
<1> DEFINE stamped == {n \in 0..MaxTime : outputs[n] # NoPackage}
<1>1. CASE stamped # {}
  <2>1. \E n \in stamped : \A m \in stamped : m <= n
    BY <1>1, GreatestOf, ReleaseAssumption
  <2>2. Latest \in stamped
    BY <1>1, <2>1 DEF Latest
  <2> QED BY <2>2 DEF OutputNames
<1>2. CASE stamped = {}
  BY <1>2 DEF Latest, OutputNames
<1> QED BY <1>1, <1>2

LEMMA AuditBeginsInv ==
    ASSUME ReleaseInv, NEW force \in BOOLEAN, AuditBegins(force)
    PROVE  ReleaseInv'
<1> USE DEF ReleaseInv
<1> DEFINE latest == Latest
           run == [NoAudit EXCEPT !.pc = "selected", !.force = force, !.selected = latest]
<1>1. /\ latest # NoPackage => Official(latest)
      /\ auditRun' = run /\ AuditOnly /\ UNCHANGED <<now, auditFolder, auditZip>>
  BY DEF AuditBegins, Folders
<1>2. latest # NoPackage => latest \in OutputNames /\ outputs[latest] # NoPackage
  BY LatestIsOutput
<1> HIDE DEF latest
<1>3. run \in AuditRecord /\ run.pc = "selected" /\ run.selected = latest
  BY <1>2 DEF NoAudit, AuditRecord
<1> HIDE DEF run
<1>4. AuditOK'
  BY <1>1, <1>2, <1>3 DEF AuditOK, AuditOnly, outputVars, Official, HasBuildInfo
<1> QED BY <1>1, <1>4, AuditMoves DEF ShowsOneVersion

LEMMA AuditRemovesOldInv ==
    ASSUME ReleaseInv, AuditRemovesOld
    PROVE  ReleaseInv'
<1> USE DEF ReleaseInv
<1>1. /\ auditRun.pc = "selected" /\ auditRun' = [auditRun EXCEPT !.pc = "checking", !.force = FALSE]
      /\ auditFolder' = NoPackage /\ AuditOnly /\ UNCHANGED <<now, auditZip>>
      /\ auditRun \in AuditRecord
  BY DEF AuditRemovesOld, AuditOK
<1>2. /\ auditRun' \in AuditRecord /\ auditRun'.pc = "checking" /\ auditRun'.selected = auditRun.selected
      /\ auditRun'.quiet = auditRun.quiet
  BY <1>1 DEF AuditRecord
<1>3. AuditOK'
  BY <1>1, <1>2 DEF AuditOK, AuditOnly, outputVars
<1> QED BY <1>1, <1>3, AuditMoves DEF ShowsOneVersion

\* An output that counts as current shows the tree as it is, or was read west of
\* UTC.
LEMMA CurrentShowsTree ==
    ASSUME ReleaseInv, NEW n \in OutputNames, outputs[n] # NoPackage, outputs[n].official, outputs[n].quiet,
           NEW zone \in Zones, Current(n, zone)
    PROVE  zone < 0 \/ n \in leftBehind \/ outputs[n].commit = content
<1> USE DEF ReleaseInv
<1> SUFFICES ASSUME ~(zone < 0) PROVE n \in leftBehind \/ outputs[n].commit = content
  OBVIOUS
<1>1. OutputOK(n) /\ content = head /\ OutputTime(n, zone) >= committed /\ zone \in Int /\ committed \in Nat
  BY ReleaseAssumption DEF Current, Dirty, TreeOK
<1>2. BuiltAt(n) \in Nat
  BY <1>1, StampIsTime
<1>3. committed <= BuiltAt(n)
  <2>1. CASE n = Named
    BY <1>1, <1>2, <2>1 DEF OutputTime, BuiltAt
  <2>2. CASE n # Named
    BY <1>1, <1>2, <2>2 DEF OutputTime, BuiltAt
  <2> QED BY <2>1, <2>2
<1> QED BY <1>1, <1>3 DEF OutputOK

LEMMA AuditChecksInv ==
    ASSUME ReleaseInv, AuditChecks
    PROVE  ReleaseInv'
<1> USE DEF ReleaseInv
<1>1. PICK zone \in Zones :
        auditRun' = IF \/ auditRun.selected = NoPackage
                       \/ outputs[auditRun.selected] # NoPackage /\ Current(auditRun.selected, zone)
                    THEN [auditRun EXCEPT !.pc = "copying source", !.west = zone < 0]
                    ELSE NoAudit
  BY DEF AuditChecks
<1>2. auditRun.pc = "checking" /\ AuditOnly /\ UNCHANGED <<now, auditFolder, auditZip>> /\ auditRun \in AuditRecord
  BY DEF AuditChecks, Folders, AuditOK
<1>3. CASE auditRun' = NoAudit
  BY <1>2, <1>3, NoAuditOK, AuditMoves DEF ShowsOneVersion
<1>4. CASE /\ \/ auditRun.selected = NoPackage
              \/ outputs[auditRun.selected] # NoPackage /\ Current(auditRun.selected, zone)
           /\ auditRun' = [auditRun EXCEPT !.pc = "copying source", !.west = zone < 0]
  <2>1. (zone < 0) \in BOOLEAN
    OBVIOUS
  <2>2. /\ auditRun' \in AuditRecord /\ auditRun'.pc = "copying source" /\ auditRun'.selected = auditRun.selected
        /\ auditRun'.quiet = auditRun.quiet /\ (auditRun'.west <=> zone < 0)
    BY <1>2, <1>4, <2>1 DEF AuditRecord
  <2>3. auditRun.selected # NoPackage => auditRun.selected \in OutputNames
    BY <1>2 DEF AuditRecord
  <2>4. ASSUME auditRun.quiet, auditRun.selected # NoPackage, outputs[auditRun.selected].quiet
        PROVE  \/ zone < 0 \/ auditRun.selected \in leftBehind
               \/ outputs[auditRun.selected].commit = content
    BY <1>2, <1>4, <2>3, <2>4, CurrentShowsTree DEF AuditOK
  <2>5. UNCHANGED <<outputs, leftBehind, content>>
    BY <1>2 DEF AuditOnly, treeVars, outputVars
  <2>6. AuditOK'
    BY <1>2, <2>2, <2>4, <2>5 DEF AuditOK
  <2> QED BY <1>2, <2>6, AuditMoves DEF ShowsOneVersion
<1> QED BY <1>1, <1>3, <1>4

LEMMA AuditCopiesSourceInv ==
    ASSUME ReleaseInv, AuditCopiesSource
    PROVE  ReleaseInv'
<1> USE DEF ReleaseInv
<1>1. /\ auditRun.pc = "copying source"
      /\ auditRun' = [auditRun EXCEPT !.pc = "copying release", !.copied = content]
      /\ AuditOnly /\ UNCHANGED <<now, auditFolder, auditZip, outputs, leftBehind, content>>
      /\ auditRun \in AuditRecord /\ content \in Nat
  BY DEF AuditCopiesSource, SourceFiles, Folders, AuditOK, AuditOnly, treeVars, outputVars, TreeOK
<1>2. /\ auditRun' \in AuditRecord /\ auditRun'.pc = "copying release" /\ auditRun'.selected = auditRun.selected
      /\ auditRun'.quiet = auditRun.quiet /\ auditRun'.west = auditRun.west /\ auditRun'.copied = content
  BY <1>1 DEF AuditRecord
<1>3. AuditOK'
  <2>1. auditRun.quiet /\ auditRun.selected # NoPackage =>
          /\ outputs[auditRun.selected] # NoPackage
          /\ outputs[auditRun.selected].official /\ outputs[auditRun.selected].intact
          /\ outputs[auditRun.selected].quiet =>
               \/ auditRun.west \/ auditRun.selected \in leftBehind
               \/ outputs[auditRun.selected].commit = content
    BY <1>1 DEF AuditOK
  <2> HIDE DEF ReleaseInv
  <2>2. auditRun'.quiet <=> auditRun.quiet
    BY <1>2
  <2>3. auditRun'.west <=> auditRun.west
    BY <1>2
  <2>4. UNCHANGED <<outputs, leftBehind, content>> /\ auditRun'.selected = auditRun.selected
    BY <1>1, <1>2
  <2>5. auditRun'.quiet /\ auditRun'.selected # NoPackage =>
          /\ outputs'[auditRun'.selected] # NoPackage
          /\ outputs'[auditRun'.selected].official /\ outputs'[auditRun'.selected].intact
          /\ outputs'[auditRun'.selected].quiet =>
               \/ auditRun'.west \/ auditRun'.selected \in leftBehind'
               \/ outputs'[auditRun'.selected].commit = content'
    BY <2>1, <2>2, <2>3, <2>4
  <2>6. auditRun' \in AuditRecord /\ auditRun'.copied = content'
    BY <1>2, <2>4
  <2> QED BY <2>5, <2>6 DEF AuditOK
<1> QED BY <1>1, <1>3, AuditMoves DEF ShowsOneVersion

LEMMA AuditCopiesReleaseInv ==
    ASSUME ReleaseInv, AuditCopiesRelease
    PROVE  ReleaseInv'
<1> USE DEF ReleaseInv
<1> DEFINE package == outputs[auditRun.selected]
           folder == [official |-> package.official /\ package.intact, same |-> package.copied = {auditRun.copied},
                      west |-> auditRun.west, left |-> auditRun.selected \in leftBehind,
                      quiet |-> auditRun.quiet /\ package.quiet]
           alone == [official |-> TRUE, same |-> TRUE, west |-> FALSE, left |-> FALSE, quiet |-> auditRun.quiet]
<1>1. /\ auditRun.pc = "copying release" /\ auditRun' = [NoAudit EXCEPT !.pc = "packing"]
      /\ auditFolder' = IF auditRun.selected = NoPackage \/ package = NoPackage THEN alone ELSE folder
      /\ AuditOnly /\ UNCHANGED <<now, auditZip>> /\ auditRun \in AuditRecord
  BY DEF AuditCopiesRelease, AuditOK
<1>2. AuditOK'
  <2>1. auditRun' \in AuditRecord /\ auditRun'.pc = "packing"
    BY <1>1 DEF NoAudit, AuditRecord
  <2> QED BY <2>1 DEF AuditOK
<1>3. ShowsOneVersion(alone)
  BY DEF ShowsOneVersion
<1>4. ASSUME auditRun.selected # NoPackage, package # NoPackage PROVE ShowsOneVersion(folder)
  <2> SUFFICES ASSUME auditRun.quiet, package.quiet
               PROVE  /\ package.official /\ package.intact
                      /\ package.copied = {auditRun.copied} \/ auditRun.west \/ auditRun.selected \in leftBehind
    BY DEF ShowsOneVersion
  <2>1. auditRun.selected \in OutputNames
    BY <1>1, <1>4 DEF AuditRecord
  <2>2. /\ package.official /\ package.intact /\ (auditRun.west \/ auditRun.selected \in leftBehind \/ package.commit = content)
        /\ auditRun.copied = content
    BY <1>1, <1>4 DEF AuditOK
  <2>3. package.copied = {package.commit}
    BY <1>4, <2>1, <2>2 DEF OutputOK
  <2> QED BY <2>2, <2>3
<1>5. ShowsOneVersion(auditFolder)'
  <2>1. \/ auditFolder' = alone
        \/ auditRun.selected # NoPackage /\ package # NoPackage /\ auditFolder' = folder
    <3> HIDE DEF alone, folder, package
    <3> QED BY <1>1
  <2> HIDE DEF alone, folder
  <2> QED BY <1>3, <1>4, <2>1 DEF ShowsOneVersion
<1> QED BY <1>1, <1>2, <1>5, AuditMoves DEF ShowsOneVersion

LEMMA AuditEndsInv ==
    ASSUME ReleaseInv, AuditExists \/ AuditPacks \/ AuditKilled
    PROVE  ReleaseInv'
<1> USE DEF ReleaseInv
<1>1. /\ auditRun' = NoAudit /\ AuditOnly /\ (now' = now \/ now' = now + 1) /\ auditFolder' = auditFolder
      /\ auditZip' = auditZip \/ auditZip' = auditFolder
  BY DEF AuditExists, AuditPacks, AuditKilled, Folders, TimePasses
<1>2. ShowsOneVersion(auditFolder)' /\ ShowsOneVersion(auditZip)'
  BY <1>1 DEF ShowsOneVersion
<1> QED BY <1>1, <1>2, NoAuditOK, AuditMoves

LEMMA ReleaseStepInv ==
    ASSUME ReleaseInv, [ReleaseNext]_releaseVars
    PROVE  ReleaseInv'
<1>1. CASE UNCHANGED releaseVars
  <2>1. TreeOK' /\ RunOK' /\ AuditOK'
    BY <1>1 DEF releaseVars, ReleaseInv, TreeOK, RunOK, AuditOK
  <2>2. ASSUME NEW n \in OutputNames PROVE OutputOK(n)'
    BY <1>1 DEF releaseVars, ReleaseInv, OutputOK, BuiltAt
  <2>3. outputs' = [n \in OutputNames |-> outputs'[n]]
    BY <1>1 DEF releaseVars, ReleaseInv
  <2>4. ShowsOneVersion(auditFolder)' /\ ShowsOneVersion(auditZip)'
    BY <1>1 DEF releaseVars, ReleaseInv, ShowsOneVersion
  <2> QED BY <2>1, <2>2, <2>3, <2>4 DEF ReleaseInv
<1>2. CASE DeveloperNext
  BY <1>2, DeveloperInv, CheckoutInv, CommitElsewhereInv, AlterInv DEF DeveloperNext
<1>3. CASE PipelineNext
  BY <1>3, ReleaseBeginsInv, IdentityPreflightInv, PrepareInv, RunOnlyInv, RemoveOldOutputInv, PublishInv,
     ScratchInv DEF PipelineNext
<1>4. CASE AuditPackageNext
  BY <1>4, AuditBeginsInv, AuditRemovesOldInv, AuditChecksInv, AuditCopiesSourceInv, AuditCopiesReleaseInv,
     AuditEndsInv DEF AuditPackageNext
<1> QED BY <1>1, <1>2, <1>3, <1>4 DEF ReleaseNext

\* What is published as official is the commit it names and the ignored files there
\* were when the tree was found clean, unless somebody disturbed the run
\* (release/release.py, release/package.py), for every number of edits, commits,
\* checkouts, builds and faults.
THEOREM PublishedIsTheCommit == ReleaseSpec => []PublishedIsItsCommit
<1>1. ReleaseInv => PublishedIsItsCommit
  BY DEF ReleaseInv, OutputOK, PublishedIsItsCommit
<1> QED BY <1>1, ReleaseInitInv, ReleaseStepInv, PTL DEF ReleaseSpec

\* A complete audit package shows an official release beside the source it was
\* built from, but for changes meanwhile, time zones west of UTC and moves of HEAD to
\* commits that are not newer (release/audit_package.py).
THEOREM AuditShowsTheVersion == ReleaseSpec => []AuditShowsOneVersion
<1>1. ReleaseInv => AuditShowsOneVersion
  BY DEF ReleaseInv, ShowsOneVersion, AuditShowsOneVersion
<1> QED BY <1>1, ReleaseInitInv, ReleaseStepInv, PTL DEF ReleaseSpec

(***************************************************************************)
(* Release: types                                                          *)
(***************************************************************************)

\* The clock and the tree stay within their bounds.
LEMMA TreeTypes ==
    ASSUME ReleaseInv, ReleaseTypeOK, [ReleaseNext]_releaseVars
    PROVE  /\ now' \in 0..MaxTime /\ edits' \in 0..MaxEdits /\ {head', content'} \subseteq 0..edits'
           /\ commits' \subseteq (0..edits') \X (0..now')
           /\ edits' = edits \/ edits' = edits + 1
<1>1. /\ now \in 0..MaxTime /\ edits \in 0..MaxEdits /\ {head, content} \subseteq 0..edits
      /\ commits \subseteq (0..edits) \X (0..now)
      /\ MaxTime \in Nat /\ MaxEdits \in Nat
  BY ReleaseAssumption DEF ReleaseTypeOK, ReleaseAssumption
<1>2. now' = now \/ TimePasses
  <2>1. DeveloperNext => now' = now \/ TimePasses
    BY DEF DeveloperNext, Edit, Litter, Commit, CommitElsewhere, Checkout, Alter
  <2>2. PipelineNext => now' = now \/ TimePasses
    BY DEF PipelineNext, ReleaseBegins, IdentityPreflight, SourceChecked, Identify, GatesPass, GateFails,
           PrepareBegins, PrepareEnds, PrepareFails, DockerGates, DockerGatesFail, FinalizeValid,
           FinalizeInvalid, RemoveOldOutput, Publish, PublishFails, ReleaseKilled, Scratch, ReleaseOnly
  <2>3. AuditPackageNext => now' = now \/ TimePasses
    BY DEF AuditPackageNext, AuditBegins, AuditRemovesOld, AuditExists, AuditChecks, AuditCopiesSource,
           AuditCopiesRelease, AuditPacks, AuditKilled, Folders
  <2> QED BY <2>1, <2>2, <2>3 DEF ReleaseNext, releaseVars
<1>3. \/ Edit \/ Litter \/ Commit \/ CommitElsewhere \/ (\E commit \in commits : Checkout(commit))
      \/ UNCHANGED treeVars
  <2>1. DeveloperNext => \/ Edit \/ Litter \/ Commit \/ CommitElsewhere
                         \/ (\E commit \in commits : Checkout(commit)) \/ UNCHANGED treeVars
    BY DEF DeveloperNext, Alter, OutputBecomes
  <2>2. PipelineNext => UNCHANGED treeVars
    BY DEF PipelineNext, ReleaseBegins, IdentityPreflight, GatesPass, GateFails,
           PrepareBegins, PrepareEnds, PrepareFails, DockerGates, DockerGatesFail, FinalizeValid,
           FinalizeInvalid, RemoveOldOutput, Publish, PublishFails, ReleaseKilled, Scratch, ReleaseOnly,
           OutputBecomes, treeVars
  <2>3. AuditPackageNext => UNCHANGED treeVars
    BY DEF AuditPackageNext, AuditBegins, AuditRemovesOld, AuditExists, AuditChecks, AuditCopiesSource,
           AuditCopiesRelease, AuditPacks, AuditKilled, AuditOnly
  <2> QED BY <2>1, <2>2, <2>3 DEF ReleaseNext, releaseVars, treeVars
<1>4. now' \in 0..MaxTime /\ now <= now'
  BY <1>1, <1>2 DEF TimePasses
<1>5. edits' = edits \/ NewContent
  BY <1>3 DEF Edit, Litter, Commit, CommitElsewhere, Checkout, treeVars
<1>6. edits' \in 0..MaxEdits /\ (edits' = edits \/ edits' = edits + 1)
  BY <1>1, <1>5 DEF NewContent
<1>7. commits \subseteq (0..edits') \X (0..now')
  BY <1>1, <1>4, <1>6
<1>8. commits' \subseteq (0..edits') \X (0..now')
  <2>1. CASE Commit
    <3>1. <<content, now'>> \in (0..edits') \X (0..now')
      BY <1>1, <1>4, <1>6
    <3> QED BY <2>1, <3>1, <1>7 DEF Commit
  <2>2. CASE CommitElsewhere
    <3>1. PICK time \in 0..now : commits' = commits \cup {<<edits', time>>}
      BY <2>2 DEF CommitElsewhere
    <3>2. <<edits', time>> \in (0..edits') \X (0..now')
      BY <1>1, <1>4, <1>6
    <3> QED BY <3>1, <3>2, <1>7
  <2>3. CASE UNCHANGED commits
    BY <2>3, <1>7
  <2> QED BY <1>3, <2>1, <2>2, <2>3 DEF Edit, Litter, Checkout, treeVars
<1>9. {head', content'} \subseteq 0..edits'
  <2>1. CASE \E commit \in commits : Checkout(commit)
    <3>1. PICK commit \in commits : head' = commit[1] /\ content' = commit[1]
      BY <2>1 DEF Checkout
    <3>2. commit \in (0..edits') \X (0..now')
      BY <1>7
    <3> QED BY <3>1, <3>2
  <2>2. CASE \/ UNCHANGED <<head, content>>
             \/ UNCHANGED head /\ content' = edits'
             \/ UNCHANGED content /\ head' = content
    BY <1>1, <1>6, <2>2
  <2> QED BY <1>3, <2>1, <2>2 DEF Edit, Litter, Commit, CommitElsewhere, treeVars
<1> QED BY <1>4, <1>6, <1>8, <1>9

CopiedOf(copied) == copied \subseteq 0..edits

\* What a run has copied, and what an output holds, are contents there have been.
LEMMA CopiedTypes ==
    ASSUME ReleaseInv, ReleaseTypeOK, CopiedOf(release.copied), [ReleaseNext]_releaseVars
    PROVE  /\ CopiedOf(release.copied)'
           /\ \A n \in OutputNames : outputs'[n] # NoPackage => CopiedOf(outputs[n].copied)'
<1>1. edits \in Nat /\ content \in 0..edits /\ (edits' = edits \/ edits' = edits + 1)
  BY TreeTypes DEF ReleaseInv, TreeOK, ReleaseTypeOK
<1>2. \A copied : CopiedOf(copied) => copied \subseteq 0..edits'
  BY <1>1 DEF CopiedOf
<1>3. CopiedOf({}) /\ CopiedOf({content})
  BY <1>1 DEF CopiedOf
<1>4. release \in RunRecord /\ outputs = [n \in OutputNames |-> outputs[n]]
  BY DEF ReleaseInv, RunOK
<1>5. \A n \in OutputNames : outputs[n] # NoPackage => CopiedOf(outputs[n].copied) /\ outputs[n] \in PackageRecord
  BY DEF ReleaseTypeOK, CopiedOf, ReleaseInv, OutputOK
<1>6. NoRun.copied = {}
  BY DEF NoRun
<1>7. CopiedOf(release'.copied)
  <2>1. ASSUME NEW pc \in ReleasePcs, release' = [release EXCEPT !.pc = pc] PROVE CopiedOf(release'.copied)
    BY <2>1, <1>4 DEF RunRecord
  <2>2. CASE DeveloperNext
    <3>1. release'.copied = release.copied
      BY <2>2, <1>4 DEF DeveloperNext, Edit, Litter, Commit, CommitElsewhere, Checkout, Alter, Disturb, RunRecord
    <3> QED BY <3>1
  <2>3. CASE UNCHANGED release \/ release' = NoRun
    BY <2>3, <1>3, <1>6
  <2>4. CASE PipelineNext
    <3>1. CASE \E name \in {0, Named}, force \in BOOLEAN : ReleaseBegins(name, force)
      BY <3>1, <1>3 DEF ReleaseBegins, NoRun
    <3>2. CASE IdentityPreflight
      BY <3>2, <2>3, <1>4 DEF IdentityPreflight, SourceChecked, Identify, RunRecord
    <3>3. CASE PrepareBegins \/ PrepareEnds
      <4>1. release' = NoRun \/ release'.copied = release.copied \cup {content}
        BY <3>3, <1>4 DEF PrepareBegins, PrepareEnds, Collected, RunRecord
      <4> QED BY <4>1, <2>3, <1>3 DEF CopiedOf
    <3>4. CASE GatesPass \/ DockerGates \/ RemoveOldOutput \/ FinalizeValid
      <4>1. release' = NoRun \/ \E pc \in ReleasePcs : release' = [release EXCEPT !.pc = pc]
        BY <3>4 DEF GatesPass, DockerGates, RemoveOldOutput, FinalizeValid, Step, ReleasePcs
      <4> QED BY <4>1, <2>1, <2>3
    <3> QED BY <2>3, <2>4, <3>1, <3>2, <3>3, <3>4
            DEF PipelineNext, GateFails, PrepareFails, DockerGatesFail, FinalizeInvalid, Publish, PublishFails,
                ReleaseKilled, Scratch, EndsRun
  <2>5. CASE AuditPackageNext
    <3>1. UNCHANGED release
      BY <2>5 DEF AuditPackageNext, AuditBegins, AuditRemovesOld, AuditExists, AuditChecks, AuditCopiesSource,
                  AuditCopiesRelease, AuditPacks, AuditKilled, AuditOnly
    <3> QED BY <3>1, <2>3
  <2> QED BY <2>2, <2>3, <2>4, <2>5 DEF ReleaseNext, releaseVars
<1>8. \A n \in OutputNames : outputs'[n] # NoPackage => CopiedOf(outputs'[n].copied)
  <2>1. CASE UNCHANGED outputs
    BY <2>1, <1>5
  <2>2. ASSUME NEW n \in OutputNames, NEW package, OutputBecomes(n, package),
               package = NoPackage \/ CopiedOf(package.copied)
        PROVE  \A m \in OutputNames : outputs'[m] # NoPackage => CopiedOf(outputs'[m].copied)
    BY <2>2, <1>4, <1>5 DEF OutputBecomes
  <2>3. CASE RemoveOldOutput \/ Publish
    <3>1. Package(release, TRUE).copied = release.copied /\ release.name \in OutputNames
      BY <1>4 DEF Package, RunRecord
    <3>2. CopiedOf(Package(release, TRUE).copied)
      BY <3>1
    <3> QED BY <2>3, <2>2, <3>1, <3>2 DEF RemoveOldOutput, Publish
  <2>4. CASE \E force \in BOOLEAN : Scratch(force)
    <3> DEFINE package == Package(Collected(NoRun), FALSE)
    <3>1. package.copied = {content}
      BY DEF Package, NoRun, Collected
    <3>2. Named \in OutputNames /\ OutputBecomes(Named, package)
      BY <2>4 DEF Scratch, OutputNames
    <3> HIDE DEF package
    <3> QED BY <1>3, <2>2, <3>1, <3>2
  <2>5. CASE \E n \in OutputNames : Alter(n)
    <3>1. PICK n \in OutputNames : Alter(n)
      BY <2>5
    <3> DEFINE package == [outputs[n] EXCEPT !.intact = FALSE]
    <3>2. CopiedOf(package.copied) /\ OutputBecomes(n, package)
      BY <3>1, <1>5 DEF Alter, PackageRecord
    <3> HIDE DEF package
    <3> QED BY <2>2, <3>2
  <2>6. DeveloperNext => UNCHANGED outputs \/ \E n \in OutputNames : Alter(n)
    BY DEF DeveloperNext, Edit, Litter, Commit, CommitElsewhere, Checkout, outputVars
  <2>7. PipelineNext => \/ UNCHANGED outputs \/ RemoveOldOutput \/ Publish
                        \/ \E force \in BOOLEAN : Scratch(force)
    BY DEF PipelineNext, ReleaseBegins, IdentityPreflight, GatesPass, GateFails,
           PrepareBegins, PrepareEnds, PrepareFails, DockerGates, DockerGatesFail, FinalizeValid,
           FinalizeInvalid, PublishFails, ReleaseKilled, outputVars
  <2>8. AuditPackageNext => UNCHANGED outputs
    BY DEF AuditPackageNext, AuditBegins, AuditRemovesOld, AuditExists, AuditChecks, AuditCopiesSource,
           AuditCopiesRelease, AuditPacks, AuditKilled, AuditOnly, outputVars
  <2> QED BY <2>1, <2>3, <2>4, <2>5, <2>6, <2>7, <2>8 DEF ReleaseNext, releaseVars
<1>9. CopiedOf(release.copied)' = (release'.copied \subseteq 0..edits')
  BY DEF CopiedOf
<1>10. ASSUME NEW n \in OutputNames PROVE CopiedOf(outputs[n].copied)' = (outputs'[n].copied \subseteq 0..edits')
  BY DEF CopiedOf
<1> QED BY <1>2, <1>7, <1>8, <1>9, <1>10

AuditPackages ==
    {NoPackage} \cup [official : BOOLEAN, same : BOOLEAN, west : BOOLEAN, left : BOOLEAN, quiet : BOOLEAN]

LEMMA AuditTypes ==
    ASSUME ReleaseInv, {auditFolder, auditZip} \subseteq AuditPackages, [ReleaseNext]_releaseVars
    PROVE  {auditFolder', auditZip'} \subseteq AuditPackages
<1>1. CASE AuditCopiesRelease
  <2>1. /\ auditRun.west \in BOOLEAN /\ auditRun.quiet \in BOOLEAN
        /\ auditRun.selected \in OutputNames \cup {NoPackage}
        /\ \A n \in OutputNames : outputs[n] # NoPackage => outputs[n] \in PackageRecord
    BY DEF ReleaseInv, AuditOK, AuditRecord, OutputOK
  <2> DEFINE package == outputs[auditRun.selected]
             same == package.copied = {auditRun.copied}
             left == auditRun.selected \in leftBehind
             official == package.official /\ package.intact
             quiet == auditRun.quiet /\ package.quiet
  <2>2. same \in BOOLEAN /\ left \in BOOLEAN /\ official \in BOOLEAN /\ quiet \in BOOLEAN
    OBVIOUS
  <2>3. \/ auditFolder' = [official |-> TRUE, same |-> TRUE, west |-> FALSE, left |-> FALSE, quiet |-> auditRun.quiet]
        \/ auditFolder' = [official |-> official, same |-> same, west |-> auditRun.west, left |-> left, quiet |-> quiet]
    BY <1>1, Zenon DEF AuditCopiesRelease
  <2> HIDE DEF same, left, official, quiet
  <2>4. auditFolder' \in AuditPackages
    <3>1. /\ auditRun.west \in BOOLEAN /\ auditRun.quiet \in BOOLEAN /\ TRUE \in BOOLEAN /\ FALSE \in BOOLEAN
          /\ \A a, b, c, d, e \in BOOLEAN :
               [official |-> a, same |-> b, west |-> c, left |-> d, quiet |-> e] \in AuditPackages
      BY <2>1 DEF AuditPackages
    <3>2. [official |-> TRUE, same |-> TRUE, west |-> FALSE, left |-> FALSE, quiet |-> auditRun.quiet] \in AuditPackages
      BY <3>1, Zenon
    <3>3. [official |-> official, same |-> same, west |-> auditRun.west, left |-> left, quiet |-> quiet] \in AuditPackages
      BY <2>2, <3>1, Zenon
    <3> QED BY <2>3, <3>2, <3>3, Zenon
  <2> QED BY <1>1, <2>4 DEF AuditCopiesRelease
<1>2. CASE AuditRemovesOld \/ AuditPacks
  BY <1>2 DEF AuditRemovesOld, AuditPacks, AuditPackages
<1>3. CASE UNCHANGED <<auditFolder, auditZip>>
  BY <1>3
<1>4. DeveloperNext => UNCHANGED <<auditFolder, auditZip>>
  BY DEF DeveloperNext, Edit, Litter, Commit, CommitElsewhere, Checkout, Alter, OutputBecomes, auditVars
<1>5. PipelineNext => UNCHANGED <<auditFolder, auditZip>>
  BY DEF PipelineNext, ReleaseBegins, IdentityPreflight, GatesPass, GateFails,
         PrepareBegins, PrepareEnds, PrepareFails, DockerGates, DockerGatesFail, FinalizeValid,
         FinalizeInvalid, RemoveOldOutput, Publish, PublishFails, ReleaseKilled, Scratch, ReleaseOnly,
         OutputBecomes, auditVars
<1>6. AuditPackageNext => \/ AuditCopiesRelease \/ AuditRemovesOld \/ AuditPacks
                          \/ UNCHANGED <<auditFolder, auditZip>>
  BY DEF AuditPackageNext, AuditBegins, AuditExists, AuditChecks, AuditCopiesSource, AuditKilled, Folders
<1> QED BY <1>1, <1>2, <1>3, <1>4, <1>5, <1>6 DEF ReleaseNext, releaseVars

\* Whatever overlaps, an output holds contents there have been by then, and no
\* commit is of the future (release/release.py, release/package.py).
THEOREM ReleaseTyped == ReleaseSpec => []ReleaseTypeOK
<1> DEFINE Inv == ReleaseInv /\ ReleaseTypeOK /\ CopiedOf(release.copied)
<1>1. ReleaseInit => Inv
  <2> SUFFICES ASSUME ReleaseInit PROVE ReleaseTypeOK /\ CopiedOf(release.copied)
    BY ReleaseInitInv
  <2>1. /\ now = 0 /\ head = 0 /\ committed = 0 /\ content = 0 /\ ignored = 0 /\ edits = 0
        /\ commits = {<<0, 0>>} /\ auditFolder = NoPackage /\ auditZip = NoPackage
        /\ release.copied = {} /\ MaxTime \in Nat /\ MaxEdits \in Nat
    BY ReleaseAssumption DEF ReleaseInit, NoRun, ReleaseAssumption
  <2>2. PICK first \in {NoPackage, Package([NoRun EXCEPT !.name = 0, !.copied = {0}, !.strays = {0}], TRUE)} :
          outputs = [n \in OutputNames |-> IF n = 0 THEN first ELSE NoPackage]
    BY DEF ReleaseInit
  <2>3. first # NoPackage => first.copied = {0}
    BY <2>2 DEF Package, NoRun
  <2>4. \A n \in OutputNames : outputs[n] # NoPackage => outputs[n].copied \subseteq 0..edits
    BY <2>1, <2>2, <2>3
  <2> QED BY <2>1, <2>4 DEF ReleaseTypeOK, CopiedOf
<1>2. Inv /\ [ReleaseNext]_releaseVars => Inv'
  <2> SUFFICES ASSUME Inv, [ReleaseNext]_releaseVars PROVE ReleaseTypeOK' /\ CopiedOf(release.copied)'
    BY ReleaseStepInv
  <2>1. committed' <= now' /\ ignored' \in 0..1
    BY ReleaseStepInv DEF ReleaseInv, TreeOK
  <2>2. {auditFolder, auditZip}' \subseteq AuditPackages
    BY AuditTypes DEF ReleaseTypeOK, AuditPackages
  <2> QED BY <2>1, <2>2, TreeTypes, CopiedTypes DEF ReleaseTypeOK, AuditPackages, CopiedOf
<1>3. Inv => ReleaseTypeOK
  OBVIOUS
<1> HIDE DEF Inv
<1> QED BY <1>1, <1>2, <1>3, PTL DEF ReleaseSpec

(***************************************************************************)
(* Deployment: the order of versions                                       *)
(***************************************************************************)

\* What FirstDifference returns: the place where two sequences differ first, and 0
\* when there is none.
LEMMA FirstDifferenceIs ==
    ASSUME NEW s, NEW t, Len(s) \in Nat, Len(t) \in Nat
    PROVE  \/ DifferAt(FirstDifference(s, t), s, t) /\ FirstDifference(s, t) # 0
           \/ /\ FirstDifference(s, t) = 0
              /\ \A i \in 1..Len(s) \cap 1..Len(t) : s[i] = t[i]
<1> DEFINE places == 1..Len(s) \cap 1..Len(t)
           differ == {i \in places : s[i] # t[i]}
<1>1. CASE differ = {}
  <2>1. FirstDifference(s, t) = 0
    BY <1>1 DEF FirstDifference
  <2> QED BY <1>1, <2>1
<1>2. CASE differ # {}
  <2> DEFINE first == CHOOSE i \in differ : \A j \in differ : i <= j
  <2>1. differ \in SUBSET Nat
    OBVIOUS
  <2>2. \E i \in differ : \A j \in differ : i <= j
    <3> HIDE DEF differ
    <3> QED BY <1>2, <2>1, LeastOf
  <2>3. first \in differ /\ \A j \in differ : first <= j
    <3> HIDE DEF differ
    <3> QED BY <2>2
  <2>4. FirstDifference(s, t) = first
    BY <1>2 DEF FirstDifference
  <2>5. first \in places /\ s[first] # t[first] /\ first \in Nat /\ first # 0
    <3> HIDE DEF first
    <3> QED BY <2>3
  <2>6. ASSUME NEW j \in 1..(first - 1) PROVE s[j] = t[j]
    <3> HIDE DEF first
    <3>1. j \in places /\ ~(first <= j)
      BY <2>5
    <3> QED BY <3>1, <2>3
  <2> HIDE DEF first
  <2> QED BY <2>4, <2>5, <2>6 DEF DifferAt
<1> QED BY <1>1, <1>2

LEMMA CoreOf ==
    ASSUME NEW v \in AppVersions
    PROVE  Core(v) \in [1..3 -> Nat] /\ Len(Core(v)) = 3
<1>1. Semver[v].major \in Nat /\ Semver[v].minor \in Nat /\ Semver[v].patch \in Nat
  BY SemverAssumption
<1> QED BY <1>1 DEF Core

LEMMA PreOf ==
    ASSUME NEW v \in AppVersions
    PROVE  /\ Pre(v) \in Seq([numeric : BOOLEAN, value : Nat]) /\ Len(Pre(v)) \in Nat
           /\ Pre(v) = <<>> \/ Len(Pre(v)) > 0
<1>1. Pre(v) \in Seq([numeric : BOOLEAN, value : Nat])
  BY SemverAssumption DEF Pre
<1> QED BY <1>1

\* The comparison of the restore preflight (_compare_semver) keeps the precedence of
\* SemVer: what it calls older has the lower rank.
THEOREM OlderHasLowerRank ==
    ASSUME NEW l \in AppVersions, NEW r \in AppVersions, OlderVersion(l, r)
    PROVE  Rank[l] < Rank[r]
<1> DEFINE core == FirstDifference(Core(l), Core(r))
           pre == FirstDifference(Pre(l), Pre(r))
<1>1. Len(Core(l)) = 3 /\ Len(Core(r)) = 3
  BY CoreOf
<1>2. CASE core # 0
  <2>1. DifferAt(core, Core(l), Core(r))
    BY <1>1, <1>2, FirstDifferenceIs
  <2>2. Core(l)[core] < Core(r)[core]
    BY <1>2 DEF OlderVersion
  <2>3. core \in 1..3
    BY <1>1, <2>1 DEF DifferAt
  <2> HIDE DEF core
  <2> QED BY <2>1, <2>2, <2>3, SemverAssumption
<1>3. CASE core = 0
  <2>1. \A i \in 1..3 : Core(l)[i] = Core(r)[i]
    <3>1. DifferAt(0, Core(l), Core(r)) => FALSE
      BY <1>1 DEF DifferAt
    <3> QED BY <1>1, <1>3, <3>1, FirstDifferenceIs
  <2>2. Core(l) = Core(r)
    BY <2>1, CoreOf
  <2>3. CASE Pre(l) = <<>> \/ Pre(r) = <<>>
    <3>1. Pre(l) # <<>> /\ Pre(r) = <<>>
      BY <1>3, <2>3 DEF OlderVersion
    <3> QED BY <2>2, <3>1, SemverAssumption
  <2>4. CASE Pre(l) # <<>> /\ Pre(r) # <<>> /\ pre # 0
    <3>1. DifferAt(pre, Pre(l), Pre(r))
      BY <2>4, PreOf, FirstDifferenceIs
    <3>2. IdentifierBefore(Pre(l)[pre], Pre(r)[pre])
      BY <1>3, <2>4 DEF OlderVersion
    <3>3. pre \in 1..Len(Pre(l))
      BY <3>1 DEF DifferAt
    <3> HIDE DEF pre
    <3> QED BY <2>2, <2>4, <3>1, <3>2, <3>3, SemverAssumption
  <2>5. CASE Pre(l) # <<>> /\ Pre(r) # <<>> /\ pre = 0
    <3>1. Len(Pre(l)) < Len(Pre(r))
      BY <1>3, <2>5 DEF OlderVersion
    <3>2. DifferAt(0, Pre(l), Pre(r)) => FALSE
      BY PreOf DEF DifferAt
    <3>3. \A i \in 1..Len(Pre(l)) \cap 1..Len(Pre(r)) : Pre(l)[i] = Pre(r)[i]
      BY <2>5, <3>2, PreOf, FirstDifferenceIs
    <3>4. \A i \in 1..Len(Pre(l)) : Pre(l)[i] = Pre(r)[i]
      BY <3>1, <3>3, PreOf
    <3> QED BY <2>2, <2>5, <3>1, <3>4, SemverAssumption
  <2> QED BY <2>3, <2>4, <2>5
<1> QED BY <1>2, <1>3

(***************************************************************************)
(* Deployment: what is started and restored                                *)
(***************************************************************************)

\* Every backup of the site names the version that made it, and until the site is
\* rolled back it holds nothing newer than the version it names; both unless an
\* image ran disguised.
BackupTold(b) ==
    /\ b.schema \in AppVersions /\ b.from \in AppVersions \cup {NoVersion}
    /\ ~disguised /\ b.from # NoVersion => b.label = b.from
    /\ ~disguised /\ ~rolledBack /\ b.label \in AppVersions => Rank[b.schema] <= Rank[b.label]

\* What the check let start serves the version it is, and the database is not newer
\* but for a rollback; both unless an image ran disguised.
RunsAsChecked ==
    running # Down =>
        /\ running \in [image : AppVersions, label : Labels]
        /\ ~disguised => running.label = running.image
        /\ ~disguised /\ ~rolledBack => Rank[schema] <= Rank[running.image]

DeploymentInv ==
    /\ RunsAsChecked
    /\ schema \in AppVersions /\ rolledBack \in BOOLEAN /\ disguised \in BOOLEAN
    /\ refusedOwn => disguised
    /\ \A b \in siteBackups : BackupTold(b)

LEMMA MigratedIs ==
    ASSUME NEW db \in AppVersions, NEW image \in AppVersions
    PROVE  /\ Migrated(db, image) \in AppVersions
           /\ Rank[db] <= Rank[image] => Rank[Migrated(db, image)] = Rank[image]
BY DeploymentAssumption DEF Migrated

\* The settings modules of the repository under which the check passes are those of
\* production, and there it compares the identity.
LEMMA CheckedIdentity ==
    ASSUME NEW image, NEW info, NEW label, NEW config,
           DeploySecure(image, info, label, config), config.module # "own"
    PROVE  ManageModule(config.module) = "prod" /\ IdentityFits(image, info, label)
BY DEF DeploySecure, LocalhostAllowed, ReadsEnvironment, ManageModule, IdentityValid

LEMMA StartContainerInv ==
    ASSUME DeploymentInv,
           NEW image \in AppVersions, NEW info \in BuildInfos, NEW label \in Labels, NEW config \in Configs,
           StartContainer(image, info, label, config)
    PROVE  DeploymentInv'
<1> USE DEF DeploymentInv
<1>1. /\ running' = [image |-> image, label |-> RuntimeLabel(image, info, label)]
      /\ schema' = IF ManageModule(config.module) = "dev" THEN schema ELSE Migrated(schema, image)
      /\ siteBackups' = siteBackups /\ refusedOwn' = refusedOwn
      /\ disguised' = (disguised \/ (config.module = "own" /\ ~IdentityFits(image, info, label)))
      /\ rolledBack' = (rolledBack \/ Rank[image] < Rank[schema])
      /\ DeploySecure(image, info, label, config)
  BY DEF StartContainer
<1>2. /\ disguised' \in BOOLEAN /\ rolledBack' \in BOOLEAN
      /\ ~disguised' => ~disguised /\ IdentityFits(image, info, label)
      /\ ManageModule(config.module) # "dev"
  BY <1>1, CheckedIdentity DEF ManageModule
<1>3. Rank[image] \in Nat /\ Rank[schema] \in Nat
  BY DeploymentAssumption
<1>4. /\ schema' \in AppVersions
      /\ ~rolledBack' => ~rolledBack /\ Rank[schema'] <= Rank[image]
  <2>1. schema' = Migrated(schema, image)
    BY <1>1, <1>2
  <2>2. ~rolledBack' => ~rolledBack /\ ~(Rank[image] < Rank[schema])
    BY <1>1
  <2>3. Rank[schema] <= Rank[image] => Rank[schema'] = Rank[image]
    BY <2>1, MigratedIs
  <2>4. ~(Rank[image] < Rank[schema]) => Rank[schema] <= Rank[image]
    BY <1>3
  <2>5. Rank[image] <= Rank[image]
    BY <1>3
  <2>6. schema' \in AppVersions
    BY <2>1, MigratedIs
  <2> QED BY <2>2, <2>3, <2>4, <2>5, <2>6
<1>5. /\ RuntimeLabel(image, info, label) \in Labels
      /\ ~disguised' => RuntimeLabel(image, info, label) = image
  BY <1>2, DeploymentAssumption DEF RuntimeLabel, IdentityFits, Labels
<1>6. RunsAsChecked'
  BY <1>1, <1>4, <1>5 DEF RunsAsChecked
<1>7. \A b \in siteBackups' : BackupTold(b)'
  BY <1>1, <1>2, <1>4 DEF BackupTold
<1> QED BY <1>1, <1>2, <1>4, <1>6, <1>7

LEMMA KeepsBackupInv ==
    ASSUME DeploymentInv, MakeBackup \/ \E backup \in Foreign : CopyBackup(backup)
    PROVE  DeploymentInv'
<1> USE DEF DeploymentInv
<1>1. UNCHANGED <<running, schema, rolledBack, refusedOwn, disguised>>
  BY DEF MakeBackup, CopyBackup
<1>2. CASE MakeBackup
  <2> DEFINE new == [label |-> running.label, schema |-> schema, from |-> running.image]
  <2>1. running # Down /\ siteBackups' = siteBackups \cup {new}
    BY <1>2 DEF MakeBackup
  <2>2. BackupTold(new)
    BY <2>1 DEF BackupTold, RunsAsChecked
  <2> HIDE DEF new
  <2> QED BY <1>1, <2>1, <2>2 DEF RunsAsChecked, BackupTold
<1>3. ASSUME NEW backup \in Foreign, CopyBackup(backup) PROVE DeploymentInv'
  <2> DEFINE new == [label |-> backup.label, schema |-> backup.schema, from |-> NoVersion]
  <2>1. siteBackups' = siteBackups \cup {new}
    BY <1>3 DEF CopyBackup
  <2>2. BackupTold(new)
    BY ForeignAssumption DEF BackupTold
  <2> HIDE DEF new
  <2> QED BY <1>1, <2>1, <2>2 DEF RunsAsChecked, BackupTold
<1> QED BY <1>2, <1>3

\* What the preflight does not block names a version that is not newer.
LEMMA DecisionIs ==
    ASSUME NEW full, NEW last, NEW current, Decision(full, last, current) # "BLOCK"
    PROVE  last \in AppVersions /\ current \in AppVersions /\ Rank[last] <= Rank[current]
<1>1. last \in AppVersions /\ current \in AppVersions
  BY DEF Decision, Parses
<1>2. last = current \/ OlderVersion(last, current)
  BY DEF Decision
<1>3. Rank[last] \in Nat /\ Rank[current] \in Nat
  BY <1>1, DeploymentAssumption
<1> QED BY <1>1, <1>2, <1>3, OlderHasLowerRank

LEMMA RestoreBackupInv ==
    ASSUME DeploymentInv, NEW full \in siteBackups, NEW last \in siteBackups, RestoreBackup(full, last)
    PROVE  DeploymentInv'
<1> USE DEF DeploymentInv
<1> DEFINE decision == Decision(full.label, last.label, running.label)
<1>1. /\ running # Down /\ UNCHANGED <<running, siteBackups, rolledBack, disguised>>
      /\ schema' = IF decision = "BLOCK" THEN schema ELSE Migrated(last.schema, running.image)
      /\ refusedOwn' = (refusedOwn \/ (decision = "BLOCK" /\ {full.from, last.from} = {running.image}))
  BY DEF RestoreBackup
<1>2. running.image \in AppVersions /\ (~disguised => running.label = running.image)
  BY <1>1 DEF RunsAsChecked
<1>3. BackupTold(full) /\ BackupTold(last)
  OBVIOUS
<1>4. refusedOwn' => disguised'
  <2>1. ASSUME ~disguised, decision = "BLOCK", {full.from, last.from} = {running.image} PROVE FALSE
    <3>1. full.from = running.image /\ last.from = running.image /\ running.image # NoVersion
      BY <2>1, <1>2, DeploymentAssumption
    <3>2. full.label = running.label /\ last.label = running.label
      BY <1>2, <1>3, <2>1, <3>1 DEF BackupTold
    <3> QED BY <1>2, <2>1, <3>2 DEF Decision, Parses
  <2> QED BY <1>1, <2>1
<1>5. CASE decision = "BLOCK"
  <2>1. schema' = schema
    BY <1>1, <1>5
  <2> HIDE DEF decision
  <2> QED BY <1>1, <1>4, <2>1 DEF RunsAsChecked, BackupTold
<1>6. CASE decision # "BLOCK"
  <2>1. last.label \in AppVersions /\ Rank[last.label] <= Rank[running.label]
    BY <1>6, DecisionIs
  <2>2. last.schema \in AppVersions
    BY <1>3 DEF BackupTold
  <2>3. Rank[last.schema] \in Nat /\ Rank[last.label] \in Nat /\ Rank[running.image] \in Nat
    BY <1>2, <2>1, <2>2, DeploymentAssumption
  <2>4. ~disguised /\ ~rolledBack => Rank[last.schema] <= Rank[running.image]
    BY <1>2, <1>3, <2>1, <2>3 DEF BackupTold
  <2>5. schema' = Migrated(last.schema, running.image)
    BY <1>1, <1>6
  <2>6. schema' \in AppVersions /\ (~disguised /\ ~rolledBack => Rank[schema'] = Rank[running.image])
    BY <1>2, <2>2, <2>4, <2>5, MigratedIs
  <2>7. RunsAsChecked'
    BY <1>1, <2>3, <2>6 DEF RunsAsChecked
  <2> HIDE DEF decision
  <2> QED BY <1>1, <1>4, <2>6, <2>7 DEF BackupTold
<1> QED BY <1>5, <1>6

LEMMA DeploymentStepInv ==
    ASSUME DeploymentInv, [DeployNext]_deployVars
    PROVE  DeploymentInv'
<1>1. CASE UNCHANGED deployVars
  BY <1>1 DEF deployVars, DeploymentInv, RunsAsChecked, BackupTold
<1>2. CASE StopContainer
  BY <1>2 DEF StopContainer, DeploymentInv, RunsAsChecked, BackupTold
<1>3. CASE \E image \in AppVersions, info \in BuildInfos, label \in Labels, config \in Configs :
               StartContainer(image, info, label, config)
  BY <1>3, StartContainerInv
<1>4. CASE MakeBackup \/ \E backup \in Foreign : CopyBackup(backup)
  BY <1>4, KeepsBackupInv
<1>5. CASE \E full, last \in siteBackups : RestoreBackup(full, last)
  BY <1>5, RestoreBackupInv
<1> QED BY <1>1, <1>2, <1>3, <1>4, <1>5 DEF DeployNext

\* A site that was let start restores what it backed up: the database is not newer
\* than the code but for a rollback, and no version refuses its own backups
\* (deploy/entrypoint.sh, core/deploy_security.py, version_preflight.py); both
\* whichever settings module of the repository the environment names, unless a
\* module of the site's own ran an image with another identity; for every list of
\* versions, of foreign backups and any number of backups.
THEOREM SiteRestoresOnceDeployed == DeploymentSpec => []DeployedSiteRestores
<1>1. DeployInit => DeploymentInv
  BY DEF DeployInit, DeploymentInv, RunsAsChecked
<1>2. DeploymentInv => DeployedSiteRestores
  BY DEF DeploymentInv, RunsAsChecked, DeployedSiteRestores, SchemaFollowsCode, OwnBackupsAllowed
<1> QED BY <1>1, <1>2, DeploymentStepInv, PTL DEF DeploymentSpec

\* The types of the site, for the same constants.
THEOREM DeploymentTyped == DeploymentSpec => []DeploymentTypeOK
<1>1. DeployInit => DeploymentInv
  BY DEF DeployInit, DeploymentInv, RunsAsChecked
<1>2. DeploymentInv => DeploymentTypeOK
  BY DEF DeploymentInv, RunsAsChecked, BackupTold, DeploymentTypeOK
<1> QED BY <1>1, <1>2, DeploymentStepInv, PTL DEF DeploymentSpec
=============================================================================
