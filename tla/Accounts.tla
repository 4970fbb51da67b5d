------------------------------ MODULE Accounts ------------------------------
(***************************************************************************)
(* The accounts of the site (app/accounts): administrators who edit users, *)
(* activate and deactivate them and set their passwords, each in a request *)
(* that checks rights when it begins, reads the row of the user and saves  *)
(* it later.                                                               *)
(*                                                                         *)
(* Simplifications. The groups of a user are reduced to the one that may   *)
(* change users; names are left out; a password is the number of the       *)
(* request that set it. Forms hold any values. New users have no part in   *)
(* the properties, and their creation is left out; so is the Django admin, *)
(* which shares the table but none of this code.                           *)
(***************************************************************************)
EXTENDS Naturals

CONSTANTS
    Accounts,     \* primary keys
    Superusers,   \* is_superuser: the site leaves them alone
    AccountForms  \* requests that change a user, numbered

ASSUME AccountsAssumption == Superusers \subseteq Accounts /\ AccountForms \subseteq Nat \ {0}

VARIABLES
    accounts,     \* [Accounts -> row: is_active, password]
    inGroup,      \* users in the group that may change users
    accountForms, \* [AccountForms -> request]
    replaced,     \* history: [Accounts -> passwords that were replaced]
    undone,       \* history: accounts whose password an overlapping edit put back,
                  \* until they get a new one
    lockout       \* history: how the last save may have taken the last rights, or "none"

accountVars == <<accounts, inGroup, accountForms, replaced, undone, lockout>>

Fields == {"password", "activate", "deactivate", "edit"}
AccountRow == [active : BOOLEAN, password : {0} \cup AccountForms]
NoForm == [pc |-> "new"]

AccountsInit ==
    /\ accounts = [u \in Accounts |-> [active |-> TRUE, password |-> 0]]
    /\ inGroup \in (SUBSET (Accounts \ Superusers)) \ {{}}
    /\ accountForms = [r \in AccountForms |-> NoForm]
    /\ replaced = [u \in Accounts |-> {}] /\ undone = {}
    /\ lockout = "none"

\* has_perm("accounts.change_user")
MayChange(u) == accounts[u].active /\ (u \in Superusers \/ u \in inGroup)

\* Mutant: the buttons let a user deactivate himself.
AllowedButton(r, u, kind, t) == t \notin Superusers

\* dispatch, get_object and its check: superusers are protected, and the button
\* does not deactivate the one who presses it.
Allowed(r, u, kind, t) == t \notin Superusers /\ (kind = "deactivate" => t # u)

FormBegins(r, u, kind, t) ==
    /\ accountForms[r].pc = "new"
    /\ MayChange(u) /\ Allowed(r, u, kind, t)
    /\ accountForms' = [accountForms EXCEPT ![r] = [pc |-> "read", by |-> u, kind |-> kind, target |-> t, row |-> accounts[t]]]
    /\ UNCHANGED <<accounts, inGroup, replaced, undone, lockout>>

\* How rights can be lost to the last user who has them: by one who had lost his
\* own meanwhile, by a superuser, or on the edit page by the user himself.
LossBy(r) ==
    LET form == accountForms[r] IN
    IF ~MayChange(form.by) THEN "overlap"
    ELSE IF form.by \in Superusers THEN "superuser"
    ELSE IF form.by = form.target /\ form.kind = "edit" THEN "edited himself"
    ELSE "none"

\* The row a request saves, and the passwords that are invalid from then on.
Saves(r, row, pc) ==
    LET u == accountForms[r].target IN
    /\ accounts' = [accounts EXCEPT ![u] = row]
    /\ replaced' = [replaced EXCEPT ![u] = IF row.password = accounts[u].password THEN @ ELSE @ \cup {accounts[u].password}]
    /\ lockout' = LossBy(r)
    /\ accountForms' = [accountForms EXCEPT ![r].pc = pc]
    /\ UNCHANGED inGroup

\* What the password page and the buttons do to a row.
Changed(row, r) ==
    IF accountForms[r].kind = "password" THEN [row EXCEPT !.password = r]
    ELSE [row EXCEPT !.active = accountForms[r].kind = "activate"]

\* Mutant: the row is saved as it was read.
WholeRowSaved(r) ==
    /\ accountForms[r].pc = "read" /\ accountForms[r].kind # "edit"
    /\ Saves(r, Changed(accountForms[r].row, r), "done")
    /\ UNCHANGED undone

\* save(update_fields=...)
FieldSaved(r) ==
    /\ accountForms[r].pc = "read" /\ accountForms[r].kind # "edit"
    /\ Saves(r, Changed(accounts[accountForms[r].target], r), "done")
    /\ undone' = IF accountForms[r].kind = "password" THEN undone \ {accountForms[r].target} ELSE undone

\* UserEditForm.save: every column of the row as it was read, with the ones of
\* the form, and then the groups.
RowSaved(r, active) ==
    LET form == accountForms[r] IN
    /\ form.pc = "read" /\ form.kind = "edit"
    /\ Saves(r, [form.row EXCEPT !.active = active], "groups")
    /\ undone' = IF form.row.password = accounts[form.target].password THEN undone ELSE undone \cup {form.target}

GroupsSet(r, member) ==
    LET form == accountForms[r] IN
    /\ form.pc = "groups"
    /\ inGroup' = IF member THEN inGroup \cup {form.target} ELSE inGroup \ {form.target}
    /\ lockout' = LossBy(r)
    /\ accountForms' = [accountForms EXCEPT ![r].pc = "done"]
    /\ UNCHANGED <<accounts, replaced, undone>>

\* The worker dies.
FormKilled(r) ==
    /\ accountForms[r].pc \in {"read", "groups"}
    /\ accountForms' = [accountForms EXCEPT ![r].pc = "done"]
    /\ UNCHANGED <<accounts, inGroup, replaced, undone, lockout>>

AccountsNext ==
    \E r \in AccountForms :
        \/ \E u, t \in Accounts, kind \in Fields : FormBegins(r, u, kind, t)
        \/ FieldSaved(r) \/ FormKilled(r)
        \/ \E b \in BOOLEAN : RowSaved(r, b) \/ GroupsSet(r, b)

AccountsSpec == AccountsInit /\ [][AccountsNext]_accountVars

-----------------------------------------------------------------------------

\* Types.
AccountsTypeOK ==
    /\ accounts \in [Accounts -> AccountRow]
    /\ inGroup \subseteq Accounts \ Superusers
    /\ \A u \in Accounts : replaced[u] \subseteq {0} \cup AccountForms

\* The administrators do not lock themselves out: when nobody of the group has the
\* right to change users, the last save was that of a superuser, of somebody who
\* edited himself, or of one who had lost the right since his request began, as when
\* two administrators take it from each other.
AdministratorsRemain == (\E u \in Accounts \ Superusers : MayChange(u)) \/ lockout # "none"

\* A password that was replaced is valid again only where an edit had read the
\* row before and saved it afterwards, and until the next one is set.
ReplacedPasswordsInvalid == \A u \in Accounts \ undone : accounts[u].password \notin replaced[u]

\* Overlapping edits of accounts neither lock the administrators out nor bring
\* passwords back, but for the reasons above.
AccountsKept == AdministratorsRemain /\ ReplacedPasswordsInvalid
=============================================================================
