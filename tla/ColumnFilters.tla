---------------------------- MODULE ColumnFilters ----------------------------
(***************************************************************************)
(* The column filters of a table of shipments, between two loads of its    *)
(* page: the popup of a column (static/js/column_filters.js), the server's *)
(* answers with the values of the column (FilterValuesView) and the filter *)
(* the page is loaded with next.                                            *)
(*                                                                         *)
(* Simplifications. Values are numbers, listed in their order; a search    *)
(* for a value finds that value. The bounds of a range and the text of a   *)
(* text filter are one value. Layout, focus and the chips above the table  *)
(* other than their remove buttons are left out. Requests carry no number  *)
(* in the code either: those in flight are a set.                          *)
(***************************************************************************)
EXTENDS Naturals, FiniteSets

CONSTANTS
    Columns,      \* columns filtered by value
    PlainColumns, \* columns filtered by range or by text
    NoColumn,
    ColumnValues, \* [Columns -> set of numbers]: what the table holds
    SearchedFor,  \* values that are searched for
    Limit,        \* FilterValuesView.LIMIT
    MaxInUrl,     \* values an address may hold (FILTER_QUERY_SAFE_LIMIT)
    MaxRequests   \* bound: requests in flight

Values == UNION {ColumnValues[f] : f \in Columns}

\* What is typed into the search box: a value, or nothing.
NoSearch == 0
Searches == {NoSearch} \cup SearchedFor

ASSUME ColumnsAssumption ==
    /\ NoColumn \notin Columns \cup PlainColumns /\ Columns \cap PlainColumns = {}
    /\ \A f \in Columns : ColumnValues[f] \subseteq Nat \ {0}
    /\ SearchedFor \subseteq Values

VARIABLES
    filters,  \* the address: [Columns \cup PlainColumns -> values]
    popup,    \* the popup and the variables of the script
    timer,    \* the search that waits 300 ms, or NoTimer
    requests, \* in flight: [column, search, checked: what to check in the answer]
    applied   \* what the page is loaded with next, and why; NotYet before

filterVars == <<filters, popup, timer, requests, applied>>

NoTimer == [search |-> NoSearch, checked |-> {}, on |-> FALSE]
NotYet == [pc |-> "not yet"]

\* column: activeField; url: filterUrl; listed: allVals, the values on the list;
\* more: filterHasMore; of: history, the request the list answers.
NoAnswer == [column |-> NoColumn, search |-> NoSearch]
Closed == [column |-> NoColumn, open |-> FALSE, url |-> NoColumn, listed |-> {}, more |-> FALSE,
           checked |-> {}, box |-> NoSearch, of |-> NoAnswer]

FiltersInit ==
    /\ \E f \in Columns, v \in Values \cup {NoSearch} :
           filters = [g \in Columns \cup PlainColumns |-> IF g = f THEN {v} \cap ColumnValues[f] ELSE {}]
    /\ popup = Closed /\ timer = NoTimer /\ requests = {} /\ applied = NotYet

\* The page stays until the filter is applied.
OnPage == applied = NotYet

\* _query_filter_values: the first values that match, and whether there are more.
Answer(f, search) ==
    LET found == IF f \notin Columns THEN {} ELSE {v \in ColumnValues[f] : search \in {NoSearch, v}}
        first == {v \in found : Cardinality({w \in found : w < v}) < Limit} IN
    [values |-> first, more |-> first # found]

Fetch(f, search, checked) ==
    /\ Cardinality(requests) < MaxRequests
    /\ requests' = requests \cup {[column |-> f, search |-> search, checked |-> checked]}

\* A click on the button of a column: a list that loads, with the values of the
\* filter checked, or the fields of a range or text filter.
OpenPopup(f) ==
    /\ OnPage /\ ~(popup.open /\ popup.column = f)
    /\ popup' = [Closed EXCEPT !.column = f, !.open = TRUE, !.url = IF f \in Columns THEN f ELSE NoColumn]
    /\ IF f \in Columns THEN Fetch(f, NoSearch, filters[f]) ELSE UNCHANGED requests
    /\ UNCHANGED <<filters, timer, applied>>

\* A second click on the button, or one outside the popup. The list stays, but
\* nobody sees it again: the next opening replaces it.
ClosePopup ==
    /\ OnPage /\ popup.open
    /\ popup' = [Closed EXCEPT !.url = popup.url]
    /\ UNCHANGED <<filters, timer, requests, applied>>

\* Each change of the search box starts the timer again, with what is checked now.
Search(search) ==
    /\ OnPage /\ popup.open /\ popup.column \in Columns /\ search # popup.box
    /\ popup' = [popup EXCEPT !.box = search]
    /\ timer' = [search |-> search, checked |-> popup.checked, on |-> TRUE]
    /\ UNCHANGED <<filters, requests, applied>>

\* The request goes to the address of the popup that is open by then.
TimerFires ==
    /\ OnPage /\ timer.on
    /\ Fetch(popup.url, timer.search, timer.checked)
    /\ timer' = NoTimer
    /\ UNCHANGED <<filters, popup, applied>>

\* An answer, or none: the list on the page is drawn anew, whoever asked for it.
Answered(request, answer) ==
    /\ OnPage
    /\ popup' = IF popup.column \notin Columns THEN popup
                ELSE [popup EXCEPT !.listed = answer.values, !.more = answer.more,
                                   !.checked = answer.values \cap request.checked,
                                   !.of = [column |-> request.column, search |-> request.search]]
    /\ requests' = requests \ {request}
    /\ UNCHANGED <<filters, timer, applied>>

AnswerArrives(request) == Answered(request, Answer(request.column, request.search))
RequestFails(request) == Answered(request, [values |-> {}, more |-> FALSE])

CheckValue(v) ==
    /\ OnPage /\ popup.open /\ popup.column \in Columns /\ v \in popup.listed
    /\ popup' = [popup EXCEPT !.checked = IF v \in @ THEN @ \ {v} ELSE @ \cup {v}]
    /\ UNCHANGED <<filters, timer, requests, applied>>

SelectAll(all) ==
    /\ OnPage /\ popup.open /\ popup.column \in Columns
    /\ popup' = [popup EXCEPT !.checked = IF all THEN popup.listed ELSE {}]
    /\ UNCHANGED <<filters, timer, requests, applied>>

\* The address of the next page, unless it is too long: then an error appears.
LoadsWith(f, values, why) ==
    LET next == [filters EXCEPT ![f] = values] IN
    /\ why = "checked" =>
           LET given(g) == {<<g, v>> : v \in next[g]} IN
           Cardinality(UNION {given(g) : g \in Columns \cup PlainColumns}) <= MaxInUrl
    /\ filters' = next
    /\ applied' = [pc |-> why, values |-> values, popup |-> IF why = "checked" THEN popup ELSE Closed]
    /\ popup' = Closed /\ timer' = NoTimer /\ requests' = {}

\* Mutant: a list that is checked as a whole needs no filter, even if cut off or searched.
NoFilterNeededHere == popup.checked = popup.listed /\ popup.listed # {}

\* Everything the column holds is checked.
NoFilterNeeded == popup.checked = popup.listed /\ popup.listed # {} /\ ~popup.more /\ popup.box = NoSearch

ApplyValues ==
    /\ OnPage /\ popup.open /\ popup.column \in Columns
    /\ LoadsWith(popup.column, IF NoFilterNeeded THEN {} ELSE popup.checked, "checked")

ApplyPlain(values) ==
    /\ OnPage /\ popup.open /\ popup.column \in PlainColumns
    /\ LoadsWith(popup.column, values, "typed")

ResetFilter == OnPage /\ popup.open /\ LoadsWith(popup.column, {}, "reset")

\* The cross of a chip above the table.
RemoveValue(f, v) == OnPage /\ v \in filters[f] /\ LoadsWith(f, filters[f] \ {v}, "removed")

ColumnFiltersNext ==
    \/ \E f \in Columns \cup PlainColumns :
           OpenPopup(f) \/ \E v \in filters[f] : RemoveValue(f, v)
    \/ ClosePopup \/ TimerFires \/ ApplyValues \/ ResetFilter
    \/ \E search \in Searches : Search(search)
    \/ \E request \in requests : AnswerArrives(request) \/ RequestFails(request)
    \/ \E v \in Values : CheckValue(v)
    \/ \E all \in BOOLEAN : SelectAll(all)
    \/ \E values \in {{}} \cup {{v} : v \in Values} : ApplyPlain(values)

ColumnFiltersSpec == FiltersInit /\ [][ColumnFiltersNext]_filterVars

-----------------------------------------------------------------------------

\* Types.
ColumnFiltersTypeOK ==
    /\ filters \in [Columns \cup PlainColumns -> SUBSET Values]
    /\ popup.checked \subseteq popup.listed /\ popup.listed \subseteq Values
    /\ requests \subseteq [column : Columns \cup {NoColumn}, search : Searches, checked : SUBSET Values]

\* When the list answers what the popup asks (its column and its search box), the
\* filter it applies has values of that column only, and it is dropped only when
\* nothing, or everything the column holds, is checked. A late answer breaks both:
\* the script does not tell whose answer arrives.
FiltersAreAsked ==
    LET shown == applied.popup IN
    applied.pc = "checked" /\ shown.of \in {NoAnswer, [column |-> shown.column, search |-> shown.box]} =>
        /\ applied.values \subseteq ColumnValues[shown.column]
        /\ applied.values = {} => shown.checked \in {{}, ColumnValues[shown.column]}
=============================================================================
