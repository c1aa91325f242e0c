----------------------------- MODULE SearchView -----------------------------
(***************************************************************************)
(* The list of the omnibox (internal/adapters/gui/omnibox/search.go): the  *)
(* entries fetched from the server, the part of them the category and the  *)
(* query leave, the rows built from those, and what a row stands for.      *)
(*                                                                         *)
(* Loads run in goroutines that keep their results in sv and queue a       *)
(* callback; callbacks, key presses and timers act on the GTK thread, one  *)
(* at a time.  Omnibox composes this component with its other views.       *)
(***************************************************************************)
EXTENDS FuzzySearch

CONSTANTS
  Types,       \* entry types
  All,         \* EntryTypeUnspecified: every type
  Ids,         \* the ids entries may have
  TypeOf,      \* the type of each: no client changes it
  NameOf,      \* the name of each
  MaxResults,  \* maxResults
  Loads,       \* slots for loadEntries goroutines
  Queries,     \* texts typed, each as its parts between blanks: <<>> is the empty one
  MaxIdle      \* bound: callbacks queued

ASSUME TypesAssumption ==
  All \notin Types /\ TypeOf \in [Ids -> Types] /\ NameOf \in [Ids -> Text]
ASSUME QueriesAssumption == Queries \subseteq Seq(Text) /\ <<>> \in Queries
ASSUME LimitsAssumption ==
  /\ MaxResults \in Nat \ {0} /\ MaxIdle \in Nat
  /\ IsFiniteSet(Ids) /\ Ids \subseteq Nat \ {0}

VARIABLES
  load,        \* the goroutines, with the list the server answered
  allEntries, entries, matches, category,  \* the fields of SearchView
  query,       \* the text of the search entry
  timers,      \* which run: GTK's search-changed delay, the debounce timer
  idle,        \* the callbacks queued on the GTK thread
  rows,        \* the entries the rows were built from
  selected     \* index of the selected row, 0 for none

listVars   == <<allEntries, entries, matches, category, rows, selected>>
searchVars == <<load, listVars, query, timers, idle>>

Entry   == [id : Ids, type : Types]

\* matches are indices of entries; no matches are nil.
SearchTypeOK ==
  /\ allEntries \in Seq(Entry) /\ entries \in Seq(Entry) /\ rows \in Seq(Entry)
  /\ load \in [Loads -> [at : {"off", "asking", "answered"}, list : Seq(Entry)]]
  /\ matches \in Seq(DOMAIN entries)
  /\ category \in Types \cup {All}
  /\ query \in Queries
  /\ timers \subseteq {"search-changed", "debounce"}
  /\ selected \in 0..Len(rows)

-----------------------------------------------------------------------------
\* Filtering and matching.

OfCategory(list, cat) ==
  Parts(list, {i \in DOMAIN list : cat = All \/ list[i].type = cat})

Limited(s) == SubSeq(s, 1, IF Len(s) < MaxResults THEN Len(s) ELSE MaxResults)

Names(list) == [i \in DOMAIN list |-> NameOf[list[i].id]]

Matched(list) == IF query = <<>> THEN <<>> ELSE Search(query, Names(list), MaxResults)

\* What the list shows for these entries.
Shown(list, found) ==
  IF query = <<>> THEN Limited(list) ELSE [i \in DOMAIN found |-> list[found[i]]]

\* Mutant: an empty query leaves the matches of the one before.
OnSearchChangedKeepsMatches(list) ==
  LET found == Matched(list) IN
  /\ matches' = IF query = <<>> THEN matches ELSE found
  /\ rows' = Shown(list, found)
  /\ selected' = IF rows' = <<>> THEN 0 ELSE 1

\* The rows are rebuilt and the first one is selected.
OnSearchChanged(list) ==
  LET found == Matched(list) IN
  /\ matches' = found
  /\ rows' = Shown(list, found)
  /\ selected' = IF rows' = <<>> THEN 0 ELSE 1

\* Mutant: only the entries are filtered, the rows wait for the next keystroke.
FilterOnly(cat) ==
  /\ category' = cat
  /\ entries' = OfCategory(allEntries, cat)
  /\ UNCHANGED <<matches, rows, selected>>

\* filterByCategory and onSearchChanged, always together.
FilterAndShow(cat) ==
  /\ category' = cat
  /\ entries' = OfCategory(allEntries, cat)
  /\ OnSearchChanged(entries')

\* SelectedEntry, copyEntryAtIndex: the index of the entry a row stands for.
EntryIndex(row) ==
  IF matches = <<>> THEN row ELSE IF row \in DOMAIN matches THEN matches[row] ELSE 0
HasEntry(row) == EntryIndex(row) \in DOMAIN entries
EntryAt(row)  == entries[EntryIndex(row)]

-----------------------------------------------------------------------------
\* loadEntries, in a goroutine of its own.

IdleAddOnce(callback) == idle' = Append(idle, callback)
LoadStep(s, from, to, list) ==
  /\ load[s].at = from
  /\ load' = [load EXCEPT ![s] = [at |-> to, list |-> list]]

LoadEntries(s) == LoadStep(s, "off", "asking", <<>>)

\* The answer may be long in coming back.
ListAnswered(s, list) ==
  /\ LoadStep(s, "asking", "answered", list)
  /\ UNCHANGED <<listVars, query, timers, idle>>

LoadFails(s) ==
  /\ LoadStep(s, "asking", "off", <<>>)
  /\ UNCHANGED <<listVars, query, timers, idle>>

\* Mutant: no callback is queued, the rows wait for the next keystroke.
LoadEndsQuietly(s) ==
  /\ LoadStep(s, "answered", "off", <<>>)
  /\ allEntries' = load[s].list
  /\ UNCHANGED <<entries, matches, category, rows, selected, query, timers, idle>>

\* The list is kept under sv.mu; the callback queued after it rebuilds the rows.
LoadEnds(s) ==
  /\ Len(idle) < MaxIdle
  /\ LoadStep(s, "answered", "off", <<>>)
  /\ allEntries' = load[s].list
  /\ IdleAddOnce([do |-> "loaded"])
  /\ UNCHANGED <<entries, matches, category, rows, selected, query, timers>>

-----------------------------------------------------------------------------
\* The GTK thread.

SetCategory(cat) ==
  /\ FilterAndShow(cat)
  /\ UNCHANGED <<load, allEntries, query, timers, idle>>

\* GTK raises search-changed a while after the text has changed.
SetText(q) ==
  /\ q # query
  /\ query' = q
  /\ timers' = timers \cup {"search-changed"}
  /\ UNCHANGED <<load, listVars, idle>>

\* changedCb: the debounce timer starts again, and a callback queued for an
\* older debounceVersion will do nothing.
SearchChanged ==
  /\ "search-changed" \in timers
  /\ timers' = {"debounce"}
  /\ idle' = Parts(idle, {i \in DOMAIN idle : idle[i].do # "changed"})
  /\ UNCHANGED <<load, listVars, query>>

TimerFires ==
  /\ "debounce" \in timers /\ Len(idle) < MaxIdle
  /\ timers' = timers \ {"debounce"}
  /\ IdleAddOnce([do |-> "changed"])
  /\ UNCHANGED <<load, listVars, query>>

\* SelectNext, SelectPrev.
Select ==
  /\ selected' \in {selected - 1, selected + 1} \cap DOMAIN rows
  /\ UNCHANGED <<load, allEntries, entries, matches, category, rows, query, timers, idle>>

DispatchNext(callback) == idle # <<>> /\ Head(idle).do = callback /\ idle' = Tail(idle)

DispatchList ==
  /\ \/ DispatchNext("loaded")  /\ FilterAndShow(category)
     \/ DispatchNext("changed") /\ OnSearchChanged(entries) /\ UNCHANGED <<category, entries>>
  /\ UNCHANGED <<load, allEntries, query, timers>>

-----------------------------------------------------------------------------
\* NewSearchView starts the first load.
SearchInit ==
  /\ \E s \in Loads :
       load = [t \in Loads |-> [at |-> IF t = s THEN "asking" ELSE "off", list |-> <<>>]]
  /\ allEntries = <<>> /\ entries = <<>> /\ matches = <<>> /\ category = All
  /\ query = <<>> /\ timers = {} /\ idle = <<>>
  /\ rows = <<>> /\ selected = 0

-----------------------------------------------------------------------------
\* Properties.

\* The entry that Enter copies or Ctrl+Enter opens is the one the row shows,
\* whatever loads, category changes, keystrokes and limits came in between.
RowsTell ==
  \A row \in DOMAIN rows : HasEntry(row) /\ EntryAt(row) = rows[row]

\* Once the callbacks and timers in flight have run, the rows are those entries of the last
\* list kept that have the category and whose names have every word of the query as a
\* subsequence: as many as the list takes, none twice, and none left out scores higher than
\* one shown (search.go:302-352, fuzzysearch.go:70-104).
RowsSettle ==
  idle = <<>> /\ timers = {} =>
    LET list == OfCategory(allEntries, category)
        fit  == {i \in DOMAIN list : query = <<>> \/ Fits(query, NameOf[list[i].id])}
        rank(e) == ScoreAll(query, NameOf[e.id])
    IN  /\ Len(rows) = IF Cardinality(fit) < MaxResults THEN Cardinality(fit) ELSE MaxResults
        /\ ToSet(rows) \subseteq {list[i] : i \in fit} /\ IsInjective(rows)
        /\ \A r \in DOMAIN rows : \A i \in fit :
             list[i] \notin ToSet(rows) => rank(list[i]) <= rank(rows[r])
=============================================================================
