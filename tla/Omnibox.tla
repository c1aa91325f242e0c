------------------------------ MODULE Omnibox -------------------------------
(***************************************************************************)
(* The omnibox (internal/adapters/gui/omnibox): three views behind two tab *)
(* bars, the search list of SearchView among them.  Opening, copying and   *)
(* saving an entry run in goroutines whose callbacks come back to the GTK  *)
(* thread at a time when the user may have moved on.                       *)
(***************************************************************************)
EXTENDS SearchView

CONSTANTS
  Login,       \* the type of the first tab after All
  Tasks        \* slots for the goroutines of openDetail, CopySelected, doSave

ASSUME LoginAssumption == Login \in Types

VARIABLES
  vault,       \* the ids of the entries the server has
  task,        \* the goroutines, with the entry they are about
  mode,        \* currentMode
  modeTab,     \* modeBar.active
  tab,         \* categoryBar.active, as a category
  shown,       \* the widgets whose visible flag is set
  form,        \* the kind of the add form
  detail,      \* the entry of the detail view, 0 before the first
  ring,        \* the view and the form whose widgets the focus ring holds
  over         \* the overlay is closed

barVars == <<modeTab, tab>>
viewVars == <<mode, barVars, shown, form, detail, ring>>
vars     == <<searchVars, vault, task, viewVars, over>>

Views   == {"search", "add", "detail"}
Widgets == Views \cup {"modeBar", "categoryBar", "allTab"}
NoForm  == 0
Idle    == [at |-> "off", id |-> 0]

OmniboxTypeOK ==
  /\ SearchTypeOK
  /\ idle \in Seq([do : {"loaded", "changed", "quit", "done"}]
                  \cup [do : {"show"}, id : Ids])
  /\ vault \subseteq Ids
  /\ task \in [Tasks -> [at : {"off", "open", "copy", "add", "update"}, id : Ids \cup {0}]]
  /\ mode \in Views /\ modeTab \in {"search", "add"}
  /\ tab \in Types \cup {All} /\ form \in Types \cup {NoForm}
  /\ shown \subseteq Widgets
  /\ detail \in Ids \cup {0}
  /\ ring \in [view : Views, form : Types \cup {NoForm}]
  /\ over \in BOOLEAN

VaultList ==
  LET ids == Ascending(vault) IN [i \in DOMAIN ids |-> [id |-> ids[i], type |-> TypeOf[ids[i]]]]

-----------------------------------------------------------------------------
\* Modes and tabs.

\* rebuildFocusRing: what the view that is shown can focus.
RebuildFocusRing(m, f) == ring' = [view |-> m, form |-> IF m = "add" THEN f ELSE NoForm]

ChangeCategory(cat) == tab' = cat /\ FilterAndShow(cat)
KeepCategory == UNCHANGED <<tab, category, entries, matches, rows, selected>>

\* setMode(0); its caller says what becomes of the tab bars and the list.
ShowSearch ==
  /\ mode' = "search"
  /\ shown' = (shown \ {"detail", "add"}) \cup {"modeBar", "allTab", "search"}
  /\ RebuildFocusRing("search", NoForm)

\* Mutant: setMode(1) keeps the All tab when that is the active one.
ShowAddForAll ==
  /\ mode' = "add"
  /\ shown' = (shown \ {"detail", "allTab", "search"}) \cup {"modeBar", "add"}
  /\ KeepCategory
  /\ form' = IF tab = All THEN Login ELSE tab
  /\ RebuildFocusRing("add", form')

\* setMode(1): All is no type to create, so the first type takes its place;
\* the form is built anew.
ShowAdd ==
  /\ mode' = "add"
  /\ shown' = (shown \ {"detail", "allTab", "search"}) \cup {"modeBar", "add"}
  /\ IF tab = All THEN ChangeCategory(Login) ELSE KeepCategory
  /\ form' = tab'
  /\ RebuildFocusRing("add", form')

\* A click on a tab of the mode bar.
ClickMode ==
  /\ "modeBar" \in shown
  /\ \/ modeTab' = "search" /\ ShowSearch /\ KeepCategory /\ UNCHANGED form
     \/ modeTab' = "add" /\ ShowAdd
  /\ UNCHANGED <<load, allEntries, query, timers, idle, vault, task, detail, over>>

\* Mutant: the form is built anew and the ring keeps the widgets of the old one.
ChooseCategoryKeepRing(cat) ==
  /\ mode = "add" => cat # All
  /\ ChangeCategory(cat)
  /\ IF mode = "add" THEN form' = cat ELSE UNCHANGED form
  /\ UNCHANGED <<load, allEntries, query, timers, idle, vault, task, mode, modeTab, shown,
                 detail, ring, over>>

\* Ctrl with a digit, or a click on a tab of the category bar while it is shown.
ChooseCategory(cat) ==
  /\ mode = "add" => cat # All
  /\ ChangeCategory(cat)
  /\ IF mode = "add" THEN form' = cat /\ RebuildFocusRing("add", cat) ELSE UNCHANGED <<form, ring>>
  /\ UNCHANGED <<load, allEntries, query, timers, idle, vault, task, mode, modeTab, shown,
                 detail, over>>

\* switchToSearch: the list is loaded again in a goroutine of its own.
SwitchToSearch ==
  /\ modeTab' = "search" /\ ShowSearch /\ KeepCategory
  /\ \E s \in Loads : LoadEntries(s)
  /\ UNCHANGED <<allEntries, query, timers, vault, form, detail, over>>

\* doCancel, doBack.
Leave == mode # "search" /\ SwitchToSearch /\ UNCHANGED <<idle, task>>

Quit == over' = TRUE /\ UNCHANGED <<searchVars, vault, task, viewVars>>

\* handleEscape: a query is cleared before the overlay closes.
Escape ==
  \/ Leave
  \/ /\ mode = "search" /\ query # <<>>
     /\ SetText(<<>>)
     /\ UNCHANGED <<vault, task, viewVars, over>>
  \/ mode = "search" /\ query = <<>> /\ Quit

\* Typing and moving in the search view.
UseSearch ==
  /\ mode = "search"
  /\ (\E q \in Queries : SetText(q)) \/ Select
  /\ UNCHANGED <<vault, task, viewVars, over>>

-----------------------------------------------------------------------------
\* Goroutines for one entry.

TaskStep(t, from, to) == task[t] = from /\ task' = [task EXCEPT ![t] = to]

\* openDetail (Ctrl+Enter), CopySelected (Enter) for the selected row.
Pick(t) ==
  /\ mode = "search" /\ selected # 0 /\ HasEntry(selected)
  /\ \E what \in {"open", "copy"} :
       TaskStep(t, Idle, [at |-> what, id |-> EntryAt(selected).id])
  /\ UNCHANGED <<searchVars, vault, viewVars, over>>

\* doSave of either form, when its required fields are filled in.
Save(t) ==
  /\ \/ /\ mode = "add"
        /\ \E id \in Ids \ (vault \cup {task[u].id : u \in Tasks}) :
             TypeOf[id] = form /\ TaskStep(t, Idle, [at |-> "add", id |-> id])
     \/ mode = "detail" /\ TaskStep(t, Idle, [at |-> "update", id |-> detail])
  /\ UNCHANGED <<searchVars, vault, viewVars, over>>

\* The server did what it was asked to.
Served(t) == vault' = IF task[t].at = "add" THEN vault \cup {task[t].id} ELSE vault

Callback(t) ==
  CASE task[t].at = "open" -> [do |-> "show", id |-> task[t].id]
    [] task[t].at = "copy" -> [do |-> "quit"]
    [] OTHER               -> [do |-> "done"]

TaskEnds(t) ==
  /\ task[t] # Idle /\ Len(idle) < MaxIdle
  /\ Served(t)
  /\ IdleAddOnce(Callback(t))
  /\ TaskStep(t, task[t], Idle)
  /\ UNCHANGED <<load, listVars, query, timers, viewVars, over>>

\* An error is only notified, even one that hides what the server did.
TaskFails(t) ==
  /\ task[t] # Idle
  /\ UNCHANGED vault \/ Served(t)
  /\ TaskStep(t, task[t], Idle)
  /\ UNCHANGED <<searchVars, viewVars, over>>

\* Mutant: the add view, from where the user may have gone on, stays visible.
SwitchToDetailOverAdd(id) ==
  /\ mode' = "detail" /\ detail' = id
  /\ shown' = (shown \ {"search", "modeBar", "categoryBar"}) \cup {"detail"}
  /\ RebuildFocusRing("detail", NoForm)
  /\ UNCHANGED <<barVars, form>>

\* switchToDetailView.
SwitchToDetail(id) ==
  /\ mode' = "detail" /\ detail' = id
  /\ shown' = (shown \ {"search", "add", "modeBar", "categoryBar"}) \cup {"detail"}
  /\ RebuildFocusRing("detail", NoForm)
  /\ UNCHANGED <<barVars, form>>

Dispatch ==
  \/ DispatchList /\ UNCHANGED <<vault, task, viewVars, over>>
  \/ /\ DispatchNext("show")
     /\ SwitchToDetail(Head(idle).id)
     /\ UNCHANGED <<load, listVars, query, timers, vault, task, over>>
  \/ DispatchNext("done") /\ SwitchToSearch /\ UNCHANGED task
  \/ /\ DispatchNext("quit")
     /\ over' = TRUE
     /\ UNCHANGED <<load, listVars, query, timers, vault, task, viewVars>>

-----------------------------------------------------------------------------
\* New, in search mode and with every category, as sekeve opens it.
Init ==
  /\ SearchInit
  /\ vault \in SUBSET Ids
  /\ task = [t \in Tasks |-> Idle]
  /\ mode = "search" /\ modeTab = "search" /\ tab = All
  /\ shown = {"search", "modeBar", "categoryBar", "allTab"}
  /\ form = NoForm /\ detail = 0
  /\ ring = [view |-> "search", form |-> NoForm]
  /\ over = FALSE

User ==
  \/ ClickMode \/ \E cat \in Types \cup {All} : ChooseCategory(cat)
  \/ Escape \/ UseSearch \/ Quit
  \/ \E t \in Tasks : Pick(t) \/ Save(t)

Goroutines ==
  \/ \E t \in Tasks : TaskEnds(t) \/ TaskFails(t)
  \/ /\ \E s \in Loads : ListAnswered(s, VaultList) \/ LoadFails(s) \/ LoadEnds(s)
     /\ UNCHANGED <<vault, task, viewVars, over>>

Callbacks ==
  \/ Dispatch
  \/ (SearchChanged \/ TimerFires) /\ UNCHANGED <<vault, task, viewVars, over>>

\* The process ends with the overlay, and its goroutines with it.
Next == ~over /\ (User \/ Goroutines \/ Callbacks)

Spec == Init /\ [][Next]_vars

-----------------------------------------------------------------------------
\* Properties.

\* One view at a time, with the bars that go with it, whichever callback
\* switched views and from where: the mode bar except over a detail, All except
\* when adding.  The category bar is left out: switchToDetailView hides it and
\* nothing shows it again.
OneView ==
  /\ shown \cap Views = {mode}
  /\ "modeBar" \in shown <=> mode # "detail"
  /\ mode # "detail" => ("allTab" \in shown <=> mode = "search")

\* The bars, the list and the add form agree: the list is filtered by the active
\* category, and what a save creates has its type.
TabsAgree ==
  /\ category = tab
  /\ mode # "detail" => modeTab = mode
  /\ mode = "add" => tab # All /\ form = tab

\* Tab moves over the widgets of the view and the form that are shown.
RingFresh == ring.view = mode /\ (mode = "add" => ring.form = form)

\* The reload after a save picks the new entry up, and as nobody deletes here it
\* stays in the list.  A load started before may be answered, or kept, later.
ListedStay ==
  [][{e.id : e \in ToSet(allEntries)} \subseteq {e.id : e \in ToSet(allEntries')}]_vars
=============================================================================
