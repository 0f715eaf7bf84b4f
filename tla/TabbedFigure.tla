----------------------------- MODULE TabbedFigure -----------------------------
(***************************************************************************)
(* The figure jiminy plots logs in, a window with one button per tab       *)
(* (jiminy_py: plot.py, class TabbedFigure), and what `plot_log' puts in   *)
(* it.  A tab is an object: its number stands for its axes, its button and *)
(* its legend, whatever its name.  The history of zooms of the toolbar is  *)
(* abstracted to the sequence of the views it holds.                       *)
(***************************************************************************)
EXTENDS Integers, Sequences, FiniteSets, SequencesExt

CONSTANTS Names,        \* of tabs
          SyncTabs,     \* sync_tabs
          MaxTabs,      \* bound: tabs created in one figure
          MaxViews,     \* bound: views of one history
          None

VARIABLES isOpen,       \* the figure exists
          tabs,         \* tabs_data: a sequence of [name, id], in the order of the dict
          created,      \* tabs created so far
          active,       \* tab_active, which may not be a tab any more
          shown,        \* the tabs whose axes are in the figure
          buttons,      \* the tabs whose button is in the figure
          title,        \* suptitle
          legend,       \* the tab whose legend is displayed
          refAx,        \* the tab whose first axis the others share
          views,        \* the history of the toolbar
          saved,        \* nav_stack of every tab
          zoomed,       \* history: the views the user set since a tab was first shown
          reused,       \* history: a tab was added after the last one was removed, or
                        \* under a name in use
          broken        \* a call raised an exception of matplotlib

display == <<active, shown, title, legend>>
history == <<views, saved, zoomed>>
figure == <<isOpen, tabs, created, display, buttons, refAx, history, reused, broken>>

FigureInit ==
    /\ isOpen = FALSE /\ tabs = <<>> /\ created = 0
    /\ active = None /\ shown = {} /\ buttons = {} /\ title = None /\ legend = None
    /\ refAx = None /\ views = <<>> /\ saved = <<>> /\ zoomed = <<>>
    /\ reused = FALSE /\ broken = FALSE

TabIds == {tabs[i].id : i \in DOMAIN tabs}
NameOf(id) == tabs[CHOOSE i \in DOMAIN tabs : tabs[i].id = id].name
IdOf(name) == tabs[CHOOSE i \in DOMAIN tabs : tabs[i].name = name].id
HasName(name) == \E i \in DOMAIN tabs : tabs[i].name = name

EmptyFigure ==
    /\ tabs' = <<>> /\ created' = 0
    /\ active' = None /\ shown' = {} /\ buttons' = {} /\ title' = None /\ legend' = None
    /\ refAx' = None /\ views' = <<>> /\ saved' = <<>> /\ zoomed' = <<>>
    /\ reused' = FALSE /\ broken' = FALSE

\* Creating a figure does not close the previous one, which is left to its user.
OpenFigure == isOpen' = TRUE /\ EmptyFigure

CloseFigure == isOpen /\ isOpen' = FALSE /\ EmptyFigure

---------------------------------------------------------------------------
(* Switching from a tab to another *)

\* Variant: the history of the tab that is left is not kept.
BackedUpNot(old, nav, kept, ids) == nav

\* The history is kept in the tab that is left, or in all of them if they are synchronized.
BackedUp(old, nav, kept, ids) ==
    [id \in DOMAIN nav |-> IF id \in ids /\ (SyncTabs \/ id = old) THEN kept ELSE nav[id]]

\* `__click': what is left when the button of tab `id' is pressed, and `ids' are the tabs.
\* The axes of the active tab have to be in the figure, or delaxes of matplotlib raises.
Switched(id, name, ids) ==
    IF active \notin shown
      THEN /\ broken' = TRUE /\ UNCHANGED <<display, history>>
      ELSE /\ saved' = BackedUp(active, saved, views, ids)
           /\ views' = saved'[id]
           /\ active' = id /\ shown' = (shown \ {active}) \cup {id}
           /\ title' = name /\ legend' = id
           /\ UNCHANGED <<zoomed, broken>>

\* Pressing a button: that of a tab that was replaced is not found among the tabs.
Click(id) ==
    /\ isOpen /\ ~broken /\ id \in buttons /\ active # None
    /\ IF id \in TabIds
         THEN id # active /\ Switched(id, NameOf(id), TabIds)
         ELSE broken' = TRUE /\ UNCHANGED <<display, history>>
    /\ UNCHANGED <<isOpen, tabs, created, buttons, refAx, reused>>

SetActiveTab(name) ==
    /\ isOpen /\ ~broken /\ HasName(name) /\ active # None
    /\ Switched(IdOf(name), name, TabIds)
    /\ UNCHANGED <<isOpen, tabs, created, buttons, refAx, reused>>

\* The user zooms on what is displayed.
Zoom ==
    /\ isOpen /\ ~broken /\ active \in shown /\ Len(views) < MaxViews
    /\ LET view == Len(views) + 1 IN
       /\ views' = Append(views, <<active, view>>)
       /\ zoomed' = [id \in DOMAIN zoomed |->
                       IF SyncTabs \/ id = active THEN views' ELSE zoomed[id]]
    /\ UNCHANGED <<isOpen, tabs, created, display, buttons, refAx, saved, reused, broken>>

---------------------------------------------------------------------------
(* Adding and removing tabs *)

\* The first tab is displayed at once.
FirstTab(id, name) ==
    IF active = None THEN active' = id /\ title' = name /\ legend' = id
    ELSE UNCHANGED <<active, title, legend>>

\* A tab that replaces another one of its name takes its place in the dict, and the axes
\* and the button of the other are left where they are.
AddTab(name) ==
    LET id == created + 1
        position == IF HasName(name) THEN CHOOSE i \in DOMAIN tabs : tabs[i].name = name
                    ELSE Len(tabs) + 1
        tab == [name |-> name, id |-> id]
    IN /\ isOpen /\ ~broken /\ created < MaxTabs
       /\ created' = id
       /\ tabs' = IF HasName(name) THEN ReplaceAt(tabs, position, tab) ELSE Append(tabs, tab)
       /\ shown' = IF tabs = <<>> THEN shown \cup {id} ELSE shown
       /\ buttons' = buttons \cup {id}
       /\ refAx' = IF SyncTabs /\ refAx = None THEN id ELSE refAx
       /\ saved' = Append(saved, <<>>)
       /\ zoomed' = Append(zoomed, IF SyncTabs THEN views ELSE <<>>)
       /\ reused' = (reused \/ HasName(name) \/ (tabs = <<>> /\ active # None))
       /\ FirstTab(id, name)
       /\ UNCHANGED <<isOpen, views, broken>>

\* The active tab is replaced by the first of the others, if any: `left'.
NextActive(id, left) ==
    IF id = active /\ left # <<>>
      THEN Switched(left[1].id, left[1].name, {left[i].id : i \in DOMAIN left})
      ELSE UNCHANGED <<history, broken>> /\
           IF left = <<>> THEN /\ shown' = shown \ {id} /\ title' = None /\ legend' = None
                               /\ UNCHANGED active
           ELSE UNCHANGED display

RemoveTab(name) ==
    /\ isOpen /\ ~broken /\ HasName(name) /\ active # None
    /\ LET id == IdOf(name)
           left == RemoveAt(tabs, CHOOSE i \in DOMAIN tabs : tabs[i].name = name)
       IN /\ tabs' = left
          /\ NextActive(id, left)
          /\ refAx' = IF refAx = id THEN (IF left = <<>> THEN None ELSE active') ELSE refAx
          /\ buttons' = buttons \ {id}
    /\ UNCHANGED <<isOpen, created, reused>>

\* Clear and SaveAllTabs are only followed as long as no tab was added after the last one was
\* removed or under a name in use: from then on they raise at once or part of the way.
\* Every tab is removed, in the order of the dict: the last one remains tab_active.
Clear ==
    /\ isOpen /\ ~broken /\ tabs # <<>> /\ ~reused
    /\ LET last == tabs[Len(tabs)].id
       IN /\ active' = last
          /\ saved' = BackedUp(active, saved, views, TabIds)
          /\ views' = IF active = last THEN views ELSE saved'[last]
    /\ tabs' = <<>> /\ shown' = {} /\ title' = None /\ legend' = None
    /\ refAx' = None /\ buttons' = buttons \ TabIds
    /\ UNCHANGED <<isOpen, created, zoomed, reused, broken>>

\* The tabs are made active one after the other: the last one remains so.
SaveAllTabs ==
    /\ isOpen /\ ~broken /\ tabs # <<>> /\ ~reused
    /\ LET last == tabs[Len(tabs)]
       IN /\ active' = last.id /\ shown' = {last.id}
          /\ title' = last.name /\ legend' = last.id
          /\ saved' = BackedUp(active, saved, views, TabIds)
          /\ views' = saved'[last.id]
    /\ UNCHANGED <<isOpen, tabs, created, buttons, refAx, zoomed, reused, broken>>

FigureUser == Zoom \/ CloseFigure \/ \E id \in 1 .. MaxTabs : Click(id)

FigureProgram ==
    \/ \E name \in Names : AddTab(name) \/ SetActiveTab(name) \/ RemoveTab(name)
    \/ Clear \/ SaveAllTabs

---------------------------------------------------------------------------
(* plot_log *)

CONSTANTS StateGroups,    \* position, velocity and acceleration: one tab each
          SensorGroups    \* the tabs of the sensors

ASSUME FigureAssumption ==
    /\ SyncTabs \in BOOLEAN /\ None \notin Nat
    /\ IsFiniteSet(StateGroups) /\ IsFiniteSet(SensorGroups)

\* The tabs of a log: those of the groups that are recorded in full.  A group of several
\* subplots, of sensors the robot has none of, has nothing missing: it gets its tab as well.
TabsOfLog(recorded, robotHas) ==
    {group \in StateGroups : group \in recorded}
      \cup {group \in SensorGroups : group \in recorded \/ group \notin robotHas}

\* A new figure, with the tabs in the order of their names in the log.
PlotLog(names) ==
    LET order == SetToSeq(names)
        n == Len(order)
    IN /\ isOpen' = TRUE /\ broken' = FALSE /\ reused' = FALSE
       /\ tabs' = [i \in 1 .. n |-> [name |-> order[i], id |-> i]]
       /\ created' = n /\ buttons' = 1 .. n
       /\ IF n = 0 THEN active' = None /\ shown' = {} /\ title' = None /\ legend' = None
                   ELSE active' = 1 /\ shown' = {1} /\ title' = order[1] /\ legend' = 1
       /\ refAx' = IF SyncTabs /\ n > 0 THEN 1 ELSE None
       /\ views' = <<>> /\ saved' = [i \in 1 .. n |-> <<>>] /\ zoomed' = [i \in 1 .. n |-> <<>>]

---------------------------------------------------------------------------
\* What the window shows is one of its tabs, the active one, with its own title and legend:
\* whatever tabs are added, removed, saved or clicked on in between, as long as the figure
\* is not emptied and then used again, nor a name given twice.
ActiveIsShown ==
    (isOpen /\ ~reused) =>
      /\ ~broken
      /\ buttons = TabIds
      /\ tabs = <<>> => shown = {} /\ title = None /\ legend = None
      /\ tabs # <<>> => /\ active \in TabIds /\ shown = {active}
                        /\ title = NameOf(active) /\ legend = active
                        /\ refAx # None => refAx \in TabIds
      \* Every tab, when it is active again, has the views its user had set on it, or on any
      \* of them if they are synchronized.
      /\ tabs # <<>> => views = zoomed[active]
=============================================================================
