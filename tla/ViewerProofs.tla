---------------------------- MODULE ViewerProofs ----------------------------
(***************************************************************************)
(* What the viewers leave in the backend they share, for any number of     *)
(* viewers and processes: the camera, the window, the colors, the robots,  *)
(* the markers, what is highlighted.  And what a replay leaves of the      *)
(* backend when one of its threads fails, and whose robots the scene has   *)
(* whatever is replayed, for any number of threads, requests and jobs.     *)
(*                                                                         *)
(* The invariants are of a state given as a record, for the calls of the   *)
(* viewers chain one another: a viewer is registered, connected, made, set *)
(* up and refreshed by one constructor.  A call that raises half-way keeps *)
(* them as well.                                                           *)
(***************************************************************************)
EXTENDS AsyncReplay, Integers, SequenceTheorems, FiniteSetTheorems, TLAPS

---------------------------------------------------------------------------
(* The invariants.                                                         *)

\* The robots of two slots have different names: what is displayed of a robot and its color
\* are found by its name.
NamesDiffer == \A v, w \in Slots : NameOf[v] = NameOf[w] => v = w

\* A state has the attributes it is made with, and every slot an object or none.
ShapeOf(s) ==
    /\ DOMAIN s = {"class", "scene", "viewer"}
    /\ DOMAIN s.class = {"backend", "proc", "hasGui", "names", "colored", "travelling", "motion"}
    /\ DOMAIN s.scene = {"number", "alive", "window", "groups", "legend", "widgets", "picked", "lit", "node"}
    /\ DOMAIN s.scene.node = Names
    /\ s.viewer \in [Slots -> Objects \cup {None}]

\* The class has the last process started as long as that is alive; no object is of a later one.
ProcessInv(s) ==
    /\ s.scene.number \in Nat
    /\ s.scene.alive => s.class.proc = s.scene.number
    /\ \A v \in Slots : s.viewer[v] # None =>
         s.viewer[v].proc <= s.scene.number

\* The camera follows a viewer that is open.
TravellingInv(s) ==
    /\ s.class.travelling \in Slots \cup {None}
    /\ (IsAlive(s) /\ s.class.travelling # None) => IsOpen(s, s.class.travelling)

\* The class only counts on a window that is there.
GuiInv(s) == (IsAlive(s) /\ IsPanda(s) /\ s.class.hasGui) => s.scene.window

\* Of the objects of the process of the class, those that are open have a color.
ColorsInv(s) ==
    \A v \in Slots :
      (IsAlive(s) /\ s.viewer[v] # None /\ s.viewer[v].proc = s.class.proc) =>
        (s.viewer[v].isOpen <=> NameOf[v] \in s.class.colored)

IsGroup(g) == g \in Names \X {"visuals", "collisions", "markers"}

\* A viewer that was to delete its robot has no group left once it is closed, unless another
\* has the same name.
RobotsInv(s) ==
    /\ \A g \in s.scene.groups : IsGroup(g)
    /\ \A v \in Slots :
      (s.viewer[v] # None /\ s.viewer[v].deletes /\ ~s.viewer[v].isOpen
         /\ s.viewer[v].proc = s.class.proc
         /\ \A w \in Slots \ {v} : NameOf[w] # NameOf[v]) =>
        \A g \in s.scene.groups : g[1] # NameOf[v]

\* What is highlighted is what is selected.
LitInv(s) == s.scene.lit \subseteq {s.scene.picked} /\ None \notin s.scene.lit

\* The status and the visibility of the marker of an object that can be reached: disabled for
\* its scale only, and as the scale wants it right after a refresh.
MarkerOf(o, n) ==
    /\ DOMAIN n = {"status", "shown"}
    /\ n.status \in {"auto", "hidden", "disable"} /\ n.shown \in BOOLEAN
    /\ n.shown <=> n.status = "auto"
    /\ o.visible <=> n.status # "hidden"
    /\ (o.visible /\ o.fresh) => (n.shown <=> ~o.tiny)

MarkersInv(s) ==
    \A v \in Slots :
      (IsConnected(s, v) /\ IsPanda(s)) => MarkerOf(s.viewer[v], s.scene.node[NameOf[v]])

\* What holds whatever the names, and what needs them to differ.
InvOf(s) == ShapeOf(s) /\ ProcessInv(s) /\ TravellingInv(s) /\ GuiInv(s) /\ LitInv(s) /\ RobotsInv(s)
NamedInv(s) == ColorsInv(s) /\ MarkersInv(s)

---------------------------------------------------------------------------
(* Closing.                                                                *)

LEMMA ClosedAllInv ==
    ASSUME NEW s, InvOf(s)
    PROVE  InvOf(ClosedAll(s)) /\ NamedInv(ClosedAll(s))
BY ViewerAssumption DEF ClosedAll, NoClass, Killed, NewScene, InvOf, NamedInv, ShapeOf,
   ProcessInv, TravellingInv, GuiInv, LitInv, RobotsInv, ColorsInv, MarkersInv, IsConnected,
   IsOpen, IsAlive, ProcessIsAlive

LEMMA FieldsOfObjects ==
    ASSUME NEW A, NEW B, NEW C, NEW D, NEW E, NEW F, NEW G,
           NEW o \in [isOpen : A, proc : B, deletes : C, display : D, visible : E, tiny : F, fresh : G]
    PROVE  LET O == [isOpen : A, proc : B, deletes : C, display : D, visible : E, tiny : F, fresh : G] IN
           /\ \A x \in A : [o EXCEPT !.isOpen = x] \in O
           /\ \A x \in C : [o EXCEPT !.deletes = x] \in O
           /\ \A x \in D : [o EXCEPT !.display = x] \in O
           /\ \A x \in E : [o EXCEPT !.visible = x] \in O
           /\ \A x \in F : [o EXCEPT !.tiny = x] \in O
           /\ \A x \in G : [o EXCEPT !.fresh = x] \in O
OBVIOUS

LEMMA UpdatedObject ==
    ASSUME NEW o \in Objects, NEW x \in BOOLEAN
    PROVE  /\ o # None
           /\ [o EXCEPT !.isOpen = x] \in Objects /\ [o EXCEPT !.deletes = x] \in Objects
           /\ [o EXCEPT !.display = x] \in Objects /\ [o EXCEPT !.visible = x] \in Objects
           /\ [o EXCEPT !.tiny = x] \in Objects /\ [o EXCEPT !.fresh = x] \in Objects
<1>1. o # None
  BY ViewerAssumption
<1> QED
  BY <1>1, FieldsOfObjects, Zenon DEF Objects

LEMMA ClosedViewerShape ==
    ASSUME NEW s, ShapeOf(s), NEW v \in Slots, s.viewer[v] # None
    PROVE  /\ ShapeOf(ClosedViewer(s, v))
           /\ ClosedViewer(s, v).viewer[v] \in {s.viewer[v], [s.viewer[v] EXCEPT !.isOpen = FALSE]}
           /\ \A w \in Slots \ {v} : ClosedViewer(s, v).viewer[w] = s.viewer[w]
<1> DEFINE t == ClosedViewer(s, v)
<1>1. s.viewer[v] \in Objects /\ [s.viewer[v] EXCEPT !.isOpen = FALSE] \in Objects
  BY UpdatedObject DEF ShapeOf
<1>2. t.viewer = s.viewer \/ t.viewer = [s.viewer EXCEPT ![v] = [s.viewer[v] EXCEPT !.isOpen = FALSE]]
  BY DEF ShapeOf, ClosedViewer, DetachedFrom, DetachCamera, Unregistered, Deleted
<1>3. /\ DOMAIN t = DOMAIN s /\ DOMAIN t.class = DOMAIN s.class
      /\ DOMAIN t.scene = DOMAIN s.scene /\ DOMAIN t.scene.node = DOMAIN s.scene.node
  BY DEF ShapeOf, ClosedViewer, DetachedFrom, DetachCamera, Unregistered, Deleted, RemoveGroups
<1> HIDE DEF t
<1>4. t.viewer \in [Slots -> Objects \cup {None}]
  BY <1>1, <1>2 DEF ShapeOf
<1> QED
  BY <1>1, <1>2, <1>3, <1>4 DEF ShapeOf, t

LEMMA ClosedViewerProcess ==
    ASSUME NEW s, ShapeOf(s), NEW v \in Slots, s.viewer[v] # None, ProcessInv(s)
    PROVE  ProcessInv(ClosedViewer(s, v))
BY ViewerAssumption DEF ShapeOf, ClosedViewer, DetachedFrom, DetachCamera, Unregistered, Deleted,
   RemoveGroups, ProcessInv

LEMMA ClosedViewerTravelling ==
    ASSUME NEW s, ShapeOf(s), NEW v \in Slots, s.viewer[v] # None, 
           TravellingInv(s)
    PROVE  TravellingInv(ClosedViewer(s, v))
BY ViewerAssumption DEF ShapeOf, ClosedViewer, DetachedFrom, DetachCamera, Unregistered, Deleted,
   RemoveGroups, TravellingInv, IsOpen, IsAlive, ProcessIsAlive

LEMMA ClosedViewerGui ==
    ASSUME NEW s, ShapeOf(s), NEW v \in Slots, s.viewer[v] # None, GuiInv(s), LitInv(s)
    PROVE  GuiInv(ClosedViewer(s, v)) /\ LitInv(ClosedViewer(s, v))
BY ViewerAssumption DEF ShapeOf, ClosedViewer, DetachedFrom, DetachCamera, Unregistered, Deleted,
   RemoveGroups, GuiInv, LitInv, IsAlive, ProcessIsAlive, IsPanda

LEMMA ClosedViewerRobots ==
    ASSUME NEW s, ShapeOf(s), NEW v \in Slots, s.viewer[v] # None, RobotsInv(s), ProcessInv(s)
    PROVE  RobotsInv(ClosedViewer(s, v))
BY ViewerAssumption DEF ShapeOf, ClosedViewer, DetachedFrom, DetachCamera, Unregistered, Deleted,
   RemoveGroups, RobotsInv, RobotGroups, MarkersGroup, IsGroup

LEMMA ClosedViewerColors ==
    ASSUME NamesDiffer, NEW s, ShapeOf(s), NEW v \in Slots, s.viewer[v] # None, ColorsInv(s)
    PROVE  ColorsInv(ClosedViewer(s, v))
BY ViewerAssumption DEF NamesDiffer, ShapeOf, ClosedViewer, DetachedFrom, DetachCamera,
   Unregistered, Deleted, RemoveGroups, ColorsInv, IsAlive, ProcessIsAlive

LEMMA ClosedViewerMarkers ==
    ASSUME NamesDiffer, NEW s, ShapeOf(s), NEW v \in Slots, s.viewer[v] # None, MarkersInv(s)
    PROVE  MarkersInv(ClosedViewer(s, v))
<1> DEFINE t == ClosedViewer(s, v)
<1>1. /\ t.class.backend = s.class.backend /\ t.class.proc = s.class.proc
      /\ t.scene.alive = s.scene.alive
      /\ \A m \in Names \ {NameOf[v]} : t.scene.node[m] = s.scene.node[m]
  BY ViewerAssumption DEF ShapeOf, ClosedViewer, DetachedFrom, DetachCamera, Unregistered,
     Deleted, RemoveGroups
<1>2. /\ \A w \in Slots \ {v} : t.viewer[w] = s.viewer[w] 
      /\ (t.scene.node = s.scene.node /\ t.viewer[v] = s.viewer[v]) \/ ~t.viewer[v].isOpen
  BY ViewerAssumption DEF ShapeOf, ClosedViewer, DetachedFrom, DetachCamera, Unregistered,
     Deleted, RemoveGroups
<1> HIDE DEF t
<1> QED
  BY <1>1, <1>2, ViewerAssumption DEF NamesDiffer, MarkersInv, IsConnected, IsOpen, IsAlive,
     ProcessIsAlive, IsPanda, t

---------------------------------------------------------------------------
(* Displaying.                                                             *)

\* A call that only changes what is displayed of one viewer, the groups, and the names.
Touched(s, t, v) ==
    /\ DOMAIN t = DOMAIN s /\ DOMAIN t.class = DOMAIN s.class
    /\ DOMAIN t.scene = DOMAIN s.scene /\ DOMAIN t.scene.node = DOMAIN s.scene.node
    /\ t.class.backend = s.class.backend /\ t.class.proc = s.class.proc
    /\ t.class.hasGui = s.class.hasGui /\ t.class.travelling = s.class.travelling
    /\ t.scene.number = s.scene.number /\ t.scene.alive = s.scene.alive
    /\ t.scene.window = s.scene.window /\ t.scene.picked = s.scene.picked
    /\ t.scene.lit \subseteq s.scene.lit
    /\ \A m \in Names \ {NameOf[v]} : t.scene.node[m] = s.scene.node[m]
    /\ t.viewer \in [Slots -> Objects \cup {None}]
    /\ \A w \in Slots \ {v} : t.viewer[w] = s.viewer[w]
    /\ t.viewer[v] \in Objects /\ t.viewer[v].proc = s.viewer[v].proc
    /\ t.viewer[v].isOpen = s.viewer[v].isOpen /\ t.viewer[v].deletes = s.viewer[v].deletes

LEMMA TouchedTwice ==
    ASSUME NEW s, NEW t, NEW u, NEW v, Touched(s, t, v), Touched(t, u, v)
    PROVE  Touched(s, u, v)
BY DEF Touched

LEMMA TouchedInv ==
    ASSUME NEW s, NEW t, NEW v \in Slots, InvOf(s), Touched(s, t, v), s.viewer[v] # None,
           \A g \in t.scene.groups :
             \/ g \in s.scene.groups
             \/ IsGroup(g) /\ g[1] = NameOf[v] /\ s.viewer[v].isOpen
    PROVE  InvOf(t)
<1>0. t.viewer[v] # None
  BY UpdatedObject DEF Touched
<1>1. ShapeOf(t) /\ GuiInv(t) /\ LitInv(t)
  BY DEF InvOf, ShapeOf, GuiInv, LitInv, Touched, IsAlive, ProcessIsAlive, IsPanda
<1>2. ProcessInv(t) /\ TravellingInv(t)
  BY <1>0 DEF InvOf, ProcessInv, TravellingInv, Touched, IsAlive, ProcessIsAlive, IsOpen
<1>3. RobotsInv(t)
  BY <1>0 DEF InvOf, RobotsInv, Touched
<1> QED
  BY <1>1, <1>2, <1>3 DEF InvOf

LEMMA RefreshedTouches ==
    ASSUME NEW s, ShapeOf(s), NEW v \in Slots, s.viewer[v] # None
    PROVE  /\ Touched(s, Refreshed(s, v), v)
           /\ Refreshed(s, v).scene.groups = s.scene.groups
           /\ Refreshed(s, v).class = s.class
<1> DEFINE t == Refreshed(s, v)
<1>1. s.viewer[v] \in Objects /\ [s.viewer[v] EXCEPT !.fresh = TRUE] \in Objects
  BY UpdatedObject DEF ShapeOf
<1>2. t.viewer = [s.viewer EXCEPT ![v] = [s.viewer[v] EXCEPT !.fresh = TRUE]]
  BY DEF ShapeOf, Refreshed
<1>3. /\ DOMAIN t = DOMAIN s /\ t.class = s.class
      /\ DOMAIN t.scene = DOMAIN s.scene /\ DOMAIN t.scene.node = DOMAIN s.scene.node
      /\ t.scene.number = s.scene.number /\ t.scene.alive = s.scene.alive
      /\ t.scene.window = s.scene.window /\ t.scene.picked = s.scene.picked
      /\ t.scene.lit = s.scene.lit /\ t.scene.groups = s.scene.groups
      /\ \A m \in Names \ {NameOf[v]} : t.scene.node[m] = s.scene.node[m]
  BY ViewerAssumption DEF ShapeOf, Refreshed
<1> HIDE DEF t
<1>4. t.viewer \in [Slots -> Objects \cup {None}] /\ t.viewer[v] \in Objects
      /\ \A w \in Slots \ {v} : t.viewer[w] = s.viewer[w]
  BY <1>1, <1>2 DEF ShapeOf
<1>5. /\ t.viewer[v].proc = s.viewer[v].proc
      /\ t.viewer[v].isOpen = s.viewer[v].isOpen /\ t.viewer[v].deletes = s.viewer[v].deletes
  BY <1>1, <1>2 DEF ShapeOf, Objects
<1>6. Touched(s, t, v)
  BY <1>3, <1>4, <1>5 DEF Touched
<1> QED
  BY <1>3, <1>6 DEF t

LEMMA ScaledMarker ==
    ASSUME NEW o, NEW p, NEW n, MarkerOf(o, n), o.visible \in BOOLEAN, o.tiny \in BOOLEAN,
           p.fresh = TRUE, p.visible = o.visible, p.tiny = o.tiny
    PROVE  MarkerOf(p, IF o.visible THEN SetScale(n, o.tiny) ELSE n)
<1>1. CASE o.visible
  <2> DEFINE m == SetScale(n, o.tiny)
  <2>1. DOMAIN m = {"status", "shown"} /\ m.status \in {"auto", "disable"} /\ m.shown \in BOOLEAN
    BY <1>1 DEF MarkerOf, SetScale
  <2>2. (m.shown <=> m.status = "auto") /\ (m.shown <=> ~o.tiny)
    BY <1>1 DEF MarkerOf, SetScale
  <2> HIDE DEF m
  <2>3. MarkerOf(p, m)
    BY <1>1, <2>1, <2>2 DEF MarkerOf
  <2> QED
    BY <1>1, <2>3 DEF m
<1>2. CASE ~o.visible
  BY <1>2 DEF MarkerOf
<1> QED
  BY <1>1, <1>2

LEMMA ShownMarker ==
    ASSUME NEW o, NEW p, NEW n, MarkerOf(o, n), NEW show \in BOOLEAN,
           p.fresh = FALSE, p.visible = show
    PROVE  MarkerOf(p, ShowNode(n, show))
<1> DEFINE m == ShowNode(n, show)
<1>1. DOMAIN m = {"status", "shown"} /\ m.status \in {"auto", "hidden", "disable"} /\ m.shown \in BOOLEAN
  BY DEF MarkerOf, ShowNode
<1>2. (m.shown <=> m.status = "auto") /\ (show <=> m.status # "hidden")
  BY DEF MarkerOf, ShowNode
<1> HIDE DEF m
<1>3. MarkerOf(p, m)
  BY <1>1, <1>2 DEF MarkerOf
<1> QED
  BY <1>3 DEF m

LEMMA RefreshedMarker ==
    ASSUME NEW s, ShapeOf(s), NEW v \in Slots, s.viewer[v] # None, IsPanda(s),
           MarkerOf(s.viewer[v], s.scene.node[NameOf[v]])
    PROVE  MarkerOf(Refreshed(s, v).viewer[v], Refreshed(s, v).scene.node[NameOf[v]])
<1> DEFINE t == Refreshed(s, v)
           n == s.scene.node[NameOf[v]]
           o == s.viewer[v]
<1>1. t.viewer[v] = [o EXCEPT !.fresh = TRUE] /\ o \in Objects
  BY ViewerAssumption DEF ShapeOf, Refreshed
<1>2. t.scene.node[NameOf[v]] = IF o.visible THEN SetScale(n, o.tiny) ELSE n
  BY ViewerAssumption DEF ShapeOf, Refreshed
<1> HIDE DEF t
<1>3. t.viewer[v].fresh = TRUE /\ t.viewer[v].visible = o.visible /\ t.viewer[v].tiny = o.tiny
      /\ o.visible \in BOOLEAN /\ o.tiny \in BOOLEAN
  BY <1>1 DEF Objects
<1> HIDE DEF n, o
<1>4. MarkerOf(o, n)
  BY DEF n, o
<1>5. MarkerOf(t.viewer[v], IF o.visible THEN SetScale(n, o.tiny) ELSE n)
  BY <1>3, <1>4, ScaledMarker
<1> QED
  BY <1>2, <1>5 DEF t

\* The parts of Displayed and of SetUp.
Chosen(s, v, show) ==
    [s EXCEPT !.scene.node[NameOf[v]] = ShowNode(@, show), !.viewer[v].fresh = FALSE,
              !.viewer[v].visible = show, !.viewer[v].display = show]

LEMMA ChosenTouches ==
    ASSUME NEW s, ShapeOf(s), NEW v \in Slots, s.viewer[v] # None, NEW show \in BOOLEAN
    PROVE  LET t == Chosen(s, v, show) IN
           /\ Touched(s, t, v)
           /\ t.scene.groups = s.scene.groups /\ t.class = s.class
           /\ t.viewer[v].fresh = FALSE /\ t.viewer[v].visible = show
           /\ t.scene.node[NameOf[v]] = ShowNode(s.scene.node[NameOf[v]], show)
<1> DEFINE t == Chosen(s, v, show)
           o == [[[s.viewer[v] EXCEPT !.fresh = FALSE] EXCEPT !.visible = show] EXCEPT !.display = show]
<1>1. s.viewer[v] \in Objects
  BY DEF ShapeOf
<1>2. [s.viewer[v] EXCEPT !.fresh = FALSE] \in Objects
  BY <1>1, UpdatedObject
<1>3. [[s.viewer[v] EXCEPT !.fresh = FALSE] EXCEPT !.visible = show] \in Objects
  BY <1>2, UpdatedObject
<1>4. o \in Objects
  BY <1>3, UpdatedObject
<1>5. t.viewer = [s.viewer EXCEPT ![v] = o]
  BY <1>1 DEF ShapeOf, Chosen
<1>6. /\ DOMAIN t = DOMAIN s /\ t.class = s.class
      /\ DOMAIN t.scene = DOMAIN s.scene /\ DOMAIN t.scene.node = DOMAIN s.scene.node
      /\ t.scene.number = s.scene.number /\ t.scene.alive = s.scene.alive
      /\ t.scene.window = s.scene.window /\ t.scene.picked = s.scene.picked
      /\ t.scene.lit = s.scene.lit /\ t.scene.groups = s.scene.groups
      /\ \A m \in Names \ {NameOf[v]} : t.scene.node[m] = s.scene.node[m]
      /\ t.scene.node[NameOf[v]] = ShowNode(s.scene.node[NameOf[v]], show)
  BY ViewerAssumption DEF ShapeOf, Chosen
<1>7. /\ o.proc = s.viewer[v].proc /\ o.isOpen = s.viewer[v].isOpen
      /\ o.deletes = s.viewer[v].deletes /\ o.fresh = FALSE /\ o.visible = show
  BY <1>1 DEF Objects
<1> HIDE DEF t, o
<1>8. t.viewer \in [Slots -> Objects \cup {None}] /\ t.viewer[v] = o
      /\ \A w \in Slots \ {v} : t.viewer[w] = s.viewer[w]
  BY <1>4, <1>5 DEF ShapeOf
<1>9. Touched(s, t, v)
  BY <1>4, <1>6, <1>7, <1>8 DEF Touched
<1> QED
  BY <1>6, <1>7, <1>8, <1>9 DEF t

LEMMA DisplayedTouches ==
    ASSUME NEW s, ShapeOf(s), NEW v \in Slots, s.viewer[v] # None, NEW show \in BOOLEAN
    PROVE  /\ Touched(s, Displayed(s, v, show), v)
           /\ Displayed(s, v, show).scene.groups = s.scene.groups
           /\ Displayed(s, v, show).class = s.class
           /\ IsPanda(s) /\ MarkerOf(s.viewer[v], s.scene.node[NameOf[v]]) =>
                MarkerOf(Displayed(s, v, show).viewer[v], Displayed(s, v, show).scene.node[NameOf[v]])
<1> DEFINE t == Chosen(s, v, show)
<1>1. Displayed(s, v, show) = IF show THEN Refreshed(t, v) ELSE t
  BY DEF Displayed, Chosen
<1>2. /\ Touched(s, t, v)
      /\ t.scene.groups = s.scene.groups /\ t.class = s.class
      /\ t.viewer[v].fresh = FALSE /\ t.viewer[v].visible = show
      /\ t.scene.node[NameOf[v]] = ShowNode(s.scene.node[NameOf[v]], show)
  BY ChosenTouches
<1> HIDE DEF t
<1>3. ShapeOf(t) /\ t.viewer[v] # None /\ (IsPanda(t) <=> IsPanda(s))
  BY <1>2, UpdatedObject DEF Touched, ShapeOf, IsPanda
<1>4. /\ Touched(t, Refreshed(t, v), v)
      /\ Refreshed(t, v).scene.groups = s.scene.groups /\ Refreshed(t, v).class = s.class
  BY <1>2, <1>3, RefreshedTouches
<1>5. Touched(s, Refreshed(t, v), v)
  BY <1>2, <1>4, TouchedTwice
<1>6. IsPanda(s) /\ MarkerOf(s.viewer[v], s.scene.node[NameOf[v]]) =>
        MarkerOf(t.viewer[v], t.scene.node[NameOf[v]])
  BY <1>2, ShownMarker
<1>7. IsPanda(s) /\ MarkerOf(s.viewer[v], s.scene.node[NameOf[v]]) =>
        MarkerOf(Refreshed(t, v).viewer[v], Refreshed(t, v).scene.node[NameOf[v]])
  BY <1>3, <1>6, RefreshedMarker
<1> QED
  BY <1>1, <1>2, <1>4, <1>5, <1>6, <1>7

Removed(s, v) ==
    [s EXCEPT !.scene = RemoveGroups(@, RobotGroups(NameOf[v])), !.class.colored = @ \cup {NameOf[v]}]

Loaded(s, v) == [s EXCEPT !.scene = LoadModel(@, NameOf[v])]

Marked(s, v) ==
    WithMarker([s EXCEPT !.scene = AppendGroup(@, <<NameOf[v], "markers">>, FALSE)], v)

\* Everything but the groups, the colors and what is highlighted.
Reloaded(s, t) ==
    /\ DOMAIN t = DOMAIN s /\ DOMAIN t.class = DOMAIN s.class
    /\ DOMAIN t.scene = DOMAIN s.scene /\ t.scene.node = s.scene.node
    /\ t.class.backend = s.class.backend /\ t.class.proc = s.class.proc
    /\ t.class.hasGui = s.class.hasGui /\ t.class.travelling = s.class.travelling
    /\ t.scene.number = s.scene.number /\ t.scene.alive = s.scene.alive
    /\ t.scene.window = s.scene.window /\ t.scene.picked = s.scene.picked
    /\ t.scene.lit \subseteq s.scene.lit
    /\ t.viewer = s.viewer

LEMMA ReloadedShape ==
    ASSUME NEW s, NEW t, ShapeOf(s), Reloaded(s, t)
    PROVE  ShapeOf(t)
BY DEF ShapeOf, Reloaded

LEMMA ReloadedTouches ==
    ASSUME NEW s, NEW t, NEW v \in Slots, ShapeOf(s), s.viewer[v] # None, Reloaded(s, t)
    PROVE  Touched(s, t, v)
BY DEF ShapeOf, Reloaded, Touched

LEMMA RemovedReloads ==
    ASSUME NEW s, ShapeOf(s), NEW v \in Slots
    PROVE  /\ Reloaded(s, Removed(s, v))
           /\ Removed(s, v).class.colored = s.class.colored \cup {NameOf[v]}
           /\ Removed(s, v).scene.groups \subseteq s.scene.groups
BY DEF ShapeOf, Reloaded, Removed, RemoveGroups

LEMMA LoadedReloads ==
    ASSUME NEW s, ShapeOf(s), NEW v \in Slots
    PROVE  /\ Reloaded(s, Loaded(s, v)) /\ Loaded(s, v).class = s.class
           /\ Loaded(s, v).scene.groups \subseteq s.scene.groups \cup RobotGroups(NameOf[v])
<1> DEFINE n == NameOf[v]
           first == [s.scene EXCEPT !.groups = @ \cup {<<n, "visuals">>}, !.lit = @ \ {<<n, "visuals">>}]
           last == [first EXCEPT !.groups = @ \cup {<<n, "collisions">>}, !.lit = @ \ {<<n, "collisions">>}]
<1>1. Loaded(s, v) = [s EXCEPT !.scene = last]
  BY DEF ShapeOf, Loaded, LoadModel, AppendGroup
<1>2. /\ DOMAIN last = DOMAIN s.scene /\ last.node = s.scene.node
      /\ last.number = s.scene.number /\ last.alive = s.scene.alive
      /\ last.window = s.scene.window /\ last.picked = s.scene.picked
      /\ last.lit \subseteq s.scene.lit
      /\ last.groups = s.scene.groups \cup {<<n, "visuals">>, <<n, "collisions">>}
  BY DEF ShapeOf
<1>3. last.groups \subseteq s.scene.groups \cup RobotGroups(n)
  BY <1>2 DEF RobotGroups
<1> HIDE DEF last
<1> QED
  BY <1>1, <1>2, <1>3 DEF ShapeOf, Reloaded

LEMMA MarkedTouches ==
    ASSUME NEW s, ShapeOf(s), NEW v \in Slots, s.viewer[v] # None
    PROVE  LET t == Marked(s, v) IN
           /\ Touched(s, t, v) /\ t.class = s.class
           /\ t.scene.groups \subseteq s.scene.groups \cup MarkersGroup(NameOf[v])
           /\ MarkerOf(t.viewer[v], t.scene.node[NameOf[v]])
<1> DEFINE u == [s EXCEPT !.scene = AppendGroup(@, <<NameOf[v], "markers">>, FALSE)]
           t == WithMarker(u, v)
           o == [[s.viewer[v] EXCEPT !.visible = TRUE] EXCEPT !.fresh = FALSE]
<1>1. /\ Reloaded(s, u) /\ u.class = s.class
      /\ u.scene.groups \subseteq s.scene.groups \cup MarkersGroup(NameOf[v])
  BY DEF ShapeOf, Reloaded, AppendGroup, MarkersGroup
<1>2. ShapeOf(u) /\ Touched(s, u, v)
  BY <1>1, ReloadedShape, ReloadedTouches
<1>3. u.viewer[v] = s.viewer[v]
  BY <1>1 DEF Reloaded
<1> HIDE DEF u
<1>4. s.viewer[v] \in Objects
  BY DEF ShapeOf
<1>5. [s.viewer[v] EXCEPT !.visible = TRUE] \in Objects
  BY <1>4, UpdatedObject
<1>6. o \in Objects
  BY <1>5, UpdatedObject
<1>7. t.viewer = [u.viewer EXCEPT ![v] = o]
  BY <1>2, <1>3, <1>4 DEF ShapeOf, WithMarker
<1>8. /\ DOMAIN t = DOMAIN u /\ t.class = u.class
      /\ DOMAIN t.scene = DOMAIN u.scene /\ DOMAIN t.scene.node = DOMAIN u.scene.node
      /\ t.scene.number = u.scene.number /\ t.scene.alive = u.scene.alive
      /\ t.scene.window = u.scene.window /\ t.scene.picked = u.scene.picked
      /\ t.scene.lit \subseteq u.scene.lit /\ t.scene.groups = u.scene.groups
      /\ \A m \in Names \ {NameOf[v]} : t.scene.node[m] = u.scene.node[m]
      /\ t.scene.node[NameOf[v]] = ShowNode(NewNode, TRUE)
  BY <1>2, ViewerAssumption DEF ShapeOf, WithMarker
<1>9. /\ o.proc = s.viewer[v].proc /\ o.isOpen = s.viewer[v].isOpen
      /\ o.deletes = s.viewer[v].deletes /\ o.fresh = FALSE /\ o.visible = TRUE
  BY <1>4 DEF Objects
<1>10. Marked(s, v) = t
  BY DEF Marked, u
<1> HIDE DEF t, o
<1>11. t.viewer \in [Slots -> Objects \cup {None}] /\ t.viewer[v] = o
       /\ \A w \in Slots \ {v} : t.viewer[w] = u.viewer[w]
  BY <1>2, <1>6, <1>7 DEF ShapeOf
<1>12. Touched(u, t, v)
  BY <1>3, <1>6, <1>8, <1>9, <1>11 DEF Touched
<1>13. MarkerOf(o, ShowNode(NewNode, TRUE))
  BY <1>9 DEF MarkerOf, ShowNode, NewNode
<1> QED
  BY <1>1, <1>2, <1>8, <1>10, <1>11, <1>12, <1>13, TouchedTwice

LEMMA SetUpTouches ==
    ASSUME NEW s, ShapeOf(s), NEW v \in Slots, s.viewer[v] # None
    PROVE  LET t == SetUp(s, v) IN
           /\ Touched(s, t, v) /\ t.class.colored = s.class.colored \cup {NameOf[v]}
           /\ \A g \in t.scene.groups :
                g \in s.scene.groups \/ (IsGroup(g) /\ g[1] = NameOf[v] /\ IsConnected(s, v))
           /\ (IsConnected(s, v) /\ IsPanda(s)) => MarkerOf(t.viewer[v], t.scene.node[NameOf[v]])
<1> DEFINE r == Removed(s, v)
           l == Loaded(r, v)
           m == Marked(l, v)
           show == l.viewer[v].display
           t == SetUp(s, v)
<1>1. /\ Reloaded(s, r) /\ r.class.colored = s.class.colored \cup {NameOf[v]}
      /\ r.scene.groups \subseteq s.scene.groups
  BY RemovedReloads
<1>2. ShapeOf(r) /\ Touched(s, r, v) /\ r.viewer[v] # None
  BY <1>1, ReloadedShape, ReloadedTouches DEF Reloaded
<1>3. t = IF ~IsConnected(s, v) THEN r
          ELSE IF IsPanda(s) THEN Displayed(m, v, show) ELSE l
  BY DEF SetUp, SetUpMarkers, Removed, Loaded, Marked
<1> HIDE DEF r, t
<1>4. /\ Reloaded(r, l) /\ l.class = r.class
      /\ l.scene.groups \subseteq r.scene.groups \cup RobotGroups(NameOf[v])
  BY <1>2, LoadedReloads
<1>5. ShapeOf(l) /\ Touched(r, l, v) /\ l.viewer[v] # None
  BY <1>2, <1>4, ReloadedShape, ReloadedTouches DEF Reloaded
<1>6. Touched(s, l, v)
  BY <1>2, <1>5, TouchedTwice
<1> HIDE DEF l
<1>7. /\ Touched(l, m, v) /\ m.class = l.class
      /\ m.scene.groups \subseteq l.scene.groups \cup MarkersGroup(NameOf[v])
      /\ MarkerOf(m.viewer[v], m.scene.node[NameOf[v]])
  BY <1>5, MarkedTouches
<1> HIDE DEF m
<1>8. Touched(s, m, v) /\ ShapeOf(m) /\ m.viewer[v] # None
  <2>1. Touched(s, m, v)
    BY <1>6, <1>7, TouchedTwice
  <2>2. m.viewer[v] # None
    BY <2>1, UpdatedObject DEF Touched
  <2>3. ShapeOf(m)
    BY <2>1 DEF Touched, ShapeOf
  <2> QED
    BY <2>1, <2>2, <2>3
<1>9. show \in BOOLEAN
  BY <1>5 DEF ShapeOf, Objects
<1> HIDE DEF show
<1>10. IsPanda(m) <=> IsPanda(s)
  BY <1>8 DEF Touched, IsPanda
<1>11. /\ Touched(m, Displayed(m, v, show), v)
       /\ Displayed(m, v, show).scene.groups = m.scene.groups
       /\ Displayed(m, v, show).class = m.class
       /\ IsPanda(s) => MarkerOf(Displayed(m, v, show).viewer[v], Displayed(m, v, show).scene.node[NameOf[v]])
  BY <1>7, <1>8, <1>9, <1>10, DisplayedTouches
<1>12. Touched(s, Displayed(m, v, show), v)
  BY <1>8, <1>11, TouchedTwice
<1>13. \A g \in RobotGroups(NameOf[v]) \cup MarkersGroup(NameOf[v]) : IsGroup(g) /\ g[1] = NameOf[v]
  BY ViewerAssumption DEF RobotGroups, MarkersGroup, IsGroup
<1>14. Touched(s, t, v) /\ t.class.colored = s.class.colored \cup {NameOf[v]}
  BY <1>1, <1>2, <1>3, <1>4, <1>6, <1>7, <1>11, <1>12
<1>15. ASSUME NEW g \in t.scene.groups
       PROVE  g \in s.scene.groups \/ (IsGroup(g) /\ g[1] = NameOf[v] /\ IsConnected(s, v))
  BY <1>1, <1>3, <1>4, <1>7, <1>11, <1>13
<1>16. (IsConnected(s, v) /\ IsPanda(s)) => MarkerOf(t.viewer[v], t.scene.node[NameOf[v]])
  BY <1>3, <1>11
<1> QED
  BY <1>14, <1>15, <1>16 DEF t

\* The invariants of the names, but for one slot.
ColorsBut(s, v) ==
    \A w \in Slots \ {v} :
      (IsAlive(s) /\ s.viewer[w] # None /\ s.viewer[w].proc = s.class.proc) =>
        (s.viewer[w].isOpen <=> NameOf[w] \in s.class.colored)

MarkersBut(s, v) ==
    \A w \in Slots \ {v} :
      (IsConnected(s, w) /\ IsPanda(s)) => MarkerOf(s.viewer[w], s.scene.node[NameOf[w]])

NamedBut(s, v) == ColorsBut(s, v) /\ MarkersBut(s, v)

LEMMA NamedIsButOne ==
    ASSUME NEW s, NEW v, NamedInv(s)
    PROVE  NamedBut(s, v)
BY DEF NamedInv, NamedBut, ColorsInv, MarkersInv, ColorsBut, MarkersBut

LEMMA TouchedNamed ==
    ASSUME NamesDiffer, NEW s, NEW t, NEW v \in Slots, NamedBut(s, v), Touched(s, t, v),
           s.viewer[v] # None,
           t.class.colored \ {NameOf[v]} = s.class.colored \ {NameOf[v]},
           (IsAlive(s) /\ s.viewer[v].proc = s.class.proc) =>
              (s.viewer[v].isOpen <=> NameOf[v] \in t.class.colored),
           (IsConnected(s, v) /\ IsPanda(s)) => MarkerOf(t.viewer[v], t.scene.node[NameOf[v]])
    PROVE  NamedInv(t)
<1>1. t.viewer[v] # None
  BY UpdatedObject DEF Touched
<1>2. /\ IsAlive(t) <=> IsAlive(s)
      /\ IsPanda(t) <=> IsPanda(s)
      /\ t.class.proc = s.class.proc
  BY DEF Touched, IsAlive, ProcessIsAlive, IsPanda
<1>3. ASSUME NEW w \in Slots, IsAlive(t), t.viewer[w] # None, t.viewer[w].proc = t.class.proc
      PROVE  t.viewer[w].isOpen <=> NameOf[w] \in t.class.colored
  <2>1. CASE w = v
    BY <1>2, <1>3, <2>1 DEF Touched
  <2>2. CASE w # v
    <3>1. t.viewer[w] = s.viewer[w] /\ NameOf[w] # NameOf[v]
      BY <2>2 DEF Touched, NamesDiffer
    <3>2. s.viewer[w].isOpen <=> NameOf[w] \in s.class.colored
      BY <1>2, <1>3, <2>2, <3>1 DEF NamedBut, ColorsBut
    <3> QED
      BY <3>1, <3>2
  <2> QED
    BY <2>1, <2>2
<1>4. ASSUME NEW w \in Slots, IsConnected(t, w), IsPanda(t)
      PROVE  MarkerOf(t.viewer[w], t.scene.node[NameOf[w]])
  <2>1. CASE w = v
    <3>1. IsConnected(s, v)
      BY <1>2, <1>4, <2>1 DEF IsConnected, IsOpen, Touched
    <3> QED
      BY <1>2, <1>4, <2>1, <3>1
  <2>2. CASE w # v
    <3>1. t.viewer[w] = s.viewer[w] /\ NameOf[w] \in Names \ {NameOf[v]}
      BY <2>2, ViewerAssumption DEF Touched, NamesDiffer
    <3>2. t.scene.node[NameOf[w]] = s.scene.node[NameOf[w]]
      BY <3>1 DEF Touched
    <3>3. IsConnected(s, w)
      BY <1>2, <1>4, <3>1 DEF IsConnected, IsOpen
    <3> QED
      BY <1>2, <1>4, <2>2, <3>1, <3>2, <3>3 DEF NamedBut, MarkersBut
  <2> QED
    BY <2>1, <2>2
<1> QED
  BY <1>3, <1>4 DEF NamedInv, ColorsInv, MarkersInv

---------------------------------------------------------------------------
(* Every call keeps the invariants.                                        *)

LEMMA RefreshedInv ==
    ASSUME NEW s, InvOf(s), NEW v \in Slots, s.viewer[v] # None
    PROVE  InvOf(Refreshed(s, v)) /\ (NamesDiffer /\ NamedInv(s) => NamedInv(Refreshed(s, v)))
<1> DEFINE t == Refreshed(s, v)
<1>1. ShapeOf(s)
  BY DEF InvOf
<1>2. Touched(s, t, v) /\ t.scene.groups = s.scene.groups /\ t.class = s.class
  BY <1>1, RefreshedTouches
<1>3. InvOf(t)
  BY <1>2, TouchedInv
<1>4. ASSUME NamesDiffer, NamedInv(s)
      PROVE  NamedInv(t)
  <2>1. (IsConnected(s, v) /\ IsPanda(s)) => MarkerOf(t.viewer[v], t.scene.node[NameOf[v]])
    BY <1>1, <1>4, RefreshedMarker DEF NamedInv, MarkersInv
  <2>2. (IsAlive(s) /\ s.viewer[v].proc = s.class.proc) =>
          (s.viewer[v].isOpen <=> NameOf[v] \in t.class.colored)
    BY <1>2, <1>4 DEF NamedInv, ColorsInv
  <2>3. NamedBut(s, v)
    BY <1>4, NamedIsButOne
  <2> HIDE DEF t
  <2> QED
    BY <1>2, <1>4, <2>1, <2>2, <2>3, TouchedNamed
<1> QED
  BY <1>3, <1>4

LEMMA DisplayedInv ==
    ASSUME NEW s, InvOf(s), NEW v \in Slots, s.viewer[v] # None, NEW show \in BOOLEAN
    PROVE  InvOf(Displayed(s, v, show)) /\ (NamesDiffer /\ NamedInv(s) => NamedInv(Displayed(s, v, show)))
<1> DEFINE t == Displayed(s, v, show)
<1>1. ShapeOf(s)
  BY DEF InvOf
<1>2. Touched(s, t, v) /\ t.scene.groups = s.scene.groups /\ t.class = s.class
  BY <1>1, DisplayedTouches
<1>3. InvOf(t)
  BY <1>2, TouchedInv
<1>4. ASSUME NamesDiffer, NamedInv(s)
      PROVE  NamedInv(t)
  <2>1. (IsConnected(s, v) /\ IsPanda(s)) => MarkerOf(t.viewer[v], t.scene.node[NameOf[v]])
    BY <1>1, <1>4, DisplayedTouches DEF NamedInv, MarkersInv
  <2>2. (IsAlive(s) /\ s.viewer[v].proc = s.class.proc) =>
          (s.viewer[v].isOpen <=> NameOf[v] \in t.class.colored)
    BY <1>2, <1>4 DEF NamedInv, ColorsInv
  <2>3. NamedBut(s, v)
    BY <1>4, NamedIsButOne
  <2> HIDE DEF t
  <2> QED
    BY <1>2, <1>4, <2>1, <2>2, <2>3, TouchedNamed
<1> QED
  BY <1>3, <1>4

LEMMA SetUpInv ==
    ASSUME NEW s, InvOf(s), NEW v \in Slots, s.viewer[v] # None, s.viewer[v].isOpen
    PROVE  /\ InvOf(SetUp(s, v)) /\ SetUp(s, v).viewer[v] # None
           /\ NamesDiffer /\ NamedBut(s, v) => NamedInv(SetUp(s, v))
<1> DEFINE t == SetUp(s, v)
<1>1. ShapeOf(s)
  BY DEF InvOf
<1>2. /\ Touched(s, t, v) /\ t.class.colored = s.class.colored \cup {NameOf[v]}
      /\ \A g \in t.scene.groups :
           g \in s.scene.groups \/ (IsGroup(g) /\ g[1] = NameOf[v] /\ IsConnected(s, v))
      /\ (IsConnected(s, v) /\ IsPanda(s)) => MarkerOf(t.viewer[v], t.scene.node[NameOf[v]])
  BY <1>1, SetUpTouches
<1> HIDE DEF t
<1>3. InvOf(t)
  BY <1>2, TouchedInv
<1>4. ASSUME NamesDiffer, NamedBut(s, v)
      PROVE  NamedInv(t)
  BY <1>2, <1>4, TouchedNamed
<1>5. t.viewer[v] # None
  BY <1>2, UpdatedObject DEF Touched
<1> QED
  BY <1>3, <1>4, <1>5 DEF t

LEMMA OpenedGuiInv ==
    ASSUME NEW s, InvOf(s)
    PROVE  /\ InvOf(OpenedGui(s)) /\ (IsAlive(OpenedGui(s)) <=> IsAlive(s))
           /\ NamedInv(s) => NamedInv(OpenedGui(s))
<1> DEFINE t == OpenedGui(s)
<1>1. /\ DOMAIN t = DOMAIN s /\ DOMAIN t.class = DOMAIN s.class
      /\ DOMAIN t.scene = DOMAIN s.scene /\ t.scene.node = s.scene.node
      /\ t.class.backend = s.class.backend /\ t.class.proc = s.class.proc
      /\ t.class.travelling = s.class.travelling /\ t.class.colored = s.class.colored
      /\ t.scene.number = s.scene.number /\ t.scene.alive = s.scene.alive
      /\ t.scene.picked = s.scene.picked /\ t.scene.groups = s.scene.groups
      /\ t.scene.lit = s.scene.lit
      /\ t.viewer = s.viewer
  BY DEF InvOf, ShapeOf, OpenedGui, OpenedWindow
<1>2. GuiInv(t)
  BY DEF InvOf, ShapeOf, GuiInv, OpenedGui, OpenedWindow, HasGui, IsAlive, ProcessIsAlive, IsPanda
<1> HIDE DEF t
<1>3. /\ IsAlive(t) <=> IsAlive(s)
      /\ IsPanda(t) <=> IsPanda(s)
      /\ \A v \in Slots : IsConnected(t, v) <=> IsConnected(s, v)
  BY <1>1 DEF IsAlive, ProcessIsAlive, IsPanda, IsConnected, IsOpen
<1>4. ShapeOf(t) /\ ProcessInv(t) /\ LitInv(t) /\ RobotsInv(t)
  BY <1>1 DEF InvOf, ShapeOf, ProcessInv, LitInv, RobotsInv
<1>5. TravellingInv(t)
  BY <1>1, <1>3 DEF InvOf, TravellingInv, IsOpen
<1>6. NamedInv(s) => NamedInv(t)
  BY <1>1, <1>3 DEF NamedInv, ColorsInv, MarkersInv
<1> QED
  BY <1>2, <1>3, <1>4, <1>5, <1>6 DEF InvOf, t

LEMMA StartedInv ==
    ASSUME NEW s, InvOf(s), NEW b \in Backends
    PROVE  LET t == StartedProcess(ClosedAll(s), b) IN
           InvOf(t) /\ NamedInv(t) /\ IsAlive(t)
<1> DEFINE t == StartedProcess(ClosedAll(s), b)
           k == s.scene.number + 1
<1>1. /\ DOMAIN t = DOMAIN s /\ t.scene = NewScene(k, TRUE) /\ t.viewer = s.viewer
      /\ t.class = [NoClass EXCEPT !.backend = b, !.proc = k]
  BY DEF InvOf, ShapeOf, ClosedAll, StartedProcess, Killed, NewScene
<1>2. k \in Nat /\ k # None /\ \A v \in Slots : s.viewer[v] # None => s.viewer[v].proc < k
  <2>1. s.scene.number \in Nat
    BY DEF InvOf, ProcessInv
  <2>2. k \in Nat /\ k # None
    BY <2>1, ViewerAssumption
  <2>3. ASSUME NEW v \in Slots, s.viewer[v] # None PROVE s.viewer[v].proc < k
    <3>1. s.viewer[v].proc \in Nat /\ s.viewer[v].proc <= s.scene.number
      BY <2>3 DEF InvOf, ProcessInv, ShapeOf, Objects
    <3> QED
      BY <2>1, <3>1
  <2> QED
    BY <2>2, <2>3
<1> HIDE DEF t
<1>3. /\ DOMAIN t.class = DOMAIN NoClass /\ t.class.backend = b /\ t.class.proc = k
      /\ t.class.hasGui = FALSE /\ t.class.travelling = None /\ t.class.colored = {}
  BY <1>1 DEF NoClass
<1>4. /\ t.scene.number = k /\ t.scene.alive = TRUE /\ t.scene.groups = {} /\ t.scene.lit = {}
      /\ DOMAIN t.scene.node = Names /\ DOMAIN t.scene = DOMAIN s.scene
  BY <1>1 DEF NewScene, InvOf, ShapeOf
<1> HIDE DEF k
<1>5. IsAlive(t)
  BY <1>2, <1>3, <1>4 DEF IsAlive, ProcessIsAlive
<1>6. ShapeOf(t)
  BY <1>1, <1>3, <1>4 DEF InvOf, ShapeOf, NoClass
<1>7. ProcessInv(t)
  <2>1. ASSUME NEW v \in Slots, t.viewer[v] # None PROVE t.viewer[v].proc <= k
    <3>1. s.viewer[v] # None /\ t.viewer[v] = s.viewer[v] /\ s.viewer[v].proc < k /\ s.viewer[v].proc \in Nat
      BY <1>1, <1>2, <2>1 DEF InvOf, ShapeOf, Objects
    <3> QED
      BY <1>2, <3>1
  <2> QED
    BY <1>2, <1>3, <1>4, <2>1 DEF ProcessInv
<1>8. TravellingInv(t) /\ GuiInv(t) /\ LitInv(t) /\ RobotsInv(t)
  BY <1>3, <1>4 DEF TravellingInv, GuiInv, LitInv, RobotsInv
<1>9. ASSUME NEW v \in Slots, t.viewer[v] # None PROVE t.viewer[v].proc # t.class.proc
  <2>1. s.viewer[v].proc < k /\ s.viewer[v].proc \in Nat
    BY <1>1, <1>2, <1>9 DEF InvOf, ShapeOf, Objects
  <2> QED
    BY <1>1, <1>2, <1>3, <2>1
<1>10. NamedInv(t)
  BY <1>9 DEF NamedInv, ColorsInv, MarkersInv, IsConnected, IsOpen
<1> QED
  BY <1>5, <1>6, <1>7, <1>8, <1>10 DEF InvOf, t

LEMMA ConnectedInv ==
    ASSUME NEW s, InvOf(s), NEW b \in Backends
    PROVE  LET t == Connected(s, b) IN
           InvOf(t) /\ IsAlive(t) /\ (NamedInv(s) => NamedInv(t))
<1>1. ~IsAlive(ClosedAll(s))
  BY DEF IsAlive, ProcessIsAlive, ClosedAll, NoClass, Killed, NewScene, InvOf, ShapeOf
<1>2. Connected(s, b) = IF IsAlive(s) /\ s.class.backend = b THEN s ELSE StartedProcess(ClosedAll(s), b)
  BY <1>1 DEF Connected, Disconnected
<1> QED
  BY <1>2, StartedInv

LEMMA MadeInv ==
    ASSUME NEW s, InvOf(s), IsAlive(s), NEW v \in Slots, NEW display \in BOOLEAN, NEW deletes \in BOOLEAN
    PROVE  LET t == [s EXCEPT !.viewer[v] = NewViewer(s, display, deletes)] IN
           /\ InvOf(t) /\ t.viewer[v] # None /\ t.viewer[v].isOpen
           /\ NamedInv(s) => NamedBut(t, v)
<1> DEFINE o == NewViewer(s, display, deletes)
           t == [s EXCEPT !.viewer[v] = o]
<1>1. /\ t.class = s.class /\ t.scene = s.scene /\ DOMAIN t = DOMAIN s
      /\ t.viewer = [s.viewer EXCEPT ![v] = o]
  BY DEF InvOf, ShapeOf
<1>2. s.scene.number \in Nat /\ s.class.proc = s.scene.number
  BY DEF InvOf, ProcessInv, IsAlive, ProcessIsAlive
<1>3. o \in Objects /\ o.isOpen = TRUE /\ o.proc = s.scene.number
  <2>1. (display /\ IsPanda(s)) \in BOOLEAN
    OBVIOUS
  <2> QED
    BY <1>2, <2>1 DEF NewViewer, Objects
<1>4. o # None
  BY <1>3, UpdatedObject
<1> HIDE DEF o, t
<1>5. t.viewer[v] = o /\ \A w \in Slots \ {v} : t.viewer[w] = s.viewer[w]
  BY <1>1 DEF InvOf, ShapeOf
<1>6. ShapeOf(t)
  BY <1>1, <1>3 DEF InvOf, ShapeOf
<1>7. ProcessInv(t)
  BY <1>1, <1>2, <1>3, <1>5 DEF InvOf, ProcessInv
<1>8. TravellingInv(t)
  BY <1>1, <1>3, <1>4, <1>5 DEF InvOf, TravellingInv, IsAlive, ProcessIsAlive, IsOpen
<1>9. GuiInv(t) /\ LitInv(t)
  BY <1>1 DEF InvOf, GuiInv, LitInv, IsAlive, ProcessIsAlive, IsPanda
<1>10. RobotsInv(t)
  BY <1>1, <1>3, <1>5 DEF InvOf, RobotsInv
<1>11. NamedInv(s) => NamedBut(t, v)
  BY <1>1, <1>5 DEF NamedInv, ColorsInv, MarkersInv, NamedBut, ColorsBut, MarkersBut,
     IsConnected, IsOpen, IsAlive, ProcessIsAlive, IsPanda
<1> QED
  BY <1>3, <1>4, <1>5, <1>6, <1>7, <1>8, <1>9, <1>10, <1>11 DEF InvOf, t, o

LEMMA RegisteredInv ==
    ASSUME NEW s, InvOf(s), NEW names
    PROVE  LET t == [s EXCEPT !.class.names = names] IN
           InvOf(t) /\ (NamedInv(s) => NamedInv(t))
<1> DEFINE t == [s EXCEPT !.class.names = names]
<1>1. /\ DOMAIN t = DOMAIN s /\ DOMAIN t.class = DOMAIN s.class
      /\ t.scene = s.scene /\ t.viewer = s.viewer
      /\ t.class.backend = s.class.backend /\ t.class.proc = s.class.proc
      /\ t.class.hasGui = s.class.hasGui
      /\ t.class.travelling = s.class.travelling /\ t.class.colored = s.class.colored
  BY DEF InvOf, ShapeOf
<1> HIDE DEF t
<1>2. /\ IsAlive(t) <=> IsAlive(s)
      /\ IsPanda(t) <=> IsPanda(s)
      /\ \A v \in Slots : IsConnected(t, v) <=> IsConnected(s, v)
  BY <1>1 DEF IsAlive, ProcessIsAlive, IsPanda, IsConnected, IsOpen
<1>3. ShapeOf(t) /\ ProcessInv(t) /\ LitInv(t) /\ RobotsInv(t)
  BY <1>1 DEF InvOf, ShapeOf, ProcessInv, LitInv, RobotsInv
<1>4. TravellingInv(t) /\ GuiInv(t)
  BY <1>1, <1>2 DEF InvOf, TravellingInv, GuiInv, IsOpen
<1>5. NamedInv(s) => NamedInv(t)
  BY <1>1, <1>2 DEF NamedInv, ColorsInv, MarkersInv
<1> QED
  BY <1>3, <1>4, <1>5 DEF InvOf, t

LEMMA ConstructedInv ==
    ASSUME NEW s, InvOf(s), NEW v \in Slots, NEW b \in Backends, NEW gui,
           NEW display \in BOOLEAN, NEW deletes \in BOOLEAN
    PROVE  LET t == Constructed(s, v, b, gui, display, deletes) IN
           InvOf(t) /\ (NamesDiffer /\ NamedInv(s) => NamedInv(t))
<1> DEFINE n == Registered(s, v)
           c == Connected(n, b)
           o == IF gui THEN OpenedGui(c) ELSE c
           m == [o EXCEPT !.viewer[v] = NewViewer(o, display, deletes)]
           u == SetUp(m, v)
<1>1. InvOf(n) /\ (NamedInv(s) => NamedInv(n))
  <2>1. n = [s EXCEPT !.class.names = s.class.names \cup {NameOf[v]}]
    BY DEF Registered
  <2> QED
    BY <2>1, RegisteredInv
<1>2. InvOf(c) /\ IsAlive(c) /\ (NamedInv(n) => NamedInv(c))
  <2> HIDE DEF n
  <2> QED
    BY <1>1, ConnectedInv
<1>3. InvOf(o) /\ IsAlive(o) /\ (NamedInv(c) => NamedInv(o))
  <2> HIDE DEF c
  <2> QED
    BY <1>2, OpenedGuiInv
<1>4. /\ InvOf(m) /\ m.viewer[v] # None /\ m.viewer[v].isOpen
      /\ NamedInv(o) => NamedBut(m, v)
  <2> HIDE DEF o
  <2> QED
    BY <1>3, MadeInv
<1>5. /\ InvOf(u) /\ u.viewer[v] # None
      /\ NamesDiffer /\ NamedBut(m, v) => NamedInv(u)
  <2> HIDE DEF m
  <2> QED
    BY <1>4, SetUpInv
<1>6. InvOf(Refreshed(u, v)) /\ (NamesDiffer /\ NamedInv(u) => NamedInv(Refreshed(u, v)))
  <2> HIDE DEF u
  <2> QED
    BY <1>5, RefreshedInv
<1>7. Constructed(s, v, b, gui, display, deletes) = Refreshed(u, v)
  BY DEF Constructed
<1> HIDE DEF n, c, o, m, u
<1> QED
  BY <1>1, <1>2, <1>3, <1>4, <1>5, <1>6, <1>7

LEMMA ClosedViewerInv ==
    ASSUME NEW s, InvOf(s), NEW v \in Slots, s.viewer[v] # None
    PROVE  InvOf(ClosedViewer(s, v)) /\ (NamesDiffer /\ NamedInv(s) => NamedInv(ClosedViewer(s, v)))
<1>1. InvOf(ClosedViewer(s, v))
  BY ClosedViewerShape, ClosedViewerProcess, ClosedViewerTravelling, ClosedViewerGui,
     ClosedViewerRobots DEF InvOf
<1>2. ASSUME NamesDiffer, NamedInv(s) PROVE NamedInv(ClosedViewer(s, v))
  BY <1>2, ClosedViewerColors, ClosedViewerMarkers DEF InvOf, NamedInv
<1> QED
  BY <1>1, <1>2

LEMMA CollectedInv ==
    ASSUME NEW s, InvOf(s), NEW v \in Slots, s.class.travelling # v
    PROVE  LET t == [s EXCEPT !.viewer[v] = None] IN
           InvOf(t) /\ (NamedInv(s) => NamedInv(t))
<1> DEFINE t == [s EXCEPT !.viewer[v] = None]
<1>1. /\ DOMAIN t = DOMAIN s /\ t.class = s.class /\ t.scene = s.scene
      /\ t.viewer = [s.viewer EXCEPT ![v] = None]
  BY DEF InvOf, ShapeOf
<1> HIDE DEF t
<1>2. t.viewer[v] = None /\ \A w \in Slots \ {v} : t.viewer[w] = s.viewer[w]
  BY <1>1 DEF InvOf, ShapeOf
<1>3. ShapeOf(t)
  BY <1>1 DEF InvOf, ShapeOf
<1>4. ProcessInv(t) /\ GuiInv(t) /\ LitInv(t) /\ RobotsInv(t)
  BY <1>1, <1>2 DEF InvOf, ProcessInv, GuiInv, LitInv, RobotsInv, IsAlive, ProcessIsAlive, IsPanda
<1>5. TravellingInv(t)
  BY <1>1, <1>2 DEF InvOf, TravellingInv, IsOpen, IsAlive, ProcessIsAlive
<1>6. NamedInv(s) => NamedInv(t)
  BY <1>1, <1>2 DEF NamedInv, ColorsInv, MarkersInv, IsConnected, IsOpen, IsAlive, ProcessIsAlive,
     IsPanda
<1> QED
  BY <1>3, <1>4, <1>5, <1>6 DEF InvOf, t

\* What the camera does, the window, the legend and what is selected are of no matter to the rest.
LEMMA DetachedInv ==
    ASSUME NEW s, InvOf(s)
    PROVE  InvOf(DetachCamera(s)) /\ (NamedInv(s) => NamedInv(DetachCamera(s)))
BY DEF DetachCamera, InvOf, ShapeOf, ProcessInv, TravellingInv, GuiInv, LitInv, RobotsInv, NamedInv,
   ColorsInv, MarkersInv, IsConnected, IsOpen, IsAlive, ProcessIsAlive, IsPanda

LEMMA LegendInv ==
    ASSUME NEW s, InvOf(s), NEW items
    PROVE  LET t == [s EXCEPT !.scene = SetLegend(@, items)] IN
           InvOf(t) /\ (NamedInv(s) => NamedInv(t))
BY DEF SetLegend, InvOf, ShapeOf, ProcessInv, TravellingInv, GuiInv, LitInv, RobotsInv, NamedInv,
   ColorsInv, MarkersInv, IsConnected, IsOpen, IsAlive, ProcessIsAlive, IsPanda

---------------------------------------------------------------------------
(* The actions.                                                            *)

\* The inductive invariant of the viewers.
ViewerInv == InvOf(Now) /\ (NamesDiffer => NamedInv(Now))

LEMMA SameParts ==
    ASSUME NEW s, NEW t, InvOf(s), DOMAIN t = DOMAIN s,
           t.class = s.class, t.scene = s.scene, t.viewer = s.viewer
    PROVE  InvOf(t) /\ (NamedInv(s) => NamedInv(t))
<1>1. /\ IsAlive(t) <=> IsAlive(s)
      /\ IsPanda(t) <=> IsPanda(s)
      /\ \A v \in Slots : IsConnected(t, v) <=> IsConnected(s, v)
      /\ \A v \in Slots : IsOpen(t, v) <=> IsOpen(s, v)
  BY DEF IsAlive, ProcessIsAlive, IsPanda, IsConnected, IsOpen
<1>2. ShapeOf(t) /\ ProcessInv(t) /\ LitInv(t) /\ RobotsInv(t)
  BY DEF InvOf, ShapeOf, ProcessInv, LitInv, RobotsInv
<1>3. TravellingInv(t) /\ GuiInv(t)
  BY <1>1 DEF InvOf, TravellingInv, GuiInv
<1>4. NamedInv(s) => NamedInv(t)
  BY <1>1 DEF NamedInv, ColorsInv, MarkersInv
<1> QED
  BY <1>2, <1>3, <1>4 DEF InvOf

LEMMA BecomeInv ==
    ASSUME NEW t, InvOf(t), NamesDiffer => NamedInv(t), Become(t)
    PROVE  ViewerInv'
<1> DEFINE u == [class |-> t.class, scene |-> t.scene, viewer |-> t.viewer]
<1>1. Now' = u
  BY DEF Now, Become
<1>2. DOMAIN u = DOMAIN t /\ u.class = t.class /\ u.scene = t.scene /\ u.viewer = t.viewer
  BY DEF InvOf, ShapeOf
<1> HIDE DEF u
<1>3. InvOf(u) /\ (NamedInv(t) => NamedInv(u))
  BY <1>2, SameParts
<1> QED
  BY <1>1, <1>3 DEF ViewerInv

LEMMA NowInv ==
    ASSUME ViewerInv
    PROVE  /\ InvOf(Now) /\ (NamesDiffer => NamedInv(Now))
           /\ Now.class = class /\ Now.scene = scene /\ Now.viewer = viewer
BY DEF ViewerInv, Now

LEMMA InitInv == Init => ViewerInv
<1> SUFFICES ASSUME Init PROVE ViewerInv
  OBVIOUS
<1>1. /\ Now.class = NoClass /\ Now.scene = NewScene(0, FALSE) /\ Now.viewer = [v \in Slots |-> None]
      /\ DOMAIN Now = {"class", "scene", "viewer"}
  BY DEF Init, Now
<1> DEFINE s == Now
<1> HIDE DEF s
<1>2. /\ s.class = NoClass /\ s.scene = NewScene(0, FALSE) /\ s.viewer = [v \in Slots |-> None]
      /\ DOMAIN s = {"class", "scene", "viewer"}
  BY <1>1 DEF s
<1>3. InvOf(s) /\ NamedInv(s)
  BY <1>2 DEF NoClass, NewScene, InvOf, NamedInv, ShapeOf, ProcessInv, TravellingInv, GuiInv,
     LitInv,
     RobotsInv, ColorsInv, MarkersInv, IsConnected, IsOpen, IsAlive, ProcessIsAlive
<1> QED
  BY <1>3 DEF ViewerInv, s

LEMMA ClosingActions ==
    ASSUME ViewerInv, CloseAll \/ \E v \in Slots : CloseViewer(v) \/ Collect(v)
    PROVE  ViewerInv'
<1> DEFINE s == Now
<1>1. InvOf(s) /\ (NamesDiffer => NamedInv(s)) /\ s.viewer = viewer /\ s.class = class
  BY NowInv
<1>2. CASE CloseAll
  <2>1. Become(ClosedAll(s))
    BY <1>2 DEF CloseAll
  <2> HIDE DEF s
  <2> QED
    BY <1>1, <2>1, ClosedAllInv, BecomeInv
<1>3. ASSUME NEW v \in Slots, CloseViewer(v) PROVE ViewerInv'
  <2>1. Become(ClosedViewer(s, v)) /\ s.viewer[v] # None
    BY <1>1, <1>3 DEF CloseViewer
  <2> HIDE DEF s
  <2> QED
    BY <1>1, <2>1, ClosedViewerInv, BecomeInv
<1>4. ASSUME NEW v \in Slots, Collect(v) PROVE ViewerInv'
  <2> DEFINE c == ClosedViewer(s, v)
             t == [c EXCEPT !.viewer[v] = None]
  <2>1. Become(t) /\ s.viewer[v] # None /\ s.class.travelling # v
    BY <1>1, <1>4 DEF Collect
  <2> HIDE DEF s
  <2>2. InvOf(c) /\ (NamesDiffer => NamedInv(c))
    BY <1>1, <2>1, ClosedViewerInv
  <2>3. c.class.travelling # v
    BY <1>1, <2>1 DEF ClosedViewer, DetachedFrom, Unregistered, Deleted, InvOf, ShapeOf
  <2> HIDE DEF c
  <2>4. InvOf(t) /\ (NamedInv(c) => NamedInv(t))
    BY <2>2, <2>3, CollectedInv
  <2> HIDE DEF t
  <2> QED
    BY <2>1, <2>2, <2>4, BecomeInv
<1> QED
  BY <1>2, <1>3, <1>4

LEMMA ConstructActions ==
    ASSUME ViewerInv, NEW v \in Slots, Construct(v) \/ ConstructFails(v)
    PROVE  ViewerInv'
<1> DEFINE s == Now
<1>1. InvOf(s) /\ (NamesDiffer => NamedInv(s))
  BY NowInv
<1>2. CASE Construct(v)
  <2>1. PICK b \in Backends, gui \in BOOLEAN, display \in BOOLEAN, deletes \in BOOLEAN :
          Become(Constructed(s, v, b, gui, display, deletes))
    BY <1>2 DEF Construct
  <2> HIDE DEF s
  <2> DEFINE t == Constructed(s, v, b, gui, display, deletes)
  <2>2. InvOf(t) /\ (NamesDiffer => NamedInv(t))
    BY <1>1, ConstructedInv
  <2> HIDE DEF t
  <2> QED
    BY <2>1, <2>2, BecomeInv DEF t
<1>3. CASE ConstructFails(v)
  <2>1. Become(Registered(s, v)) \/ Become(ClosedAll(s))
    BY <1>3 DEF ConstructFails
  <2> HIDE DEF s
  <2>2. Registered(s, v) = [s EXCEPT !.class.names = s.class.names \cup {NameOf[v]}]
    BY DEF Registered
  <2>3. InvOf(Registered(s, v)) /\ (NamesDiffer => NamedInv(Registered(s, v)))
    BY <1>1, <2>2, RegisteredInv
  <2>4. InvOf(ClosedAll(s)) /\ NamedInv(ClosedAll(s))
    BY <1>1, ClosedAllInv
  <2> QED
    BY <2>1, <2>3, <2>4, BecomeInv
<1> QED
  BY <1>2, <1>3

LEMMA CallActions ==
    ASSUME ViewerInv, NEW v \in Slots, Setup(v) \/ Display(v) \/ Refresh(v)
    PROVE  ViewerInv'
<1> DEFINE s == Now
<1>1. InvOf(s) /\ (NamesDiffer => NamedInv(s))
  BY NowInv
<1>2. s.viewer[v] # None /\ s.viewer[v].isOpen
  BY DEF Setup, Display, Refresh, IsConnected, IsOpen
<1>3. \/ Become(SetUp(s, v)) \/ Become(Refreshed(s, v))
      \/ \E show \in BOOLEAN : Become(Displayed(s, v, show))
  BY DEF Setup, Display, Refresh
<1> HIDE DEF s
<1>4. CASE Become(SetUp(s, v))
  <2>1. InvOf(SetUp(s, v)) /\ (NamesDiffer => NamedInv(SetUp(s, v)))
    BY <1>1, <1>2, SetUpInv, NamedIsButOne
  <2> QED
    BY <1>4, <2>1, BecomeInv
<1>5. CASE Become(Refreshed(s, v))
  BY <1>1, <1>2, <1>5, RefreshedInv, BecomeInv
<1>6. ASSUME NEW show \in BOOLEAN, Become(Displayed(s, v, show)) PROVE ViewerInv'
  BY <1>1, <1>2, <1>6, DisplayedInv, BecomeInv
<1> QED
  BY <1>3, <1>4, <1>5, <1>6

LEMMA KilledInv ==
    ASSUME NEW s, InvOf(s)
    PROVE  LET t == [s EXCEPT !.scene = Killed(@)] IN InvOf(t) /\ NamedInv(t)
<1> DEFINE t == [s EXCEPT !.scene = Killed(@)]
<1>1. /\ DOMAIN t = DOMAIN s /\ t.class = s.class /\ t.viewer = s.viewer
      /\ t.scene = NewScene(s.scene.number, FALSE)
  BY DEF InvOf, ShapeOf, Killed
<1> HIDE DEF t
<1>2. /\ t.scene.number = s.scene.number /\ t.scene.alive = FALSE /\ t.scene.groups = {}
      /\ t.scene.lit = {} /\ DOMAIN t.scene.node = Names /\ DOMAIN t.scene = DOMAIN s.scene
  BY <1>1 DEF NewScene, InvOf, ShapeOf
<1>3. ShapeOf(t) /\ ProcessInv(t)
  BY <1>1, <1>2 DEF InvOf, ShapeOf, ProcessInv
<1>4. TravellingInv(t) /\ GuiInv(t) /\ LitInv(t) /\ RobotsInv(t)
  BY <1>1, <1>2 DEF InvOf, TravellingInv, GuiInv, LitInv, RobotsInv, IsAlive, ProcessIsAlive
<1>5. NamedInv(t)
  BY <1>2 DEF NamedInv, ColorsInv, MarkersInv, IsConnected, IsOpen, IsAlive, ProcessIsAlive
<1> QED
  BY <1>3, <1>4, <1>5 DEF InvOf, t

LEMMA WindowedInv ==
    ASSUME NEW s, InvOf(s), ~IsPanda(s) \/ ~s.class.hasGui
    PROVE  LET t == [s EXCEPT !.scene = [@ EXCEPT !.window = FALSE]] IN
           InvOf(t) /\ (NamedInv(s) => NamedInv(t))
BY DEF InvOf, ShapeOf, ProcessInv, TravellingInv, GuiInv, LitInv, RobotsInv, NamedInv,
   ColorsInv, MarkersInv, IsConnected, IsOpen, IsAlive, ProcessIsAlive, IsPanda

LEMMA AttachedInv ==
    ASSUME NEW s, InvOf(s), NEW v \in Slots, IsOpen(s, v)
    PROVE  LET t == [s EXCEPT !.class = [@ EXCEPT !.travelling = v]] IN
           InvOf(t) /\ (NamedInv(s) => NamedInv(t))
BY DEF InvOf, ShapeOf, ProcessInv, TravellingInv, GuiInv, LitInv, RobotsInv, NamedInv,
   ColorsInv, MarkersInv, IsConnected, IsOpen, IsAlive, ProcessIsAlive, IsPanda

\* A click raises, releases what was selected, or selects another node.
LEMMA ClickedInv ==
    ASSUME NEW s, InvOf(s), NEW hit \in Selectable(s.scene) \cup {None}
    PROVE  LET t == [s EXCEPT !.scene = ClickOnNode(@, hit)] IN
           InvOf(t) /\ (NamedInv(s) => NamedInv(t))
<1> DEFINE p == s.scene
           q == ClickOnNode(p, hit)
           t == [s EXCEPT !.scene = q]
<1>1. /\ DOMAIN q = DOMAIN p /\ q.node = p.node /\ q.number = p.number /\ q.alive = p.alive
      /\ q.window = p.window /\ q.groups = p.groups
  BY DEF ClickOnNode, HighlightNode, InvOf, ShapeOf
<1>2. q.lit \subseteq {q.picked} /\ None \notin q.lit
  <2>1. p.lit \subseteq {p.picked} /\ None \notin p.lit
    BY DEF InvOf, LitInv
  <2> QED
    BY <2>1 DEF ClickOnNode, HighlightNode, InvOf, ShapeOf
<1>3. /\ DOMAIN t = DOMAIN s /\ t.class = s.class /\ t.viewer = s.viewer /\ t.scene = q
  BY DEF InvOf, ShapeOf
<1> HIDE DEF q, t
<1>4. ShapeOf(t) /\ ProcessInv(t) /\ LitInv(t) /\ RobotsInv(t)
  BY <1>1, <1>2, <1>3 DEF InvOf, ShapeOf, ProcessInv, LitInv, RobotsInv
<1>5. TravellingInv(t) /\ GuiInv(t)
  BY <1>1, <1>3 DEF InvOf, TravellingInv, GuiInv, IsOpen, IsAlive, ProcessIsAlive, IsPanda
<1>6. NamedInv(s) => NamedInv(t)
  BY <1>1, <1>3 DEF NamedInv, ColorsInv, MarkersInv, IsConnected, IsOpen, IsAlive, ProcessIsAlive,
     IsPanda
<1> QED
  BY <1>4, <1>5, <1>6 DEF InvOf, t, q

LEMMA PushedInv ==
    ASSUME NEW s, InvOf(s), NEW v \in Slots, s.viewer[v] # None
    PROVE  LET t == [s EXCEPT !.viewer[v].tiny = ~@, !.viewer[v].fresh = FALSE] IN
           InvOf(t) /\ (NamesDiffer /\ NamedInv(s) => NamedInv(t))
<1> DEFINE o == s.viewer[v]
           q == [[o EXCEPT !.tiny = ~@] EXCEPT !.fresh = FALSE]
           t == [s EXCEPT !.viewer[v].tiny = ~@, !.viewer[v].fresh = FALSE]
<1>1. /\ DOMAIN t = DOMAIN s /\ t.class = s.class /\ t.scene = s.scene
      /\ t.viewer = [s.viewer EXCEPT ![v] = q]
  BY DEF InvOf, ShapeOf
<1>2. o \in Objects
  BY DEF InvOf, ShapeOf
<1>3. [o EXCEPT !.tiny = ~@] \in Objects
  <2>1. (~o.tiny) \in BOOLEAN
    OBVIOUS
  <2> HIDE DEF o
  <2> QED
    BY <1>2, <2>1, UpdatedObject
<1>4. q \in Objects
  BY <1>3, UpdatedObject
<1>5. q.proc = o.proc /\ q.isOpen = o.isOpen /\ q.deletes = o.deletes /\ q.visible = o.visible /\ q.fresh = FALSE
  BY <1>2 DEF Objects
<1> HIDE DEF q, t
<1>6. /\ t.viewer \in [Slots -> Objects \cup {None}] /\ t.viewer[v] = q
      /\ \A w \in Slots \ {v} : t.viewer[w] = s.viewer[w]
  BY <1>1, <1>4 DEF InvOf, ShapeOf
<1>7. Touched(s, t, v)
  BY <1>1, <1>4, <1>5, <1>6 DEF Touched
<1>8. InvOf(t)
  BY <1>1, <1>7, TouchedInv
<1>9. ASSUME NamesDiffer, NamedInv(s) PROVE NamedInv(t)
  <2>1. ASSUME IsConnected(s, v), IsPanda(s) PROVE MarkerOf(t.viewer[v], t.scene.node[NameOf[v]])
    <3>1. MarkerOf(o, s.scene.node[NameOf[v]])
      BY <1>9, <2>1 DEF NamedInv, MarkersInv
    <3>2. MarkerOf(q, s.scene.node[NameOf[v]])
      BY <1>5, <3>1 DEF MarkerOf
    <3> QED
      BY <1>1, <1>6, <3>2
  <2>2. (IsAlive(s) /\ s.viewer[v].proc = s.class.proc) =>
          (s.viewer[v].isOpen <=> NameOf[v] \in t.class.colored)
    BY <1>1, <1>9 DEF NamedInv, ColorsInv
  <2>3. NamedBut(s, v)
    BY <1>9, NamedIsButOne
  <2> QED
    BY <1>1, <1>7, <1>9, <2>1, <2>2, <2>3, TouchedNamed
<1> QED
  BY <1>8, <1>9 DEF t

LEMMA ColoredInv ==
    ASSUME NEW s, InvOf(s), NEW v \in Slots, IsConnected(s, v)
    PROVE  LET t == [s EXCEPT !.class.colored = @ \cup {NameOf[v]}, !.scene = SetLegend(@, FALSE)] IN
           InvOf(t) /\ (NamesDiffer /\ NamedInv(s) => NamedInv(t))
<1> DEFINE t == [s EXCEPT !.class.colored = @ \cup {NameOf[v]}, !.scene = SetLegend(@, FALSE)]
<1>1. ShapeOf(s) /\ s.viewer[v] # None /\ s.viewer[v].isOpen
  BY DEF InvOf, IsConnected, IsOpen
<1>2. /\ Reloaded(s, t) /\ t.scene.groups = s.scene.groups
      /\ t.class.colored = s.class.colored \cup {NameOf[v]}
  BY <1>1 DEF ShapeOf, Reloaded, SetLegend
<1> HIDE DEF t
<1>3. Touched(s, t, v)
  BY <1>1, <1>2, ReloadedTouches
<1>4. InvOf(t)
  BY <1>1, <1>2, <1>3, TouchedInv
<1>5. ASSUME NamesDiffer, NamedInv(s) PROVE NamedInv(t)
  <2>1. (IsConnected(s, v) /\ IsPanda(s)) => MarkerOf(t.viewer[v], t.scene.node[NameOf[v]])
    BY <1>2, <1>5 DEF NamedInv, MarkersInv, Reloaded
  <2>2. NamedBut(s, v)
    BY <1>5, NamedIsButOne
  <2> QED
    BY <1>1, <1>2, <1>3, <1>5, <2>1, <2>2, TouchedNamed
<1> QED
  BY <1>4, <1>5 DEF t

LEMMA UserActions ==
    ASSUME ViewerInv, CloseWindow \/ OpenGui \/ Click \/ Legend \/ Detach
    PROVE  ViewerInv'
<1> DEFINE s == Now
<1>1. /\ InvOf(s) /\ (NamesDiffer => NamedInv(s))
      /\ s.class = class /\ s.scene = scene /\ s.viewer = viewer
      /\ s = [class |-> class, scene |-> scene, viewer |-> viewer]
  BY NowInv DEF Now
<1>2. CASE CloseWindow
  <2> DEFINE k == [s EXCEPT !.scene = Killed(@)]
             w == [s EXCEPT !.scene = [@ EXCEPT !.window = FALSE]]
  <2>1. IF IsPanda(s) THEN Become(k) ELSE Become(w)
    BY <1>1, <1>2 DEF CloseWindow, Become
  <2> HIDE DEF s
  <2>2. InvOf(k) /\ NamedInv(k)
    BY <1>1, KilledInv
  <2>3. ~IsPanda(s) => InvOf(w) /\ (NamesDiffer => NamedInv(w))
    BY <1>1, WindowedInv
  <2> HIDE DEF k, w
  <2> QED
    BY <2>1, <2>2, <2>3, BecomeInv
<1>3. CASE OpenGui
  <2> DEFINE w == [s EXCEPT !.scene = [@ EXCEPT !.window = FALSE]]
  <2>1. Become(OpenedGui(s)) \/ (~class.hasGui /\ Become(w))
    BY <1>3 DEF OpenGui, OpenedWindow
  <2> HIDE DEF s
  <2>2. InvOf(OpenedGui(s)) /\ (NamesDiffer => NamedInv(OpenedGui(s)))
    BY <1>1, OpenedGuiInv
  <2>3. ~class.hasGui => InvOf(w) /\ (NamesDiffer => NamedInv(w))
    BY <1>1, WindowedInv
  <2> HIDE DEF w
  <2> QED
    BY <2>1, <2>2, <2>3, BecomeInv
<1>4. CASE Click
  <2>1. PICK hit \in Selectable(s.scene) \cup {None} :
          scene' = ClickOnNode(scene, hit) /\ class' = class /\ viewer' = viewer
    BY <1>1, <1>4 DEF Click
  <2> DEFINE t == [s EXCEPT !.scene = ClickOnNode(@, hit)]
  <2>2. Become(t)
    BY <1>1, <2>1 DEF Become
  <2> HIDE DEF s
  <2>3. InvOf(t) /\ (NamesDiffer => NamedInv(t))
    BY <1>1, ClickedInv
  <2> HIDE DEF t
  <2> QED
    BY <2>2, <2>3, BecomeInv
<1>5. CASE Legend
  <2>1. PICK labels \in BOOLEAN : scene' = SetLegend(scene, labels) /\ class' = class /\ viewer' = viewer
    BY <1>5 DEF Legend
  <2> DEFINE t == [s EXCEPT !.scene = SetLegend(@, labels)]
  <2>2. Become(t)
    BY <1>1, <2>1 DEF Become
  <2> HIDE DEF s
  <2>3. InvOf(t) /\ (NamesDiffer => NamedInv(t))
    BY <1>1, LegendInv
  <2> HIDE DEF t
  <2> QED
    BY <2>2, <2>3, BecomeInv
<1>6. CASE Detach
  <2>1. Become(DetachCamera(s))
    BY <1>6 DEF Detach
  <2> HIDE DEF s
  <2> QED
    BY <1>1, <2>1, DetachedInv, BecomeInv
<1> QED
  BY <1>2, <1>3, <1>4, <1>5, <1>6

LEMMA OtherActions ==
    ASSUME ViewerInv, NEW v \in Slots, AttachCamera(v) \/ Push(v) \/ SetColor(v)
    PROVE  ViewerInv'
<1> DEFINE s == Now
<1>1. /\ InvOf(s) /\ (NamesDiffer => NamedInv(s))
      /\ s.class = class /\ s.scene = scene /\ s.viewer = viewer
      /\ s = [class |-> class, scene |-> scene, viewer |-> viewer]
  BY NowInv DEF Now
<1>2. CASE AttachCamera(v)
  <2> DEFINE t == [s EXCEPT !.class = [@ EXCEPT !.travelling = v]]
  <2>1. Become(t) /\ IsOpen(s, v)
    BY <1>1, <1>2 DEF AttachCamera, Become
  <2> HIDE DEF s
  <2>2. InvOf(t) /\ (NamesDiffer => NamedInv(t))
    BY <1>1, <2>1, AttachedInv
  <2> HIDE DEF t
  <2> QED
    BY <2>1, <2>2, BecomeInv
<1>3. CASE Push(v)
  <2> DEFINE t == [s EXCEPT !.viewer[v].tiny = ~@, !.viewer[v].fresh = FALSE]
  <2>1. Become(t) /\ s.viewer[v] # None
    BY <1>1, <1>3 DEF Push, Become
  <2> HIDE DEF s
  <2>2. InvOf(t) /\ (NamesDiffer => NamedInv(t))
    BY <1>1, <2>1, PushedInv
  <2> HIDE DEF t
  <2> QED
    BY <2>1, <2>2, BecomeInv
<1>4. CASE SetColor(v)
  <2> DEFINE t == [s EXCEPT !.class.colored = @ \cup {NameOf[v]}, !.scene = SetLegend(@, FALSE)]
  <2>1. Become(t) /\ IsConnected(s, v)
    BY <1>4 DEF SetColor
  <2> HIDE DEF s
  <2>2. InvOf(t) /\ (NamesDiffer => NamedInv(t))
    BY <1>1, <2>1, ColoredInv
  <2> HIDE DEF t
  <2> QED
    BY <2>1, <2>2, BecomeInv
<1> QED
  BY <1>2, <1>3, <1>4

LEMMA NextInv == ViewerInv /\ [Next]_vars => ViewerInv'
<1> SUFFICES ASSUME ViewerInv, [Next]_vars PROVE ViewerInv'
  OBVIOUS
<1>1. CASE UNCHANGED vars
  BY <1>1 DEF vars, ViewerInv, Now
<1>2. CASE CloseAll \/ \E v \in Slots : CloseViewer(v) \/ Collect(v)
  BY <1>2, ClosingActions
<1>3. CASE CloseWindow \/ OpenGui \/ Click \/ Legend \/ Detach
  BY <1>3, UserActions
<1>4. ASSUME NEW v \in Slots, Construct(v) \/ ConstructFails(v) PROVE ViewerInv'
  BY <1>4, ConstructActions
<1>5. ASSUME NEW v \in Slots, Setup(v) \/ Display(v) \/ Refresh(v) PROVE ViewerInv'
  BY <1>5, CallActions
<1>6. ASSUME NEW v \in Slots, AttachCamera(v) \/ Push(v) \/ SetColor(v) PROVE ViewerInv'
  BY <1>6, OtherActions
<1> QED
  BY <1>1, <1>2, <1>3, <1>4, <1>5, <1>6 DEF Next

LEMMA InvShows ==
    ASSUME ViewerInv
    PROVE  /\ TravellingIsOpen /\ OnlyPickedIsLit
           /\ NamesDiffer => SceneOfOpenViewers /\ MarkersAsDisplayed
<1>1. /\ InvOf(Now) /\ (NamesDiffer => NamedInv(Now))
      /\ Now.class = class /\ Now.scene = scene /\ Now.viewer = viewer
  BY NowInv
<1>2. TravellingIsOpen
  BY <1>1 DEF InvOf, TravellingInv, TravellingIsOpen
<1>3. OnlyPickedIsLit
  BY <1>1 DEF InvOf, LitInv, OnlyPickedIsLit
<1>4. GuiIsOpen /\ NoRobotIsLeft
  BY <1>1 DEF InvOf, GuiInv, RobotsInv, GuiIsOpen, NoRobotIsLeft
<1>5. NamesDiffer => ColorsOfOpenViewers
  BY <1>1 DEF NamedInv, ColorsInv, ColorsOfOpenViewers
<1>6. ASSUME NamesDiffer PROVE MarkersAsDisplayed
  <2> SUFFICES ASSUME NEW v \in Slots, IsConnected(Now, v), IsPanda(Now), viewer[v].fresh
               PROVE  scene.node[NameOf[v]].shown = (viewer[v].visible /\ ~viewer[v].tiny)
    BY DEF MarkersAsDisplayed
  <2> DEFINE n == scene.node[NameOf[v]]
             o == viewer[v]
  <2>1. MarkerOf(o, n)
    BY <1>1, <1>6 DEF NamedInv, MarkersInv
  <2>2. o.fresh
    OBVIOUS
  <2> HIDE DEF n, o
  <2>3. n.shown \in BOOLEAN /\ (n.shown <=> (o.visible /\ ~o.tiny))
    BY <2>1, <2>2 DEF MarkerOf
  <2>4. n.shown = (o.visible /\ ~o.tiny)
    BY <2>3
  <2> QED
    BY <2>4 DEF n, o
<1> QED
  BY <1>2, <1>3, <1>4, <1>5, <1>6 DEF SceneOfOpenViewers

\* The invariant holds, whatever is constructed, closed, collected, displayed or clicked.
THEOREM ViewersInvariant == Spec => []ViewerInv
BY InitInv, NextInv, PTL DEF Spec

\* The camera follows a viewer that can be displayed, whatever was closed in between, for any
\* number of viewers (Viewer.attach_camera, close).
THEOREM FollowsOpen == Spec => []TravellingIsOpen
BY ViewersInvariant, InvShows, PTL

\* No node stays highlighted but the one that is selected (Panda3dApp.click_on_node,
\* load_model and remove_node, in any order).
THEOREM LitIsPicked == Spec => []OnlyPickedIsLit
BY ViewersInvariant, InvShows, PTL

\* What the class and the process hold of the viewers is of the open ones: colors, robots and
\* the window, if no two robots have the same name.
THEOREM ScenesOfOpenViewers == ASSUME NamesDiffer PROVE Spec => []SceneOfOpenViewers
<1>1. ViewerInv => SceneOfOpenViewers
  BY InvShows
<1> QED
  BY <1>1, ViewersInvariant, PTL

\* Right after a refresh a marker is shown if and only if it is to be and its scale does not
\* vanish, if no two robots have the same name.
THEOREM MarkersDisplayed == ASSUME NamesDiffer PROVE Spec => []MarkersAsDisplayed
<1>1. ViewerInv => MarkersAsDisplayed
  BY InvShows
<1> QED
  BY <1>1, ViewersInvariant, PTL

---------------------------------------------------------------------------
(* The robots of the scene and who has them.                               *)

\* Every group is of a viewer that is open in the process of the class.
OwnersInv(s) ==
    IsAlive(s) => \A g \in s.scene.groups : \E v \in Slots : IsConnected(s, v) /\ g[1] = NameOf[v]

\* The viewers of replays delete their robot when they are closed.
DeletesInv(s) == \A v \in Slots : s.viewer[v] # None => s.viewer[v].deletes = TRUE

\* The class has the last process started as long as that is alive.
NumberInv(s) == s.scene.number \in Nat /\ (s.scene.alive => s.class.proc = s.scene.number)

Owned(s) ==
    /\ ShapeOf(s) /\ NumberInv(s) /\ DeletesInv(s) /\ OwnersInv(s)
    /\ \A g \in s.scene.groups : IsGroup(g)

\* What does not touch the objects, the process nor adds a group.
Scenery(s, t) ==
    /\ DOMAIN t = DOMAIN s /\ DOMAIN t.class = DOMAIN s.class
    /\ DOMAIN t.scene = DOMAIN s.scene /\ DOMAIN t.scene.node = DOMAIN s.scene.node
    /\ t.class.proc = s.class.proc /\ t.class.backend = s.class.backend
    /\ t.scene.number = s.scene.number /\ t.scene.alive = s.scene.alive
    /\ t.scene.groups = s.scene.groups
    /\ t.viewer = s.viewer

\* The process goes on, and the viewers that reach it are the same.
SameViewers(s, t) ==
    /\ IsAlive(t) <=> IsAlive(s)
    /\ \A v \in Slots : (t.viewer[v] = None <=> s.viewer[v] = None) /\ (IsConnected(t, v) <=> IsConnected(s, v))

LEMMA SameViewersTwice ==
    ASSUME NEW s, NEW t, NEW u, SameViewers(s, t), SameViewers(t, u)
    PROVE  SameViewers(s, u)
BY DEF SameViewers

\* What only touches the scenery leaves the owners as they are.
LEMMA SceneryOwned ==
    ASSUME NEW s, NEW t, Owned(s), Scenery(s, t)
    PROVE  Owned(t) /\ SameViewers(s, t)
<1>1. SameViewers(s, t)
  BY DEF Scenery, SameViewers, IsAlive, ProcessIsAlive, IsConnected, IsOpen
<1>2. ShapeOf(t)
  BY DEF Owned, Scenery, ShapeOf
<1>3. NumberInv(t) /\ DeletesInv(t) /\ \A g \in t.scene.groups : IsGroup(g)
  BY DEF Owned, Scenery, NumberInv, DeletesInv
<1>4. OwnersInv(t)
  BY <1>1 DEF Owned, Scenery, OwnersInv, SameViewers
<1> QED
  BY <1>1, <1>2, <1>3, <1>4 DEF Owned

\* So does what a viewer does to itself, if the groups it adds are its own.
LEMMA TouchedOwned ==
    ASSUME NEW s, NEW t, NEW v \in Slots, Owned(s), Touched(s, t, v), s.viewer[v] # None,
           \A g \in t.scene.groups :
             g \in s.scene.groups \/ (IsGroup(g) /\ g[1] = NameOf[v] /\ IsConnected(s, v))
    PROVE  Owned(t) /\ SameViewers(s, t)
<1>0. t.viewer[v] # None
  BY UpdatedObject DEF Touched
<1>1. SameViewers(s, t)
  BY <1>0 DEF Touched, SameViewers, IsAlive, ProcessIsAlive, IsConnected, IsOpen
<1>2. ShapeOf(t)
  BY DEF Owned, Touched, ShapeOf
<1>3. NumberInv(t) /\ DeletesInv(t)
  BY <1>0 DEF Owned, Touched, NumberInv, DeletesInv, IsAlive
<1>4. OwnersInv(t) /\ \A g \in t.scene.groups : IsGroup(g)
  BY <1>1 DEF Owned, OwnersInv, SameViewers
<1> QED
  BY <1>1, <1>2, <1>3, <1>4 DEF Owned

\* A refresh, the display of the markers, the set up of the robot: no slot is filled or emptied.
LEMMA RefreshedOwned ==
    ASSUME NEW s, Owned(s), NEW v \in Slots, s.viewer[v] # None
    PROVE  Owned(Refreshed(s, v)) /\ SameViewers(s, Refreshed(s, v))
BY RefreshedTouches, TouchedOwned DEF Owned

LEMMA DisplayedOwned ==
    ASSUME NEW s, Owned(s), NEW v \in Slots, s.viewer[v] # None, NEW show \in BOOLEAN
    PROVE  Owned(Displayed(s, v, show)) /\ SameViewers(s, Displayed(s, v, show))
BY DisplayedTouches, TouchedOwned DEF Owned

LEMMA SetUpOwned ==
    ASSUME NEW s, Owned(s), NEW v \in Slots, s.viewer[v] # None
    PROVE  Owned(SetUp(s, v)) /\ SameViewers(s, SetUp(s, v))
<1> DEFINE t == SetUp(s, v)
<1>1. /\ Touched(s, t, v)
      /\ \A g \in t.scene.groups :
           g \in s.scene.groups \/ (IsGroup(g) /\ g[1] = NameOf[v] /\ IsConnected(s, v))
  BY SetUpTouches DEF Owned
<1> HIDE DEF t
<1>2. Owned(t) /\ SameViewers(s, t)
  BY <1>1, TouchedOwned
<1> QED
  BY <1>2 DEF t

\* The window, and the names that are registered, are part of the scenery.
LEMMA OpenedGuiOwned ==
    ASSUME NEW s, Owned(s)
    PROVE  Owned(OpenedGui(s)) /\ SameViewers(s, OpenedGui(s)) /\ OpenedGui(s).viewer = s.viewer
<1>1. Scenery(s, OpenedGui(s))
  BY DEF Owned, ShapeOf, OpenedGui, OpenedWindow, Scenery
<1> QED
  BY <1>1, SceneryOwned DEF Scenery

LEMMA NamesOwned ==
    ASSUME NEW s, Owned(s), NEW names
    PROVE  LET t == [s EXCEPT !.class.names = names] IN
           Owned(t) /\ SameViewers(s, t) /\ t.viewer = s.viewer
<1>1. Scenery(s, [s EXCEPT !.class.names = names])
  BY DEF Owned, ShapeOf, Scenery
<1> QED
  BY <1>1, SceneryOwned DEF Scenery

\* When the backend is closed, there is no scene to own robots in.
LEMMA ClosedAllOwned ==
    ASSUME NEW s, Owned(s)
    PROVE  Owned(ClosedAll(s)) /\ ~IsAlive(ClosedAll(s)) /\ ClosedAll(s).viewer = s.viewer
<1> DEFINE t == ClosedAll(s)
<1>1. DOMAIN t = DOMAIN s /\ t.class = NoClass /\ t.scene = NewScene(s.scene.number, FALSE) /\ t.viewer = s.viewer
  BY DEF Owned, ShapeOf, ClosedAll, Killed
<1> HIDE DEF t
<1>2. ~IsAlive(t)
  BY <1>1 DEF IsAlive, NoClass
<1>3. ShapeOf(t)
  BY <1>1 DEF Owned, ShapeOf, NoClass, NewScene
<1>4. t.scene.number = s.scene.number /\ t.scene.alive = FALSE /\ t.scene.groups = {}
  BY <1>1 DEF NewScene
<1>5. NumberInv(t) /\ DeletesInv(t)
  BY <1>1, <1>4 DEF Owned, NumberInv, DeletesInv
<1> QED
  BY <1>1, <1>2, <1>3, <1>4, <1>5 DEF Owned, OwnersInv, t

\* A process that starts has no robot yet.
LEMMA StartedOwned ==
    ASSUME NEW s, Owned(s), NEW b
    PROVE  LET t == StartedProcess(ClosedAll(s), b) IN Owned(t) /\ IsAlive(t) /\ t.viewer = s.viewer
<1> DEFINE t == StartedProcess(ClosedAll(s), b)
           k == s.scene.number + 1
<1>1. /\ DOMAIN t = DOMAIN s /\ t.scene = NewScene(k, TRUE) /\ t.viewer = s.viewer
      /\ t.class = [NoClass EXCEPT !.backend = b, !.proc = k]
  BY DEF Owned, ShapeOf, ClosedAll, StartedProcess, Killed, NewScene
<1>2. k \in Nat /\ k # None
  BY ViewerAssumption DEF Owned, NumberInv
<1> HIDE DEF t
<1>3. DOMAIN t.class = DOMAIN NoClass /\ t.class.proc = k
  BY <1>1 DEF NoClass
<1>4. /\ t.scene.number = k /\ t.scene.alive = TRUE /\ t.scene.groups = {}
      /\ DOMAIN t.scene.node = Names /\ DOMAIN t.scene = DOMAIN s.scene
  BY <1>1 DEF NewScene, Owned, ShapeOf
<1> HIDE DEF k
<1>5. IsAlive(t)
  BY <1>2, <1>3, <1>4 DEF IsAlive, ProcessIsAlive
<1>6. ShapeOf(t)
  BY <1>1, <1>3, <1>4 DEF Owned, ShapeOf, NoClass
<1>7. NumberInv(t) /\ DeletesInv(t) /\ OwnersInv(t)
  BY <1>1, <1>2, <1>3, <1>4 DEF Owned, NumberInv, DeletesInv, OwnersInv
<1> QED
  BY <1>1, <1>4, <1>5, <1>6, <1>7 DEF Owned, t

LEMMA ConnectedOwned ==
    ASSUME NEW s, Owned(s), NEW b
    PROVE  LET t == Connected(s, b) IN Owned(t) /\ IsAlive(t) /\ t.viewer = s.viewer
<1>1. Connected(s, b) = IF IsAlive(s) /\ s.class.backend = b THEN s ELSE StartedProcess(ClosedAll(s), b)
  BY ClosedAllOwned DEF Connected, Disconnected
<1> QED
  BY <1>1, StartedOwned

\* A viewer that is made takes the place of the owner its slot may have had.
LEMMA MadeOwned ==
    ASSUME NEW s, Owned(s), IsAlive(s), NEW v \in Slots, NEW display \in BOOLEAN
    PROVE  LET t == [s EXCEPT !.viewer[v] = NewViewer(s, display, TRUE)] IN
           Owned(t) /\ t.viewer[v] # None /\ \A w \in Slots \ {v} : t.viewer[w] = s.viewer[w]
<1> DEFINE o == NewViewer(s, display, TRUE)
           t == [s EXCEPT !.viewer[v] = o]
<1>1. /\ t.class = s.class /\ t.scene = s.scene /\ DOMAIN t = DOMAIN s
      /\ t.viewer = [s.viewer EXCEPT ![v] = o]
  BY DEF Owned, ShapeOf
<1>2. s.scene.number \in Nat /\ s.class.proc = s.scene.number
  BY DEF Owned, NumberInv, IsAlive, ProcessIsAlive
<1>3. o \in Objects /\ o.isOpen = TRUE /\ o.proc = s.scene.number /\ o.deletes = TRUE
  <2>1. (display /\ IsPanda(s)) \in BOOLEAN
    OBVIOUS
  <2> QED
    BY <1>2, <2>1 DEF NewViewer, Objects
<1>4. o # None
  BY <1>3, UpdatedObject
<1> HIDE DEF o, t
<1>5. t.viewer[v] = o /\ \A w \in Slots \ {v} : t.viewer[w] = s.viewer[w]
  BY <1>1 DEF Owned, ShapeOf
<1>6. ShapeOf(t)
  BY <1>1, <1>3 DEF Owned, ShapeOf
<1>7. NumberInv(t) /\ DeletesInv(t)
  BY <1>1, <1>2, <1>3, <1>5 DEF Owned, NumberInv, DeletesInv
<1>8. IsConnected(t, v) /\ \A w \in Slots \ {v} : IsConnected(t, w) <=> IsConnected(s, w)
  BY <1>1, <1>2, <1>3, <1>4, <1>5 DEF IsConnected, IsOpen, IsAlive, ProcessIsAlive
<1>9. OwnersInv(t)
  <2> SUFFICES ASSUME NEW g \in t.scene.groups
               PROVE  \E w \in Slots : IsConnected(t, w) /\ g[1] = NameOf[w]
    BY DEF OwnersInv
  <2>1. PICK w \in Slots : IsConnected(s, w) /\ g[1] = NameOf[w]
    BY <1>1 DEF Owned, OwnersInv
  <2> QED
    BY <1>8, <2>1
<1> QED
  BY <1>1, <1>4, <1>5, <1>6, <1>7, <1>9 DEF Owned, t, o

\* No slot is emptied.
KeepsObjects(s, t) == \A v \in Slots : s.viewer[v] # None => t.viewer[v] # None

\* A viewer that is constructed owns the robot it adds.
LEMMA ConstructedOwned ==
    ASSUME NEW s, Owned(s), NEW v \in Slots, NEW b, NEW gui, NEW display \in BOOLEAN
    PROVE  LET t == Constructed(s, v, b, gui, display, TRUE) IN
           Owned(t) /\ t.viewer[v] # None /\ KeepsObjects(s, t)
<1> DEFINE n == Registered(s, v)
           c == Connected(n, b)
           o == IF gui THEN OpenedGui(c) ELSE c
           m == [o EXCEPT !.viewer[v] = NewViewer(o, display, TRUE)]
           u == SetUp(m, v)
<1>1. Owned(n) /\ n.viewer = s.viewer
  <2>1. n = [s EXCEPT !.class.names = s.class.names \cup {NameOf[v]}]
    BY DEF Registered
  <2> QED
    BY <2>1, NamesOwned
<1> HIDE DEF n
<1>2. Owned(c) /\ IsAlive(c) /\ c.viewer = n.viewer
  BY <1>1, ConnectedOwned
<1> HIDE DEF c
<1>3. Owned(o) /\ IsAlive(o) /\ o.viewer = n.viewer
  BY <1>2, OpenedGuiOwned DEF SameViewers
<1> HIDE DEF o
<1>4. Owned(m) /\ m.viewer[v] # None /\ \A w \in Slots \ {v} : m.viewer[w] = o.viewer[w]
  BY <1>3, MadeOwned
<1> HIDE DEF m
<1>5. Owned(u) /\ \A w \in Slots : u.viewer[w] = None <=> m.viewer[w] = None
  BY <1>4, SetUpOwned DEF SameViewers
<1> HIDE DEF u
<1>6. Owned(Refreshed(u, v)) /\ \A w \in Slots : Refreshed(u, v).viewer[w] = None <=> u.viewer[w] = None
  BY <1>4, <1>5, RefreshedOwned DEF SameViewers
<1>7. Constructed(s, v, b, gui, display, TRUE) = Refreshed(u, v)
  BY DEF Constructed, n, c, o, m, u
<1>8. Refreshed(u, v).viewer[v] # None /\ KeepsObjects(s, Refreshed(u, v))
  BY <1>1, <1>3, <1>4, <1>5, <1>6 DEF KeepsObjects
<1> QED
  BY <1>6, <1>7, <1>8

\* A group is among those that are removed with the robot of its name.
LEMMA GroupsOfName ==
    ASSUME NEW g, IsGroup(g)
    PROVE  g \in RobotGroups(g[1]) \cup MarkersGroup(g[1])
BY DEF IsGroup, RobotGroups, MarkersGroup

\* A viewer that is closed is no owner any more, and what it owned is gone.
LEMMA ClosedViewerOwned ==
    ASSUME NEW s, Owned(s), NEW v \in Slots, s.viewer[v] # None
    PROVE  LET t == ClosedViewer(s, v) IN
           /\ Owned(t) /\ (IsAlive(t) <=> IsAlive(s)) /\ ~IsConnected(t, v)
           /\ \A w \in Slots : t.viewer[w] = None <=> s.viewer[w] = None
<1> DEFINE t == ClosedViewer(s, v)
           gone == RobotGroups(NameOf[v]) \cup MarkersGroup(NameOf[v])
           q == [s.viewer[v] EXCEPT !.isOpen = FALSE]
           closed == [s.viewer EXCEPT ![v] = q]
<1>0. ShapeOf(s) /\ s.viewer[v].deletes = TRUE /\ s.viewer[v] \in Objects
  BY DEF Owned, ShapeOf, DeletesInv
<1>1. /\ t.class.proc = s.class.proc /\ t.scene.alive = s.scene.alive
      /\ t.scene.number = s.scene.number
  BY <1>0 DEF ShapeOf, ClosedViewer, DetachedFrom, DetachCamera, Unregistered, Deleted, RemoveGroups
<1>2. \/ ~IsConnected(s, v) /\ t.scene.groups = s.scene.groups /\ t.viewer = s.viewer
      \/ t.scene.groups = s.scene.groups \ gone /\ t.viewer = closed
  BY <1>0 DEF ShapeOf, ClosedViewer, DetachedFrom, DetachCamera, Unregistered, Deleted, RemoveGroups,
     IsConnected, IsOpen, IsAlive, ProcessIsAlive
<1>3. /\ ShapeOf(t) /\ t.viewer[v] \in {s.viewer[v], q}
      /\ \A w \in Slots \ {v} : t.viewer[w] = s.viewer[w]
  BY <1>0, ClosedViewerShape
<1> HIDE DEF t
<1>4. /\ closed[v] = q /\ q # None /\ q.isOpen = FALSE
      /\ q.proc = s.viewer[v].proc /\ q.deletes = TRUE
  <2>1. closed[v] = q
    BY <1>0 DEF ShapeOf
  <2>2. q # None
    BY <1>0, UpdatedObject
  <2>3. q.isOpen = FALSE /\ q.proc = s.viewer[v].proc /\ q.deletes = s.viewer[v].deletes
    BY <1>0 DEF Objects
  <2> QED
    BY <1>0, <2>1, <2>2, <2>3
<1> HIDE DEF closed, q
<1>5. IsAlive(t) <=> IsAlive(s)
  BY <1>1 DEF IsAlive, ProcessIsAlive
<1>6. /\ ~IsConnected(t, v)
      /\ \A w \in Slots \ {v} : IsConnected(t, w) <=> IsConnected(s, w)
  BY <1>1, <1>2, <1>3, <1>4, <1>5 DEF IsConnected, IsOpen
<1>7. \A w \in Slots : t.viewer[w] = None <=> s.viewer[w] = None
  BY <1>3, <1>4
<1>8. NumberInv(t) /\ DeletesInv(t)
  BY <1>1, <1>3, <1>4, <1>7 DEF Owned, NumberInv, DeletesInv
<1>9. \A g \in t.scene.groups : IsGroup(g) /\ g \in s.scene.groups
  BY <1>2 DEF Owned
<1>10. OwnersInv(t)
  <2> SUFFICES ASSUME IsAlive(t), NEW g \in t.scene.groups
               PROVE  \E w \in Slots : IsConnected(t, w) /\ g[1] = NameOf[w]
    BY DEF OwnersInv
  <2>1. PICK w \in Slots : IsConnected(s, w) /\ g[1] = NameOf[w]
    BY <1>5, <1>9 DEF Owned, OwnersInv
  <2>2. CASE w = v
    <3>1. g \in gone
      BY <1>9, <2>1, <2>2, GroupsOfName
    <3> QED
      BY <1>2, <2>1, <2>2, <3>1
  <2> QED
    BY <1>6, <2>1, <2>2
<1> QED
  BY <1>3, <1>5, <1>6, <1>7, <1>8, <1>9, <1>10 DEF Owned, t

\* A slot that owns nothing can be emptied.
LEMMA EmptiedOwned ==
    ASSUME NEW s, Owned(s), NEW v \in Slots, ~IsConnected(s, v)
    PROVE  LET t == [s EXCEPT !.viewer[v] = None] IN
           Owned(t) /\ \A w \in Slots : s.viewer[w] = None => t.viewer[w] = None
<1> DEFINE t == [s EXCEPT !.viewer[v] = None]
<1>1. /\ DOMAIN t = DOMAIN s /\ t.class = s.class /\ t.scene = s.scene
      /\ t.viewer = [s.viewer EXCEPT ![v] = None]
  BY DEF Owned, ShapeOf
<1> HIDE DEF t
<1>2. t.viewer[v] = None /\ \A w \in Slots \ {v} : t.viewer[w] = s.viewer[w]
  BY <1>1 DEF Owned, ShapeOf
<1>3. ShapeOf(t)
  BY <1>1 DEF Owned, ShapeOf
<1>4. NumberInv(t) /\ DeletesInv(t)
  BY <1>1, <1>2 DEF Owned, NumberInv, DeletesInv
<1>5. \A w \in Slots : IsConnected(s, w) => IsConnected(t, w)
  BY <1>1, <1>2 DEF IsConnected, IsOpen, IsAlive, ProcessIsAlive
<1>6. OwnersInv(t)
  <2> SUFFICES ASSUME IsAlive(t), NEW g \in t.scene.groups
               PROVE  \E w \in Slots : IsConnected(t, w) /\ g[1] = NameOf[w]
    BY DEF OwnersInv
  <2>1. PICK w \in Slots : IsConnected(s, w) /\ g[1] = NameOf[w]
    BY <1>1 DEF Owned, OwnersInv, IsAlive, ProcessIsAlive
  <2> QED
    BY <1>5, <2>1
<1> QED
  BY <1>1, <1>2, <1>3, <1>4, <1>6 DEF Owned, t

\* A job closes its viewers and drops them.
LEMMA ClosedForGoodOwned ==
    ASSUME NEW s, Owned(s), NEW v \in Slots
    PROVE  Owned(ClosedForGood(s, v))
<1>1. CASE s.viewer[v] = None
  BY <1>1 DEF ClosedForGood
<1>2. CASE s.viewer[v] # None
  <2> DEFINE t == ClosedViewer(s, v)
  <2>1. Owned(t) /\ ~IsConnected(t, v)
    BY <1>2, ClosedViewerOwned
  <2>2. ClosedForGood(s, v) = [t EXCEPT !.viewer[v] = None]
    BY <1>2 DEF ClosedForGood
  <2> HIDE DEF t
  <2> QED
    BY <2>1, <2>2, EmptiedOwned
<1> QED
  BY <1>1, <1>2

\* What a call that raises made is taken back: the groups of the names, then the objects.
LEMMA DroppedOwned ==
    ASSUME NEW s, Owned(s), NEW t, Owned(t), NEW made \in SUBSET Slots
    PROVE  Owned([Closed(t, made) EXCEPT !.viewer = Dropped(t, made, s.viewer)])
<1> DEFINE u == [Closed(t, made) EXCEPT !.viewer = Dropped(t, made, s.viewer)]
           names == {NameOf[v] : v \in made}
           d == Dropped(t, made, s.viewer)
<1>1. /\ DOMAIN u = DOMAIN t /\ DOMAIN u.class = DOMAIN t.class
      /\ DOMAIN u.scene = DOMAIN t.scene /\ u.scene.node = t.scene.node
      /\ u.class.proc = t.class.proc
      /\ u.scene.number = t.scene.number /\ u.scene.alive = t.scene.alive
      /\ u.scene.groups = {g \in t.scene.groups : g[1] \notin names}
      /\ u.viewer = d
  BY DEF Owned, ShapeOf, Closed
<1>2. /\ \A v \in made : d[v] = s.viewer[v]
      /\ \A v \in Slots \ made : d[v] = t.viewer[v]
      /\ d \in [Slots -> Objects \cup {None}]
  BY DEF Dropped, Owned, ShapeOf
<1> HIDE DEF u, d
<1>3. ShapeOf(u)
  BY <1>1, <1>2 DEF Owned, ShapeOf
<1>4. NumberInv(u) /\ DeletesInv(u)
  BY <1>1, <1>2 DEF Owned, NumberInv, DeletesInv
<1>5. OwnersInv(u)
  <2> SUFFICES ASSUME IsAlive(u), NEW g \in u.scene.groups
               PROVE  \E w \in Slots : IsConnected(u, w) /\ g[1] = NameOf[w]
    BY DEF OwnersInv
  <2>1. IsAlive(t) /\ g \in t.scene.groups /\ g[1] \notin names
    BY <1>1 DEF IsAlive, ProcessIsAlive
  <2>2. PICK w \in Slots : IsConnected(t, w) /\ g[1] = NameOf[w]
    BY <2>1 DEF Owned, OwnersInv
  <2>3. w \notin made
    BY <2>1, <2>2
  <2>4. IsConnected(u, w)
    BY <1>1, <1>2, <2>2, <2>3 DEF IsConnected, IsOpen, IsAlive, ProcessIsAlive
  <2> QED
    BY <2>2, <2>4
<1> QED
  BY <1>1, <1>3, <1>4, <1>5 DEF Owned, u, d

---------------------------------------------------------------------------
(* Induction, and the recursive functions over the viewers of a call.      *)

\* Induction over a set of numbers, from the cardinality of what would be missing.
LEMMA Induction ==
    ASSUME NEW T, 0 \in T, \A n \in Nat : n \in T => n + 1 \in T
    PROVE  \A n \in Nat : n \in T
<1> SUFFICES ASSUME NEW n \in Nat, n \notin T PROVE FALSE
  OBVIOUS
<1> DEFINE U == {k \in 0 .. n : k \notin T}
           V == {k \in 0 .. n - 1 : k \notin T}
           pred == [k \in U |-> k - 1]
<1>1. IsFiniteSet(V) /\ Cardinality(V) \in Nat
  <2>1. IsFiniteSet(0 .. n - 1)
    BY FS_Interval
  <2>2. V \in SUBSET (0 .. n - 1)
    OBVIOUS
  <2> QED
    BY <2>1, <2>2, FS_Subset, FS_CardinalityType
<1>2. U = V \cup {n} /\ n \notin V
  OBVIOUS
<1>3. Cardinality(U) = Cardinality(V) + 1
  BY <1>1, <1>2, FS_AddElement
<1>4. pred \in Injection(U, V)
  <2>1. \A k \in U : k - 1 \in V
    <3> SUFFICES ASSUME NEW k \in U PROVE k - 1 \in V
      OBVIOUS
    <3>1. k \in Nat /\ k # 0 /\ k - 1 \in Nat /\ k = (k - 1) + 1
      OBVIOUS
    <3> QED
      BY <3>1
  <2>2. pred \in [U -> V]
    BY <2>1
  <2>3. \A k, l \in U : pred[k] = pred[l] => k = l
    OBVIOUS
  <2> QED
    BY <2>2, <2>3 DEF Injection, IsInjective
<1>5. Cardinality(U) <= Cardinality(V)
  BY <1>1, <1>4, FS_Injection
<1> QED
  BY <1>1, <1>3, <1>5

\* One more viewer is made ready.
OneReady(t, v, r, kept) ==
    LET anonymous == [t EXCEPT !.class.names = @ \ {NameOf[v]}]
    IN IF v \notin kept THEN Constructed(anonymous, v, r.backend, ~r.record, FALSE, TRUE)
       ELSE IF ~IsConnected(t, v) THEN t
       ELSE IF Len(r.order) > 1 THEN SetUp(Refreshed(t, v), v) ELSE Refreshed(t, v)

\* The loop over the viewers of a call is what its body makes of the state of one turn before.
LEMMA MadeReadyDef ==
    ASSUME NEW s, NEW r, NEW kept, Len(r.order) \in Nat
    PROVE  MadeReady(s, r, kept) =
             [k \in 0 .. Len(r.order) |->
                IF k = 0 THEN s ELSE OneReady(MadeReady(s, r, kept)[k - 1], r.order[k], r, kept)]
<1> DEFINE IsF(f, n) ==
             f = [k \in 0 .. n |->
                    IF k = 0 THEN s ELSE OneReady(f[k - 1], r.order[k], r, kept)]
           T == {n \in Nat : \E f : IsF(f, n)}
<1>1. 0 \in T
  <2> DEFINE f == [k \in 0 .. 0 |-> s]
  <2>1. IsF(f, 0)
    OBVIOUS
  <2> QED
    BY <2>1
<1>2. ASSUME NEW n \in Nat, n \in T PROVE n + 1 \in T
  <2> PICK f : IsF(f, n)
    BY <1>2
  <2> DEFINE h == [k \in 0 .. n + 1 |->
                     IF k <= n THEN f[k] ELSE OneReady(f[n], r.order[n + 1], r, kept)]
  <2>1. ASSUME NEW k \in 0 .. n + 1, k # 0 PROVE h[k] = OneReady(h[k - 1], r.order[k], r, kept)
    <3>1. CASE k <= n
      <4>1. k \in 0 .. n /\ k - 1 \in 0 .. n + 1 /\ k - 1 <= n /\ k \in 0 .. n + 1
        BY <2>1, <3>1
      <4>2. h[k] = f[k] /\ h[k - 1] = f[k - 1]
        BY <3>1, <4>1
      <4>3. f[k] = OneReady(f[k - 1], r.order[k], r, kept)
        BY <2>1, <4>1
      <4> QED
        BY <4>2, <4>3
    <3>2. CASE k = n + 1
      <4>1. h[k] = OneReady(f[n], r.order[n + 1], r, kept) /\ h[n] = f[n] /\ k - 1 = n
        BY <3>2
      <4> QED
        BY <3>2, <4>1
    <3> QED
      BY <3>1, <3>2
  <2>2. h[0] = s
    <3>1. 0 \in 0 .. n + 1 /\ 0 <= n /\ 0 \in 0 .. n
      OBVIOUS
    <3> QED
      BY <3>1
  <2> HIDE DEF h
  <2>3. h = [k \in 0 .. n + 1 |-> h[k]]
    BY DEF h
  <2>4. IsF(h, n + 1)
    BY <2>1, <2>2, <2>3
  <2> HIDE DEF IsF
  <2> QED
    BY <2>4 DEF T
<1> HIDE DEF T
<1>3. Len(r.order) \in T
  BY <1>1, <1>2, Induction
<1>4. \E f : IsF(f, Len(r.order))
  BY <1>3 DEF T
<1> QED
  BY <1>4, Zenon DEF MadeReady, OneReady

\* One more viewer is displayed at the start of its trajectory.
OneShown(t, v, r, kept) ==
    IF kept = {} /\ IsPanda(t) THEN Displayed(Refreshed(t, v), v, r.hooks) ELSE Refreshed(t, v)

\* Every viewer displayed, and every viewer closed.
AllDisplayed(s, r, kept) ==
    LET shown[k \in 0 .. Len(r.order)] ==
          IF k = 0 THEN s ELSE OneShown(shown[k - 1], r.order[k], r, kept)
    IN shown

AllClosed(s, r) ==
    LET closed[k \in 0 .. Len(r.order)] ==
          IF k = 0 THEN s ELSE ClosedForGood(closed[k - 1], r.order[k])
    IN closed

\* The same of the other two loops.
LEMMA AllDisplayedDef ==
    ASSUME NEW s, NEW r, NEW kept, Len(r.order) \in Nat
    PROVE  AllDisplayed(s, r, kept) =
             [k \in 0 .. Len(r.order) |->
                IF k = 0 THEN s ELSE OneShown(AllDisplayed(s, r, kept)[k - 1], r.order[k], r, kept)]
<1> DEFINE IsF(f, n) ==
             f = [k \in 0 .. n |->
                    IF k = 0 THEN s ELSE OneShown(f[k - 1], r.order[k], r, kept)]
           T == {n \in Nat : \E f : IsF(f, n)}
<1>1. 0 \in T
  <2> DEFINE f == [k \in 0 .. 0 |-> s]
  <2>1. IsF(f, 0)
    OBVIOUS
  <2> QED
    BY <2>1
<1>2. ASSUME NEW n \in Nat, n \in T PROVE n + 1 \in T
  <2> PICK f : IsF(f, n)
    BY <1>2
  <2> DEFINE h == [k \in 0 .. n + 1 |->
                     IF k <= n THEN f[k] ELSE OneShown(f[n], r.order[n + 1], r, kept)]
  <2>1. ASSUME NEW k \in 0 .. n + 1, k # 0 PROVE h[k] = OneShown(h[k - 1], r.order[k], r, kept)
    <3>1. CASE k <= n
      <4>1. k \in 0 .. n /\ k - 1 \in 0 .. n + 1 /\ k - 1 <= n /\ k \in 0 .. n + 1
        BY <2>1, <3>1
      <4>2. h[k] = f[k] /\ h[k - 1] = f[k - 1]
        BY <3>1, <4>1
      <4>3. f[k] = OneShown(f[k - 1], r.order[k], r, kept)
        BY <2>1, <4>1
      <4> QED
        BY <4>2, <4>3
    <3>2. CASE k = n + 1
      <4>1. h[k] = OneShown(f[n], r.order[n + 1], r, kept) /\ h[n] = f[n] /\ k - 1 = n
        BY <3>2
      <4> QED
        BY <3>2, <4>1
    <3> QED
      BY <3>1, <3>2
  <2>2. h[0] = s
    <3>1. 0 \in 0 .. n + 1 /\ 0 <= n /\ 0 \in 0 .. n
      OBVIOUS
    <3> QED
      BY <3>1
  <2> HIDE DEF h
  <2>3. h = [k \in 0 .. n + 1 |-> h[k]]
    BY DEF h
  <2>4. IsF(h, n + 1)
    BY <2>1, <2>2, <2>3
  <2> HIDE DEF IsF
  <2> QED
    BY <2>4 DEF T
<1> HIDE DEF T
<1>3. Len(r.order) \in T
  BY <1>1, <1>2, Induction
<1>4. \E f : IsF(f, Len(r.order))
  BY <1>3 DEF T
<1> QED
  BY <1>4, Zenon DEF AllDisplayed

LEMMA AllClosedDef ==
    ASSUME NEW s, NEW r, Len(r.order) \in Nat
    PROVE  AllClosed(s, r) =
             [k \in 0 .. Len(r.order) |->
                IF k = 0 THEN s ELSE ClosedForGood(AllClosed(s, r)[k - 1], r.order[k])]
<1> DEFINE IsF(f, n) ==
             f = [k \in 0 .. n |->
                    IF k = 0 THEN s ELSE ClosedForGood(f[k - 1], r.order[k])]
           T == {n \in Nat : \E f : IsF(f, n)}
<1>1. 0 \in T
  <2> DEFINE f == [k \in 0 .. 0 |-> s]
  <2>1. IsF(f, 0)
    OBVIOUS
  <2> QED
    BY <2>1
<1>2. ASSUME NEW n \in Nat, n \in T PROVE n + 1 \in T
  <2> PICK f : IsF(f, n)
    BY <1>2
  <2> DEFINE h == [k \in 0 .. n + 1 |->
                     IF k <= n THEN f[k] ELSE ClosedForGood(f[n], r.order[n + 1])]
  <2>1. ASSUME NEW k \in 0 .. n + 1, k # 0 PROVE h[k] = ClosedForGood(h[k - 1], r.order[k])
    <3>1. CASE k <= n
      <4>1. k \in 0 .. n /\ k - 1 \in 0 .. n + 1 /\ k - 1 <= n /\ k \in 0 .. n + 1
        BY <2>1, <3>1
      <4>2. h[k] = f[k] /\ h[k - 1] = f[k - 1]
        BY <3>1, <4>1
      <4>3. f[k] = ClosedForGood(f[k - 1], r.order[k])
        BY <2>1, <4>1
      <4> QED
        BY <4>2, <4>3
    <3>2. CASE k = n + 1
      <4>1. h[k] = ClosedForGood(f[n], r.order[n + 1]) /\ h[n] = f[n] /\ k - 1 = n
        BY <3>2
      <4> QED
        BY <3>2, <4>1
    <3> QED
      BY <3>1, <3>2
  <2>2. h[0] = s
    <3>1. 0 \in 0 .. n + 1 /\ 0 <= n /\ 0 \in 0 .. n
      OBVIOUS
    <3> QED
      BY <3>1
  <2> HIDE DEF h
  <2>3. h = [k \in 0 .. n + 1 |-> h[k]]
    BY DEF h
  <2>4. IsF(h, n + 1)
    BY <2>1, <2>2, <2>3
  <2> HIDE DEF IsF
  <2> QED
    BY <2>4 DEF T
<1> HIDE DEF T
<1>3. Len(r.order) \in T
  BY <1>1, <1>2, Induction
<1>4. \E f : IsF(f, Len(r.order))
  BY <1>3 DEF T
<1> QED
  BY <1>4, Zenon DEF AllClosed

\* A set of numbers that has an element has a smallest one: the first viewer that is closed.
LEMMA Smallest ==
    ASSUME NEW S \in SUBSET Nat, NEW x \in S
    PROVE  \E i \in S : \A j \in S : i <= j
<1> SUFFICES ASSUME \A i \in S : \E j \in S : ~(i <= j) PROVE FALSE
  OBVIOUS
<1> DEFINE T == {n \in Nat : \A j \in S : j > n}
<1>1. 0 \in T
  OBVIOUS
<1>2. ASSUME NEW n \in Nat, n \in T PROVE n + 1 \in T
  <2>1. \A j \in S : n + 1 <= j
    BY <1>2
  <2>2. n + 1 \notin S
    BY <2>1
  <2>3. \A j \in S : j > n + 1
    BY <2>1, <2>2
  <2> QED
    BY <2>3
<1> HIDE DEF T
<1>3. x \in T
  BY <1>1, <1>2, Induction
<1> QED
  BY <1>3 DEF T

---------------------------------------------------------------------------
(* The calls of a replay.                                                  *)

IsRequest(r) == r.order \in Seq(Slots) /\ r.given \subseteq Slots /\ r.hooks \in BOOLEAN

\* One viewer is constructed, displayed and set up again, or left alone.
LEMMA OneReadyOwned ==
    ASSUME NEW t, Owned(t), NEW v \in Slots, NEW r, NEW kept, v \in kept => t.viewer[v] # None
    PROVE  LET u == OneReady(t, v, r, kept) IN
           Owned(u) /\ u.viewer[v] # None /\ \A w \in Slots : t.viewer[w] # None => u.viewer[w] # None
<1>1. CASE v \notin kept
  <2> DEFINE n == [t EXCEPT !.class.names = t.class.names \ {NameOf[v]}]
             gui == ~r.record
             u == Constructed(n, v, r.backend, gui, FALSE, TRUE)
  <2>1. Owned(n) /\ n.viewer = t.viewer
    BY NamesOwned
  <2>2. OneReady(t, v, r, kept) = u
    BY <1>1 DEF OneReady
  <2> HIDE DEF n, gui
  <2>3. Owned(u) /\ u.viewer[v] # None /\ KeepsObjects(n, u)
    BY <2>1, ConstructedOwned
  <2> HIDE DEF u
  <2>4. KeepsObjects(t, u)
    BY <2>1, <2>3 DEF KeepsObjects
  <2> QED
    BY <2>2, <2>3, <2>4 DEF KeepsObjects
<1>2. CASE v \in kept
  <2> DEFINE q == Refreshed(t, v)
  <2>1. OneReady(t, v, r, kept) \in {t, q, SetUp(q, v)}
    BY <1>2 DEF OneReady
  <2>2. Owned(q) /\ SameViewers(t, q)
    BY <1>2, RefreshedOwned
  <2> HIDE DEF q
  <2>3. Owned(SetUp(q, v)) /\ SameViewers(q, SetUp(q, v))
    BY <1>2, <2>2, SetUpOwned DEF SameViewers
  <2> QED
    BY <1>2, <2>1, <2>2, <2>3 DEF SameViewers
<1> QED
  BY <1>1, <1>2

\* All of them, one after the other: those made ready have an object.
LEMMA MadeReadyOwned ==
    ASSUME NEW s, Owned(s), NEW r, IsRequest(r), NEW kept, \A v \in kept : s.viewer[v] # None
    PROVE  LET ready == MadeReady(s, r, kept) IN
           \A k \in 0 .. Len(r.order) :
             Owned(ready[k]) /\ \A i \in 1 .. k : ready[k].viewer[r.order[i]] # None
<1> DEFINE ready == MadeReady(s, r, kept)
           P(k) == /\ Owned(ready[k]) /\ \A i \in 1 .. k : ready[k].viewer[r.order[i]] # None
                   /\ \A v \in Slots : s.viewer[v] # None => ready[k].viewer[v] # None
           T == {k \in Nat : k <= Len(r.order) => P(k)}
<1>0. Len(r.order) \in Nat /\ \A k \in 1 .. Len(r.order) : r.order[k] \in Slots
  BY DEF IsRequest
<1>1. ready = [k \in 0 .. Len(r.order) |->
                 IF k = 0 THEN s ELSE OneReady(ready[k - 1], r.order[k], r, kept)]
  BY <1>0, MadeReadyDef
<1> HIDE DEF ready
<1>2. 0 \in T
  BY <1>0, <1>1
<1>3. ASSUME NEW n \in Nat, n \in T PROVE n + 1 \in T
  <2> SUFFICES ASSUME n + 1 <= Len(r.order) PROVE P(n + 1)
    OBVIOUS
  <2> DEFINE v == r.order[n + 1]
  <2>1. P(n) /\ v \in Slots
    BY <1>0, <1>3
  <2>2. ready[n + 1] = OneReady(ready[n], v, r, kept)
    <3>1. n + 1 \in 0 .. Len(r.order) /\ n + 1 # 0 /\ (n + 1) - 1 = n
      BY <1>0
    <3> QED
      BY <1>1, <3>1
  <2>3. v \in kept => ready[n].viewer[v] # None
    BY <2>1
  <2>4. /\ Owned(ready[n + 1]) /\ ready[n + 1].viewer[v] # None
        /\ \A w \in Slots : ready[n].viewer[w] # None => ready[n + 1].viewer[w] # None
    BY <2>1, <2>2, <2>3, OneReadyOwned
  <2>5. ASSUME NEW i \in 1 .. n + 1 PROVE ready[n + 1].viewer[r.order[i]] # None
    <3>1. CASE i = n + 1
      BY <2>4, <3>1
    <3>2. CASE i \in 1 .. n
      BY <1>0, <2>1, <2>4, <3>2
    <3> QED
      BY <3>1, <3>2
  <2> QED
    BY <2>1, <2>4, <2>5
<1> HIDE DEF T
<1>4. \A k \in Nat : k \in T
  BY <1>2, <1>3, Induction
<1>5. \A k \in 0 .. Len(r.order) : P(k)
  BY <1>0, <1>4 DEF T
<1> QED
  BY <1>5 DEF ready

\* One viewer is displayed: those that reach the process are the same.
LEMMA OneShownOwned ==
    ASSUME NEW t, Owned(t), NEW v \in Slots, t.viewer[v] # None, NEW r, IsRequest(r), NEW kept
    PROVE  Owned(OneShown(t, v, r, kept)) /\ SameViewers(t, OneShown(t, v, r, kept))
<1> DEFINE q == Refreshed(t, v)
<1>1. Owned(q) /\ SameViewers(t, q)
  BY RefreshedOwned
<1>2. OneShown(t, v, r, kept) \in {q, Displayed(q, v, r.hooks)}
  BY DEF OneShown
<1> HIDE DEF q
<1>3. Owned(Displayed(q, v, r.hooks)) /\ SameViewers(q, Displayed(q, v, r.hooks))
  BY <1>1, DisplayedOwned DEF SameViewers, IsRequest
<1> QED
  BY <1>1, <1>2, <1>3, SameViewersTwice

\* All of them.
LEMMA AllDisplayedOwned ==
    ASSUME NEW s, Owned(s), NEW r, IsRequest(r), NEW kept,
           \A i \in 1 .. Len(r.order) : s.viewer[r.order[i]] # None
    PROVE  LET t == AllDisplayed(s, r, kept)[Len(r.order)] IN Owned(t) /\ SameViewers(s, t)
<1> DEFINE shown == AllDisplayed(s, r, kept)
           P(k) == Owned(shown[k]) /\ SameViewers(s, shown[k])
           T == {k \in Nat : k <= Len(r.order) => P(k)}
<1>0. Len(r.order) \in Nat /\ \A k \in 1 .. Len(r.order) : r.order[k] \in Slots
  BY DEF IsRequest
<1>1. shown = [k \in 0 .. Len(r.order) |->
                 IF k = 0 THEN s ELSE OneShown(shown[k - 1], r.order[k], r, kept)]
  BY <1>0, AllDisplayedDef
<1> HIDE DEF shown
<1>2. 0 \in T
  BY <1>0, <1>1 DEF SameViewers
<1>3. ASSUME NEW n \in Nat, n \in T PROVE n + 1 \in T
  <2> SUFFICES ASSUME n + 1 <= Len(r.order) PROVE P(n + 1)
    OBVIOUS
  <2> DEFINE v == r.order[n + 1]
  <2>1. P(n) /\ v \in Slots /\ s.viewer[v] # None
    BY <1>0, <1>3
  <2>2. shown[n + 1] = OneShown(shown[n], v, r, kept)
    BY <1>0, <1>1
  <2> HIDE DEF v
  <2>3. Owned(shown[n + 1]) /\ SameViewers(shown[n], shown[n + 1])
    BY <2>1, <2>2, OneShownOwned DEF SameViewers
  <2> QED
    BY <2>1, <2>3, SameViewersTwice
<1> HIDE DEF T
<1>4. Len(r.order) \in T
  BY <1>0, <1>2, <1>3, Induction
<1> QED
  BY <1>0, <1>4 DEF T, shown

\* All the viewers of a job are closed.
LEMMA AllClosedOwned ==
    ASSUME NEW s, Owned(s), NEW r, IsRequest(r)
    PROVE  Owned(JobViewersClosed(s, r))
<1> DEFINE closed == AllClosed(s, r)
           T == {k \in Nat : k <= Len(r.order) => Owned(closed[k])}
<1>0. Len(r.order) \in Nat /\ \A k \in 1 .. Len(r.order) : r.order[k] \in Slots
  BY DEF IsRequest
<1>1. closed = [k \in 0 .. Len(r.order) |->
                  IF k = 0 THEN s ELSE ClosedForGood(closed[k - 1], r.order[k])]
  BY <1>0, AllClosedDef
<1>2. JobViewersClosed(s, r) = closed[Len(r.order)]
  BY DEF JobViewersClosed, AllClosed
<1> HIDE DEF closed
<1>3. 0 \in T
  BY <1>0, <1>1
<1>4. ASSUME NEW n \in Nat, n \in T PROVE n + 1 \in T
  <2> SUFFICES ASSUME n + 1 <= Len(r.order) PROVE Owned(closed[n + 1])
    OBVIOUS
  <2>1. Owned(closed[n]) /\ r.order[n + 1] \in Slots
    BY <1>0, <1>4
  <2>2. closed[n + 1] = ClosedForGood(closed[n], r.order[n + 1])
    BY <1>0, <1>1
  <2> QED
    BY <2>1, <2>2, ClosedForGoodOwned
<1> HIDE DEF T
<1>5. Len(r.order) \in T
  BY <1>0, <1>3, <1>4, Induction
<1> QED
  BY <1>0, <1>2, <1>5 DEF T

\* Scenery is composed step by step.
LEMMA SceneryTwice ==
    ASSUME NEW s, NEW t, NEW u, Scenery(s, t), Scenery(t, u)
    PROVE  Scenery(s, u)
BY DEF Scenery

LEMMA SceneryItself ==
    ASSUME NEW s
    PROVE  Scenery(s, s)
BY DEF Scenery

\* The overlays, the travelling, the motion of the camera, one by one.
LEMMA OverlaysScenery ==
    ASSUME NEW s, ShapeOf(s)
    PROVE  /\ ShapeOf(DetachCamera(s)) /\ Scenery(s, DetachCamera(s))
           /\ ShapeOf(RegisterCameraMotion(s)) /\ Scenery(s, RegisterCameraMotion(s))
           /\ ShapeOf(RemoveCameraMotion(s)) /\ Scenery(s, RemoveCameraMotion(s))
           /\ \A v : LET t == [s EXCEPT !.class.travelling = v] IN ShapeOf(t) /\ Scenery(s, t)
           /\ \A b : LET t == [s EXCEPT !.scene = SetLegend(s.scene, b)] IN ShapeOf(t) /\ Scenery(s, t)
           /\ \A b : ShapeOf(ShowWatermark(s, b)) /\ Scenery(s, ShowWatermark(s, b))
           /\ \A b : ShapeOf(ShowClock(s, b)) /\ Scenery(s, ShowClock(s, b))
<1>1. ShapeOf(DetachCamera(s)) /\ Scenery(s, DetachCamera(s))
  BY DEF ShapeOf, Scenery, DetachCamera
<1>2. ShapeOf(RegisterCameraMotion(s)) /\ Scenery(s, RegisterCameraMotion(s))
  BY DEF ShapeOf, Scenery, RegisterCameraMotion
<1>3. ShapeOf(RemoveCameraMotion(s)) /\ Scenery(s, RemoveCameraMotion(s))
  BY DEF ShapeOf, Scenery, RemoveCameraMotion
<1>4. ASSUME NEW v
      PROVE  LET t == [s EXCEPT !.class.travelling = v] IN ShapeOf(t) /\ Scenery(s, t)
  BY DEF ShapeOf, Scenery
<1>5. ASSUME NEW b
      PROVE  LET t == [s EXCEPT !.scene = SetLegend(s.scene, b)] IN ShapeOf(t) /\ Scenery(s, t)
  BY DEF ShapeOf, Scenery, SetLegend
<1>6. ASSUME NEW b
      PROVE  ShapeOf(ShowWatermark(s, b)) /\ Scenery(s, ShowWatermark(s, b))
  BY DEF ShapeOf, Scenery, ShowWatermark, SetWatermark, WithWidget
<1>7. ASSUME NEW b
      PROVE  ShapeOf(ShowClock(s, b)) /\ Scenery(s, ShowClock(s, b))
  BY DEF ShapeOf, Scenery, ShowClock, SetClock, WithWidget
<1> QED
  BY <1>1, <1>2, <1>3, <1>4, <1>5, <1>6, <1>7

\* Then all that a call asks for, and what it undoes.
LEMMA OverlaysOwned ==
    ASSUME NEW s, Owned(s), NEW r
    PROVE  /\ Owned(Moving(s, r)) /\ SameViewers(s, Moving(s, r))
           /\ Owned(Overlaid(s, r)) /\ SameViewers(s, Overlaid(s, r))
           /\ Owned(Travelling(s, r)) /\ SameViewers(s, Travelling(s, r))
           /\ Owned(Undecorated(s, r)) /\ SameViewers(s, Undecorated(s, r))
<1>0. ShapeOf(s)
  BY DEF Owned
<1>1. Scenery(s, Moving(s, r)) /\ Scenery(s, Travelling(s, r))
  BY <1>0, OverlaysScenery, SceneryItself DEF Moving, Travelling
<1>3. Scenery(s, Overlaid(s, r))
  <2> DEFINE b == IF r.legend THEN [s EXCEPT !.scene = SetLegend(@, TRUE)] ELSE s
             c == IF r.watermark THEN ShowWatermark(b, TRUE) ELSE b
  <2>1. ShapeOf(b) /\ Scenery(s, b)
    BY <1>0, OverlaysScenery, SceneryItself
  <2>2. c = Overlaid(s, r)
    BY DEF Overlaid
  <2> HIDE DEF b
  <2>3. Scenery(b, c)
    BY <2>1, OverlaysScenery, SceneryItself
  <2> HIDE DEF c
  <2> QED
    BY <2>1, <2>2, <2>3, SceneryTwice
<1>2. Scenery(s, Undecorated(s, r))
  <2> DEFINE a == IF r.travelling THEN DetachCamera(s) ELSE s
             b == IF r.motion THEN RemoveCameraMotion(a) ELSE a
             c == IF r.legend THEN [b EXCEPT !.scene = SetLegend(@, FALSE)] ELSE b
             d == IF r.watermark THEN ShowWatermark(c, FALSE) ELSE c
             e == IF r.clock THEN ShowClock(d, FALSE) ELSE d
  <2>1. ShapeOf(a) /\ Scenery(s, a)
    BY <1>0, OverlaysScenery, SceneryItself
  <2>0. e = Undecorated(s, r)
    BY DEF Undecorated
  <2> HIDE DEF a
  <2>2. ShapeOf(b) /\ Scenery(a, b)
    BY <2>1, OverlaysScenery, SceneryItself
  <2> HIDE DEF b
  <2>3. ShapeOf(c) /\ Scenery(b, c)
    BY <2>2, OverlaysScenery, SceneryItself
  <2> HIDE DEF c
  <2>4. ShapeOf(d) /\ Scenery(c, d)
    BY <2>3, OverlaysScenery, SceneryItself
  <2> HIDE DEF d
  <2>5. Scenery(d, e)
    BY <2>4, OverlaysScenery, SceneryItself
  <2> HIDE DEF e
  <2> QED
    BY <2>0, <2>1, <2>2, <2>3, <2>4, <2>5, SceneryTwice
<1> QED
  BY <1>1, <1>2, <1>3, SceneryOwned

\* A call that raises.
LEMMA RaisesOwned ==
    ASSUME NEW s, Owned(s), NEW r, IsRequest(r), NEW kept, \A v \in kept : s.viewer[v] # None
    PROVE  Raises(s, r, kept, MadeReady(s, r, kept)).fails =>
             Owned(Raises(s, r, kept, MadeReady(s, r, kept)).state)
<1> DEFINE n == Len(r.order)
           made == {v \in Slots : v \in {r.order[k] : k \in 1 .. n} \ kept}
           ready == MadeReady(s, r, kept)
           failing == {k \in 1 .. n : r.order[k] \in kept /\ ~IsConnected(ready[k - 1], r.order[k])}
           k == CHOOSE i \in failing : \A j \in failing : i <= j
           moving == Moving(ready[n], r)
           unlabelled == r.legend /\ Cardinality(ready[n].class.colored) # n
           last == IF failing # {} THEN ready[k - 1]
                   ELSE IF unlabelled THEN moving ELSE Overlaid(moving, r)
           done == IF failing # {} THEN made \cap {r.order[i] : i \in 1 .. k - 1} ELSE made
<1>1. Raises(s, r, kept, MadeReady(s, r, kept)).state =
        [Closed(last, done) EXCEPT !.viewer = Dropped(last, done, s.viewer)]
  BY DEF Raises
<1>2. \A i \in 0 .. n : Owned(ready[i])
  BY MadeReadyOwned
<1>3. n \in Nat
  BY DEF IsRequest
<1>4. failing # {} => k - 1 \in 0 .. n
  <2> SUFFICES ASSUME failing # {} PROVE k - 1 \in 0 .. n
    OBVIOUS
  <2>1. failing \subseteq 1 .. n /\ failing \in SUBSET Nat
    BY <1>3
  <2> HIDE DEF failing
  <2>2. \E i \in failing : \A j \in failing : i <= j
    BY <2>1, Smallest
  <2>3. k \in failing
    BY <2>2
  <2> HIDE DEF k
  <2>4. k \in 1 .. n
    BY <2>1, <2>3
  <2> QED
    BY <1>3, <2>4
<1> HIDE DEF ready, failing, k, n, unlabelled
<1>5. Owned(last)
  <2>1. Owned(moving)
    BY <1>2, <1>3, OverlaysOwned
  <2> HIDE DEF moving
  <2>2. Owned(Overlaid(moving, r))
    BY <2>1, OverlaysOwned
  <2> QED
    BY <1>2, <1>4, <2>1, <2>2
<1>6. done \in SUBSET Slots
  OBVIOUS
<1> HIDE DEF last, done
<1> QED
  BY <1>1, <1>5, <1>6, DroppedOwned

\* The viewers that are kept are objects.
LEMMA KeptObjects ==
    ASSUME NEW s, NEW r, IsRequest(r)
    PROVE  \A v \in Kept(s, r) : s.viewer[v] # None
BY DEF Kept

\* What Become gives is what was computed.
LEMMA BecomeOwned ==
    ASSUME NEW s, Owned(s), Become(s)
    PROVE  Owned(Now)' /\ SameViewers(s, Now')
<1> DEFINE n == [class |-> class', scene |-> scene', viewer |-> viewer']
<1>1. Scenery(s, n)
  BY DEF Owned, ShapeOf, Scenery, Become
<1>2. Owned(n) /\ SameViewers(s, n)
  BY <1>1, SceneryOwned
<1> QED
  BY <1>2 DEF Now

\* The viewers a call goes on with can all be displayed.
LEMMA NotLost ==
    ASSUME NEW s, NEW r, NEW kept, ~Raises(s, r, kept, MadeReady(s, r, kept)).fails
    PROVE  \A k \in 1 .. Len(r.order) : IsConnected(MadeReady(s, r, kept)[Len(r.order)], r.order[k])
BY DEF Raises

\* A call of play_trajectories, whether it raises or goes on.
LEMMA PlayedOwned ==
    ASSUME NEW s, Owned(s), NEW r, IsRequest(r), PlayTrajectories(s, r)
    PROVE  /\ Owned(Now)'
           /\ ~Raises(s, r, Kept(s, r), MadeReady(s, r, Kept(s, r))).fails =>
                \A k \in 1 .. Len(r.order) : IsConnected(Now', r.order[k])
<1> DEFINE kept == Kept(s, r)
           raised == Raises(s, r, kept, MadeReady(s, r, kept))
           made == MadeReady(s, r, kept)[Len(r.order)]
           moving == Moving(made, r)
           overlaid == Overlaid(moving, r)
           shown == WithDefaults(overlaid, r, kept)
           ready == Travelling(shown, r)
           opened == IF r.record THEN ready ELSE OpenedGui(ready)
<1>0. Len(r.order) \in 0 .. Len(r.order) /\ \A k \in 1 .. Len(r.order) : r.order[k] \in Slots
  BY DEF IsRequest
<1>1. \A v \in kept : s.viewer[v] # None
  BY KeptObjects
<1>2. IF raised.fails THEN Become(raised.state) ELSE Become(opened)
  BY DEF PlayTrajectories
<1>3. raised.fails => Owned(raised.state)
  BY <1>1, RaisesOwned
<1>4. ~raised.fails => \A k \in 1 .. Len(r.order) : IsConnected(made, r.order[k])
  BY NotLost
<1>5. Owned(opened) /\ SameViewers(made, opened)
  <2> HIDE DEF kept
  <2>1. Owned(made) /\ \A i \in 1 .. Len(r.order) : made.viewer[r.order[i]] # None
    BY <1>0, <1>1, MadeReadyOwned
  <2> HIDE DEF made
  <2>2. Owned(moving) /\ SameViewers(made, moving)
    BY <2>1, OverlaysOwned
  <2> HIDE DEF moving
  <2>3. Owned(overlaid) /\ SameViewers(moving, overlaid)
    BY <2>2, OverlaysOwned
  <2> HIDE DEF overlaid
  <2>4. shown = AllDisplayed(overlaid, r, kept)[Len(r.order)]
    BY DEF WithDefaults, AllDisplayed, OneShown
  <2>5. \A i \in 1 .. Len(r.order) : overlaid.viewer[r.order[i]] # None
    BY <1>0, <2>1, <2>2, <2>3 DEF SameViewers
  <2>6. Owned(shown) /\ SameViewers(overlaid, shown)
    BY <2>3, <2>4, <2>5, AllDisplayedOwned
  <2> HIDE DEF shown
  <2>7. Owned(ready) /\ SameViewers(shown, ready)
    BY <2>6, OverlaysOwned
  <2> HIDE DEF ready
  <2>8. Owned(opened) /\ SameViewers(ready, opened)
    BY <2>7, OpenedGuiOwned DEF SameViewers
  <2> HIDE DEF opened
  <2> QED
    BY <2>2, <2>3, <2>6, <2>7, <2>8, SameViewersTwice
<1> HIDE DEF raised, opened, made
<1>6. CASE raised.fails
  BY <1>2, <1>3, <1>6, BecomeOwned DEF raised
<1>7. CASE ~raised.fails
  <2>1. Owned(Now)' /\ SameViewers(opened, Now')
    BY <1>2, <1>5, <1>7, BecomeOwned
  <2> QED
    BY <1>0, <1>4, <1>5, <1>7, <2>1 DEF SameViewers
<1> QED
  BY <1>6, <1>7

\* What Simulator.replay does before: its own viewer is rendered, another one is closed.
LEMMA RenderedOwned ==
    ASSUME NEW s, Owned(s), NEW r, IsRequest(r), r.order # <<>>
    PROVE  Owned(Rendered(s, r))
<1> DEFINE v == Head(r.order)
           n == [s EXCEPT !.class.names = s.class.names \ {NameOf[v]}]
           c == Constructed(n, v, r.backend, FALSE, FALSE, TRUE)
<1>1. v \in Slots
  BY DEF IsRequest
<1>2. CASE IsOpen(s, v)
  BY <1>1, <1>2, RefreshedOwned DEF Rendered, IsOpen
<1>3. CASE ~IsOpen(s, v)
  <2>1. Owned(n)
    BY NamesOwned
  <2>2. Rendered(s, r) = Displayed(c, v, TRUE)
    BY <1>3 DEF Rendered
  <2> HIDE DEF n, v
  <2>3. Owned(c) /\ c.viewer[v] # None
    BY <1>1, <2>1, ConstructedOwned
  <2> HIDE DEF c
  <2> QED
    BY <1>1, <2>2, <2>3, DisplayedOwned
<1> QED
  BY <1>2, <1>3

LEMMA WithoutOthersOwned ==
    ASSUME NEW s, Owned(s), NEW v
    PROVE  Owned(WithoutOthers(s, v))
<1> DEFINE others == {w \in Slots \ {v} : s.viewer[w] # None}
           w == CHOOSE o \in others : TRUE
           q == [s.viewer[w] EXCEPT !.deletes = TRUE]
           t == [s EXCEPT !.viewer[w].deletes = TRUE]
<1>1. CASE others = {}
  BY <1>1 DEF WithoutOthers
<1>2. CASE others # {}
  <2>1. WithoutOthers(s, v) = ClosedViewer(t, w)
    BY <1>2 DEF WithoutOthers
  <2>2. w \in Slots /\ s.viewer[w] # None
    BY <1>2
  <2> HIDE DEF w
  <2>3. s.viewer[w] \in Objects /\ s.viewer[w].deletes = TRUE
    BY <2>2 DEF Owned, ShapeOf, DeletesInv
  <2>4. q \in Objects /\ q # None
    BY <2>3, UpdatedObject
  <2>5. q.proc = s.viewer[w].proc /\ q.isOpen = s.viewer[w].isOpen /\ q.deletes = s.viewer[w].deletes
    BY <2>3 DEF Objects
  <2>6. /\ DOMAIN t = DOMAIN s /\ t.class = s.class /\ t.scene = s.scene
        /\ t.viewer = [s.viewer EXCEPT ![w] = q]
    BY DEF Owned, ShapeOf
  <2> HIDE DEF q, t
  <2>7. /\ t.viewer[w] = q /\ \A u \in Slots \ {w} : t.viewer[u] = s.viewer[u]
        /\ t.viewer \in [Slots -> Objects \cup {None}]
    BY <2>2, <2>4, <2>6 DEF Owned, ShapeOf
  <2>8. Touched(s, t, w)
    BY <2>4, <2>5, <2>6, <2>7 DEF Touched
  <2>9. Owned(t)
    BY <2>2, <2>6, <2>8, TouchedOwned
  <2> QED
    BY <2>1, <2>2, <2>4, <2>7, <2>9, ClosedViewerOwned
<1> QED
  BY <1>1, <1>2

\* What ends the process, or leaves it the viewers it has.
Outlives(s, t) == IsAlive(t) => SameViewers(s, t)

\* The window is closed by the user.
LEMMA WindowClosedOwned ==
    ASSUME Owned(Now), CloseWindow
    PROVE  Owned(Now)' /\ Outlives(Now, Now')
<1> DEFINE t == [class |-> class, scene |-> Killed(scene), viewer |-> viewer]
           u == [class |-> class, scene |-> [scene EXCEPT !.window = FALSE], viewer |-> viewer]
<1>1. Owned(t) /\ ~IsAlive(t)
  <2>1. /\ t.scene.number = scene.number /\ t.scene.alive = FALSE /\ t.scene.groups = {}
        /\ DOMAIN t.scene = DOMAIN scene /\ DOMAIN t.scene.node = Names
    BY DEF Owned, ShapeOf, Now, Killed, NewScene
  <2>2. t.class = class /\ t.viewer = viewer /\ DOMAIN t = DOMAIN Now
    BY DEF Now
  <2> HIDE DEF t
  <2>3. ShapeOf(t)
    BY <2>1, <2>2 DEF Owned, ShapeOf, Now
  <2>4. NumberInv(t) /\ DeletesInv(t) /\ OwnersInv(t)
    BY <2>1, <2>2 DEF Owned, Now, NumberInv, DeletesInv, OwnersInv, IsAlive, ProcessIsAlive
  <2> QED
    BY <2>1, <2>3, <2>4 DEF Owned, IsAlive, ProcessIsAlive
<1>2. Owned(u) /\ SameViewers(Now, u)
  <2>1. Scenery(Now, u)
    BY DEF Owned, ShapeOf, Scenery, Now
  <2> QED
    BY <2>1, SceneryOwned
<1>3. Now' = t \/ Now' = u
  BY DEF CloseWindow, Now
<1> HIDE DEF t, u
<1>4. CASE Now' = t
  BY <1>1, <1>4 DEF Outlives
<1>5. CASE Now' = u
  BY <1>2, <1>5 DEF Outlives
<1> QED
  BY <1>3, <1>4, <1>5

\* The steps of a thread.
LEMMA BecomeOutlives ==
    ASSUME NEW s, Owned(s), Become(s), Outlives(Now, s)
    PROVE  Owned(Now)' /\ Outlives(Now, Now')
<1>1. Owned(Now)' /\ SameViewers(s, Now')
  BY BecomeOwned
<1>2. IsAlive(Now') => IsAlive(s)
  BY <1>1 DEF SameViewers
<1> QED
  BY <1>1, <1>2, SameViewersTwice DEF Outlives

LEMMA UnchangedOutlives ==
    ASSUME Owned(Now), UNCHANGED vars
    PROVE  Owned(Now)' /\ Outlives(Now, Now')
BY DEF vars, Now, Outlives, SameViewers

LEMMA RunOwned ==
    ASSUME Owned(Now), NEW v \in Slots, Run(v)
    PROVE  Owned(Now)' /\ Outlives(Now, Now')
<1>2. ASSUME IsConnected(Now, v)
      PROVE  /\ Owned(Refreshed(Now, v)) /\ SameViewers(Now, Refreshed(Now, v))
             /\ \A b \in BOOLEAN : Owned(Displayed(Now, v, b)) /\ SameViewers(Now, Displayed(Now, v, b))
  <2>1. Now.viewer[v] # None
    BY <1>2 DEF IsConnected, IsOpen
  <2> QED
    BY <2>1, RefreshedOwned, DisplayedOwned
<1>3. /\ \A b : Owned(ShowClock(Now, b)) /\ SameViewers(Now, ShowClock(Now, b))
      /\ Owned(ClosedAll(Now)) /\ ~IsAlive(ClosedAll(Now))
  BY OverlaysScenery, SceneryOwned, ClosedAllOwned DEF Owned
<1>4. \/ UNCHANGED vars
      \/ Become(ShowClock(Now, TRUE)) \/ Become(ShowClock(Now, FALSE)) \/ Become(ClosedAll(Now))
      \/ /\ IsConnected(Now, v)
         /\ \/ Become(Refreshed(Now, v)) \/ Become(Displayed(Now, v, FALSE))
            \/ Become(Displayed(Now, v, TRUE))
  BY DEF Run, Begin, Clock, Show, ShowFails, Handle, CloseOnError, End, EndClock, EndDisplay, Exit
<1>5. UNCHANGED vars \/ \E s : Owned(s) /\ Become(s) /\ Outlives(Now, s)
  <2>1. ASSUME NEW s, Owned(s), SameViewers(Now, s) \/ ~IsAlive(s), Become(s)
        PROVE  \E q : Owned(q) /\ Become(q) /\ Outlives(Now, q)
    BY <2>1 DEF Outlives
  <2> QED
    BY <1>2, <1>3, <1>4, <2>1
<1> QED
  BY <1>5, BecomeOutlives, UnchangedOutlives

---------------------------------------------------------------------------
(* The calls that are made, and the jobs.                                  *)

\* The call and the threads have a place in their code.
CallInv ==
    /\ "pc" \in DOMAIN call /\ DOMAIN thread = Slots
    /\ \A v \in Slots : {"pc", "killed"} \subseteq DOMAIN thread[v] /\ thread[v].killed \in BOOLEAN

\* The frames are recorded from the first viewer on.
RecordingInv ==
    /\ {"at", "asked", "cursor"} \subseteq DOMAIN call
    /\ call.pc = "recording" => IsRequest(call.asked) /\ call.at \in Nat \ {0}

\* What a job is to call for is a request; one of its calls is under way only if there is one.
JobInv ==
    /\ waiting \subseteq Jobs /\ DOMAIN job = {"calls", "playing"}
    /\ job.calls \in Seq(AllRequests) /\ (job.playing => job.calls # <<>>)

OwnedInv == Owned(Now) /\ RecordingInv /\ JobInv

\* The steps of the caller.
LEMMA MainOwned ==
    ASSUME Owned(Now), RecordingInv, CallInv, Main
    PROVE  Owned(Now)' /\ RecordingInv' /\ Outlives(Now, Now')
<1>1. /\ \A b : Owned(ShowClock(Now, b)) /\ SameViewers(Now, ShowClock(Now, b))
      /\ Owned(ClosedAll(Now)) /\ ~IsAlive(ClosedAll(Now))
      /\ Owned(Undecorated(Now, call.asked)) /\ SameViewers(Now, Undecorated(Now, call.asked))
  BY OverlaysScenery, OverlaysOwned, SceneryOwned, ClosedAllOwned DEF Owned
<1>2. /\ Outlives(Now, ShowClock(Now, TRUE)) /\ Outlives(Now, ClosedAll(Now))
      /\ Outlives(Now, Undecorated(Now, call.asked)) /\ Outlives(Now, Now)
  BY <1>1 DEF Outlives, SameViewers
<1>3. ASSUME call.pc = "recording", call.at <= Len(Order), IsConnected(Now, Order[call.at])
      PROVE  Owned(Refreshed(Now, Order[call.at])) /\ Outlives(Now, Refreshed(Now, Order[call.at]))
  <2>1. Order[call.at] \in Slots
    BY <1>3 DEF RecordingInv, IsRequest, Order
  <2>2. Now.viewer[Order[call.at]] # None
    BY <1>3 DEF IsConnected, IsOpen
  <2> QED
    BY <2>1, <2>2, RefreshedOwned DEF Outlives
<1>4. CASE Join \/ Check
  <2>1. call'.pc # "recording" /\ DOMAIN call' = DOMAIN call
    BY <1>4 DEF Join, Check, AfterThread, CallInv
  <2> QED
    BY <1>4, <2>1, UnchangedOutlives DEF Join, Check, RecordingInv
<1>5. CASE ShowFrame
  <2>1. \/ UNCHANGED vars
        \/ IsConnected(Now, Order[call.at]) /\ Become(Refreshed(Now, Order[call.at]))
    BY <1>5 DEF ShowFrame, vars
  <2>2. IsRequest(call.asked) /\ call.at \in Nat \ {0}
    BY <1>5 DEF ShowFrame, RecordingInv
  <2>3. /\ DOMAIN call' = DOMAIN call
        /\ \/ call'.pc # "recording"
           \/ call'.asked = call.asked /\ call'.at \in {call.at, call.at + 1}
    BY <1>5 DEF ShowFrame, CallInv, RecordingInv
  <2>4. RecordingInv'
    BY <2>2, <2>3 DEF RecordingInv
  <2>5. call.pc = "recording" /\ call.at <= Len(Order)
    BY <1>5 DEF ShowFrame
  <2>6. CASE UNCHANGED vars
    BY <2>4, <2>6, UnchangedOutlives
  <2>7. CASE IsConnected(Now, Order[call.at]) /\ Become(Refreshed(Now, Order[call.at]))
    BY <1>3, <2>4, <2>5, <2>7, BecomeOutlives
  <2> QED
    BY <2>1, <2>6, <2>7
<1>6. CASE AddFrame
  <2>1. Become(ShowClock(Now, TRUE)) \/ Become(Now)
    BY <1>6 DEF AddFrame
  <2>2. RecordingInv'
    BY <1>6 DEF AddFrame, CallInv, RecordingInv
  <2> QED
    BY <1>1, <1>2, <2>1, <2>2, BecomeOutlives
<1>7. CASE Clean
  <2>1. call'.pc # "recording" /\ DOMAIN call' = DOMAIN call
    BY <1>7 DEF Clean, CallInv
  <2> QED
    BY <1>1, <1>2, <1>7, <2>1, BecomeOutlives DEF Clean, RecordingInv
<1>8. CASE Return
  <2>1. call'.pc # "recording" /\ DOMAIN call' = DOMAIN call
    BY <1>8 DEF Return, CallInv
  <2> QED
    BY <1>1, <1>2, <1>8, <2>1, BecomeOutlives, UnchangedOutlives DEF Return, RecordingInv
<1> QED
  BY <1>4, <1>5, <1>6, <1>7, <1>8 DEF Main

\* A call begins.
LEMMA PlayOwned ==
    ASSUME CallInv, RecordingInv, NEW s, Owned(s), NEW r, IsRequest(r), PlayTrajectories(s, r)
    PROVE  Owned(Now)' /\ RecordingInv'
<1>1. CASE call' = [call EXCEPT !.pc = "raised", !.asked = r]
  BY <1>1, PlayedOwned DEF CallInv, RecordingInv
<1>2. CASE \E t : Launched(t, r)
  <2>1. PICK t : Launched(t, r)
    BY <1>2
  <2>2. RecordingInv'
    BY <2>1 DEF CallInv, RecordingInv, Launched
  <2> QED
    BY <2>2, PlayedOwned
<1> QED
  BY <1>1, <1>2 DEF PlayTrajectories

\* What is asked is a request.
LEMMA Requested ==
    ASSUME NEW r \in AllRequests
    PROVE  IsRequest(r)
BY DEF AllRequests, IsRequest

\* The call of a simulator is made with its own viewer, once rendered.
LEMMA ReplayIsPlayed ==
    ASSUME Owned(Now), Replay
    PROVE  \E s, q : Owned(s) /\ IsRequest(q) /\ PlayTrajectories(s, q)
<1>1. PICK r \in Requests :
        PlayTrajectories(Rendered(WithoutOthers(Now, Head(r.order)), r),
                         [r EXCEPT !.given = {Head(r.order)}])
  BY DEF Replay
<1> DEFINE v == Head(r.order)
           s == WithoutOthers(Now, v)
           q == [r EXCEPT !.given = {v}]
<1>2. IsRequest(r) /\ r.order # <<>> /\ r \in AllRequests
  BY ReplayAssumption, Requested
<1>3. v \in Slots
  BY <1>2 DEF IsRequest
<1>4. IsRequest(q)
  <2>1. q.order = r.order /\ q.hooks = r.hooks /\ q.given = {v}
    BY <1>2 DEF AllRequests
  <2> QED
    BY <1>2, <1>3, <2>1 DEF IsRequest
<1>5. Owned(s)
  BY WithoutOthersOwned
<1>6. PlayTrajectories(Rendered(s, r), q)
  BY <1>1
<1> HIDE DEF s, q, v
<1>7. Owned(Rendered(s, r))
  BY <1>2, <1>5, RenderedOwned
<1> QED
  BY <1>4, <1>6, <1>7

\* The calls of the caller, with the viewers it gives or with that of its simulator.
LEMMA ReplayOwned ==
    ASSUME CallInv, Owned(Now), RecordingInv, Play \/ Replay
    PROVE  Owned(Now)' /\ RecordingInv'
<1>1. CASE Play
  <2>1. PICK r \in Requests : PlayTrajectories(Now, r)
    BY <1>1 DEF Play
  <2>2. IsRequest(r)
    BY ReplayAssumption, Requested
  <2> QED
    BY <2>1, <2>2, PlayOwned
<1>2. CASE Replay
  BY <1>2, ReplayIsPlayed, PlayOwned
<1> QED
  BY <1>1, <1>2

\* What a job calls for.
LEMMA FieldsOfRequests ==
    ASSUME NEW A, NEW B, NEW C, NEW D,
           NEW r \in [order : A, given : B, backend : C, record : D, clock : D, legend : D,
                      travelling : D, motion : D, watermark : D, hooks : D, close : D],
           NEW x \in D, NEW y \in D
    PROVE  [r EXCEPT !.record = x, !.close = y] \in
             [order : A, given : B, backend : C, record : D, clock : D, legend : D,
              travelling : D, motion : D, watermark : D, hooks : D, close : D]
OBVIOUS

\* Each of the calls of a job is a request.
LEMMA CallsOfJob ==
    ASSUME NEW j \in Jobs
    PROVE  CallsOf(j) \in Seq(AllRequests)
<1> DEFINE both == j.replay /\ j.record
           call1 == [j.plays EXCEPT !.record = FALSE, !.close = both]
           call2 == [j.plays EXCEPT !.record = TRUE, !.close = both]
           seq1 == IF j.replay THEN <<call1>> ELSE <<>>
           seq2 == IF j.record THEN <<call2>> ELSE <<>>
<1>1. j.plays \in AllRequests
  BY JobsAssumption
<1>2. both \in BOOLEAN
  BY JobsAssumption
<1>3. call1 \in AllRequests /\ call2 \in AllRequests
  BY <1>1, <1>2, FieldsOfRequests, Zenon DEF AllRequests
<1>4. CallsOf(j) = seq1 \o seq2
  BY DEF CallsOf
<1> HIDE DEF call1, call2
<1>5. seq1 \in Seq(AllRequests) /\ seq2 \in Seq(AllRequests)
  BY <1>3
<1> HIDE DEF seq1, seq2
<1> QED
  BY <1>4, <1>5

\* The steps of a job.
LEMMA JobStep ==
    ASSUME OwnedInv, CallInv, Job
    PROVE  OwnedInv'
<1>1. CASE Acquire
  <2>1. JobInv'
    BY <1>1, CallsOfJob DEF Acquire, OwnedInv, JobInv
  <2> QED
    BY <1>1, <2>1 DEF Acquire, OwnedInv, RecordingInv, replayVars, Now
<1>2. CASE JobPlays
  <2>1. JobInv'
    BY <1>2 DEF JobPlays, OwnedInv, JobInv
  <2>2. Head(job.calls) \in AllRequests
    BY <1>2 DEF JobPlays, OwnedInv, JobInv
  <2>3. Owned(Now)' /\ RecordingInv'
    BY <1>2, <2>2, PlayOwned, Requested DEF JobPlays, OwnedInv
  <2> QED
    BY <2>1, <2>3 DEF OwnedInv
<1>3. CASE JobCloses
  <2> DEFINE r == Head(job.calls)
  <2>1. job.calls # <<>> /\ job.calls \in Seq(AllRequests)
    BY <1>3 DEF JobCloses, OwnedInv, JobInv
  <2>2. r \in AllRequests /\ Tail(job.calls) \in Seq(AllRequests)
    BY <2>1
  <2>3. JobInv'
    BY <1>3, <2>2 DEF JobCloses, OwnedInv, JobInv
  <2>4. RecordingInv'
    BY <1>3 DEF JobCloses, OwnedInv, CallInv, RecordingInv
  <2>5. IsRequest(r)
    BY <2>2, Requested
  <2>6. Become(Now) \/ Become(JobViewersClosed(Now, r))
    BY <1>3 DEF JobCloses
  <2> HIDE DEF r
  <2>7. Owned(Now)'
    BY <2>5, <2>6, AllClosedOwned, BecomeOwned DEF OwnedInv
  <2> QED
    BY <2>3, <2>4, <2>7 DEF OwnedInv
<1> QED
  BY <1>1, <1>2, <1>3 DEF Job

\* Every step keeps the owners.
LEMMA OwnedStep ==
    ASSUME OwnedInv, CallInv, [AsyncNext]_asyncVars
    PROVE  OwnedInv'
<1>1. UNCHANGED vars => Owned(Now)'
  BY DEF OwnedInv, vars, Now
<1>2. UNCHANGED call => RecordingInv'
  BY DEF OwnedInv, RecordingInv
<1>3. UNCHANGED jobVars => JobInv'
  BY DEF OwnedInv, JobInv, jobVars
<1>4. CASE UNCHANGED asyncVars
  BY <1>1, <1>2, <1>3, <1>4 DEF OwnedInv, asyncVars, replayVars, vars
<1>5. CASE Job
  BY <1>5, JobStep
<1>6. CASE Ask
  <2>1. JobInv'
    BY <1>6 DEF Ask, OwnedInv, JobInv
  <2> QED
    BY <1>1, <1>2, <1>6, <2>1 DEF Ask, OwnedInv, replayVars, vars
<1>7. CASE UNCHANGED jobVars /\ (Play \/ Replay)
  BY <1>3, <1>7, ReplayOwned DEF OwnedInv
<1>8. CASE UNCHANGED jobVars /\ Interrupt
  <2>1. call'.pc # "recording" /\ DOMAIN call' = DOMAIN call
    BY <1>8 DEF Interrupt, AfterThread, CallInv
  <2> QED
    BY <1>1, <1>3, <1>8, <2>1 DEF Interrupt, OwnedInv, RecordingInv
<1>9. CASE UNCHANGED jobVars /\ Between
  <2>1. ASSUME NEW v \in Slots, CloseViewer(v) PROVE Owned(Now)'
    <3>1. Now.viewer[v] # None
      BY <2>1 DEF CloseViewer, Now
    <3> QED
      BY <2>1, <3>1, ClosedViewerOwned, BecomeOwned DEF CloseViewer, OwnedInv
  <2>2. Owned(Now)'
    BY <1>9, <2>1, ClosedAllOwned, BecomeOwned DEF Between, CloseAll, OwnedInv
  <2> QED
    BY <1>2, <1>3, <1>9, <2>2 DEF Between, OwnedInv
<1>10. CASE UNCHANGED jobVars /\ Main
  BY <1>3, <1>10, MainOwned DEF OwnedInv
<1>11. CASE UNCHANGED jobVars /\ UserCloses
  BY <1>2, <1>3, <1>11, WindowClosedOwned DEF UserCloses, OwnedInv
<1>12. CASE UNCHANGED jobVars /\ \E v \in Slots : Run(v)
  <2>1. UNCHANGED call
    BY <1>12 DEF Run, Begin, Clock, Show, ShowFails, Handle, CloseOnError, End, EndClock,
       EndDisplay, Exit
  <2> QED
    BY <1>2, <1>3, <1>12, <2>1, RunOwned DEF OwnedInv
<1> QED
  BY <1>4, <1>5, <1>6, <1>7, <1>8, <1>9, <1>10, <1>11, <1>12 DEF AsyncNext

\* No scene has robots before the first process.
LEMMA OwnedInit == AsyncInit => OwnedInv
<1> SUFFICES ASSUME AsyncInit PROVE OwnedInv
  OBVIOUS
<1>1. Owned(Now)
  BY DEF AsyncInit, ReplayInit, Init, Now, NoClass, NewScene, Owned, ShapeOf, NumberInv, DeletesInv,
     OwnersInv, IsAlive
<1>2. RecordingInv
  BY DEF AsyncInit, ReplayInit, RecordingInv
<1>3. JobInv
  BY DEF AsyncInit, NoJob, JobInv
<1> QED
  BY <1>1, <1>2, <1>3 DEF OwnedInv

---------------------------------------------------------------------------
(* The failure of a thread.                                                *)

\* As long as a call is under way, the viewers of its threads reach the process, or there is
\* none: it is why a thread that was to begin, or to display its data again, finds no process.
LaunchedInv ==
    (~Free /\ IsAlive(Now)) => \A v \in Slots : thread[v].pc # "ended" => IsConnected(Now, v)

\* With it FailureClosesBackend is inductive: as long as the call of a thread that failed is
\* under way, nothing starts a process.
FailureInv == CallInv /\ LaunchedInv /\ FailureClosesBackend

\* A call that begins has no thread that failed; one that raises has returned.
LEMMA PlayedKeepsFailure ==
    ASSUME FailureInv, Free, NEW s, Owned(s), NEW r, IsRequest(r), PlayTrajectories(s, r)
    PROVE  FailureInv'
<1>1. CASE Raises(s, r, Kept(s, r), MadeReady(s, r, Kept(s, r))).fails
  <2>1. call' = [call EXCEPT !.pc = "raised", !.asked = r] /\ UNCHANGED thread
    BY <1>1 DEF PlayTrajectories
  <2>2. CallInv' /\ call'.pc = "raised"
    BY <2>1 DEF FailureInv, CallInv
  <2>3. Free'
    BY <2>1, <2>2 DEF Free
  <2> QED
    BY <2>2, <2>3 DEF FailureInv, LaunchedInv, FailureClosesBackend
<1>2. CASE ~Raises(s, r, Kept(s, r), MadeReady(s, r, Kept(s, r))).fails
  <2>1. PICK t : Launched(t, r)
    BY <1>2 DEF PlayTrajectories
  <2>2. CallInv'
    BY <2>1 DEF FailureInv, CallInv, Launched, Idle
  <2>3. \A v \in Slots : thread'[v].pc \notin {"failed", "dead"}
    BY <2>1 DEF Launched, Idle
  <2>4. \A v \in Slots : thread'[v].pc # "ended" => \E k \in 1 .. Len(r.order) : r.order[k] = v
    BY <2>1 DEF Launched, Idle
  <2>5. \A k \in 1 .. Len(r.order) : IsConnected(Now', r.order[k])
    BY <1>2, PlayedOwned
  <2>6. LaunchedInv'
    BY <2>4, <2>5 DEF LaunchedInv
  <2> QED
    BY <2>2, <2>3, <2>6 DEF FailureInv, FailureClosesBackend
<1> QED
  BY <1>1, <1>2

\* Where a thread goes on: none fails, and one that dies was killed, or does not reach the
\* process.
Onwards(v) ==
    /\ CallInv'
    /\ \A w \in Slots :
         /\ thread'[w].killed = thread[w].killed
         /\ thread'[w].pc # "ended" => thread[w].pc # "ended"
         /\ thread'[w].pc = "failed" => thread[w].pc = "failed"
         /\ (thread'[w].pc = "dead" /\ ~thread[w].killed) =>
              (thread[w].pc = "dead" \/ (w = v /\ ~IsConnected(Now, v)))

LEMMA GotoEffect ==
    ASSUME CallInv, NEW v \in Slots, thread[v].pc # "ended", NEW pc, Goto(v, pc), UNCHANGED call,
           pc # "failed", pc = "dead" => ~IsConnected(Now, v)
    PROVE  Onwards(v)
<1>1. /\ DOMAIN thread' = Slots /\ \A w \in Slots \ {v} : thread'[w] = thread[w]
      /\ thread'[v].pc = (IF thread[v].killed THEN "dead" ELSE pc)
      /\ thread'[v].killed = thread[v].killed /\ DOMAIN thread'[v] = DOMAIN thread[v]
  BY DEF CallInv, Goto
<1>2. CallInv'
  BY <1>1 DEF CallInv
<1> QED
  BY <1>1, <1>2 DEF CallInv, Onwards

\* The steps of a thread: the only one to fail closes the backend before.
LEMMA RunGoesOn ==
    ASSUME CallInv, NEW v \in Slots, Run(v)
    PROVE  \/ Onwards(v) /\ class' = class
           \/ CallInv' /\ class' = NoClass /\ ~IsAlive(Now')
<1> DEFINE Harmless == Onwards(v) /\ class' = class
<1>1. thread[v].pc # "ended"
  BY DEF Run, Begin, Clock, Show, ShowFails, Handle, CloseOnError, End, EndClock, EndDisplay,
     Exit, Ended
<1>3. CASE CloseOnError(v)
  <2>1. CallInv'
    BY <1>3 DEF CallInv, CloseOnError, Goto
  <2>2. class' = NoClass
    BY <1>3 DEF CloseOnError, Become, ClosedAll, Now
  <2>3. ~IsAlive(Now')
    BY <2>2 DEF IsAlive, Now, NoClass
  <2> QED
    BY <2>1, <2>2, <2>3
<1>4. ASSUME Begin(v) PROVE Harmless
  <2>1. CASE UNCHANGED vars /\ Goto(v, "clock")
    BY <1>1, <1>4, <2>1, GotoEffect DEF Begin, vars
  <2>2. CASE UNCHANGED vars /\ Goto(v, "dead") /\ ~IsConnected(Now, v)
    BY <1>1, <1>4, <2>2, GotoEffect DEF Begin, vars
  <2>3. CASE /\ Become(Displayed(Now, v, FALSE))
             /\ thread' = [thread EXCEPT ![v].off = TRUE,
                                         ![v].pc = IF thread[v].killed THEN "dead" ELSE "clock"]
    <3>1. class' = class
      BY <2>3 DEF Become, Displayed, Now
    <3>2. /\ DOMAIN thread' = Slots /\ \A w \in Slots \ {v} : thread'[w] = thread[w]
          /\ thread'[v].pc = (IF thread[v].killed THEN "dead" ELSE "clock")
          /\ thread'[v].killed = thread[v].killed /\ DOMAIN thread'[v] = DOMAIN thread[v]
      BY <2>3 DEF CallInv
    <3>3. CallInv'
      BY <1>4, <3>2 DEF CallInv, Begin
    <3> QED
      BY <1>1, <3>1, <3>2, <3>3 DEF Onwards
  <2> QED
    BY <1>4, <2>1, <2>2, <2>3 DEF Begin, IsConnected
<1>5. ASSUME Clock(v) PROVE Harmless
  BY <1>1, <1>5, GotoEffect DEF Clock, vars, Become, ShowClock, Now
<1>6. ASSUME Show(v) PROVE Harmless
  <2>1. class' = class
    BY <1>6 DEF Show, Become, Refreshed, Now
  <2>2. /\ DOMAIN thread' = Slots /\ \A w \in Slots \ {v} : thread'[w] = thread[w]
        /\ thread'[v].pc = (IF thread[v].killed THEN "dead"
                            ELSE IF thread[v].frames = 1 THEN "end" ELSE "clock")
        /\ thread'[v].killed = thread[v].killed /\ DOMAIN thread'[v] = DOMAIN thread[v]
    BY <1>6 DEF CallInv, Show
  <2>3. CallInv'
    BY <1>6, <2>2 DEF CallInv, Show
  <2> QED
    BY <1>1, <2>1, <2>2, <2>3 DEF Onwards
<1>7. ASSUME ShowFails(v) \/ Handle(v) \/ End(v) PROVE Harmless
  BY <1>1, <1>7, GotoEffect DEF ShowFails, Handle, End, AfterError, vars
<1>8. ASSUME EndClock(v) PROVE Harmless
  <2>1. class' = class
    BY <1>8 DEF EndClock, vars, Become, ShowClock, Now
  <2>2. Goto(v, "endDisplay") \/ (Goto(v, "dead") /\ ~IsConnected(Now, v))
    BY <1>8 DEF EndClock, IsConnected, IsOpen
  <2> QED
    BY <1>1, <1>8, <2>1, <2>2, GotoEffect DEF EndClock
<1>9. ASSUME EndDisplay(v) PROVE Harmless
  <2>1. class' = class
    BY <1>9 DEF EndDisplay, vars, Become, Displayed, Refreshed, Now
  <2>2. Goto(v, "ended") \/ (Goto(v, "dead") /\ ~IsConnected(Now, v))
    BY <1>9 DEF EndDisplay
  <2> QED
    BY <1>1, <1>9, <2>1, <2>2, GotoEffect DEF EndDisplay
<1>10. ASSUME Exit(v) PROVE Harmless
  <2>1. /\ DOMAIN thread' = Slots /\ \A w \in Slots \ {v} : thread'[w] = thread[w]
        /\ thread'[v].pc = "dead" /\ thread[v].killed
        /\ thread'[v].killed = thread[v].killed /\ DOMAIN thread'[v] = DOMAIN thread[v]
    BY <1>10 DEF CallInv, Exit
  <2>2. CallInv'
    BY <1>10, <2>1 DEF CallInv, Exit
  <2> QED
    BY <1>1, <1>10, <2>1, <2>2 DEF Onwards, Exit, vars
<1> HIDE DEF Harmless
<1>11. CloseOnError(v) \/ Harmless
  BY <1>4, <1>5, <1>6, <1>7, <1>8, <1>9, <1>10 DEF Run
<1> QED
  BY <1>3, <1>11 DEF Harmless

LEMMA RunKeepsFailure ==
    ASSUME FailureInv, Owned(Now), NEW v \in Slots, Run(v)
    PROVE  FailureInv'
<1>1. CallInv /\ Outlives(Now, Now')
  BY RunOwned DEF FailureInv
<1>2. ~Free /\ thread[v].pc # "ended"
  BY DEF Run, Begin, Clock, Show, ShowFails, Handle, CloseOnError, End, EndClock, EndDisplay,
     Exit, Free, Ended
<1>3. CASE Onwards(v) /\ class' = class
  <2>1. LaunchedInv'
    BY <1>1, <1>2, <1>3 DEF FailureInv, LaunchedInv, Onwards, Outlives, SameViewers
  <2>2. \A w \in Slots : thread'[w].pc = "failed" => class' = NoClass
    BY <1>2, <1>3 DEF FailureInv, FailureClosesBackend, Onwards
  <2>3. ASSUME NEW w \in Slots, thread'[w].pc = "dead", ~thread'[w].killed PROVE ~IsAlive(Now')
    <3>1. ~thread[w].killed
      BY <1>3, <2>3 DEF Onwards
    <3>2. thread[w].pc = "dead" \/ (w = v /\ ~IsConnected(Now, v))
      BY <1>3, <2>3, <3>1 DEF Onwards
    <3>3. ~IsAlive(Now)
      BY <1>2, <3>1, <3>2 DEF FailureInv, FailureClosesBackend, LaunchedInv
    <3> QED
      BY <1>1, <3>3 DEF Outlives, SameViewers
  <2> QED
    BY <1>3, <2>1, <2>2, <2>3 DEF FailureInv, FailureClosesBackend, Onwards
<1>4. CASE CallInv' /\ class' = NoClass /\ ~IsAlive(Now')
  BY <1>4 DEF FailureInv, LaunchedInv, FailureClosesBackend
<1> QED
  BY <1>1, <1>3, <1>4, RunGoesOn

\* To give a field the value it has.
LEMMA SameField ==
    ASSUME NEW c, c = [f \in DOMAIN c |-> c[f]], NEW f, NEW b, b = c[f]
    PROVE  [c EXCEPT ![f] = b] = c
OBVIOUS

\* The steps of the caller: what it undoes is already undone if the backend was closed.
LEMMA MainKeepsFailure ==
    ASSUME FailureInv, Owned(Now), RecordingInv, Main
    PROVE  FailureInv'
<1>1. ~Free /\ Outlives(Now, Now')
  BY MainOwned DEF Main, Join, ShowFrame, AddFrame, Check, Clean, Return, Free, FailureInv
<1>2. UNCHANGED thread
  BY DEF Main, Join, ShowFrame, AddFrame, Check, Clean, Return
<1>3. CallInv'
  BY <1>2 DEF FailureInv, CallInv, Main, Join, AfterThread, ShowFrame, AddFrame, Check, Clean,
     Return
<1>4. class' = class \/ class' = NoClass \/ Clean
  BY DEF Main, Join, ShowFrame, AddFrame, Check, Return, Become, Refreshed, ShowClock, ClosedAll,
     Now, vars
<1>5. ASSUME Clean PROVE class = NoClass => class' = NoClass
  <2> SUFFICES ASSUME class = NoClass PROVE class' = NoClass
    OBVIOUS
  <2>1. NoClass = [f \in DOMAIN NoClass |-> NoClass[f]] /\ NoClass.travelling = None /\ NoClass.motion = FALSE
    BY DEF NoClass
  <2>2. [NoClass EXCEPT !.travelling = None] = NoClass /\ [NoClass EXCEPT !.motion = FALSE] = NoClass
    BY <2>1, SameField
  <2>3. Undecorated(Now, call.asked).class = NoClass
    BY <2>2 DEF Undecorated, DetachCamera, RemoveCameraMotion, ShowWatermark, ShowClock, Now
  <2> QED
    BY <1>5, <2>3 DEF Clean, Become
<1>6. LaunchedInv'
  BY <1>1, <1>2 DEF FailureInv, LaunchedInv, Outlives, SameViewers
<1>7. IsAlive(Now') => IsAlive(Now)
  BY <1>1 DEF Outlives, SameViewers
<1> QED
  BY <1>1, <1>2, <1>3, <1>4, <1>5, <1>6, <1>7 DEF FailureInv, FailureClosesBackend

LEMMA FailureStep ==
    ASSUME FailureInv, OwnedInv, [AsyncNext]_asyncVars
    PROVE  FailureInv'
<1>0. CallInv /\ Owned(Now) /\ RecordingInv /\ JobInv
  BY DEF FailureInv, OwnedInv
<1>1. CASE UNCHANGED replayVars
  BY <1>1 DEF FailureInv, CallInv, LaunchedInv, FailureClosesBackend, Free, replayVars, Now
<1>2. CASE Free /\ UNCHANGED <<call, thread>>
  BY <1>0, <1>2 DEF FailureInv, CallInv, LaunchedInv, FailureClosesBackend, Free
<1>3. CASE Play
  <2>1. PICK r \in Requests : PlayTrajectories(Now, r)
    BY <1>3 DEF Play
  <2> QED
    BY <1>0, <1>3, <2>1, ReplayAssumption, Requested, PlayedKeepsFailure DEF Play
<1>4. CASE Replay
  BY <1>0, <1>4, ReplayIsPlayed, PlayedKeepsFailure DEF Replay
<1>5. CASE JobPlays
  <2>1. Head(job.calls) \in AllRequests
    BY <1>0, <1>5 DEF JobPlays, JobInv
  <2> QED
    BY <1>0, <1>5, <2>1, Requested, PlayedKeepsFailure DEF JobPlays
<1>6. CASE JobCloses
  BY <1>0, <1>6 DEF JobCloses, FailureInv, CallInv, LaunchedInv, FailureClosesBackend, Free
<1>7. CASE Interrupt
  <2>1. ~Free /\ UNCHANGED vars
    BY <1>7 DEF Interrupt, Free
  <2>2. DOMAIN call' = DOMAIN call
    BY <1>7 DEF Interrupt, AfterThread
  <2>3. /\ DOMAIN thread' = Slots
        /\ \A v \in Slots : /\ DOMAIN thread'[v] = DOMAIN thread[v]
                            /\ thread'[v].pc = thread[v].pc /\ thread'[v].killed \in BOOLEAN
                            /\ thread[v].killed => thread'[v].killed
    BY <1>0, <1>7 DEF CallInv, Interrupt
  <2>4. CallInv'
    BY <1>0, <2>2, <2>3 DEF CallInv
  <2>5. Now' = Now
    BY <2>1 DEF Now, vars
  <2> QED
    BY <2>1, <2>3, <2>4, <2>5 DEF FailureInv, LaunchedInv, FailureClosesBackend, vars
<1>8. CASE Main
  BY <1>0, <1>8, MainKeepsFailure
<1>9. CASE UserCloses
  <2>1. Outlives(Now, Now') /\ UNCHANGED <<class, call, thread>>
    BY <1>0, <1>9, WindowClosedOwned DEF UserCloses, CloseWindow
  <2>2. CallInv' /\ (Free' <=> Free)
    BY <1>0, <2>1 DEF CallInv, Free
  <2>3. LaunchedInv'
    BY <2>1, <2>2 DEF FailureInv, LaunchedInv, Outlives, SameViewers
  <2>4. IsAlive(Now') => IsAlive(Now)
    BY <2>1 DEF Outlives, SameViewers
  <2> QED
    BY <2>1, <2>2, <2>3, <2>4 DEF FailureInv, FailureClosesBackend
<1>10. CASE \E v \in Slots : Run(v)
  BY <1>0, <1>10, RunKeepsFailure
<1>11. CASE Acquire \/ Ask
  BY <1>1, <1>11 DEF Acquire, Ask
<1>12. CASE Between
  BY <1>2, <1>12 DEF Between
<1> QED
  BY <1>1, <1>3, <1>4, <1>5, <1>6, <1>7, <1>8, <1>9, <1>10, <1>11, <1>12 DEF AsyncNext, Job, asyncVars

\* No thread runs before the first call.
LEMMA FailureInit == AsyncInit => FailureInv
<1> SUFFICES ASSUME AsyncInit PROVE FailureInv
  OBVIOUS
<1>1. "pc" \in DOMAIN call /\ call.pc = "idle" /\ thread = [v \in Slots |-> Idle]
  BY DEF AsyncInit, ReplayInit
<1>2. CallInv
  BY <1>1 DEF CallInv, Idle
<1>3. Free
  BY <1>1 DEF Free, Ended, Idle
<1> QED
  BY <1>2, <1>3 DEF FailureInv, LaunchedInv, FailureClosesBackend

---------------------------------------------------------------------------
(* The theorems about replays.                                             *)

\* As long as a call is under way, nothing is left of the backend if the loop of one of its
\* threads raised, and the process is no more if one died without being asked to: no thread
\* that is gone leaves the others to display, for any number of viewers, threads and jobs,
\* whatever the user closes or interrupts.
THEOREM FailuresCloseBackend == AsyncSpec => []FailureClosesBackend
<1>1. FailureInv => CallInv /\ FailureClosesBackend
  BY DEF FailureInv
<1> QED
  BY <1>1, FailureInit, FailureStep, OwnedInit, OwnedStep, PTL DEF AsyncSpec

\* Whatever was replayed or recorded, closed, interrupted or raised, for any number of viewers,
\* threads, requests and jobs, every robot of a scene has its viewer.
THEOREM RobotsAreOwned == AsyncSpec => []RobotsHaveViewers
<1>1. OwnedInv => RobotsHaveViewers
  BY DEF OwnedInv, Owned, OwnersInv, RobotsHaveViewers, IsConnected, IsOpen, Now
<1>2. FailureInv => CallInv
  BY DEF FailureInv
<1> QED
  BY <1>1, <1>2, FailureInit, FailureStep, OwnedInit, OwnedStep, PTL DEF AsyncSpec
=============================================================================
