------------------------------- MODULE Viewer -------------------------------
(***************************************************************************)
(* The viewers of jiminy_py (viewer/viewer.py), the one backend process    *)
(* that all of them share as attributes of their class, and what this      *)
(* process shows: groups of nodes by robot, one marker by robot, a window. *)
(*                                                                         *)
(* A slot holds one viewer object at a time; the object of a slot that is  *)
(* not open may be replaced, as Simulator.render does.  An object that     *)
(* counts as open may belong to a process that is no more: what is sent    *)
(* to it then raises, after the attributes of the class were changed.      *)
(***************************************************************************)
EXTENDS Panda3dApp

CONSTANTS Slots,          \* what holds a viewer object: a simulator or a variable
          NameOf,         \* name of the robot of every slot
          Backends,       \* "panda3d" and "meshcat", or one of them
          MaxProcesses    \* bound: number of processes started

\* A viewer object: whether it counts as open, the process it belongs to, what is to become
\* of its robot, and its markers: the choice of the user, what is displayed, how large it is.
Objects == [isOpen : BOOLEAN, proc : Nat, deletes : BOOLEAN,
            display : BOOLEAN, visible : BOOLEAN, tiny : BOOLEAN, fresh : BOOLEAN]

ASSUME ViewerAssumption ==
    /\ Backends \subseteq {"panda3d", "meshcat"} /\ NameOf \in [Slots -> Names]
    /\ MaxProcesses \in Nat /\ None \notin Nat \cup Objects

VARIABLES class,   \* attributes of the class Viewer
          scene,   \* the last process started, and what it shows
          viewer   \* the object of every slot, or None

vars == <<class, scene, viewer>>

Now == [class |-> class, scene |-> scene, viewer |-> viewer]
Become(s) == class' = s.class /\ scene' = s.scene /\ viewer' = s.viewer

NoClass == [backend |-> None, proc |-> None, hasGui |-> FALSE, names |-> {}, colored |-> {},
            travelling |-> None, motion |-> FALSE]

Init ==
    /\ class = NoClass /\ scene = NewScene(0, FALSE) /\ viewer = [v \in Slots |-> None]

---------------------------------------------------------------------------
(* The state of a viewer.                                                  *)

ProcessIsAlive(p) == p.alive
IsAlive(s) == s.class.proc # None /\ ProcessIsAlive(s.scene)

IsOpen(s, v) == IsAlive(s) /\ s.viewer[v] # None /\ s.viewer[v].isOpen

\* Whether what is sent by the object reaches the process of the class.
IsConnected(s, v) == IsOpen(s, v) /\ s.viewer[v].proc = s.class.proc

IsPanda(s) == s.class.backend = "panda3d"

\* A window of meshcat is a page of a browser: the server is asked for it.
HasGui(s) == IsAlive(s) /\ IF IsPanda(s) THEN s.class.hasGui ELSE s.scene.window

---------------------------------------------------------------------------
(* Closing.                                                                *)

\* What remains of a process that ended, or that was killed.
Killed(p) == NewScene(p.number, FALSE)

\* Viewer.close(): the process is killed, the attributes of the class are reset, and
\* nothing is done about the objects.
ClosedAll(s) == [s EXCEPT !.class = NoClass, !.scene = Killed(@)]

DetachCamera(s) == [s EXCEPT !.class.travelling = None]

\* Variant: the camera goes on following the viewer.
DetachedFromNot(s, v) == s

DetachedFrom(s, v) == IF s.class.travelling = v THEN DetachCamera(s) ELSE s

Unregistered(s, v) ==
    [s EXCEPT !.class.names = @ \ {NameOf[v]}, !.class.colored = @ \ {NameOf[v]}]

\* Variant: the markers are left behind.
DeletedRobotOnly(s, v) == [s EXCEPT !.scene = RemoveGroups(@, RobotGroups(NameOf[v]))]

Deleted(s, v) ==
    LET gone == RobotGroups(NameOf[v]) \cup MarkersGroup(NameOf[v])
    IN [s EXCEPT !.scene = [RemoveGroups(@, gone) EXCEPT !.node[NameOf[v]] = None]]

\* close of an object.  It raises if its robot is to be deleted from a dead process.
ClosedViewer(s, v) ==
    LET o == s.viewer[v]
        detached == DetachedFrom(s, v)
        unregistered == Unregistered(detached, v)
    IN IF o.proc # s.class.proc \/ ~o.isOpen THEN detached
       ELSE IF o.deletes /\ ~IsAlive(s) THEN unregistered
       ELSE [(IF o.deletes THEN Deleted(unregistered, v) ELSE unregistered)
               EXCEPT !.viewer[v].isOpen = FALSE]

---------------------------------------------------------------------------
(* Starting.                                                               *)

\* connect_backend, up to the start of a process: one of another kind is closed, and so
\* is the class when none is alive.
Disconnected(s, b) == IF IsAlive(s) /\ s.class.backend = b THEN s ELSE ClosedAll(s)

StartedProcess(s, b) ==
    LET k == s.scene.number + 1
    IN [s EXCEPT !.class.backend = b, !.class.proc = k, !.scene = NewScene(k, TRUE)]

Connected(s, b) == IF IsAlive(Disconnected(s, b)) THEN s ELSE StartedProcess(Disconnected(s, b), b)

CanStart(s, b) == IsAlive(Disconnected(s, b)) \/ s.scene.number < MaxProcesses

OpenedGui(s) ==
    IF HasGui(s) THEN s
    ELSE [s EXCEPT !.class.hasGui = TRUE,
                   !.scene = IF IsPanda(s) THEN OpenedWindow(@, TRUE) ELSE [@ EXCEPT !.window = TRUE]]

\* add_marker, the one of the same name being removed first.
WithMarker(s, v) ==
    [s EXCEPT !.scene.node[NameOf[v]] = ShowNode(NewNode, TRUE),
              !.scene.lit = @ \ MarkersGroup(NameOf[v]),
              !.viewer[v].visible = TRUE, !.viewer[v].fresh = FALSE]

\* refresh, where only the markers matter here.
Refreshed(s, v) ==
    LET n == NameOf[v] IN
    [s EXCEPT !.viewer[v].fresh = TRUE,
              !.scene.node[n] = IF IsPanda(s) /\ s.viewer[v].visible
                                  THEN SetScale(@, s.viewer[v].tiny) ELSE @]

\* display_contact_forces and its kind: the markers, the choice for the next set up, and a
\* refresh if they are to be seen.
Displayed(s, v, show) ==
    LET chosen == [s EXCEPT !.scene.node[NameOf[v]] = ShowNode(@, show), !.viewer[v].fresh = FALSE,
                            !.viewer[v].visible = show, !.viewer[v].display = show]
    IN IF show THEN Refreshed(chosen, v) ELSE chosen

\* The markers of a robot that is set up: shown, then left as the object wants them.
SetUpMarkers(s, v) ==
    Displayed(WithMarker([s EXCEPT !.scene = AppendGroup(@, <<NameOf[v], "markers">>, FALSE)], v),
              v, s.viewer[v].display)

\* The robot is deleted, whatever the process the object belongs to, and given a color;
\* its nodes are only added if this is the process of the class.
SetUp(s, v) ==
    LET n == NameOf[v]
        removed == [s EXCEPT !.scene = RemoveGroups(@, RobotGroups(n)), !.class.colored = @ \cup {n}]
        loaded == [removed EXCEPT !.scene = LoadModel(@, n)]
    IN IF ~IsConnected(s, v) THEN removed
       ELSE IF IsPanda(s) THEN SetUpMarkers(loaded, v) ELSE loaded

NewViewer(s, display, deletes) ==
    [isOpen |-> TRUE, proc |-> s.class.proc, deletes |-> deletes,
     display |-> display /\ IsPanda(s), visible |-> FALSE, tiny |-> FALSE, fresh |-> FALSE]

Registered(s, v) == [s EXCEPT !.class.names = @ \cup {NameOf[v]}]

\* The name is registered before the backend is connected, which may clear the names.
Constructed(s, v, b, gui, display, deletes) ==
    LET connected == Connected(Registered(s, v), b)
        opened == IF gui THEN OpenedGui(connected) ELSE connected
        made == [opened EXCEPT !.viewer[v] = NewViewer(opened, display, deletes)]
    IN Refreshed(SetUp(made, v), v)

---------------------------------------------------------------------------
(* Actions.                                                                *)

\* Construction of a viewer.
Construct(v) ==
    /\ ~IsOpen(Now, v) /\ NameOf[v] \notin class.names
    /\ \E b \in Backends, gui, display, deletes \in BOOLEAN :
         /\ CanStart(Now, b)
         /\ Become(Constructed(Now, v, b, gui, display, deletes))

\* One that fails, because of the name of the backend or of its process.
ConstructFails(v) ==
    /\ ~IsOpen(Now, v) /\ NameOf[v] \notin class.names
    /\ \/ Become(Registered(Now, v))
       \/ \E b \in Backends : ~IsAlive(Disconnected(Now, b)) /\ Become(ClosedAll(Now))

\* close, and the collection of an object that is not followed by the camera.
CloseViewer(v) == viewer[v] # None /\ Become(ClosedViewer(Now, v))

Collect(v) ==
    /\ viewer[v] # None /\ class.travelling # v
    /\ Become([ClosedViewer(Now, v) EXCEPT !.viewer[v] = None])

CloseAll == Become(ClosedAll(Now))

\* The user closes the window: the process of panda3d ends, the server of meshcat lives.
CloseWindow ==
    /\ scene.alive /\ scene.window
    /\ scene' = IF IsPanda(Now) THEN Killed(scene) ELSE [scene EXCEPT !.window = FALSE]
    /\ UNCHANGED <<class, viewer>>

\* It fails without a display, the window of panda3d staying off screen.
OpenGui ==
    /\ IsAlive(Now)
    /\ \/ Become(OpenedGui(Now))
       \/ /\ IsPanda(Now) /\ ~class.hasGui
          /\ Become([Now EXCEPT !.scene = OpenedWindow(@, FALSE)])

Setup(v) == IsOpen(Now, v) /\ Become(SetUp(Now, v))

AttachCamera(v) ==
    /\ IsOpen(Now, v)
    /\ class' = [class EXCEPT !.travelling = v]
    /\ UNCHANGED <<scene, viewer>>

Detach == Become(DetachCamera(Now))

Display(v) ==
    /\ IsConnected(Now, v) /\ IsPanda(Now)
    /\ \E show \in BOOLEAN : Become(Displayed(Now, v, show))

Refresh(v) == IsConnected(Now, v) /\ Become(Refreshed(Now, v))

\* The forces of the robot vanish, or no longer do.
Push(v) ==
    /\ viewer[v] # None /\ viewer[v].isOpen
    /\ viewer' = [viewer EXCEPT ![v].tiny = ~@, ![v].fresh = FALSE]
    /\ UNCHANGED <<class, scene>>

\* set_color: the legend no longer holds.
SetColor(v) ==
    /\ IsConnected(Now, v) /\ IsPanda(Now)
    /\ Become([Now EXCEPT !.class.colored = @ \cup {NameOf[v]}, !.scene = SetLegend(@, FALSE)])

\* set_legend, with one label for every color registered, or none.
Legend ==
    /\ IsAlive(Now) /\ IsPanda(Now)
    /\ \E labels \in BOOLEAN : scene' = SetLegend(scene, labels)
    /\ UNCHANGED <<class, viewer>>

\* The user presses and releases the button of the mouse without moving it.
Click ==
    /\ scene.alive /\ scene.window /\ IsPanda(Now)
    /\ \E hit \in Selectable(scene) \cup {None} : scene' = ClickOnNode(scene, hit)
    /\ UNCHANGED <<class, viewer>>

Next ==
    \/ CloseAll \/ CloseWindow \/ OpenGui \/ Detach \/ Legend \/ Click
    \/ \E v \in Slots :
         \/ Construct(v) \/ ConstructFails(v) \/ CloseViewer(v) \/ Collect(v)
         \/ Setup(v) \/ AttachCamera(v) \/ Display(v) \/ Refresh(v) \/ Push(v) \/ SetColor(v)

Spec == Init /\ [][Next]_vars

---------------------------------------------------------------------------
\* Every attribute keeps its type.
TypeOK ==
    /\ class.backend \in Backends \cup {None} /\ class.proc \in (1 .. MaxProcesses) \cup {None}
    /\ class.hasGui \in BOOLEAN
    /\ class.names \subseteq Names /\ class.colored \subseteq Names
    /\ class.travelling \in Slots \cup {None}
    /\ scene.number \in 0 .. MaxProcesses /\ {scene.alive, scene.window} \subseteq BOOLEAN
    /\ scene.groups \subseteq Names \X {"visuals", "collisions", "markers"}
    /\ scene.legend \in BOOLEAN /\ scene.lit \subseteq scene.groups
    /\ viewer \in [Slots -> Objects \cup {None}]

\* The camera follows a viewer that can be displayed, whatever was closed in between:
\* refresh and attach_camera rely on it.
TravellingIsOpen ==
    (IsAlive(Now) /\ class.travelling # None) => IsOpen(Now, class.travelling)

\* A backend that says it has a window has one: replay and render do not open another.
GuiIsOpen == (IsAlive(Now) /\ IsPanda(Now) /\ class.hasGui) => scene.window

\* A viewer of the running backend has a color registered if and only if it is open, so
\* that a legend takes one label for each robot, unless an object of a process that is no
\* more was set up.
ColorsOfOpenViewers ==
    \A v \in Slots :
      (IsAlive(Now) /\ viewer[v] # None /\ viewer[v].proc = class.proc) =>
        (viewer[v].isOpen <=> NameOf[v] \in class.colored)

\* A robot whose viewer was to delete it is no longer part of the scene once it is
\* closed: what remains is of a viewer that is open or that leaves its robot behind.
NoRobotIsLeft ==
    \A v \in Slots :
      (viewer[v] # None /\ viewer[v].deletes /\ ~viewer[v].isOpen /\ viewer[v].proc = class.proc
         /\ \A w \in Slots \ {v} : NameOf[w] # NameOf[v]) =>
        \A g \in scene.groups : g[1] # NameOf[v]

\* What the class and the process hold of the viewers is of the open ones: the colors, the
\* robots and the window.
SceneOfOpenViewers == ColorsOfOpenViewers /\ NoRobotIsLeft /\ GuiIsOpen

\* Right after a refresh, a marker is shown if and only if it is to be displayed and its
\* scale does not vanish, whatever the order in which both changed.
MarkersAsDisplayed ==
    \A v \in Slots :
      (IsConnected(Now, v) /\ IsPanda(Now) /\ viewer[v].fresh) =>
        scene.node[NameOf[v]].shown = (viewer[v].visible /\ ~viewer[v].tiny)

\* No node stays highlighted but the one that is selected, whatever was selected, loaded
\* again or removed in between: the user could not get rid of the highlight.
OnlyPickedIsLit == scene.lit \subseteq {scene.picked}
=============================================================================
