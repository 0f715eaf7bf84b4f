----------------------------- MODULE Panda3dApp -----------------------------
(***************************************************************************)
(* What the process of a backend shows (viewer/panda3d): its window, the   *)
(* groups of nodes of the robots, the node the user selected with the      *)
(* mouse, the legend and the overlays.  A scene is a record; the operators *)
(* say what a request does to it.  The page of meshcat is a scene that has a window   *)
(* and groups only: it has no selection and a legend made otherwise.       *)
(***************************************************************************)
EXTENDS Naturals, FiniteSets

CONSTANTS Names,          \* names of robots
          Hits,           \* bound: the kinds of groups the user clicks on
          None

\* The scene of process number k, before anything is added to it.
NewScene(k, alive) ==
    [number |-> k, alive |-> alive, window |-> FALSE, groups |-> {},
     legend |-> FALSE, widgets |-> {}, picked |-> None, lit |-> {}, node |-> [n \in Names |-> None]]

---------------------------------------------------------------------------
(* Windows.                                                                *)

\* open_window: the window is left off screen if there is no display.
OpenedWindow(scene, display) == [scene EXCEPT !.window = display]

---------------------------------------------------------------------------
(* Groups and nodes.                                                       *)

RobotGroups(n) == {n} \X {"visuals", "collisions"}
MarkersGroup(n) == {<<n, "markers">>}

\* A group that exists is made again, unless told otherwise: its nodes are gone.
AppendGroup(scene, g, remove) ==
    IF g \in scene.groups /\ ~remove THEN scene
    ELSE [scene EXCEPT !.groups = @ \cup {g}, !.lit = @ \ {g}]

RemoveGroups(scene, groups) == [scene EXCEPT !.groups = @ \ groups, !.lit = @ \ groups]

\* loadViewerModel
LoadModel(scene, n) ==
    AppendGroup(AppendGroup(scene, <<n, "visuals">>, TRUE), <<n, "collisions">>, TRUE)

NewNode == [status |-> "", shown |-> TRUE]

\* Variant: a node that is hidden on demand keeps its status.
ShowNodeUntagged(node, show) ==
    IF show THEN IF node.status \in {"hidden", ""} THEN [status |-> "auto", shown |-> TRUE] ELSE node
    ELSE [node EXCEPT !.shown = FALSE]

ShowNode(node, show) ==
    IF show THEN IF node.status \in {"hidden", ""} THEN [status |-> "auto", shown |-> TRUE] ELSE node
    ELSE [status |-> "hidden", shown |-> FALSE]

\* A node whose scale vanishes is disabled until it has one.
SetScale(node, tiny) ==
    IF tiny THEN IF node.shown THEN [status |-> "disable", shown |-> FALSE] ELSE node
    ELSE IF node.status = "disable" THEN [status |-> "auto", shown |-> TRUE] ELSE node

---------------------------------------------------------------------------
(* Selection.                                                              *)

HighlightNode(scene, g, enable) ==
    [scene EXCEPT !.lit = IF enable THEN @ \cup {g} ELSE @ \ {g}]

\* What the ray of the mouse can hit, and be selected: a node of a group that is shown.
Selectable(scene) ==
    {g \in scene.groups :
       g[2] \in Hits /\ (g[2] = "visuals" \/ (g[2] = "markers" /\ scene.node[g[1]].shown))}

\* Variant: the focus only moves when another node is hit.
ClickOnNodeKept(scene, hit) ==
    IF hit = None THEN [scene EXCEPT !.picked = None]
    ELSE HighlightNode([scene EXCEPT !.picked = hit], hit, TRUE)

\* A click on the node that is selected releases it.  It raises, and changes nothing, if
\* the group of that node is no more.
ClickOnNode(scene, hit) ==
    LET before == scene.picked
        released == IF before = None THEN scene
                    ELSE [HighlightNode(scene, before, FALSE) EXCEPT !.picked = None]
    IN CASE before # None /\ before \notin scene.groups -> scene
         [] hit = None \/ hit = before -> released
         [] OTHER -> HighlightNode([released EXCEPT !.picked = hit], hit, TRUE)

---------------------------------------------------------------------------
(* Legend and overlays.                                                    *)

\* The image of the last one is removed, whatever it showed.
SetLegend(scene, items) == [scene EXCEPT !.legend = items]

WithWidget(scene, w, shown) ==
    [scene EXCEPT !.widgets = IF shown THEN @ \cup {w} ELSE @ \ {w}]

\* The image of the last watermark is removed first.
SetWatermark(scene, image) == WithWidget(WithWidget(scene, "watermark", FALSE), "watermark", image)

\* The clock is only made once; it is removed when it is given no time.
SetClock(scene, time) == WithWidget(scene, "clock", time)
=============================================================================
