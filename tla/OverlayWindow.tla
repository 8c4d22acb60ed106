--------------------------- MODULE OverlayWindow ---------------------------
(***************************************************************************)
(* The overlay's window.  The page animates a box (Overlay.tsx,            *)
(* AnimatedOverlay.tsx, useAnimationGatedMeasure.ts) within a window of a  *)
(* constant size whose bar the user drags; the backend sizes the window,   *)
(* cuts its clickable region and snaps it to an edge of a screen           *)
(* (commands.rs, window_manager.rs).  The page's commands are handled one  *)
(* after another.                                                          *)
(*                                                                         *)
(* The page counts in logical pixels, the window is in physical ones, of   *)
(* which Scale make a logical one, on every screen.                        *)
(***************************************************************************)
EXTENDS Integers, FiniteSets

CONSTANTS
    Screens,     \* the work areas: left, right, top, bottom
    Scale,
    Bar,         \* barHeight
    CompactWidth, ExpandedWidth, ApprovalWidth, ApprovalHeight,
    MinHeight, MaxHeight,   \* of the expanded box
    FirstWidth,  \* of the window, before the page is there
    EdgeMargin, Threshold,  \* DEFAULT_EDGE_MARGIN, SNAP_THRESHOLD
    Padding,     \* of an approval's panel, above and below
    Heights,     \* bound: heights that a box with all of the list would have
    Passed,      \* bound: heights of a box on its way, where its spring swings to as well
    Spots        \* bound: where the user drags the window to

ASSUME OverlayAssumption ==
    /\ Screens # {} /\ Screens \subseteq [left : Int, right : Int, top : Int, bottom : Int]
    /\ Scale \in Nat \ {0}
    /\ {Bar, CompactWidth, ExpandedWidth, ApprovalWidth, ApprovalHeight, MinHeight, MaxHeight,
        FirstWidth, EdgeMargin, Threshold, Padding} \cup Heights \cup Passed \subseteq Nat
    /\ CompactWidth <= ExpandedWidth /\ Bar <= MinHeight /\ MinHeight <= MaxHeight
    /\ Spots \subseteq Int \X Int

VARIABLES
    win,      \* the window's rectangle
    region,   \* its clickable part, from its left upper corner
    cache,    \* CACHED_CENTER_X, CACHED_WIDTH
    backSnap, frontSnap, \* the edge, as the backend and as the page know it
    mode,     \* "starting", then what is shown: "compact", "expanded" or "approval"
    content,  \* the height of a box with all of the list
    measured, \* measuredHeight
    unseen,   \* history: rows have changed in sight, and nothing was measured since
    flying,   \* the box is on its way to its size
    gate,     \* isAnimatingRef: measuring is off
    frames,   \* frames asked for: "complete" will measure, "measure" will take it over
    timers,   \* "measure": initTimer and bindTimer, "snap", the size retries left
    drag      \* the mouse: "up", "down" or "moving"; and DRAG_ACTIVE

windowVars == <<win, region, cache>>
snapVars == <<backSnap, frontSnap>>
panelVars == <<content, measured, unseen, gate, frames>>
vars == <<windowVars, snapVars, mode, flying, panelVars, timers, drag>>

Larger(a, b) == IF a > b THEN a ELSE b
Smaller(a, b) == IF a < b THEN a ELSE b

\* deriveBoundingBox: the size that every box fits in.
BoundingBox == [w |-> Larger(ExpandedWidth, ApprovalWidth), h |-> Larger(MaxHeight, ApprovalHeight)]

\* The size the box has, or is on its way to.
Box(m, height) ==
    IF m = "compact" THEN [w |-> CompactWidth, h |-> Bar]
    ELSE [w |-> ExpandedWidth, h |-> IF m = "approval" THEN ApprovalHeight ELSE height]

Clamp(height) == Smaller(MaxHeight, Larger(MinHeight, height))
-----------------------------------------------------------------------------
(* The backend.                                                              *)

CenterX(r) == r.x + r.w \div 2
CenterY(r) == r.y + r.h \div 2

\* update_overlay_size with anchor_center: the center was looked up when this width
\* was asked for after another one.
UpdateSize(size) ==
    LET w == Scale * size.w
        center == IF cache.width = w THEN cache.center ELSE CenterX(win)
    IN  /\ cache' = [width |-> w, center |-> center]
        /\ win' = [x |-> center - w \div 2, y |-> win.y, w |-> w, h |-> Scale * size.h]

\* Mutant: the box is taken to begin at the window's left edge.
RegionAtCorner(box) ==
    region' = [x |-> 0, y |-> 0, w |-> Scale * box.w, h |-> Scale * box.h]

\* set_overlay_region for a box at the top and in the middle of the bounding box.  Its
\* numbers are whole: a call with half a pixel is refused.
SetRegion(box) ==
    LET around == Larger(0, BoundingBox.w - box.w)
    IN  IF around % 2 = 0
        THEN region' = [x |-> Scale * (around \div 2), y |-> 0, w |-> Scale * box.w, h |-> Scale * box.h]
        ELSE UNCHANGED region

Distance(s, x, y) ==
    Larger(Larger(s.left - x, x - s.right), 0) + Larger(Larger(s.top - y, y - s.bottom), 0)

\* get_monitor_work_area_at: the screen of a point, or the nearest.
ScreensAt(x, y) == {s \in Screens : \A t \in Screens : Distance(s, x, y) <= Distance(t, x, y)}

\* calculate_snap_position_for_work_area.
SnapTo(edge, s, w, h, margin) ==
    LET y == IF edge = "top" THEN s.top + margin ELSE s.bottom - h - margin
    IN  [x |-> Larger(s.left, s.left + (s.right - s.left - w) \div 2),
         y |-> Smaller(s.bottom - h, Larger(s.top, y)),
         w |-> w, h |-> h]

\* is_near_edge, of the bar, which is at the top of the window.
NearEdge(s) ==
    LET top == win.y - s.top
        bottom == s.bottom - (win.y + Scale * Bar)
    IN  IF top \in -Threshold..Threshold THEN "top"
        ELSE IF bottom \in -Threshold..Threshold THEN "bottom" ELSE "none"

\* Mutant: only the page is told of the edge.
SnapTellsPageOnly ==
    \E s \in ScreensAt(CenterX(win), CenterY(win)) :
       /\ frontSnap' = NearEdge(s) /\ backSnap' = backSnap
       /\ win' = IF NearEdge(s) = "none" THEN win ELSE SnapTo(NearEdge(s), s, win.w, win.h, 0)

\* smart_snap_overlay, and what the page makes of its answer.
SmartSnap ==
    \E s \in ScreensAt(CenterX(win), CenterY(win)) :
       /\ backSnap' = NearEdge(s) /\ frontSnap' = NearEdge(s)
       /\ win' = IF NearEdge(s) = "none" THEN win ELSE SnapTo(NearEdge(s), s, win.w, win.h, 0)
-----------------------------------------------------------------------------
\* The window is made and snapped, its width taken for a logical one, on the screen
\* at the origin.
Init ==
    LET w == Scale * FirstWidth
    IN  /\ \E edge \in {"top", "bottom"}, s \in ScreensAt(0, 0) :
              /\ backSnap = edge
              /\ LET at == SnapTo(edge, s, Scale * w, Scale * Scale * Bar, EdgeMargin)
                 IN  win = [x |-> at.x, y |-> at.y, w |-> w, h |-> Scale * Bar]
        /\ region = [x |-> 0, y |-> 0, w |-> w, h |-> Scale * Bar]
        /\ cache = [width |-> 0, center |-> 0]
        /\ frontSnap = "none" /\ mode = "starting"
        /\ content \in Heights /\ measured = MinHeight /\ unseen = FALSE
        /\ flying = FALSE /\ gate = FALSE /\ frames = {}
        /\ timers = [measure |-> 0, snap |-> FALSE, retries |-> 0]
        /\ drag = [mouse |-> "up", active |-> FALSE]

Up == mode # "starting"

\* The first effect of AnimatedOverlay.
Mount ==
    /\ mode = "starting" /\ mode' = "compact"
    /\ UpdateSize(BoundingBox) /\ SetRegion(Box("compact", measured))
    /\ UNCHANGED <<snapVars, flying, panelVars, timers, drag>>
-----------------------------------------------------------------------------
(* What is shown.                                                            *)

IsExpanded(m) == m \in {"expanded", "approval"}

\* Another mode: a click on the bar, an approval that arrives, is done or minimized.
\* The gate goes by whether anything is expanded; leaving the list ends its timers and
\* its frame, entering it sets them and begins to observe the panel; an approval asks
\* for its own size.
Show(m) ==
    /\ mode' = m /\ flying' = (flying \/ Box(m, measured) # Box(mode, measured))
    /\ gate' = IF IsExpanded(m) # IsExpanded(mode) THEN IsExpanded(m) ELSE gate
    /\ frames' = IF m = "expanded" /\ ~gate' THEN frames \cup {"measure"}
                 ELSE IF mode = "expanded" THEN frames \ {"measure"} ELSE frames
    /\ timers' = [timers EXCEPT !.measure = IF m = "expanded" THEN 2 ELSE 0,
                                !.retries = IF m = "approval" THEN 2 ELSE 0]
    /\ IF m = "approval" THEN UpdateSize([w |-> ApprovalWidth, h |-> ApprovalHeight])
       ELSE UNCHANGED <<win, cache>>
    /\ UNCHANGED <<region, content, measured, unseen>>

Change ==
    /\ Up
    /\ \E m \in {"compact", "expanded", "approval"} \ {mode} : Show(m)
    /\ UNCHANGED <<snapVars, drag>>

\* syncApprovalSize again, after 80 and 240 ms.
Retry ==
    /\ timers.retries > 0
    /\ timers' = [timers EXCEPT !.retries = @ - 1]
    /\ UpdateSize([w |-> ApprovalWidth, h |-> ApprovalHeight])
    /\ UNCHANGED <<region, snapVars, mode, flying, panelVars, drag>>

\* Mutant: what was not measured in flight is not measured after it.
AnimationOnlyOpens ==
    /\ flying /\ flying' \in BOOLEAN
    /\ UpdateSize(BoundingBox) /\ SetRegion(Box(mode, measured))
    /\ gate' = FALSE
    /\ UNCHANGED <<snapVars, mode, content, measured, unseen, frames, timers, drag>>

\* handleAnimationComplete and onAnimationComplete.  An animation that another one
\* overtakes may report its end too; the last one does.
AnimationComplete ==
    /\ flying /\ flying' \in BOOLEAN
    /\ UpdateSize(BoundingBox) /\ SetRegion(Box(mode, measured))
    /\ gate' = FALSE /\ frames' = frames \cup {"complete"}
    /\ UNCHANGED <<snapVars, mode, content, measured, unseen, timers, drag>>
-----------------------------------------------------------------------------
(* Measuring.                                                                *)

\* What the observer calls, gatedMeasure.
Observed == IF gate THEN {} ELSE {"measure"}

\* The panel is as high as its box, and the list takes what the head and the foot
\* leave of it: the rows scroll in the list, and nothing observes them.
RowsChange(h) ==
    /\ content' = h /\ unseen' = (unseen \/ mode = "expanded")
    /\ UNCHANGED <<frames, timers>>

\* A notice above the list, of an error or of approvals, takes some of its room, which
\* is observed once bindTimer has run.
NoticeChanges(h) ==
    /\ content' = h
    /\ frames' = IF mode = "expanded" /\ timers.measure = 0 THEN frames \cup Observed ELSE frames
    /\ UNCHANGED <<unseen, timers>>

\* Another number of sessions, or another approval, begins it all anew: the frame is
\* taken back, the timers are set and the panel is observed.
ListAnew(h) ==
    /\ mode = "expanded"
    /\ content' = h /\ frames' = (frames \ {"measure"}) \cup Observed
    /\ timers' = [timers EXCEPT !.measure = 2]
    /\ UNCHANGED unseen

ContentChanges ==
    /\ Up
    /\ \E h \in Heights : ListAnew(h) \/ (h # content /\ (RowsChange(h) \/ NoticeChanges(h)))
    /\ UNCHANGED <<windowVars, snapVars, mode, flying, measured, gate, drag>>

\* The panel is resized with its box.
BoxResizes ==
    /\ flying /\ mode = "expanded" /\ frames' = frames \cup Observed
    /\ UNCHANGED <<windowVars, snapVars, mode, flying, content, measured, unseen, gate, timers, drag>>

\* initTimer, 50 ms after the list is shown, and bindTimer, 30 ms after it: to begin to
\* observe the list is to be told of it.
MeasureTimer ==
    /\ timers.measure > 0
    /\ timers' = [timers EXCEPT !.measure = @ - 1]
    /\ frames' = frames \cup Observed
    /\ UNCHANGED <<windowVars, snapVars, mode, flying, content, measured, unseen, gate, drag>>

\* The safety timer of the gate, for an animation that takes too long.
SafetyTimer ==
    /\ gate /\ gate' = FALSE
    /\ UNCHANGED <<windowVars, snapVars, mode, flying, content, measured, unseen, frames, timers, drag>>

CompleteFrame ==
    /\ "complete" \in frames
    /\ frames' = (frames \ {"complete"}) \cup {"measure"}
    /\ UNCHANGED <<windowVars, snapVars, mode, flying, content, measured, unseen, gate, timers, drag>>

\* The height of the box, which may be on its way.
BoxNow == IF flying THEN Passed ELSE {Box(mode, measured).h}

\* What measure adds up for a box of height h.  The scrollHeight of the list is not
\* less than the room it has, nor than what it holds; the panel of an approval is
\* filled by the request, or by the list where only the state of a session asks for
\* it.  A panel that is being closed may be either.
Extents(h) ==
    (IF mode = "approval" THEN {} ELSE {Larger(h, content)})
    \cup (IF mode = "expanded" THEN {} ELSE {h - Padding, Larger(h - Padding, content)})

MeasureFrame ==
    /\ "measure" \in frames /\ frames' = frames \ {"measure"}
    /\ \/ \E h \in BoxNow : measured' \in {Clamp(e) : e \in Extents(h)}
       \/ mode = "compact" /\ measured' = measured
    /\ flying' = (flying \/ (mode = "expanded" /\ measured' # measured))
    /\ unseen' = (unseen /\ mode # "expanded")
    /\ UNCHANGED <<windowVars, snapVars, mode, content, gate, timers, drag>>
-----------------------------------------------------------------------------
(* Dragging.                                                                 *)

Press ==
    /\ Up /\ drag.mouse = "up"
    /\ drag' = [mouse |-> "down", active |-> TRUE]
    /\ UNCHANGED <<windowVars, snapVars, mode, flying, panelVars, timers>>

\* move_overlay_drag: wherever the window was when the button went down, and whatever
\* has moved it since.
Move ==
    /\ drag.mouse # "up" /\ drag' = [drag EXCEPT !.mouse = "moving"]
    /\ frontSnap' = IF drag.mouse = "down" THEN "none" ELSE frontSnap
    /\ \E p \in Spots : win' = IF drag.active THEN [win EXCEPT !.x = p[1], !.y = p[2]] ELSE win
    /\ UNCHANGED <<region, cache, backSnap, mode, flying, panelVars, timers>>

\* A click: end_manual_drag is not called.
Click ==
    /\ drag.mouse = "down" /\ drag' = [drag EXCEPT !.mouse = "up"]
    /\ \E m \in (IF mode = "compact" THEN {"expanded", "approval"} ELSE {"compact"}) : Show(m)
    /\ UNCHANGED snapVars

\* The end of a drag, which takes longer than the 50 ms to the snap of the one before.
Release ==
    /\ drag.mouse = "moving" /\ ~timers.snap
    /\ drag' = [mouse |-> "up", active |-> FALSE]
    /\ timers' = [timers EXCEPT !.snap = TRUE]
    /\ UNCHANGED <<windowVars, snapVars, mode, flying, panelVars>>

SnapTimer ==
    /\ timers.snap /\ timers' = [timers EXCEPT !.snap = FALSE]
    /\ SmartSnap
    /\ UNCHANGED <<region, cache, mode, flying, panelVars, drag>>
-----------------------------------------------------------------------------
Next ==
    \/ Mount \/ Change \/ Retry \/ AnimationComplete
    \/ ContentChanges \/ BoxResizes \/ MeasureTimer \/ SafetyTimer \/ CompleteFrame \/ MeasureFrame
    \/ Press \/ Move \/ Click \/ Release \/ SnapTimer

Spec == Init /\ [][Next]_vars
-----------------------------------------------------------------------------
(* Properties.                                                               *)

AtRest == Up /\ ~flying /\ timers.retries = 0

\* Where the box comes to rest it can be clicked, and nothing around it: the region
\* is the box, at the top and in the middle of the window and within it, whatever
\* changed the mode in the middle of an animation, and whichever of a mode's sizes
\* came last (set_overlay_region, called at the ends of animations only).
HitRegionFollowsBox ==
    AtRest =>
       LET box == Box(mode, measured)
       IN  /\ region = [x |-> (win.w - Scale * box.w) \div 2, y |-> 0,
                        w |-> Scale * box.w, h |-> Scale * box.h]
           /\ region.h <= win.h

\* The list comes to rest in a box that has room for it, or is as high as it may be:
\* what the gate has kept from being measured, and what a frame taken back would have
\* measured, is not forgotten (useAnimationGatedMeasure).  Rows that change in sight
\* are not observed, up to the next measure; and the box is not what the list needs,
\* which is never measured as less than the box.
ListHasRoom ==
    AtRest /\ mode = "expanded" /\ frames = {} /\ timers.measure = 0 /\ ~unseen
       => measured >= Clamp(content)

\* Once the mouse is up and the snap has run, the page and the backend know the same
\* edge, and the window is where that edge puts a window of a size that it had, on
\* some screen, whatever resized it since (smart_snap_overlay, update_overlay_size).
SnappedAtItsEdge ==
    drag.mouse = "up" /\ ~timers.snap /\ frontSnap # "none" =>
       /\ backSnap = frontSnap
       /\ \E s \in Screens, h \in {BoundingBox.h, ApprovalHeight} :
             win.y = SnapTo(frontSnap, s, win.w, Scale * h, 0).y

\* overlay-window/spec.md: an update to the size that the window has returns before it
\* moves anything.  Nothing but a drag and its snap should take the window elsewhere.
ResizeKeepsCenter ==
    [][drag.mouse = "up" /\ timers'.snap = timers.snap /\ win'.w = win.w
          => CenterX(win') = CenterX(win)]_vars
=============================================================================
