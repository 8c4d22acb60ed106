--------------------------- MODULE OverlayProofs ---------------------------
(***************************************************************************)
(* Theorems about what the overlay shows.                                  *)
(*                                                                         *)
(* First the window, for any screens, sizes and scale, and any drags and   *)
(* changes of what is shown.  Then the card of a command, for any words,   *)
(* and any syntax trees that are put together of them: what is computed of *)
(* a tree is shown by induction over the trees (EveryNode), and what a     *)
(* step of the agent does to the commands it has written, by the place in  *)
(* the text where it does it (Kept).                                       *)
(***************************************************************************)
EXTENDS OverlayWindow, ToolCard, SubsequenceProofs, TLAPS

-----------------------------------------------------------------------------
(* The window.                                                               *)

LEMMA Constants ==
    /\ Scale \in Nat /\ Scale # 0
    /\ Bar \in Nat /\ CompactWidth \in Nat /\ ExpandedWidth \in Nat
    /\ ApprovalWidth \in Nat /\ ApprovalHeight \in Nat
    /\ MinHeight \in Nat /\ MaxHeight \in Nat
    /\ FirstWidth \in Nat /\ EdgeMargin \in Nat /\ Threshold \in Nat /\ Padding \in Nat
    /\ \A h \in Heights \cup Passed : h \in Nat
    /\ CompactWidth <= ExpandedWidth /\ Bar <= MinHeight /\ MinHeight <= MaxHeight
    /\ \A s \in Screens : s.left \in Int /\ s.right \in Int /\ s.top \in Int /\ s.bottom \in Int
    /\ \A p \in Spots : p[1] \in Int /\ p[2] \in Int
BY OverlayAssumption
-----------------------------------------------------------------------------
(* Types.                                                                    *)

Rects == [x : Int, y : Int, w : Int, h : Int]
Modes == {"starting", "compact", "expanded", "approval"}
Edges == {"none", "top", "bottom"}
Timers == [measure : 0..2, snap : BOOLEAN, retries : 0..2]
Drags == [mouse : {"up", "down", "moving"}, active : BOOLEAN]

\* The animation does not end in the gate's place, and the page's timers run when
\* the page is there.
OverlayTypes ==
    /\ win \in Rects /\ cache \in [width : Int, center : Int]
    /\ backSnap \in Edges /\ frontSnap \in Edges
    /\ mode \in Modes /\ content \in Heights /\ measured \in MinHeight..MaxHeight
    /\ flying \in BOOLEAN /\ gate \in BOOLEAN /\ unseen \in BOOLEAN
    /\ frames \subseteq {"complete", "measure"}
    /\ timers \in Timers /\ drag \in Drags
    /\ mode = "starting" => drag.mouse = "up" /\ ~timers.snap /\ ~flying /\ ~gate
    /\ timers.retries > 0 => mode = "approval"

LEMMA BoxType ==
    ASSUME NEW m \in Modes, NEW height \in MinHeight..MaxHeight
    PROVE  /\ Box(m, height) \in [w : Nat, h : Nat]
           /\ Box(m, height).w <= ExpandedWidth /\ Box(m, height).h <= BoundingBox.h
           /\ BoundingBox.h \in Nat /\ BoundingBox.w \in Nat
           /\ BoundingBox.h >= ApprovalHeight /\ BoundingBox.w >= ApprovalWidth
           /\ BoundingBox.w >= ExpandedWidth
BY Constants DEF Box, BoundingBox, Larger, Modes

\* Where the window is sized to, and that it keeps its upper edge.
LEMMA Sized ==
    ASSUME OverlayTypes, NEW size \in [w : Nat, h : Nat], UpdateSize(size)
    PROVE  /\ win' \in Rects /\ cache' \in [width : Int, center : Int]
           /\ win'.y = win.y /\ win'.w = Scale * size.w /\ win'.h = Scale * size.h
<1> DEFINE w == Scale * size.w
           h == Scale * size.h
           center == IF cache.width = w THEN cache.center ELSE CenterX(win)
<1>1. w \in Int /\ h \in Int
  <2>1. size.w \in Int /\ size.h \in Int /\ Scale \in Int
    BY Constants
  <2> QED
    BY <2>1
<1>2. win.x \in Int /\ win.y \in Int /\ win.w \in Int /\ cache.center \in Int
  BY DEF OverlayTypes, Rects
<1>3. cache' = [width |-> w, center |-> center]
      /\ win' = [x |-> center - w \div 2, y |-> win.y, w |-> w, h |-> h]
  BY DEF UpdateSize
<1> HIDE DEF w, h
<1>4. center \in Int
  BY <1>2 DEF CenterX
<1> HIDE DEF center
<1>5. center - w \div 2 \in Int
  BY <1>1, <1>4
<1> QED
  BY <1>1, <1>2, <1>3, <1>4, <1>5 DEF Rects, w, h

LEMMA SizesOfWindow ==
    /\ BoundingBox \in [w : Nat, h : Nat]
    /\ [w |-> ApprovalWidth, h |-> ApprovalHeight] \in [w : Nat, h : Nat]
BY Constants DEF BoundingBox, Larger
-----------------------------------------------------------------------------
(* The inductive invariants.                                                 *)

\* While the gate is closed an animation is on its way, which will open it; and what
\* is not measured will be: by a frame, by a timer, or after an animation.
PanelInv ==
    /\ gate => flying
    /\ mode = "expanded" /\ frames = {} /\ timers.measure = 0 /\ ~flying /\ ~unseen
          => measured >= Clamp(content)

\* The window has one width, and where nothing flies the region is the box, and the
\* window has room for it.
RegionInv ==
    /\ Up => win.w = Scale * ApprovalWidth
    /\ Up /\ ~flying =>
          LET box == Box(mode, measured)
          IN  /\ region = [x |-> Scale * ((ApprovalWidth - box.w) \div 2), y |-> 0,
                           w |-> Scale * box.w, h |-> Scale * box.h]
              /\ Scale * box.h <= win.h

\* The window has one of two heights, and between a snap and the next drag it stays
\* where the snap has put it.
SnapInv ==
    /\ Up => win.h \in {Scale * BoundingBox.h, Scale * ApprovalHeight}
    /\ drag.mouse # "moving" /\ ~timers.snap /\ frontSnap # "none" =>
          /\ backSnap = frontSnap
          /\ \E s \in Screens, h \in {BoundingBox.h, ApprovalHeight} :
                win.y = SnapTo(frontSnap, s, win.w, Scale * h, 0).y
-----------------------------------------------------------------------------
(* Types are kept.                                                           *)

\* What Show does, but for the window.
LEMMA Shows ==
    ASSUME OverlayTypes, Up, NEW m \in {"compact", "expanded", "approval"}, Show(m)
    PROVE  /\ win' \in Rects /\ cache' \in [width : Int, center : Int] /\ win'.y = win.y
           /\ mode' = m /\ mode' \in Modes /\ flying' \in BOOLEAN /\ gate' \in BOOLEAN
           /\ frames' \subseteq {"complete", "measure"}
           /\ timers' \in Timers /\ timers'.snap = timers.snap
           /\ timers'.measure = IF m = "expanded" THEN 2 ELSE 0
           /\ timers'.retries > 0 => m = "approval"
           /\ UNCHANGED <<region, content, measured, unseen>>
<1>1. /\ mode' = m /\ flying' = (flying \/ Box(m, measured) # Box(mode, measured))
      /\ gate' = IF IsExpanded(m) # IsExpanded(mode) THEN IsExpanded(m) ELSE gate
      /\ frames' = IF m = "expanded" /\ ~gate' THEN frames \cup {"measure"}
                   ELSE IF mode = "expanded" THEN frames \ {"measure"} ELSE frames
      /\ timers' = [timers EXCEPT !.measure = IF m = "expanded" THEN 2 ELSE 0,
                                  !.retries = IF m = "approval" THEN 2 ELSE 0]
      /\ UNCHANGED <<region, content, measured, unseen>>
      /\ \/ UpdateSize([w |-> ApprovalWidth, h |-> ApprovalHeight])
         \/ UNCHANGED <<win, cache>>
  BY DEF Show
<1>2. win' \in Rects /\ cache' \in [width : Int, center : Int] /\ win'.y = win.y
  <2>1. CASE UpdateSize([w |-> ApprovalWidth, h |-> ApprovalHeight])
    BY <2>1, SizesOfWindow, Sized
  <2>2. CASE UNCHANGED <<win, cache>>
    BY <2>2 DEF OverlayTypes
  <2> QED
    BY <1>1, <2>1, <2>2
<1>3. flying' \in BOOLEAN /\ gate' \in BOOLEAN
  <2>1. flying \in BOOLEAN /\ gate \in BOOLEAN
    BY DEF OverlayTypes
  <2>2. IsExpanded(m) \in BOOLEAN /\ (Box(m, measured) # Box(mode, measured)) \in BOOLEAN
    BY DEF IsExpanded
  <2>3. flying' \in BOOLEAN
    BY <1>1, <2>1, <2>2, Zenon
  <2>4. gate' = IsExpanded(m) \/ gate' = gate
    BY <1>1, Zenon
  <2> QED
    BY <2>1, <2>2, <2>3, <2>4, Zenon
<1>4. frames' \subseteq {"complete", "measure"} /\ mode' \in Modes
  BY <1>1 DEF OverlayTypes, Modes
<1>5. /\ timers' \in Timers /\ timers'.snap = timers.snap
      /\ timers'.measure = IF m = "expanded" THEN 2 ELSE 0
      /\ timers'.retries = IF m = "approval" THEN 2 ELSE 0
  <2>1. timers \in Timers /\ (IF m = "expanded" THEN 2 ELSE 0) \in 0..2
        /\ (IF m = "approval" THEN 2 ELSE 0) \in 0..2
    BY DEF OverlayTypes
  <2> QED
    BY <1>1, <2>1 DEF Timers
<1> QED
  BY <1>1, <1>2, <1>3, <1>4, <1>5

\* The drag has not begun, and its snap has not, before the page is there.
LEMMA ClampType ==
    ASSUME NEW h \in Int
    PROVE  Clamp(h) \in MinHeight..MaxHeight
BY Constants DEF Clamp, Smaller, Larger

\* A panel is never measured as less than its list, while that is what it shows.
LEMMA Measures ==
    ASSUME OverlayTypes, MeasureFrame
    PROVE  /\ measured' \in MinHeight..MaxHeight
           /\ mode = "expanded" => measured' >= Clamp(content)
<1>1. content \in Nat /\ measured \in MinHeight..MaxHeight /\ mode \in Modes /\ Padding \in Nat
  BY Constants DEF OverlayTypes
<1>2. ASSUME NEW h \in BoxNow PROVE h \in Nat
  <2>1. Box(mode, measured).h \in Nat
    BY <1>1, BoxType
  <2> QED
    BY <1>2, <2>1, Constants DEF BoxNow
<1>3. ASSUME NEW h \in BoxNow, NEW e \in Extents(h)
      PROVE  e \in Int /\ (mode = "expanded" => e >= content)
  BY <1>1, <1>2, <1>3 DEF Extents, Larger
<1>4. ASSUME NEW e \in Int, e >= content PROVE Clamp(e) >= Clamp(content)
  BY <1>1, <1>4, Constants DEF Clamp, Smaller, Larger
<1>5. CASE mode = "compact" /\ measured' = measured
  BY <1>1, <1>5
<1>6. CASE \E h \in BoxNow : measured' \in {Clamp(e) : e \in Extents(h)}
  <2>1. PICK h \in BoxNow : \E e \in Extents(h) : measured' = Clamp(e)
    BY <1>6
  <2>2. PICK e \in Extents(h) : measured' = Clamp(e)
    BY <2>1
  <2>3. e \in Int /\ (mode = "expanded" => e >= content)
    BY <1>3
  <2> QED
    BY <1>4, <2>2, <2>3, ClampType
<1> QED
  BY <1>5, <1>6 DEF MeasureFrame

LEMMA SnapType ==
    ASSUME NEW edge, NEW s \in Screens, NEW w \in Int, NEW h \in Int, NEW margin \in Nat
    PROVE  SnapTo(edge, s, w, h, margin) \in Rects
<1> DEFINE y == IF edge = "top" THEN s.top + margin ELSE s.bottom - h - margin
           mid == (s.right - s.left - w) \div 2
<1>1. y \in Int /\ s.left \in Int /\ s.top \in Int /\ s.bottom - h \in Int
  BY Constants
<1>2. s.right - s.left - w \in Int
  BY Constants
<1>3. mid \in Int
  BY <1>2
<1>4. SnapTo(edge, s, w, h, margin) =
        [x |-> Larger(s.left, s.left + mid), y |-> Smaller(s.bottom - h, Larger(s.top, y)),
         w |-> w, h |-> h]
  BY DEF SnapTo
<1> HIDE DEF y, mid
<1>5. Larger(s.left, s.left + mid) \in Int /\ Smaller(s.bottom - h, Larger(s.top, y)) \in Int
  BY <1>1, <1>3 DEF Larger, Smaller
<1> QED
  BY <1>4, <1>5 DEF Rects

LEMMA TypesInit == Init => OverlayTypes
<1> SUFFICES ASSUME Init PROVE OverlayTypes
  OBVIOUS
<1> DEFINE w == Scale * FirstWidth
           h == Scale * Scale * Bar
<1>1. w \in Int /\ Scale * w \in Int /\ h \in Int /\ Scale * Bar \in Int
  <2>1. Scale \in Int /\ FirstWidth \in Int /\ Bar \in Int
    BY Constants
  <2>2. w \in Int /\ Scale * Scale \in Int /\ Scale * Bar \in Int
    BY <2>1
  <2> HIDE DEF w
  <2> QED
    BY <2>1, <2>2
<1>2. PICK edge \in {"top", "bottom"}, s \in ScreensAt(0, 0) :
         /\ backSnap = edge
         /\ win = [x |-> SnapTo(edge, s, Scale * w, h, EdgeMargin).x,
                   y |-> SnapTo(edge, s, Scale * w, h, EdgeMargin).y, w |-> w, h |-> Scale * Bar]
  BY DEF Init
<1>3. s \in Screens
  BY <1>2 DEF ScreensAt
<1> HIDE DEF w, h
<1>4. SnapTo(edge, s, Scale * w, h, EdgeMargin) \in Rects
  BY <1>1, <1>3, Constants, SnapType
<1>5. win \in Rects
  BY <1>1, <1>2, <1>4 DEF Rects
<1>6. /\ cache \in [width : Int, center : Int]
      /\ backSnap \in Edges /\ frontSnap \in Edges
      /\ mode = "starting" /\ content \in Heights /\ measured = MinHeight
      /\ flying = FALSE /\ gate = FALSE /\ unseen = FALSE /\ frames = {}
      /\ timers = [measure |-> 0, snap |-> FALSE, retries |-> 0]
      /\ drag = [mouse |-> "up", active |-> FALSE]
  BY <1>2 DEF Init, Edges
<1>7. measured \in MinHeight..MaxHeight /\ mode \in Modes
  BY <1>6, Constants DEF Modes
<1>8. /\ timers \in Timers /\ timers.retries = 0 /\ timers.snap = FALSE
      /\ drag \in Drags /\ drag.mouse = "up"
  BY <1>6 DEF Timers, Drags
<1>9. flying \in BOOLEAN /\ gate \in BOOLEAN /\ unseen \in BOOLEAN /\ ~flying /\ ~gate /\ ~timers.snap
  BY <1>6, <1>8, Zenon
<1>10. ~(timers.retries > 0)
  BY <1>8
<1> QED
  BY <1>5, <1>6, <1>7, <1>8, <1>9, <1>10 DEF OverlayTypes

LEMMA TypesStep == OverlayTypes /\ [Next]_vars => OverlayTypes'
<1> SUFFICES ASSUME OverlayTypes, [Next]_vars PROVE OverlayTypes'
  OBVIOUS
<1> USE DEF windowVars, snapVars, panelVars
<1>0. timers \in Timers /\ drag \in Drags /\ win \in Rects
      /\ flying \in BOOLEAN /\ gate \in BOOLEAN /\ unseen \in BOOLEAN
      /\ frames \subseteq {"complete", "measure"}
  BY DEF OverlayTypes
<1>1. CASE Mount
  <2>1. /\ mode = "starting" /\ mode' = "compact" /\ UpdateSize(BoundingBox)
        /\ UNCHANGED <<snapVars, flying, panelVars, timers, drag>>
    BY <1>1 DEF Mount
  <2>2. win' \in Rects /\ cache' \in [width : Int, center : Int]
    BY <2>1, SizesOfWindow, Sized
  <2>3. ~(timers.retries > 0)
    BY <2>1 DEF OverlayTypes
  <2> QED
    BY <2>1, <2>2, <2>3 DEF OverlayTypes, Modes
<1>2. ASSUME Change \/ Click PROVE OverlayTypes'
  <2>1. Up
    BY <1>2 DEF Change, Click, Up, OverlayTypes
  <2>2. PICK m \in {"compact", "expanded", "approval"} : Show(m)
    BY <1>2 DEF Change, Click
  <2>3. drag' \in Drags /\ UNCHANGED snapVars
    BY <1>0, <1>2 DEF Change, Click, Drags
  <2>4. mode' # "starting" /\ mode' = m /\ (timers'.retries > 0 => mode' = "approval")
    BY <2>1, <2>2, Shows
  <2> QED
    BY <2>1, <2>2, <2>3, <2>4, Shows DEF OverlayTypes
<1>3. CASE Retry
  <2>1. /\ timers.retries > 0 /\ timers' = [timers EXCEPT !.retries = timers.retries - 1]
        /\ UpdateSize([w |-> ApprovalWidth, h |-> ApprovalHeight])
        /\ UNCHANGED <<region, snapVars, mode, flying, panelVars, drag>>
    BY <1>3 DEF Retry
  <2>2. timers' \in Timers /\ timers'.snap = timers.snap
    <3>1. timers.retries - 1 \in 0..2
      BY <1>0, <2>1 DEF Timers
    <3> QED
      BY <1>0, <2>1, <3>1 DEF Timers
  <2>3. win' \in Rects /\ cache' \in [width : Int, center : Int] /\ mode = "approval"
    BY <2>1, SizesOfWindow, Sized DEF OverlayTypes
  <2> QED
    BY <2>1, <2>2, <2>3 DEF OverlayTypes
<1>4. CASE AnimationComplete
  <2>1. /\ flying /\ flying' \in BOOLEAN /\ UpdateSize(BoundingBox)
        /\ gate' = FALSE /\ frames' = frames \cup {"complete"}
        /\ UNCHANGED <<snapVars, mode, content, measured, unseen, timers, drag>>
    BY <1>4 DEF AnimationComplete
  <2>2. win' \in Rects /\ cache' \in [width : Int, center : Int] /\ mode # "starting"
    BY <2>1, SizesOfWindow, Sized DEF OverlayTypes
  <2>3. gate' \in BOOLEAN /\ frames' \subseteq {"complete", "measure"}
    BY <1>0, <2>1
  <2> QED
    BY <2>1, <2>2, <2>3 DEF OverlayTypes
<1>5. CASE ContentChanges
  <2>1. PICK h \in Heights : ListAnew(h) \/ RowsChange(h) \/ NoticeChanges(h)
    BY <1>5 DEF ContentChanges
  <2>2. timers' \in Timers /\ timers'.snap = timers.snap /\ timers'.retries = timers.retries
    BY <1>0, <2>1 DEF ListAnew, RowsChange, NoticeChanges, Timers
  <2>3. unseen' \in BOOLEAN
    <3>1. (mode = "expanded") \in BOOLEAN
      OBVIOUS
    <3> QED
      BY <1>0, <2>1, <3>1, Zenon DEF ListAnew, RowsChange, NoticeChanges
  <2>4. content' \in Heights /\ frames' \subseteq {"complete", "measure"}
    BY <1>0, <2>1 DEF ListAnew, RowsChange, NoticeChanges, Observed
  <2>5. Up /\ UNCHANGED <<windowVars, snapVars, mode, flying, measured, gate, drag>>
    BY <1>5 DEF ContentChanges
  <2> QED
    BY <2>2, <2>3, <2>4, <2>5 DEF OverlayTypes, Up
<1>15. CASE BoxResizes
  <2>1. frames' \subseteq {"complete", "measure"}
    BY <1>0, <1>15 DEF BoxResizes, Observed
  <2> QED
    BY <1>15, <2>1 DEF BoxResizes, OverlayTypes
<1>6. CASE MeasureTimer
  <2>1. /\ timers' = [timers EXCEPT !.measure = timers.measure - 1]
        /\ frames' \subseteq {"complete", "measure"}
        /\ UNCHANGED <<windowVars, snapVars, mode, flying, content, measured, unseen, gate, drag>>
    BY <1>0, <1>6 DEF MeasureTimer, Observed
  <2>2. timers.measure - 1 \in 0..2
    BY <1>0, <1>6 DEF MeasureTimer, Timers
  <2>3. timers' \in Timers /\ timers'.snap = timers.snap /\ timers'.retries = timers.retries
    BY <1>0, <2>1, <2>2 DEF Timers
  <2> QED
    BY <2>1, <2>3 DEF OverlayTypes
<1>7. CASE SafetyTimer
  <2>1. gate' = FALSE /\ gate' \in BOOLEAN
    BY <1>7 DEF SafetyTimer
  <2> QED
    BY <1>7, <2>1 DEF SafetyTimer, OverlayTypes
<1>8. CASE CompleteFrame
  BY <1>8 DEF CompleteFrame, OverlayTypes
<1>9. CASE MeasureFrame
  <2>1. /\ frames' = frames \ {"measure"}
        /\ flying' = (flying \/ (mode = "expanded" /\ measured' # measured))
        /\ UNCHANGED <<windowVars, snapVars, mode, content, gate, timers, drag>>
        /\ unseen' = (unseen /\ mode # "expanded")
    BY <1>9 DEF MeasureFrame
  <2>2. measured' \in MinHeight..MaxHeight
    BY <1>9, Measures
  <2>3. flying' \in BOOLEAN /\ unseen' \in BOOLEAN /\ (mode = "starting" /\ ~flying => ~flying')
    BY <1>0, <2>1, Zenon
  <2> QED
    BY <2>1, <2>2, <2>3 DEF OverlayTypes
<1>10. CASE Press
  <2>1. drag' \in Drags /\ Up
    BY <1>10 DEF Press, Drags
  <2> QED
    BY <1>10, <2>1 DEF Press, OverlayTypes, Up
<1>11. CASE Move
  <2>1. PICK p \in Spots : win' = IF drag.active THEN [win EXCEPT !.x = p[1], !.y = p[2]] ELSE win
    BY <1>11 DEF Move
  <2>2. win' \in Rects
    BY <1>0, <2>1, Constants DEF Rects
  <2>3. drag' \in Drags /\ drag.mouse # "up" /\ frontSnap' \in Edges
    BY <1>0, <1>11 DEF Move, Drags, OverlayTypes, Edges
  <2> QED
    BY <1>11, <2>2, <2>3 DEF Move, OverlayTypes
<1>12. CASE Release
  <2>1. drag' \in Drags /\ drag.mouse # "up" /\ timers' \in Timers /\ timers'.retries = timers.retries
    BY <1>0, <1>12 DEF Release, Drags, Timers
  <2> QED
    BY <1>12, <2>1 DEF Release, OverlayTypes
<1>13. CASE SnapTimer
  <2>1. /\ timers.snap /\ timers' = [timers EXCEPT !.snap = FALSE] /\ SmartSnap
        /\ UNCHANGED <<region, cache, mode, flying, panelVars, drag>>
    BY <1>13 DEF SnapTimer
  <2>2. timers' \in Timers /\ timers'.retries = timers.retries
    BY <1>0, <2>1 DEF Timers
  <2>3. PICK s \in ScreensAt(CenterX(win), CenterY(win)) :
          /\ backSnap' = NearEdge(s) /\ frontSnap' = NearEdge(s)
          /\ win' = IF NearEdge(s) = "none" THEN win ELSE SnapTo(NearEdge(s), s, win.w, win.h, 0)
    BY <2>1 DEF SmartSnap
  <2>4. s \in Screens /\ win.w \in Int /\ win.h \in Int /\ 0 \in Nat
    BY <1>0 DEF ScreensAt, Rects
  <2>5. SnapTo(NearEdge(s), s, win.w, win.h, 0) \in Rects
    BY <2>4, SnapType
  <2>6. win' \in Rects
    BY <1>0, <2>3, <2>5
  <2>7. backSnap' \in Edges /\ frontSnap' \in Edges
    BY <2>3 DEF NearEdge, Edges
  <2> QED
    BY <2>1, <2>2, <2>6, <2>7 DEF OverlayTypes
<1>14. CASE UNCHANGED vars
  BY <1>14 DEF vars, OverlayTypes
<1> QED
  BY <1>1, <1>2, <1>3, <1>4, <1>5, <1>6, <1>7, <1>8, <1>9, <1>10, <1>11, <1>12, <1>13, <1>14, <1>15 DEF Next
-----------------------------------------------------------------------------
(* The panel's height.                                                       *)

\* The box of the bar is none of the boxes of what opens, so that opening and closing
\* always are an animation.
BarIsSmall == CompactWidth # ExpandedWidth \/ (Bar # ApprovalHeight /\ Bar < MinHeight)

LEMMA OpeningMoves ==
    ASSUME BarIsSmall, NEW m \in {"compact", "expanded", "approval"}, NEW n \in Modes,
           n # "starting", IsExpanded(m) # IsExpanded(n), NEW height \in MinHeight..MaxHeight
    PROVE  Box(m, height) # Box(n, height)
<1>1. /\ Box("compact", height) = [w |-> CompactWidth, h |-> Bar]
      /\ Box("expanded", height) = [w |-> ExpandedWidth, h |-> height]
      /\ Box("approval", height) = [w |-> ExpandedWidth, h |-> ApprovalHeight]
  BY DEF Box
<1>2. Bar < MinHeight => Bar # height
  BY Constants
<1>3. \/ CompactWidth # ExpandedWidth
      \/ Bar # height /\ Bar # ApprovalHeight
  BY <1>2 DEF BarIsSmall
<1>4. /\ Box("compact", height) # Box("expanded", height)
      /\ Box("compact", height) # Box("approval", height)
  <2>1. /\ Box("compact", height).w = CompactWidth /\ Box("compact", height).h = Bar
        /\ Box("expanded", height).w = ExpandedWidth /\ Box("expanded", height).h = height
        /\ Box("approval", height).w = ExpandedWidth /\ Box("approval", height).h = ApprovalHeight
    BY <1>1
  <2> QED
    BY <1>3, <2>1
<1>5. n \in {"compact", "expanded", "approval"}
  BY DEF Modes
<1>6. (m = "compact" /\ n # "compact") \/ (m # "compact" /\ n = "compact")
  <2>1. CASE m = "compact" /\ n = "compact"
    BY <2>1
  <2>2. CASE m # "compact" /\ n # "compact"
    <3>1. IsExpanded(m) = TRUE /\ IsExpanded(n) = TRUE
      BY <1>5, <2>2 DEF IsExpanded
    <3> QED
      BY <3>1
  <2> QED
    BY <2>1, <2>2
<1> QED
  BY <1>4, <1>5, <1>6

LEMMA PanelStep ==
    ASSUME BarIsSmall, OverlayTypes, PanelInv, [Next]_vars
    PROVE  PanelInv'
<1> USE DEF windowVars, snapVars, panelVars
<1>0. /\ timers \in Timers /\ flying \in BOOLEAN /\ gate \in BOOLEAN
      /\ mode \in Modes /\ measured \in MinHeight..MaxHeight
  BY DEF OverlayTypes
<1>1. CASE Mount
  BY <1>1 DEF Mount, PanelInv
<1>2. ASSUME Change \/ Click PROVE PanelInv'
  <2>1. Up /\ mode # "starting"
    BY <1>2 DEF Change, Click, Up, OverlayTypes
  <2>2. PICK m \in {"compact", "expanded", "approval"} : Show(m)
    BY <1>2 DEF Change, Click
  <2>3. /\ flying' = (flying \/ Box(m, measured) # Box(mode, measured))
        /\ gate' = IF IsExpanded(m) # IsExpanded(mode) THEN IsExpanded(m) ELSE gate
    BY <2>2 DEF Show
  <2>4. gate' => flying'
    <3>1. CASE IsExpanded(m) # IsExpanded(mode)
      BY <1>0, <2>1, <2>3, <3>1, OpeningMoves
    <3>2. CASE ~(IsExpanded(m) # IsExpanded(mode))
      <4>1. gate' = gate
        BY <2>3, <3>2
      <4>2. gate => flying
        BY DEF PanelInv
      <4>3. gate' => gate
        BY <4>1
      <4>4. flying => flying'
        BY <2>3
      <4> QED
        BY <4>2, <4>3, <4>4
    <3> QED
      BY <3>1, <3>2
  <2>5. mode' = "expanded" => timers'.measure # 0
    BY <2>1, <2>2, Shows
  <2> QED
    BY <2>4, <2>5 DEF PanelInv
<1>3. CASE Retry
  <2>1. timers'.measure = timers.measure
    BY <1>0, <1>3 DEF Retry, Timers
  <2> QED
    BY <1>3, <2>1 DEF Retry, PanelInv
<1>4. CASE AnimationComplete
  <2>1. gate' = FALSE /\ frames' # {}
    BY <1>4 DEF AnimationComplete
  <2> QED
    BY <2>1 DEF PanelInv
<1>5. CASE ContentChanges
  <2>1. PICK h \in Heights : ListAnew(h) \/ RowsChange(h) \/ NoticeChanges(h)
    BY <1>5 DEF ContentChanges
  <2>2. UNCHANGED <<mode, gate, flying>>
    BY <1>5 DEF ContentChanges
  <2>3. CASE ListAnew(h)
    <3>1. timers'.measure = 2
      BY <1>0, <2>3 DEF ListAnew, Timers
    <3> QED
      BY <2>2, <3>1 DEF PanelInv
  <2>4. CASE RowsChange(h)
    <3>1. mode = "expanded" => unseen'
      BY <2>4 DEF RowsChange
    <3> QED
      BY <2>2, <3>1 DEF PanelInv
  <2>5. CASE NoticeChanges(h)
    <3>1. timers' = timers /\ (mode = "expanded" /\ timers.measure = 0 /\ ~gate => frames' # {})
      BY <2>5 DEF NoticeChanges, Observed
    <3> QED
      BY <2>2, <3>1 DEF PanelInv
  <2> QED
    BY <2>1, <2>3, <2>4, <2>5
<1>13. CASE BoxResizes
  BY <1>13 DEF BoxResizes, PanelInv
<1>6. CASE MeasureTimer
  <2>1. frames' = (IF gate THEN frames ELSE frames \cup {"measure"})
        /\ UNCHANGED <<gate, flying, mode>>
    BY <1>6 DEF MeasureTimer, Observed
  <2>2. ~gate => frames' # {}
    BY <2>1
  <2> QED
    BY <2>1, <2>2 DEF PanelInv
<1>7. CASE SafetyTimer
  <2>1. gate /\ gate' = FALSE /\ UNCHANGED <<flying, mode, frames, timers, measured, content, unseen>>
    BY <1>7 DEF SafetyTimer
  <2>2. flying'
    BY <2>1 DEF PanelInv
  <2> QED
    BY <2>1, <2>2 DEF PanelInv
<1>8. CASE CompleteFrame
  <2>1. frames' # {} /\ UNCHANGED <<flying, gate>>
    BY <1>8 DEF CompleteFrame
  <2> QED
    BY <2>1 DEF PanelInv
<1>9. CASE MeasureFrame
  <2>1. /\ flying' = (flying \/ (mode = "expanded" /\ measured' # measured))
        /\ UNCHANGED <<mode, content, gate>>
    BY <1>9 DEF MeasureFrame
  <2>2. mode = "expanded" => measured' >= Clamp(content)
    BY <1>9, Measures
  <2>3. gate' => flying'
    BY <2>1 DEF PanelInv
  <2> QED
    BY <2>1, <2>2, <2>3 DEF PanelInv
<1>10. CASE Press \/ Move
  <2>1. UNCHANGED <<gate, flying, mode, frames, timers, measured, content, unseen>>
    BY <1>10 DEF Press, Move
  <2> QED
    BY <2>1 DEF PanelInv
<1>11. CASE Release \/ SnapTimer
  <2>1. timers'.measure = timers.measure
    BY <1>0, <1>11 DEF Release, SnapTimer, Timers
  <2> QED
    BY <1>11, <2>1 DEF Release, SnapTimer, PanelInv
<1>12. CASE UNCHANGED vars
  BY <1>12 DEF vars, PanelInv
<1> QED
  BY <1>1, <1>2, <1>3, <1>4, <1>5, <1>6, <1>7, <1>8, <1>9, <1>10, <1>11, <1>12, <1>13 DEF Next
-----------------------------------------------------------------------------
(* The snapped window.                                                       *)

LEMMA HeightStep ==
    ASSUME OverlayTypes, SnapInv, [Next]_vars
    PROVE  Up' => win'.h \in {Scale * BoundingBox.h, Scale * ApprovalHeight}
<1> USE DEF windowVars, snapVars, panelVars
<1>0. win \in Rects
  BY DEF OverlayTypes
<1>a. ASSUME UpdateSize(BoundingBox) \/ UpdateSize([w |-> ApprovalWidth, h |-> ApprovalHeight])
      PROVE  win'.h \in {Scale * BoundingBox.h, Scale * ApprovalHeight}
  BY <1>a, SizesOfWindow, Sized
<1>b. CASE win'.h = win.h /\ (Up' => Up)
  BY <1>b DEF SnapInv
<1>1. ASSUME Mount \/ Retry \/ AnimationComplete
      PROVE  win'.h \in {Scale * BoundingBox.h, Scale * ApprovalHeight}
  BY <1>1, <1>a DEF Mount, Retry, AnimationComplete
<1>2. ASSUME Change \/ Click
      PROVE  win'.h \in {Scale * BoundingBox.h, Scale * ApprovalHeight}
  <2>1. Up
    BY <1>2 DEF Change, Click, Up, OverlayTypes
  <2>2. PICK m \in {"compact", "expanded", "approval"} : Show(m)
    BY <1>2 DEF Change, Click
  <2>3. UpdateSize([w |-> ApprovalWidth, h |-> ApprovalHeight]) \/ win' = win
    BY <2>2 DEF Show
  <2> QED
    BY <1>a, <2>1, <2>3 DEF SnapInv
<1>3. CASE Move
  <2>1. PICK p \in Spots : win' = IF drag.active THEN [win EXCEPT !.x = p[1], !.y = p[2]] ELSE win
    BY <1>3 DEF Move
  <2> QED
    BY <1>0, <1>3, <1>b, <2>1 DEF Move, Rects, Up
<1>4. CASE SnapTimer
  <2>1. SmartSnap /\ mode' = mode
    BY <1>4 DEF SnapTimer
  <2>2. win'.h = win.h
    BY <2>1 DEF SmartSnap, SnapTo
  <2> QED
    BY <1>b, <2>1, <2>2 DEF Up
<1>5. CASE ContentChanges \/ BoxResizes \/ MeasureTimer \/ SafetyTimer \/ CompleteFrame \/ MeasureFrame
           \/ Press \/ Release \/ UNCHANGED vars
  <2>1. win' = win /\ mode' = mode
    BY <1>5 DEF ContentChanges, BoxResizes, MeasureTimer, SafetyTimer, CompleteFrame, MeasureFrame,
                Press, Release, vars
  <2> QED
    BY <1>b, <2>1 DEF Up
<1> QED
  BY <1>1, <1>2, <1>3, <1>4, <1>5 DEF Next

\* Where an edge puts the window's upper edge does not depend on its width.
SnappedAt(edge, y) ==
    \E s \in Screens, h \in {BoundingBox.h, ApprovalHeight} :
       \A w \in Int : y = SnapTo(edge, s, w, Scale * h, 0).y

LEMMA SnappedAnyWidth ==
    ASSUME NEW edge, NEW y, NEW w \in Int
    PROVE  SnappedAt(edge, y) <=> \E s \in Screens, h \in {BoundingBox.h, ApprovalHeight} :
                                     y = SnapTo(edge, s, w, Scale * h, 0).y
<1>1. ASSUME NEW s, NEW h, NEW v PROVE SnapTo(edge, s, w, h, 0).y = SnapTo(edge, s, v, h, 0).y
  BY DEF SnapTo
<1> QED
  BY <1>1 DEF SnappedAt

LEMMA SnapStep ==
    ASSUME OverlayTypes, OverlayTypes', SnapInv, [Next]_vars
    PROVE  SnapInv'
<1> USE DEF windowVars, snapVars, panelVars
<1> DEFINE Still == drag.mouse # "moving" /\ ~timers.snap
<1>0. /\ timers \in Timers /\ drag \in Drags /\ win \in Rects
      /\ win.w \in Int /\ win'.w \in Int
  BY DEF OverlayTypes, Rects
<1>1. SUFFICES ASSUME Still', frontSnap' # "none"
               PROVE  backSnap' = frontSnap' /\ SnappedAt(frontSnap', win'.y)
  BY <1>0, SnappedAnyWidth, HeightStep DEF SnapInv
<1>2. Still /\ frontSnap # "none" => backSnap = frontSnap /\ SnappedAt(frontSnap, win.y)
  BY <1>0, SnappedAnyWidth DEF SnapInv
<1>3. CASE UNCHANGED snapVars /\ win'.y = win.y /\ Still
  BY <1>1, <1>2, <1>3
<1>4. CASE SnapTimer
  <2>1. /\ mode # "starting" /\ SmartSnap
    BY <1>4 DEF SnapTimer, OverlayTypes
  <2>2. PICK s \in ScreensAt(CenterX(win), CenterY(win)) :
          /\ backSnap' = NearEdge(s) /\ frontSnap' = NearEdge(s)
          /\ win' = IF NearEdge(s) = "none" THEN win ELSE SnapTo(NearEdge(s), s, win.w, win.h, 0)
    BY <2>1 DEF SmartSnap
  <2>3. s \in Screens /\ win' = SnapTo(frontSnap', s, win.w, win.h, 0) /\ backSnap' = frontSnap'
    BY <1>1, <2>2 DEF ScreensAt
  <2>4. PICK h \in {BoundingBox.h, ApprovalHeight} : win.h = Scale * h
    BY <2>1 DEF SnapInv, Up
  <2>5. win'.y = SnapTo(frontSnap', s, win.w, Scale * h, 0).y
    BY <2>3, <2>4
  <2> QED
    BY <1>0, <2>3, <2>5, SnappedAnyWidth
<1>5. ASSUME Mount \/ Retry \/ AnimationComplete PROVE UNCHANGED snapVars /\ win'.y = win.y /\ Still
  <2>1. UNCHANGED <<snapVars, drag>> /\ timers'.snap = timers.snap
    BY <1>0, <1>5 DEF Mount, Retry, AnimationComplete, Timers
  <2>2. UpdateSize(BoundingBox) \/ UpdateSize([w |-> ApprovalWidth, h |-> ApprovalHeight])
    BY <1>5 DEF Mount, Retry, AnimationComplete
  <2>3. win'.y = win.y
    BY <2>2, SizesOfWindow, Sized
  <2> QED
    BY <1>1, <2>1, <2>3
<1>6. ASSUME Change \/ Click PROVE UNCHANGED snapVars /\ win'.y = win.y /\ Still
  <2>1. Up /\ UNCHANGED snapVars
    BY <1>6 DEF Change, Click, Up, OverlayTypes
  <2>2. PICK m \in {"compact", "expanded", "approval"} : Show(m)
    BY <1>6 DEF Change, Click
  <2>3. win'.y = win.y /\ timers'.snap = timers.snap
    BY <2>1, <2>2, Shows
  <2>4. drag.mouse # "moving"
    BY <1>1, <1>6 DEF Change, Click
  <2> QED
    BY <1>1, <2>1, <2>3, <2>4
<1>7. ASSUME ContentChanges \/ MeasureTimer PROVE UNCHANGED snapVars /\ win'.y = win.y /\ Still
  <2>1. timers'.snap = timers.snap
    <3>1. CASE MeasureTimer
      BY <1>0, <3>1 DEF MeasureTimer, Timers
    <3>2. CASE ContentChanges
      <4>1. PICK h \in Heights : ListAnew(h) \/ RowsChange(h) \/ NoticeChanges(h)
        BY <3>2 DEF ContentChanges
      <4> QED
        BY <1>0, <4>1 DEF ListAnew, RowsChange, NoticeChanges, Timers
    <3> QED
      BY <1>7, <3>1, <3>2
  <2> QED
    BY <1>1, <1>7, <2>1 DEF ContentChanges, MeasureTimer
<1>8. ASSUME BoxResizes \/ SafetyTimer \/ CompleteFrame \/ MeasureFrame \/ UNCHANGED vars
      PROVE  UNCHANGED snapVars /\ win'.y = win.y /\ Still
  BY <1>1, <1>8 DEF BoxResizes, SafetyTimer, CompleteFrame, MeasureFrame, vars
<1>9. ASSUME Press PROVE UNCHANGED snapVars /\ win'.y = win.y /\ Still
  BY <1>1, <1>9 DEF Press
<1>10. ~Move
  BY <1>0, <1>1 DEF Move, Drags
<1>11. ~Release
  BY <1>0, <1>1 DEF Release, Timers
<1> QED
  BY <1>3, <1>4, <1>5, <1>6, <1>7, <1>8, <1>9, <1>10, <1>11 DEF Next
-----------------------------------------------------------------------------
(* The region.                                                               *)

\* An approval's window is the widest thing, and what is shown leaves the same margin
\* on both of its sides, in whole logical pixels.
Centred == \A w \in {CompactWidth, ExpandedWidth} : \E k \in Nat : ApprovalWidth = w + 2 * k

RegionOf(box) == [x |-> Scale * ((ApprovalWidth - box.w) \div 2), y |-> 0,
                  w |-> Scale * box.w, h |-> Scale * box.h]
Fits == region = RegionOf(Box(mode, measured)) /\ Scale * Box(mode, measured).h <= win.h

LEMMA Margins ==
    ASSUME Centred, NEW m \in Modes, NEW height \in MinHeight..MaxHeight
    PROVE  /\ BoundingBox.w = ApprovalWidth
           /\ ApprovalWidth - Box(m, height).w \in Nat /\ (ApprovalWidth - Box(m, height).w) % 2 = 0
           /\ (Scale * ApprovalWidth - Scale * Box(m, height).w) \div 2
                 = Scale * ((ApprovalWidth - Box(m, height).w) \div 2)
<1> DEFINE w == Box(m, height).w
<1>1. w \in {CompactWidth, ExpandedWidth} /\ w \in Nat
  BY Constants DEF Box
<1> HIDE DEF w
<1>2. PICK k \in Nat : ApprovalWidth = w + 2 * k
  BY <1>1 DEF Centred
<1>3. ExpandedWidth <= ApprovalWidth /\ BoundingBox.w = ApprovalWidth
  BY Constants DEF Centred, BoundingBox, Larger
<1>4. ApprovalWidth - w \in Nat /\ (ApprovalWidth - w) % 2 = 0 /\ (ApprovalWidth - w) \div 2 = k
  BY <1>1, <1>2
<1>5. Scale * ApprovalWidth - Scale * w = 2 * (Scale * k)
  <2>1. Scale \in Int /\ w \in Int /\ k \in Int
    BY <1>1, Constants
  <2>2. Scale * (w + 2 * k) - Scale * w = 2 * (Scale * k)
    BY <2>1
  <2> QED
    BY <1>2, <2>2
<1>6. (Scale * ApprovalWidth - Scale * w) \div 2 = Scale * k
  <2>1. Scale * k \in Int
    BY Constants
  <2>2. \A n \in Int : (2 * n) \div 2 = n
    OBVIOUS
  <2> QED
    BY <1>5, <2>1, <2>2
<1> QED
  BY <1>3, <1>4, <1>6 DEF w

LEMMA Taller ==
    ASSUME NEW a \in Nat, NEW b \in Nat, a <= b
    PROVE  Scale * a <= Scale * b
<1>1. PICK d \in Nat : b = a + d
  <2>1. b - a \in Nat /\ b = a + (b - a)
    OBVIOUS
  <2> QED
    BY <2>1
<1>2. Scale * b = Scale * a + Scale * d /\ Scale * a \in Nat /\ Scale * d \in Nat
  BY <1>1, Constants
<1> QED
  BY <1>2

\* Sizing the window to the bounding box and cutting the region to what is shown.
LEMMA Fitted ==
    ASSUME Centred, OverlayTypes, UpdateSize(BoundingBox),
           NEW m \in Modes, NEW height \in MinHeight..MaxHeight, SetRegion(Box(m, height))
    PROVE  /\ win'.w = Scale * ApprovalWidth
           /\ region' = RegionOf(Box(m, height)) /\ Scale * Box(m, height).h <= win'.h
<1>1. win'.w = Scale * ApprovalWidth /\ win'.h = Scale * BoundingBox.h
  BY SizesOfWindow, Sized, Margins
<1>2. Larger(0, BoundingBox.w - Box(m, height).w) = ApprovalWidth - Box(m, height).w
  BY Margins DEF Larger
<1>3. region' = RegionOf(Box(m, height))
  BY <1>2, Margins DEF SetRegion, RegionOf
<1>4. Scale * Box(m, height).h <= Scale * BoundingBox.h
  BY BoxType, Taller
<1> QED
  BY <1>1, <1>3, <1>4

LEMMA RegionStep ==
    ASSUME Centred, OverlayTypes, OverlayTypes', RegionInv, [Next]_vars
    PROVE  RegionInv'
<1> USE DEF windowVars, snapVars, panelVars
<1>0. /\ timers \in Timers /\ drag \in Drags /\ win \in Rects /\ flying \in BOOLEAN
      /\ mode \in Modes /\ measured \in MinHeight..MaxHeight
  BY DEF OverlayTypes
<1>1. SUFFICES /\ Up' => win'.w = Scale * ApprovalWidth
               /\ Up' /\ ~flying' => Fits'
  BY DEF RegionInv, Fits, RegionOf
<1>2. /\ Up => win.w = Scale * ApprovalWidth
      /\ Up /\ ~flying => Fits
  BY DEF RegionInv, Fits, RegionOf
<1>3. CASE UNCHANGED <<region, mode, flying, measured>> /\ win'.w = win.w /\ win'.h = win.h
  BY <1>1, <1>2, <1>3 DEF Up, Fits
<1>a. ASSUME UpdateSize([w |-> ApprovalWidth, h |-> ApprovalHeight])
      PROVE  win'.w = Scale * ApprovalWidth /\ win'.h = Scale * ApprovalHeight
  BY <1>a, SizesOfWindow, Sized
<1>4. CASE Mount
  <2>1. UpdateSize(BoundingBox) /\ SetRegion(Box("compact", measured)) /\ mode' = "compact"
        /\ measured' = measured
    BY <1>4 DEF Mount
  <2>2. /\ win'.w = Scale * ApprovalWidth /\ region' = RegionOf(Box("compact", measured))
        /\ Scale * Box("compact", measured).h <= win'.h
    BY <1>0, <2>1, Fitted DEF Modes
  <2> QED
    BY <1>1, <2>1, <2>2 DEF Fits
<1>5. CASE AnimationComplete
  <2>1. UpdateSize(BoundingBox) /\ SetRegion(Box(mode, measured)) /\ mode' = mode
        /\ measured' = measured
    BY <1>5 DEF AnimationComplete
  <2>2. /\ win'.w = Scale * ApprovalWidth /\ region' = RegionOf(Box(mode, measured))
        /\ Scale * Box(mode, measured).h <= win'.h
    BY <1>0, <2>1, Fitted
  <2> QED
    BY <1>1, <2>1, <2>2 DEF Fits
<1>6. ASSUME Change \/ Click PROVE win'.w = Scale * ApprovalWidth /\ (~flying' => Fits')
  <2>1. Up
    BY <1>6 DEF Change, Click, Up, OverlayTypes
  <2>2. PICK m \in {"compact", "expanded", "approval"} : Show(m)
    BY <1>6 DEF Change, Click
  <2>3. /\ flying' = (flying \/ Box(m, measured) # Box(mode, measured))
        /\ UNCHANGED <<region, measured>> /\ mode' = m
        /\ IF m = "approval" THEN UpdateSize([w |-> ApprovalWidth, h |-> ApprovalHeight])
           ELSE UNCHANGED <<win, cache>>
    BY <2>2 DEF Show
  <2>4. win'.w = Scale * ApprovalWidth
    BY <1>2, <1>a, <2>1, <2>3
  <2>5. ASSUME ~flying' PROVE Fits'
    <3>1. ~flying /\ Box(mode', measured') = Box(mode, measured)
      BY <2>3, <2>5
    <3>2. Fits
      BY <1>2, <2>1, <3>1
    <3>3. CASE m = "approval"
      <4>1. Box(mode', measured').h = ApprovalHeight /\ win'.h = Scale * ApprovalHeight
        BY <1>a, <2>3, <3>3 DEF Box
      <4>2. Scale * ApprovalHeight \in Int
        BY Constants
      <4> QED
        BY <2>3, <3>1, <3>2, <4>1, <4>2 DEF Fits
    <3>4. CASE m # "approval"
      BY <2>3, <3>1, <3>2, <3>4 DEF Fits
    <3> QED
      BY <3>3, <3>4
  <2> QED
    BY <2>4, <2>5
<1>7. CASE Retry
  <2>1. /\ timers.retries > 0 /\ UpdateSize([w |-> ApprovalWidth, h |-> ApprovalHeight])
        /\ UNCHANGED <<region, mode, flying, measured>>
    BY <1>7 DEF Retry
  <2>2. mode = "approval" /\ Box(mode, measured).h = ApprovalHeight
    BY <2>1 DEF OverlayTypes, Box
  <2>3. Scale * ApprovalHeight \in Int
    BY Constants
  <2> QED
    BY <1>1, <1>2, <1>a, <2>1, <2>2, <2>3 DEF Fits, Up
<1>8. CASE MeasureFrame
  <2>1. /\ flying' = (flying \/ (mode = "expanded" /\ measured' # measured))
        /\ UNCHANGED <<win, region, mode>>
    BY <1>8 DEF MeasureFrame
  <2>2. Up /\ ~flying' => ~flying /\ Box(mode, measured') = Box(mode, measured)
    <3>1. mode # "expanded" /\ mode # "starting" => Box(mode, measured') = Box(mode, measured)
      BY <1>0 DEF Box, Modes
    <3> QED
      BY <2>1, <3>1 DEF Up
  <2> QED
    BY <1>1, <1>2, <2>1, <2>2 DEF Fits, Up
<1>9. CASE Move
  <2>1. PICK p \in Spots : win' = IF drag.active THEN [win EXCEPT !.x = p[1], !.y = p[2]] ELSE win
    BY <1>9 DEF Move
  <2> QED
    BY <1>0, <1>3, <1>9, <2>1 DEF Move, Rects
<1>10. CASE SnapTimer
  <2>1. SmartSnap /\ UNCHANGED <<region, mode, flying, measured>>
    BY <1>10 DEF SnapTimer
  <2>2. win'.w = win.w /\ win'.h = win.h
    BY <2>1 DEF SmartSnap, SnapTo
  <2> QED
    BY <1>3, <2>1, <2>2
<1>11. CASE ContentChanges \/ BoxResizes \/ MeasureTimer \/ SafetyTimer \/ CompleteFrame
            \/ Press \/ Release \/ UNCHANGED vars
  BY <1>3, <1>11 DEF ContentChanges, BoxResizes, MeasureTimer, SafetyTimer, CompleteFrame, Press,
                         Release, vars
<1> QED
  BY <1>4, <1>5, <1>6, <1>7, <1>8, <1>9, <1>10, <1>11 DEF Next
-----------------------------------------------------------------------------
(* Theorems.                                                                 *)

LEMMA InvariantsInit == Init => PanelInv /\ RegionInv /\ SnapInv
BY DEF Init, PanelInv, RegionInv, SnapInv, Up

\* The window, the animation, the timers and the drag are what the page and the
\* backend take them for; sizes are tried again for an approval only.
THEOREM TypeCorrect == Spec => []OverlayTypes
BY TypesInit, TypesStep, PTL DEF Spec

\* The list comes to rest in a box that has room for all that is observed of it, or is
\* as high as it may be, whatever changed in the course of animations, wherever those
\* were when it was measured, and however the gate of useAnimationGatedMeasure opened.
THEOREM ListGetsRoom == ASSUME BarIsSmall PROVE Spec => []ListHasRoom
<1>1. Init => PanelInv
  BY InvariantsInit
<1>2. OverlayTypes /\ PanelInv /\ [Next]_vars => PanelInv'
  BY PanelStep
<1>3. PanelInv => ListHasRoom
  BY DEF PanelInv, ListHasRoom, AtRest
<1> QED
  BY <1>1, <1>2, <1>3, TypeCorrect, PTL DEF Spec

\* After the snap of a drag (smart_snap_overlay) the page and the backend know one
\* edge and the window stays at it, whatever resizes it, until the next drag.
THEOREM StaysAtItsEdge == Spec => []SnappedAtItsEdge
<1>1. Init => SnapInv
  BY InvariantsInit
<1>2. OverlayTypes /\ OverlayTypes' /\ SnapInv /\ [Next]_vars => SnapInv'
  BY SnapStep
<1>3. SnapInv => SnappedAtItsEdge
  BY DEF SnapInv, SnappedAtItsEdge
<1> QED
  BY <1>1, <1>2, <1>3, TypeCorrect, PTL DEF Spec

\* Where the box comes to rest, set_overlay_region's region is the box, and in the
\* window, whatever interrupted the animations and sized the window meanwhile.
THEOREM BoxIsClickable == ASSUME Centred PROVE Spec => []HitRegionFollowsBox
<1>1. Init => RegionInv
  BY InvariantsInit
<1>2. OverlayTypes /\ OverlayTypes' /\ RegionInv /\ [Next]_vars => RegionInv'
  BY RegionStep
<1>3. OverlayTypes /\ RegionInv => HitRegionFollowsBox
  <2> SUFFICES ASSUME OverlayTypes, RegionInv, AtRest PROVE HitRegionFollowsBox
    BY DEF HitRegionFollowsBox
  <2>1. /\ win.w = Scale * ApprovalWidth
        /\ region = RegionOf(Box(mode, measured)) /\ Scale * Box(mode, measured).h <= win.h
    BY DEF AtRest, RegionInv, RegionOf
  <2>2. (win.w - Scale * Box(mode, measured).w) \div 2
           = Scale * ((ApprovalWidth - Box(mode, measured).w) \div 2)
    BY <2>1, Margins DEF OverlayTypes
  <2> QED
    BY <2>1, <2>2 DEF HitRegionFollowsBox, RegionOf
<1> QED
  BY <1>1, <1>2, <1>3, TypeCorrect, PTL DEF Spec
-----------------------------------------------------------------------------
(* Sequences.                                                                *)

\* What holds of the empty sequence, and of a longer one whenever it holds of it
\* without its last element.
LEMMA EverySequence ==
    ASSUME NEW S, NEW T, <<>> \in T, \A s \in Seq(S), e \in S : s \in T => Append(s, e) \in T
    PROVE  \A s \in Seq(S) : s \in T
<1> DEFINE N == {n \in Nat : \A s \in Seq(S) : Len(s) = n => s \in T}
<1>1. 0 \in N
  <2>1. \A s \in Seq(S) : Len(s) = 0 => s = <<>>
    BY EmptySeq
  <2> QED
    BY <2>1
<1>2. ASSUME NEW n \in Nat, n \in N PROVE n + 1 \in N
  <2> SUFFICES ASSUME NEW s \in Seq(S), Len(s) = n + 1 PROVE s \in T
    OBVIOUS
  <2> DEFINE p == SubSeq(s, 1, n)
             e == s[n + 1]
  <2>1. e \in S
    BY ElementOfSeq
  <2>2. p \in Seq(S) /\ Len(p) = n /\ \A i \in 1..n : p[i] = s[i]
    <3>1. \A i \in 1..n : s[i] \in S
      BY ElementOfSeq
    <3>2. /\ p \in Seq(S) /\ Len(p) = IF 1 <= n THEN n - 1 + 1 ELSE 0
          /\ \A i \in 1..(n - 1 + 1) : p[i] = s[1 + i - 1]
      BY <3>1, SubSeqProperties
    <3> HIDE DEF p
    <3>3. n - 1 + 1 = n /\ \A i \in 1..n : 1 + i - 1 = i
      OBVIOUS
    <3> QED
      BY <3>2, <3>3
  <2>3. p \in T
    BY <1>2, <2>2
  <2> HIDE DEF p, e
  <2>4. Append(p, e) = s
    <3>1. /\ Append(p, e) \in Seq(S) /\ Len(Append(p, e)) = n + 1
          /\ \A i \in 1..n : Append(p, e)[i] = s[i]
          /\ Append(p, e)[n + 1] = e
      BY <2>1, <2>2, AppendProperties
    <3>2. \A i \in 1..(n + 1) : Append(p, e)[i] = s[i]
      BY <3>1 DEF e
    <3> QED
      BY <3>1, <3>2, SeqEqual
  <2> QED
    BY <2>1, <2>2, <2>3, <2>4
<1> HIDE DEF N
<1>3. \A n \in Nat : n \in N
  BY <1>1, <1>2, EveryNumber
<1> QED
  BY <1>3, LenProperties DEF N
-----------------------------------------------------------------------------
(* Sequences in one.                                                          *)

\* What FlattenSeq has put together of the first i sequences.
LEMMA FlattenedUpTo ==
    ASSUME NEW S, NEW ss \in Seq(Seq(S))
    PROVE  \E g : /\ g \in [0..Len(ss) -> Seq(S)] /\ g[0] = <<>>
                  /\ \A i \in 1..Len(ss) : g[i] = g[i - 1] \o ss[i]
                  /\ FlattenSeq(ss) = g[Len(ss)]
<1> DEFINE n == Len(ss)
           V == Seq(S)
           F == [i \in 1..n |-> [s \in V |-> s \o ss[i]]]
           flatten == CHOOSE f : f = [i \in 1..n |-> IF i = 1 THEN ss[i] ELSE f[i - 1] \o ss[i]]
<1>1. n \in Nat /\ \A i \in 1..n : ss[i] \in V
  BY LenProperties, ElementOfSeq
<1>2. <<>> \in V /\ \A s, t \in V : s \o t \in V /\ <<>> \o t = t
  BY EmptySeq, ConcatProperties, ConcatEmptySeq
<1> HIDE DEF V
<1>3. \A i \in 1..n, s \in V : F[i][s] = s \o ss[i] /\ F[i][s] \in V
  BY <1>1, <1>2
<1>4. PICK g : Iterates(g, n, V, <<>>, F)
  <2> HIDE DEF F
  <2> QED
    BY <1>1, <1>2, <1>3, Iterated
<1>5. g \in [0..n -> V] /\ g[0] = <<>> /\ \A i \in 1..n : g[i] = g[i - 1] \o ss[i]
  <2>1. g \in [0..n -> V] /\ g[0] = <<>> /\ \A i \in 1..n : g[i] = F[i][g[i - 1]]
    BY <1>4 DEF Iterates
  <2>2. \A i \in 1..n : i - 1 \in 0..n
    BY <1>1
  <2> HIDE DEF F
  <2> QED
    BY <1>3, <2>1, <2>2
<1>6. FlattenSeq(ss) = g[n]
  <2>1. CASE n = 0
    <3>1. ss = <<>>
      BY <2>1, EmptySeq
    <3> QED
      BY <1>5, <2>1, <3>1 DEF FlattenSeq
  <2>2. CASE n # 0
    <3> DEFINE f == [i \in 1..n |-> g[i]]
    <3>1. f = [i \in 1..n |-> IF i = 1 THEN ss[i] ELSE f[i - 1] \o ss[i]]
      <4>1. ASSUME NEW i \in 1..n PROVE g[i] = IF i = 1 THEN ss[i] ELSE f[i - 1] \o ss[i]
        <5>1. CASE i = 1
          <6>1. g[1] = <<>> \o ss[1]
            <7>1. g[i] = g[i - 1] \o ss[i]
              BY <1>5
            <7>2. i - 1 = 0
              BY <5>1
            <7> QED
              BY <1>5, <5>1, <7>1, <7>2
          <6> QED
            BY <1>1, <1>2, <5>1, <6>1
        <5>2. CASE i # 1
          <6>1. i - 1 \in 1..n
            BY <1>1, <5>2
          <6> QED
            BY <1>5, <5>2, <6>1
        <5> QED
          BY <5>1, <5>2
      <4> QED
        BY <4>1
    <3> HIDE DEF f, n
    <3>2. flatten = [i \in 1..n |-> IF i = 1 THEN ss[i] ELSE flatten[i - 1] \o ss[i]]
      BY <3>1, Zenon
    <3>3. FlattenSeq(ss) = flatten[n]
      BY <2>2, Zenon DEF FlattenSeq, n
    <3> HIDE DEF flatten
    <3>4. \A i \in 1..n : flatten[i] = IF i = 1 THEN ss[i] ELSE flatten[i - 1] \o ss[i]
      BY <3>2
    <3>5. \A i \in 1..n : g[i] = IF i = 1 THEN ss[i] ELSE g[i - 1] \o ss[i]
      <4>1. \A i \in 1..n : i # 1 => i - 1 \in 1..n
        BY <1>1
      <4> QED
        BY <3>1, <4>1 DEF f
    <3> DEFINE I == {i \in Nat : i \in 1..n => flatten[i] = g[i]}
    <3>6. \A i \in Nat : i \in I
      <4>1. 0 \in I
        OBVIOUS
      <4>2. ASSUME NEW i \in Nat, i \in I PROVE i + 1 \in I
        <5> SUFFICES ASSUME i + 1 \in 1..n PROVE flatten[i + 1] = g[i + 1]
          OBVIOUS
        <5>1. CASE i = 0
          BY <3>4, <3>5, <5>1
        <5>2. CASE i # 0
          <6>1. i \in 1..n /\ (i + 1) - 1 = i /\ i + 1 # 1
            BY <1>1, <5>2
          <6>2. flatten[i] = g[i]
            BY <4>2, <6>1
          <6>3. flatten[i + 1] = flatten[(i + 1) - 1] \o ss[i + 1]
            BY <3>4, <6>1
          <6>4. g[i + 1] = g[(i + 1) - 1] \o ss[i + 1]
            BY <3>5, <6>1
          <6> QED
            BY <6>1, <6>2, <6>3, <6>4
        <5> QED
          BY <5>1, <5>2
      <4> HIDE DEF I
      <4> QED
        BY <4>1, <4>2, EveryNumber
    <3>7. n \in 1..n /\ n \in Nat
      BY <1>1, <2>2
    <3> QED
      BY <3>3, <3>6, <3>7
  <2> QED
    BY <2>1, <2>2
<1> QED
  BY <1>5, <1>6 DEF V

\* Of no sequence nothing, and one more behind the others is behind what they give.
LEMMA FlattenStep ==
    ASSUME NEW S, NEW ss \in Seq(Seq(S)), NEW t \in Seq(S)
    PROVE  /\ FlattenSeq(<<>>) = <<>> /\ FlattenSeq(ss) \in Seq(S)
           /\ FlattenSeq(Append(ss, t)) = FlattenSeq(ss) \o t
<1> DEFINE n == Len(ss)
           uu == Append(ss, t)
<1>1. n \in Nat
  BY LenProperties
<1>2. PICK g : /\ g \in [0..n -> Seq(S)] /\ g[0] = <<>>
               /\ \A i \in 1..n : g[i] = g[i - 1] \o ss[i]
               /\ FlattenSeq(ss) = g[n]
  BY FlattenedUpTo
<1>3. uu \in Seq(Seq(S)) /\ Len(uu) = n + 1 /\ (\A i \in 1..n : uu[i] = ss[i]) /\ uu[n + 1] = t
  BY AppendProperties
<1> HIDE DEF uu, n
<1>a. PICK h : /\ h \in [0..Len(uu) -> Seq(S)] /\ h[0] = <<>>
               /\ \A i \in 1..Len(uu) : h[i] = h[i - 1] \o uu[i]
               /\ FlattenSeq(uu) = h[Len(uu)]
  BY <1>3, FlattenedUpTo
<1>4. /\ h[0] = <<>> /\ FlattenSeq(uu) = h[n + 1]
      /\ \A i \in 1..(n + 1) : h[i] = h[i - 1] \o uu[i]
  BY <1>3, <1>a
<1> DEFINE I == {i \in Nat : i <= n => h[i] = g[i]}
<1>5. \A i \in Nat : i \in I
  <2>1. 0 \in I
    BY <1>2, <1>4
  <2>2. ASSUME NEW i \in Nat, i \in I PROVE i + 1 \in I
    <3> SUFFICES ASSUME i + 1 <= n PROVE h[i + 1] = g[i + 1]
      OBVIOUS
    <3>1. i + 1 \in 1..n /\ i + 1 \in 1..(n + 1) /\ (i + 1) - 1 = i /\ i <= n
      BY <1>1
    <3>2. h[i + 1] = h[i] \o uu[i + 1]
      BY <1>4, <3>1
    <3>3. g[i + 1] = g[i] \o ss[i + 1]
      BY <1>2, <3>1
    <3> QED
      BY <1>3, <2>2, <3>1, <3>2, <3>3
  <2> HIDE DEF I
  <2> QED
    BY <2>1, <2>2, EveryNumber
<1>6. h[n] = g[n]
  BY <1>1, <1>5
<1>7. h[n + 1] = h[n] \o t
  <2>1. n + 1 \in 1..(n + 1) /\ (n + 1) - 1 = n
    BY <1>1
  <2> QED
    BY <1>3, <1>4, <2>1
<1>8. FlattenSeq(<<>>) = <<>>
  BY DEF FlattenSeq
<1>9. g[n] \in Seq(S)
  BY <1>1, <1>2
<1> QED
  BY <1>2, <1>4, <1>6, <1>7, <1>8, <1>9 DEF uu

LEMMA FlattenType ==
    ASSUME NEW S, NEW ss \in Seq(Seq(S))
    PROVE  FlattenSeq(ss) \in Seq(S)
BY FlattenStep, EmptySeq

\* What it gives for one sequence, and for some and then some more.
LEMMA FlattenJoined ==
    ASSUME NEW S, NEW ss \in Seq(Seq(S)), NEW tt \in Seq(Seq(S))
    PROVE  FlattenSeq(ss \o tt) = FlattenSeq(ss) \o FlattenSeq(tt)
<1> DEFINE V == Seq(S)
           T == {q \in Seq(V) : FlattenSeq(ss \o q) = FlattenSeq(ss) \o FlattenSeq(q)}
<1>0. <<>> \in Seq(V) /\ <<>> \in V
  BY EmptySeq
<1>1. <<>> \in T
  <2>1. ss \o <<>> = ss
    BY ConcatEmptySeq
  <2>2. FlattenSeq(ss) \in V /\ FlattenSeq(<<>>) = <<>>
    BY <1>0, FlattenStep
  <2>3. FlattenSeq(ss) \o <<>> = FlattenSeq(ss)
    BY <2>2, ConcatEmptySeq
  <2> QED
    BY <1>0, <2>1, <2>2, <2>3
<1>2. ASSUME NEW q \in Seq(V), NEW t \in V, q \in T PROVE Append(q, t) \in T
  <2>1. ss \o Append(q, t) = Append(ss \o q, t)
    <3>1. Append(q, t) = q \o <<t>> /\ <<t>> \in Seq(V)
      BY AppendIsConcat
    <3>2. ss \o (q \o <<t>>) = (ss \o q) \o <<t>>
      BY <3>1, ConcatAssociative
    <3>3. ss \o q \in Seq(V)
      BY ConcatProperties
    <3> QED
      BY <3>1, <3>2, <3>3, AppendIsConcat
  <2>2. ss \o q \in Seq(V) /\ Append(q, t) \in Seq(V)
    BY ConcatProperties, AppendProperties
  <2>3. FlattenSeq(Append(ss \o q, t)) = FlattenSeq(ss \o q) \o t
    BY <2>2, FlattenStep
  <2>4. FlattenSeq(Append(q, t)) = FlattenSeq(q) \o t /\ FlattenSeq(q) \in V /\ FlattenSeq(ss) \in V
    BY FlattenStep
  <2>5. FlattenSeq(ss \o q) = FlattenSeq(ss) \o FlattenSeq(q)
    BY <1>2
  <2>6. \A a, b \in Seq(S) : (a \o b) \o t = a \o (b \o t)
    BY ConcatAssociative
  <2> QED
    BY <2>1, <2>2, <2>3, <2>4, <2>5, <2>6
<1> HIDE DEF T
<1>3. tt \in T
  BY <1>1, <1>2, EverySequence
<1> QED
  BY <1>3 DEF T

LEMMA FlattenOne ==
    ASSUME NEW S, NEW t \in Seq(S)
    PROVE  FlattenSeq(<<t>>) = t
<1>1. <<>> \in Seq(Seq(S)) /\ <<t>> = Append(<<>>, t)
  BY EmptySeq
<1>2. FlattenSeq(<<t>>) = <<>> \o t
  <2>1. FlattenSeq(<<>>) = <<>> /\ FlattenSeq(Append(<<>>, t)) = FlattenSeq(<<>>) \o t
    BY <1>1, FlattenStep
  <2> QED
    BY <1>1, <2>1
<1> QED
  BY <1>2, ConcatEmptySeq

LEMMA JoinedHas ==
    ASSUME NEW S, NEW p \in Seq(S), NEW q \in Seq(S)
    PROVE  ToSet(p \o q) = ToSet(p) \cup ToSet(q)
<1> DEFINE u == p \o q
           m == Len(p)
           n == Len(q)
<1>1. m \in Nat /\ DOMAIN p = 1..m /\ n \in Nat /\ DOMAIN q = 1..n
  BY LenProperties
<1>2. /\ u \in Seq(S) /\ Len(u) = m + n
      /\ \A k \in 1..(m + n) : u[k] = IF k <= m THEN p[k] ELSE q[k - m]
  BY ConcatProperties
<1> HIDE DEF u, m, n
<1>3. DOMAIN u = 1..(m + n)
  BY <1>2, LenProperties
<1>4. ASSUME NEW k \in 1..m PROVE k \in DOMAIN u /\ u[k] = p[k]
  BY <1>1, <1>2, <1>3
<1>5. ASSUME NEW k \in 1..n PROVE m + k \in DOMAIN u /\ u[m + k] = q[k]
  <2>1. m + k \in 1..(m + n) /\ ~(m + k <= m) /\ m + k - m = k
    BY <1>1
  <2>2. u[m + k] = q[m + k - m]
    BY <1>1, <1>2, <2>1
  <2> QED
    BY <1>3, <2>1, <2>2
<1>6. ASSUME NEW k \in DOMAIN u
      PROVE  \/ k \in DOMAIN p /\ u[k] = p[k]
             \/ k - m \in DOMAIN q /\ u[k] = q[k - m]
  BY <1>1, <1>2, <1>3
<1>7. ToSet(u) \subseteq ToSet(p) \cup ToSet(q)
  BY <1>6 DEF ToSet
<1>8. ToSet(p) \subseteq ToSet(u) /\ ToSet(q) \subseteq ToSet(u)
  BY <1>1, <1>4, <1>5 DEF ToSet
<1> QED
  BY <1>7, <1>8 DEF u

\* What is in it is in one of them.
LEMMA FlattenHas ==
    ASSUME NEW S, NEW ss \in Seq(Seq(S))
    PROVE  ToSet(FlattenSeq(ss)) = UNION {ToSet(ss[i]) : i \in DOMAIN ss}
<1> DEFINE V == Seq(S)
           T == {q \in Seq(V) : ToSet(FlattenSeq(q)) = UNION {ToSet(q[i]) : i \in DOMAIN q}}
<1>1. <<>> \in T
  <2>1. FlattenSeq(<<>>) = <<>> /\ DOMAIN <<>> = {} /\ <<>> \in Seq(V)
    BY EmptySeq DEF FlattenSeq
  <2>2. ToSet(<<>>) = {}
    BY <2>1 DEF ToSet
  <2> QED
    BY <2>1, <2>2
<1>2. ASSUME NEW q \in Seq(V), NEW t \in V, q \in T PROVE Append(q, t) \in T
  <2> DEFINE u == Append(q, t)
             n == Len(q)
             f == FlattenSeq(q)
  <2>1. /\ u \in Seq(V) /\ Len(u) = n + 1 /\ n \in Nat /\ DOMAIN q = 1..n
        /\ (\A i \in 1..n : u[i] = q[i]) /\ u[n + 1] = t
    BY AppendProperties, LenProperties
  <2>2. DOMAIN u = 1..(n + 1)
    BY <2>1, LenProperties
  <2>3. FlattenSeq(u) = f \o t /\ f \in V
    BY FlattenStep
  <2>4. ToSet(f) = UNION {ToSet(q[i]) : i \in DOMAIN q}
    BY <1>2
  <2> HIDE DEF u, f
  <2>5. ToSet(f \o t) = ToSet(f) \cup ToSet(t)
    BY <2>3, JoinedHas
  <2> HIDE DEF n
  <2>6. UNION {ToSet(u[i]) : i \in DOMAIN u} = (UNION {ToSet(q[i]) : i \in DOMAIN q}) \cup ToSet(t)
    <3>1. \A i \in DOMAIN u : i \in DOMAIN q \/ i = n + 1
      BY <2>1, <2>2
    <3>2. DOMAIN q \subseteq DOMAIN u /\ n + 1 \in DOMAIN u
      BY <2>1, <2>2
    <3> QED
      BY <2>1, <3>1, <3>2
  <2> QED
    BY <2>1, <2>3, <2>4, <2>5, <2>6 DEF u
<1> HIDE DEF T
<1>3. ss \in T
  BY <1>1, <1>2, EverySequence
<1> QED
  BY <1>3 DEF T
-----------------------------------------------------------------------------
(* Trees.                                                                     *)

LEMMA TreesAre ==
    /\ MaxSize \in Nat /\ Trees[0] = {}
    /\ \A d \in 1..MaxSize : Trees[d] = NodesOver(Seq(Trees[d - 1]))
<1> DEFINE S == {m \in Nat : \E g : g = [d \in 0..m |-> IF d = 0 THEN {} ELSE NodesOver(Seq(g[d - 1]))]}
           trees == CHOOSE g : g = [d \in 0..MaxSize |-> IF d = 0 THEN {} ELSE NodesOver(Seq(g[d - 1]))]
<1>0. MaxSize \in Nat
  BY AnalysisAssumption
<1>1. \A m \in Nat : m \in S
  <2>1. 0 \in S
    <3> DEFINE g == [d \in 0..0 |-> {}]
    <3>1. g = [d \in 0..0 |-> IF d = 0 THEN {} ELSE NodesOver(Seq(g[d - 1]))]
      OBVIOUS
    <3> HIDE DEF g
    <3> QED
      BY <3>1
  <2>2. ASSUME NEW m \in Nat, m \in S PROVE m + 1 \in S
    <3>1. PICK g : g = [d \in 0..m |-> IF d = 0 THEN {} ELSE NodesOver(Seq(g[d - 1]))]
      BY <2>2
    <3> DEFINE h == [d \in 0..(m + 1) |-> IF d <= m THEN g[d] ELSE NodesOver(Seq(g[m]))]
    <3>2. ASSUME NEW d \in 0..(m + 1)
          PROVE  h[d] = IF d = 0 THEN {} ELSE NodesOver(Seq(h[d - 1]))
      <4>1. CASE d = 0
        <5>1. h[0] = g[0]
          OBVIOUS
        <5>2. g[0] = {}
          BY <3>1
        <5> QED
          BY <4>1, <5>1, <5>2
      <4>2. CASE d # 0
        <5>1. d - 1 \in 0..m /\ d - 1 \in 0..(m + 1) /\ d - 1 <= m
          BY <4>2
        <5>2. h[d - 1] = g[d - 1]
          BY <5>1
        <5>3. CASE d <= m
          <6>1. d \in 0..m /\ h[d] = g[d]
            BY <5>3
          <6>2. g[d] = NodesOver(Seq(g[d - 1]))
            BY <3>1, <4>2, <6>1
          <6> QED
            BY <4>2, <5>2, <6>1, <6>2
        <5>4. CASE ~(d <= m)
          <6>1. d - 1 = m /\ h[d] = NodesOver(Seq(g[m]))
            BY <5>4
          <6> QED
            BY <4>2, <5>2, <6>1
        <5> QED
          BY <5>3, <5>4
      <4> QED
        BY <4>1, <4>2
    <3>3. h = [d \in 0..(m + 1) |-> IF d = 0 THEN {} ELSE NodesOver(Seq(h[d - 1]))]
      BY <3>2
    <3> HIDE DEF h
    <3> QED
      BY <3>3
  <2> HIDE DEF S
  <2> QED
    BY <2>1, <2>2, EveryNumber
<1>2. trees = [d \in 0..MaxSize |-> IF d = 0 THEN {} ELSE NodesOver(Seq(trees[d - 1]))]
  <2>1. \E g : g = [d \in 0..MaxSize |-> IF d = 0 THEN {} ELSE NodesOver(Seq(g[d - 1]))]
    BY <1>0, <1>1
  <2> QED
    BY <2>1, Zenon
<1>3. Trees = trees
  BY Zenon DEF Trees
<1> HIDE DEF trees
<1>4. \A d \in 0..MaxSize : trees[d] = IF d = 0 THEN {} ELSE NodesOver(Seq(trees[d - 1]))
  BY <1>2
<1>5. 0 \in 0..MaxSize /\ \A d \in 1..MaxSize : d \in 0..MaxSize /\ d # 0
  BY <1>0
<1> QED
  BY <1>0, <1>3, <1>4, <1>5

LEMMA LargerNodes ==
    ASSUME NEW A, NEW B, A \subseteq B
    PROVE  NodesOver(Seq(A)) \subseteq NodesOver(Seq(B))
<1>1. \A q \in Seq(A) : q \in Seq(B)
  BY SeqMonotonic
<1> QED
  BY <1>1 DEF NodesOver

\* A tree is one of any greater depth as well.
LEMMA DeeperTrees == \A d \in 1..MaxSize : Trees[d - 1] \subseteq Trees[d]
<1> DEFINE S == {d \in Nat : d + 1 \in 1..MaxSize => Trees[d] \subseteq Trees[d + 1]}
<1>1. 0 \in S
  BY TreesAre
<1>2. ASSUME NEW d \in Nat, d \in S PROVE d + 1 \in S
  <2> SUFFICES ASSUME d + 2 \in 1..MaxSize PROVE Trees[d + 1] \subseteq Trees[d + 2]
    BY TreesAre
  <2>1. d + 1 \in 1..MaxSize /\ (d + 1) - 1 = d /\ (d + 2) - 1 = d + 1
    BY TreesAre
  <2>2. Trees[d] \subseteq Trees[d + 1]
    BY <1>2, <2>1
  <2>3. Trees[d + 1] = NodesOver(Seq(Trees[d])) /\ Trees[d + 2] = NodesOver(Seq(Trees[d + 1]))
    BY <2>1, TreesAre
  <2> QED
    BY <2>2, <2>3, LargerNodes
<1> HIDE DEF S
<1>3. \A d \in Nat : d \in S
  BY <1>1, <1>2, EveryNumber
<1>4. ASSUME NEW d \in 1..MaxSize PROVE Trees[d - 1] \subseteq Trees[d]
  <2>1. d - 1 \in Nat /\ (d - 1) + 1 = d
    BY TreesAre
  <2>2. d - 1 \in S
    BY <1>3, <2>1
  <2> QED
    BY <2>1, <2>2 DEF S
<1> QED
  BY <1>4

LEMMA TreesAreNodes == \A d \in 0..MaxSize : Trees[d] \subseteq Nodes
<1> DEFINE S == {k \in Nat : k <= MaxSize => Trees[MaxSize - k] \subseteq Nodes}
<1>1. 0 \in S
  <2>1. MaxSize - 0 = MaxSize
    BY TreesAre
  <2> QED
    BY <2>1 DEF Nodes
<1>2. ASSUME NEW k \in Nat, k \in S PROVE k + 1 \in S
  <2> SUFFICES ASSUME k + 1 <= MaxSize PROVE Trees[MaxSize - (k + 1)] \subseteq Nodes
    OBVIOUS
  <2>1. MaxSize - k \in 1..MaxSize /\ (MaxSize - k) - 1 = MaxSize - (k + 1) /\ k <= MaxSize
    BY TreesAre
  <2>2. Trees[(MaxSize - k) - 1] \subseteq Trees[MaxSize - k]
    BY <2>1, DeeperTrees
  <2> QED
    BY <1>2, <2>1, <2>2
<1> HIDE DEF S
<1>3. \A k \in Nat : k \in S
  BY <1>1, <1>2, EveryNumber
<1>4. ASSUME NEW d \in 0..MaxSize PROVE Trees[d] \subseteq Nodes
  <2>1. MaxSize - d \in Nat /\ MaxSize - d <= MaxSize /\ MaxSize - (MaxSize - d) = d
    BY TreesAre
  <2>2. MaxSize - d \in S
    BY <1>3, <2>1
  <2> QED
    BY <2>1, <2>2 DEF S
<1> QED
  BY <1>4

LEMMA NodesAre ==
    ASSUME NEW node \in Nodes
    PROVE  /\ node.kids \in Seq(Nodes) /\ node.kind \in Kinds
           /\ node.kind = "command" => node.words \in Words \ {<<>>}
           /\ node.kind # "command" => node.words = <<>> /\ node.kids # <<>>
<1>1. MaxSize \in 1..MaxSize
  BY TreesAre DEF Nodes
<1>2. node \in NodesOver(Seq(Trees[MaxSize - 1])) /\ Trees[MaxSize - 1] \subseteq Nodes
  BY <1>1, TreesAre, DeeperTrees DEF Nodes
<1>3. \A q \in Seq(Trees[MaxSize - 1]) : q \in Seq(Nodes)
  BY <1>2, SeqMonotonic
<1>4. "command" \in Kinds
  BY DEF Kinds
<1> QED
  BY <1>2, <1>3, <1>4 DEF NodesOver

\* What holds of a node whenever it holds of its children holds of all.
LEMMA EveryNode ==
    ASSUME NEW T,
           \A node \in Nodes : (\A i \in DOMAIN node.kids : node.kids[i] \in T) => node \in T
    PROVE  \A node \in Nodes : node \in T
<1> DEFINE S == {d \in Nat : d <= MaxSize => Trees[d] \subseteq T}
<1>1. 0 \in S
  BY TreesAre
<1>2. ASSUME NEW d \in Nat, d \in S PROVE d + 1 \in S
  <2> SUFFICES ASSUME d + 1 <= MaxSize, NEW node \in Trees[d + 1] PROVE node \in T
    OBVIOUS
  <2>1. d + 1 \in 1..MaxSize /\ d + 1 \in 0..MaxSize /\ (d + 1) - 1 = d
    BY TreesAre
  <2>2. Trees[d + 1] = NodesOver(Seq(Trees[d])) /\ Trees[d] \subseteq T
    BY <1>2, <2>1, TreesAre
  <2>3. node.kids \in Seq(Trees[d]) /\ node \in Nodes
    BY <2>1, <2>2, TreesAreNodes DEF NodesOver
  <2>4. \A i \in DOMAIN node.kids : node.kids[i] \in T
    BY <2>2, <2>3, LenProperties, ElementOfSeq
  <2> QED
    BY <2>3, <2>4
<1> HIDE DEF S
<1>3. \A d \in Nat : d \in S
  BY <1>1, <1>2, EveryNumber
<1> QED
  BY <1>3, TreesAre DEF S, Nodes
\* What is computed of a node goes by what was computed of its children.
LEMMA SegmentsWithin ==
    ASSUME NEW node, NEW f, NEW g, \A i \in DOMAIN node.kids : f[node.kids[i]] = g[node.kids[i]]
    PROVE  CollectSegments(node, f) = CollectSegments(node, g)
<1> DEFINE kids == node.kids
           redirected(h) == [i \in DOMAIN kids |-> IF kids[i].kind \in Redirectable THEN h[kids[i]] ELSE <<>>]
           all(h) == [i \in DOMAIN kids |-> h[kids[i]]]
<1>1. redirected(f) = redirected(g) /\ all(f) = all(g)
  OBVIOUS
<1>2. \A h : CollectSegments(node, h) =
         CASE node.kind = "command" -> <<Tokens(node)>>
           [] node.kind = "redirected_statement" -> FlattenSeq(redirected(h))
           [] node.kind = "negated_command" ->
                FlattenSeq([i \in DOMAIN kids |-> IF kids[i].kind = "command" THEN <<Tokens(kids[i])>> ELSE <<>>])
           [] node.kind \in Entered -> FlattenSeq(all(h))
           [] OTHER -> <<>>
  BY DEF CollectSegments
<1> HIDE DEF redirected, all
<1> QED
  BY <1>1, <1>2, Zenon

LEMMA CommandsWithin ==
    ASSUME NEW node, NEW f, NEW g, \A i \in DOMAIN node.kids : f[node.kids[i]] = g[node.kids[i]]
    PROVE  CommandsOf(node, f) = CommandsOf(node, g)
<1> DEFINE below(h) == [i \in DOMAIN node.kids |-> HideAll(h[node.kids[i]], Hides(node, node.kids[i]))]
<1>1. below(f) = below(g)
  OBVIOUS
<1>2. \A h : CommandsOf(node, h) =
         (IF node.kind = "command" THEN <<[words |-> node.words, hidden |-> FALSE]>> ELSE <<>>)
         \o FlattenSeq(below(h))
  BY DEF CommandsOf
<1> HIDE DEF below
<1> QED
  BY <1>1, <1>2

LEMMA SegmentsAre == \A node \in Nodes : Segments[node] = CollectSegments(node, Segments)
<1> DEFINE S == {d \in Nat : d <= MaxSize => \E g : g = [n \in Trees[d] |-> CollectSegments(n, g)]}
           all == CHOOSE g : g = [n \in Nodes |-> CollectSegments(n, g)]
<1>1. 0 \in S
  <2> DEFINE g == [n \in {} |-> n]
  <2>1. g = [n \in {} |-> CollectSegments(n, g)]
    OBVIOUS
  <2> HIDE DEF g
  <2> QED
    BY <2>1, TreesAre
<1>2. ASSUME NEW d \in Nat, d \in S PROVE d + 1 \in S
  <2> SUFFICES ASSUME d + 1 <= MaxSize PROVE \E h : h = [n \in Trees[d + 1] |-> CollectSegments(n, h)]
    OBVIOUS
  <2>1. d + 1 \in 1..MaxSize /\ (d + 1) - 1 = d /\ d <= MaxSize
    BY TreesAre
  <2>2. PICK g : g = [n \in Trees[d] |-> CollectSegments(n, g)]
    BY <1>2, <2>1
  <2>3. Trees[d + 1] = NodesOver(Seq(Trees[d])) /\ Trees[d] \subseteq Trees[d + 1]
    BY <2>1, TreesAre, DeeperTrees
  <2> DEFINE h == [n \in Trees[d + 1] |-> CollectSegments(n, g)]
  <2>4. ASSUME NEW n \in Trees[d + 1] PROVE CollectSegments(n, g) = CollectSegments(n, h)
    <3>1. n.kids \in Seq(Trees[d])
      BY <2>3 DEF NodesOver
    <3>2. \A i \in DOMAIN n.kids : n.kids[i] \in Trees[d]
      BY <3>1, LenProperties, ElementOfSeq
    <3>3. \A kid \in Trees[d] : g[kid] = h[kid]
      BY <2>2, <2>3
    <3> HIDE DEF h
    <3>4. \A i \in DOMAIN n.kids : g[n.kids[i]] = h[n.kids[i]]
      BY <3>2, <3>3
    <3> QED
      BY <3>4, SegmentsWithin
  <2>5. h = [n \in Trees[d + 1] |-> CollectSegments(n, h)]
    BY <2>4
  <2> HIDE DEF h
  <2> QED
    BY <2>5
<1> HIDE DEF S
<1>3. \E g : g = [n \in Nodes |-> CollectSegments(n, g)]
  <2>1. MaxSize \in S
    BY <1>1, <1>2, TreesAre, EveryNumber
  <2> QED
    BY <2>1, TreesAre DEF S, Nodes
<1>4. all = [n \in Nodes |-> CollectSegments(n, all)]
  BY <1>3, Zenon
<1>5. Segments = all
  BY Zenon DEF Segments
<1> HIDE DEF all
<1> QED
  BY <1>4, <1>5

LEMMA AllCommandsAre == \A node \in Nodes : AllCommands[node] = CommandsOf(node, AllCommands)
<1> DEFINE S == {d \in Nat : d <= MaxSize => \E g : g = [n \in Trees[d] |-> CommandsOf(n, g)]}
           all == CHOOSE g : g = [n \in Nodes |-> CommandsOf(n, g)]
<1>1. 0 \in S
  <2> DEFINE g == [n \in {} |-> n]
  <2>1. g = [n \in {} |-> CommandsOf(n, g)]
    OBVIOUS
  <2> HIDE DEF g
  <2> QED
    BY <2>1, TreesAre
<1>2. ASSUME NEW d \in Nat, d \in S PROVE d + 1 \in S
  <2> SUFFICES ASSUME d + 1 <= MaxSize PROVE \E h : h = [n \in Trees[d + 1] |-> CommandsOf(n, h)]
    OBVIOUS
  <2>1. d + 1 \in 1..MaxSize /\ (d + 1) - 1 = d /\ d <= MaxSize
    BY TreesAre
  <2>2. PICK g : g = [n \in Trees[d] |-> CommandsOf(n, g)]
    BY <1>2, <2>1
  <2>3. Trees[d + 1] = NodesOver(Seq(Trees[d])) /\ Trees[d] \subseteq Trees[d + 1]
    BY <2>1, TreesAre, DeeperTrees
  <2> DEFINE h == [n \in Trees[d + 1] |-> CommandsOf(n, g)]
  <2>4. ASSUME NEW n \in Trees[d + 1] PROVE CommandsOf(n, g) = CommandsOf(n, h)
    <3>1. n.kids \in Seq(Trees[d])
      BY <2>3 DEF NodesOver
    <3>2. \A i \in DOMAIN n.kids : n.kids[i] \in Trees[d]
      BY <3>1, LenProperties, ElementOfSeq
    <3>3. \A kid \in Trees[d] : g[kid] = h[kid]
      BY <2>2, <2>3
    <3> HIDE DEF h
    <3>4. \A i \in DOMAIN n.kids : g[n.kids[i]] = h[n.kids[i]]
      BY <3>2, <3>3
    <3> QED
      BY <3>4, CommandsWithin
  <2>5. h = [n \in Trees[d + 1] |-> CommandsOf(n, h)]
    BY <2>4
  <2> HIDE DEF h
  <2> QED
    BY <2>5
<1> HIDE DEF S
<1>3. \E g : g = [n \in Nodes |-> CommandsOf(n, g)]
  <2>1. MaxSize \in S
    BY <1>1, <1>2, TreesAre, EveryNumber
  <2> QED
    BY <2>1, TreesAre DEF S, Nodes
<1>4. all = [n \in Nodes |-> CommandsOf(n, all)]
  BY <1>3, Zenon
<1>5. AllCommands = all
  BY Zenon DEF AllCommands
<1> HIDE DEF all
<1> QED
  BY <1>4, <1>5
-----------------------------------------------------------------------------
(* The commands that are seen.                                                *)

CommandWords == Words \ {<<>>}
CommandRecords == [words : CommandWords, hidden : BOOLEAN]

SeenPart(c) == IF c.hidden THEN <<>> ELSE <<c.words>>

LEMMA SeenParts ==
    ASSUME NEW c \in CommandRecords
    PROVE  SeenPart(c) \in Seq(CommandWords)
<1>1. c.words \in CommandWords /\ <<>> \in Seq(CommandWords)
  BY DEF CommandRecords
<1>2. <<c.words>> \in Seq(CommandWords)
  <2> HIDE DEF CommandWords
  <2> QED
    BY <1>1
<1> HIDE DEF CommandWords
<1> QED
  BY <1>1, <1>2 DEF SeenPart

LEMMA SeenStep ==
    ASSUME NEW p \in Seq(CommandRecords), NEW c \in CommandRecords
    PROVE  /\ Seen(<<>>) = <<>> /\ Seen(p) \in Seq(CommandWords)
           /\ Seen(Append(p, c)) = Seen(p) \o SeenPart(c)
<1> DEFINE parts(q) == [i \in DOMAIN q |-> SeenPart(q[i])]
           u == Append(p, c)
           n == Len(p)
<1>1. \A q : Seen(q) = FlattenSeq(parts(q))
  BY DEF Seen, SeenPart
<1>2. /\ n \in Nat /\ DOMAIN p = 1..n /\ \A i \in 1..n : p[i] \in CommandRecords
  BY LenProperties, ElementOfSeq
<1>3. /\ u \in Seq(CommandRecords) /\ Len(u) = n + 1 /\ DOMAIN u = 1..(n + 1)
      /\ (\A i \in 1..n : u[i] = p[i]) /\ u[n + 1] = c
  <2>1. /\ u \in Seq(CommandRecords) /\ Len(u) = n + 1
        /\ (\A i \in 1..n : u[i] = p[i]) /\ u[n + 1] = c
    BY AppendProperties
  <2> QED
    BY <2>1, LenProperties
<1> DEFINE V == Seq(CommandWords)
<1>4. \A r \in CommandRecords : SeenPart(r) \in V
  BY SeenParts
<1> HIDE DEF n, u, V
<1>5. parts(p) \in Seq(V) /\ Len(parts(p)) = n
  <2>1. parts(p) \in [1..n -> V]
    BY <1>2, <1>4
  <2> QED
    BY <1>2, <2>1
<1>6. parts(u) \in Seq(V) /\ Len(parts(u)) = n + 1
  <2>1. \A i \in 1..(n + 1) : u[i] \in CommandRecords
    BY <1>3, ElementOfSeq
  <2>2. parts(u) \in [1..(n + 1) -> V] /\ n + 1 \in Nat
    BY <1>2, <1>3, <1>4, <2>1
  <2> QED
    BY <2>2
<1>7. parts(u) = Append(parts(p), SeenPart(c))
  <2> DEFINE w == Append(parts(p), SeenPart(c))
             f == parts(p)
             g == parts(u)
  <2>1. (\A i \in 1..n : f[i] = SeenPart(p[i])) /\ \A i \in 1..(n + 1) : g[i] = SeenPart(u[i])
    BY <1>2, <1>3
  <2>2. SeenPart(c) \in V
    BY <1>4
  <2> HIDE DEF f, g
  <2>3. /\ Append(f, SeenPart(c)) \in Seq(V) /\ Len(Append(f, SeenPart(c))) = n + 1
        /\ (\A i \in 1..n : Append(f, SeenPart(c))[i] = f[i])
        /\ Append(f, SeenPart(c))[n + 1] = SeenPart(c)
    <3>1. f \in Seq(V) /\ Len(f) = n
      BY <1>5 DEF f
    <3> QED
      BY <2>2, <3>1, AppendProperties
  <2>4. ASSUME NEW i \in 1..(n + 1) PROVE g[i] = Append(f, SeenPart(c))[i]
    <3>1. CASE i \in 1..n
      BY <1>3, <2>1, <2>3, <3>1
    <3>2. CASE i = n + 1
      BY <1>3, <2>1, <2>3, <3>2
    <3>3. i \in 1..n \/ i = n + 1
      BY <1>2
    <3> QED
      BY <3>1, <3>2, <3>3
  <2>5. g \in Seq(V) /\ Len(g) = n + 1
    BY <1>6 DEF g
  <2>6. g = Append(f, SeenPart(c))
    BY <2>3, <2>4, <2>5, SeqEqual
  <2> QED
    BY <2>6 DEF f, g
<1>8. parts(<<>>) = <<>>
  OBVIOUS
<1> HIDE DEF parts
<1>9. SeenPart(c) \in V
  BY <1>4
<1>10. FlattenSeq(<<>>) = <<>> /\ FlattenSeq(parts(p)) \in V
       /\ FlattenSeq(Append(parts(p), SeenPart(c))) = FlattenSeq(parts(p)) \o SeenPart(c)
  BY <1>5, <1>9, FlattenStep DEF V
<1> QED
  BY <1>1, <1>7, <1>8, <1>10 DEF u, V

LEMMA SeenNone == Seen(<<>>) = <<>>
BY DEF Seen, FlattenSeq

LEMMA SeenType ==
    ASSUME NEW p \in Seq(CommandRecords)
    PROVE  Seen(p) \in Seq(CommandWords)
<1>1. CASE p = <<>>
  BY <1>1, SeenNone, EmptySeq
<1>2. CASE p # <<>>
  <2>1. Len(p) \in Nat /\ Len(p) # 0
    BY <1>2, EmptySeq, LenProperties
  <2>2. p[1] \in CommandRecords
    BY <2>1, ElementOfSeq
  <2> QED
    BY <2>2, SeenStep
<1> QED
  BY <1>1, <1>2

LEMMA SeenJoined ==
    ASSUME NEW p \in Seq(CommandRecords), NEW q \in Seq(CommandRecords)
    PROVE  Seen(p \o q) = Seen(p) \o Seen(q)
<1> DEFINE V == CommandRecords
           T == {t \in Seq(V) : Seen(p \o t) = Seen(p) \o Seen(t)}
<1> HIDE DEF V
<1>1. <<>> \in T
  <2>1. p \o <<>> = p /\ <<>> \in Seq(V)
    BY ConcatEmptySeq, EmptySeq
  <2>2. Seen(p) \o <<>> = Seen(p)
    BY SeenType, ConcatEmptySeq
  <2> QED
    BY <2>1, <2>2, SeenNone
<1>2. ASSUME NEW t \in Seq(V), NEW c \in V, t \in T PROVE Append(t, c) \in T
  <2>1. p \in Seq(V)
    BY DEF V
  <2>2. p \o Append(t, c) = Append(p \o t, c)
    <3>1. Append(t, c) = t \o <<c>> /\ <<c>> \in Seq(V) /\ p \o t \in Seq(V)
      BY <2>1, AppendIsConcat, ConcatProperties
    <3>2. p \o (t \o <<c>>) = (p \o t) \o <<c>>
      BY <2>1, <3>1, ConcatAssociative
    <3> QED
      BY <3>1, <3>2, AppendIsConcat
  <2>3. p \o t \in Seq(V) /\ Append(t, c) \in Seq(V)
    BY <2>1, ConcatProperties, AppendProperties
  <2>4. Seen(Append(p \o t, c)) = Seen(p \o t) \o SeenPart(c)
    BY <2>3, SeenStep DEF V
  <2>5. Seen(Append(t, c)) = Seen(t) \o SeenPart(c)
    BY SeenStep DEF V
  <2>6. Seen(p \o t) = Seen(p) \o Seen(t)
    BY <1>2
  <2>7. /\ Seen(p) \in Seq(CommandWords) /\ Seen(t) \in Seq(CommandWords)
        /\ SeenPart(c) \in Seq(CommandWords)
    BY SeenType, SeenParts DEF V
  <2>8. (Seen(p) \o Seen(t)) \o SeenPart(c) = Seen(p) \o (Seen(t) \o SeenPart(c))
    <3> HIDE DEF CommandWords
    <3> QED
      BY <2>7, ConcatAssociative
  <2> QED
    BY <2>2, <2>3, <2>4, <2>5, <2>6, <2>8
<1> HIDE DEF T
<1>3. q \in T
  BY <1>1, <1>2, EverySequence DEF V
<1> QED
  BY <1>3 DEF T

\* What is seen of many is what is seen of each.
LEMMA SeenFlattened ==
    ASSUME NEW cc \in Seq(Seq(CommandRecords))
    PROVE  Seen(FlattenSeq(cc)) = FlattenSeq([i \in DOMAIN cc |-> Seen(cc[i])])
<1> DEFINE V == Seq(CommandRecords)
           W == Seq(CommandWords)
           each(q) == [i \in DOMAIN q |-> Seen(q[i])]
           T == {q \in Seq(V) : Seen(FlattenSeq(q)) = FlattenSeq(each(q))}
<1>0. \A p \in V : Seen(p) \in W
  BY SeenType
<1>1. <<>> \in T
  <2>1. each(<<>>) = <<>>
    OBVIOUS
  <2>2. FlattenSeq(<<>>) = <<>>
    BY DEF FlattenSeq
  <2> QED
    BY <2>1, <2>2, SeenNone, EmptySeq
<1>2. ASSUME NEW q \in Seq(V), NEW p \in V, q \in T PROVE Append(q, p) \in T
  <2> DEFINE u == Append(q, p)
             n == Len(q)
             f == each(q)
             g == each(u)
  <2> HIDE DEF V, W
  <2>1. n \in Nat /\ DOMAIN q = 1..n /\ \A i \in 1..n : q[i] \in V
    BY LenProperties, ElementOfSeq
  <2>2. /\ u \in Seq(V) /\ Len(u) = n + 1 /\ (\A i \in 1..n : u[i] = q[i]) /\ u[n + 1] = p
    BY AppendProperties
  <2>3. DOMAIN u = 1..(n + 1) /\ \A i \in 1..(n + 1) : u[i] \in V
    BY <2>2, LenProperties, ElementOfSeq
  <2> HIDE DEF u, n
  <2>4. f \in [1..n -> W] /\ g \in [1..(n + 1) -> W] /\ n + 1 \in Nat
    BY <1>0, <2>1, <2>3
  <2>5. f \in Seq(W) /\ Len(f) = n /\ g \in Seq(W) /\ Len(g) = n + 1
    BY <2>1, <2>4
  <2>6. (\A i \in 1..n : f[i] = Seen(q[i])) /\ \A i \in 1..(n + 1) : g[i] = Seen(u[i])
    BY <2>1, <2>3
  <2> HIDE DEF f, g
  <2>7. Seen(p) \in W
    BY <1>0
  <2>8. /\ Append(f, Seen(p)) \in Seq(W) /\ Len(Append(f, Seen(p))) = n + 1
        /\ (\A i \in 1..n : Append(f, Seen(p))[i] = f[i]) /\ Append(f, Seen(p))[n + 1] = Seen(p)
    BY <2>5, <2>7, AppendProperties
  <2>9. g = Append(f, Seen(p))
    <3>1. ASSUME NEW i \in 1..(n + 1) PROVE g[i] = Append(f, Seen(p))[i]
      <4>1. CASE i \in 1..n
        BY <2>2, <2>6, <2>8, <4>1
      <4>2. CASE i = n + 1
        BY <2>2, <2>6, <2>8, <4>2
      <4>3. i \in 1..n \/ i = n + 1
        BY <2>1
      <4> QED
        BY <4>1, <4>2, <4>3
    <3> QED
      BY <2>5, <2>8, <3>1, SeqEqual
  <2>10. FlattenSeq(g) = FlattenSeq(f) \o Seen(p)
    BY <2>5, <2>7, <2>9, FlattenStep DEF W
  <2>11. FlattenSeq(u) = FlattenSeq(q) \o p /\ FlattenSeq(q) \in V
    BY FlattenStep DEF u, V
  <2>12. Seen(FlattenSeq(q) \o p) = Seen(FlattenSeq(q)) \o Seen(p)
    BY <2>11, SeenJoined DEF V
  <2>13. Seen(FlattenSeq(q)) = FlattenSeq(f)
    BY <1>2 DEF f
  <2>14. Seen(FlattenSeq(u)) = FlattenSeq(g)
    BY <2>10, <2>11, <2>12, <2>13
  <2> QED
    BY <2>2, <2>14 DEF u, g
<1> HIDE DEF T
<1>3. cc \in T
  BY <1>1, <1>2, EverySequence
<1> QED
  BY <1>3 DEF T
-----------------------------------------------------------------------------
(* What the walk finds.                                                       *)

\* Hiding the commands of a node hides each, or none.
LEMMA HideAllIs ==
    ASSUME NEW p \in Seq(CommandRecords), NEW h \in BOOLEAN
    PROVE  /\ HideAll(p, h) \in Seq(CommandRecords) /\ Len(HideAll(p, h)) = Len(p)
           /\ h = FALSE => HideAll(p, h) = p
           /\ h = TRUE => \A i \in 1..Len(p) : HideAll(p, h)[i].hidden
           /\ \A i \in 1..Len(p) : HideAll(p, h)[i].words = p[i].words
<1> DEFINE n == Len(p)
           q == HideAll(p, h)
<1>1. /\ n \in Nat /\ DOMAIN p = 1..n
      /\ \A i \in 1..n : p[i] \in CommandRecords
  BY LenProperties, ElementOfSeq
<1>2. q = [i \in 1..n |-> [p[i] EXCEPT !.hidden = p[i].hidden \/ h]]
  BY <1>1 DEF HideAll
<1>3. ASSUME NEW i \in 1..n
      PROVE  /\ q[i] \in CommandRecords /\ q[i].words = p[i].words
             /\ q[i].hidden = (p[i].hidden \/ h) /\ (h = FALSE => q[i] = p[i])
  <2>1. p[i] \in CommandRecords /\ q[i] = [p[i] EXCEPT !.hidden = p[i].hidden \/ h]
    BY <1>1, <1>2
  <2> HIDE DEF q, n
  <2> QED
    BY <2>1 DEF CommandRecords
<1> HIDE DEF q
<1>4. q \in [1..n -> CommandRecords]
  BY <1>2, <1>3
<1>5. q \in Seq(CommandRecords) /\ Len(q) = n
  BY <1>1, <1>4
<1>6. h = FALSE => q = p
  BY <1>3, <1>5, SeqEqual
<1> QED
  BY <1>3, <1>5, <1>6 DEF q

\* Nothing is seen of commands that are all hidden.
LEMMA HiddenUnseen ==
    ASSUME NEW p \in Seq(CommandRecords), \A i \in 1..Len(p) : p[i].hidden
    PROVE  Seen(p) = <<>>
<1> DEFINE V == CommandRecords
           T == {q \in Seq(V) : (\A i \in 1..Len(q) : q[i].hidden) => Seen(q) = <<>>}
<1> HIDE DEF V
<1>1. <<>> \in T
  BY EmptySeq, SeenNone
<1>2. ASSUME NEW q \in Seq(V), NEW c \in V, q \in T PROVE Append(q, c) \in T
  <2> DEFINE u == Append(q, c)
             n == Len(q)
  <2>1. /\ u \in Seq(V) /\ Len(u) = n + 1 /\ (\A i \in 1..n : u[i] = q[i])
        /\ u[n + 1] = c /\ n \in Nat
    BY AppendProperties, LenProperties
  <2>2. Seen(u) = Seen(q) \o SeenPart(c)
    BY SeenStep DEF V
  <2>3. ASSUME \A i \in 1..Len(u) : u[i].hidden PROVE Seen(u) = <<>>
    <3>1. c.hidden /\ \A i \in 1..n : q[i].hidden
      <4>1. n + 1 \in 1..(n + 1) /\ \A i \in 1..n : i \in 1..(n + 1)
        BY <2>1
      <4> HIDE DEF u, n
      <4> QED
        BY <2>1, <2>3, <4>1
    <3>2. Seen(q) = <<>> /\ SeenPart(c) = <<>>
      BY <1>2, <3>1 DEF SeenPart
    <3> QED
      BY <2>2, <3>2
  <2> QED
    BY <2>1, <2>3
<1> HIDE DEF T
<1>3. p \in T
  BY <1>1, <1>2, EverySequence DEF V
<1> QED
  BY <1>3 DEF T

\* Nothing, joined to nothing, is nothing.
LEMMA FlattenNothing ==
    ASSUME NEW S, NEW ss \in Seq(Seq(S)), \A i \in DOMAIN ss : ss[i] = <<>>
    PROVE  FlattenSeq(ss) = <<>>
<1>1. ToSet(FlattenSeq(ss)) = {}
  <2>1. ToSet(<<>>) = {}
    BY DEF ToSet
  <2> QED
    BY <2>1, FlattenHas
<1>2. FlattenSeq(ss) \in Seq(S)
  BY FlattenType
<1> DEFINE f == FlattenSeq(ss)
<1> HIDE DEF f
<1>3. Len(f) \in Nat /\ DOMAIN f = 1..Len(f)
  BY <1>2, LenProperties DEF f
<1>4. DOMAIN f = {}
  BY <1>1 DEF ToSet, f
<1>5. Len(f) = 0
  BY <1>3, <1>4
<1> QED
  BY <1>2, <1>5, EmptySeq DEF f

\* The commands below a node, each hidden if the node hides it.
Below(node) == [i \in DOMAIN node.kids |-> HideAll(AllCommands[node.kids[i]], Hides(node, node.kids[i]))]

\* A node is found right: its commands are some, and its segments are those that are seen.
FoundRight(node) ==
    /\ AllCommands[node] \in Seq(CommandRecords) /\ AllCommands[node] # <<>>
    /\ Segments[node] = Seen(AllCommands[node])

LEMMA HidesOrNot == \A node, kid : Hides(node, kid) \in BOOLEAN
BY DEF Hides

LEMMA BelowType ==
    ASSUME NEW node \in Nodes, \A i \in DOMAIN node.kids : FoundRight(node.kids[i])
    PROVE  /\ Below(node) \in Seq(Seq(CommandRecords)) /\ Len(Below(node)) = Len(node.kids)
           /\ \A i \in DOMAIN node.kids : Below(node)[i] # <<>>
           /\ \A i \in DOMAIN node.kids :
                 Seen(Below(node)[i]) = IF Hides(node, node.kids[i]) THEN <<>> ELSE Segments[node.kids[i]]
<1> DEFINE kids == node.kids
           n == Len(kids)
           b == Below(node)
           V == Seq(CommandRecords)
<1>1. n \in Nat /\ DOMAIN kids = 1..n
  BY NodesAre, LenProperties
<1>2. ASSUME NEW i \in 1..n
      PROVE  /\ b[i] \in V /\ b[i] # <<>>
             /\ Seen(b[i]) = IF Hides(node, kids[i]) THEN <<>> ELSE Segments[kids[i]]
  <2> DEFINE p == AllCommands[kids[i]]
             h == Hides(node, kids[i])
  <2>1. p \in Seq(CommandRecords) /\ p # <<>> /\ Segments[kids[i]] = Seen(p)
    BY <1>1 DEF FoundRight
  <2>2. b[i] = HideAll(p, h) /\ h \in BOOLEAN
    BY <1>1, HidesOrNot DEF Below
  <2> HIDE DEF p, h, b
  <2>3. /\ HideAll(p, h) \in Seq(CommandRecords) /\ Len(HideAll(p, h)) = Len(p)
        /\ h = FALSE => HideAll(p, h) = p
        /\ h = TRUE => \A j \in 1..Len(p) : HideAll(p, h)[j].hidden
    BY <2>1, <2>2, HideAllIs
  <2>4. HideAll(p, h) # <<>>
    <3>1. Len(p) # 0
      BY <2>1, EmptySeq
    <3> QED
      BY <2>3, <3>1, EmptySeq
  <2>5. h = TRUE => Seen(HideAll(p, h)) = <<>>
    BY <2>3, HiddenUnseen
  <2> QED
    BY <2>1, <2>2, <2>3, <2>4, <2>5 DEF h
<1>3. b = [i \in 1..n |-> HideAll(AllCommands[kids[i]], Hides(node, kids[i]))]
  BY <1>1 DEF Below
<1> HIDE DEF b, V, n
<1>4. b \in [1..n -> V]
  BY <1>2, <1>3
<1>5. b \in Seq(V) /\ Len(b) = n
  BY <1>1, <1>4
<1> QED
  BY <1>1, <1>2, <1>5 DEF b, V, n

\* The cases of the walk, one by one.
LEMMA CollectCases ==
    ASSUME NEW node, NEW f
    PROVE  /\ node.kind = "command" => CollectSegments(node, f) = <<Tokens(node)>>
           /\ node.kind = "redirected_statement"
                => CollectSegments(node, f) = FlattenSeq([i \in DOMAIN node.kids |->
                       IF node.kids[i].kind \in Redirectable THEN f[node.kids[i]] ELSE <<>>])
           /\ node.kind = "negated_command"
                => CollectSegments(node, f) = FlattenSeq([i \in DOMAIN node.kids |->
                       IF node.kids[i].kind = "command" THEN <<Tokens(node.kids[i])>> ELSE <<>>])
           /\ node.kind \in Entered
                => CollectSegments(node, f) = FlattenSeq([i \in DOMAIN node.kids |-> f[node.kids[i]]])
<1> DEFINE a == <<Tokens(node)>>
           b == FlattenSeq([i \in DOMAIN node.kids |->
                       IF node.kids[i].kind \in Redirectable THEN f[node.kids[i]] ELSE <<>>])
           c == FlattenSeq([i \in DOMAIN node.kids |->
                       IF node.kids[i].kind = "command" THEN <<Tokens(node.kids[i])>> ELSE <<>>])
           d == FlattenSeq([i \in DOMAIN node.kids |-> f[node.kids[i]]])
           k == node.kind
<1>1. CollectSegments(node, f) =
         CASE k = "command" -> a [] k = "redirected_statement" -> b [] k = "negated_command" -> c
           [] k \in Entered -> d [] OTHER -> <<>>
  BY DEF CollectSegments
<1> HIDE DEF a, b, c, d, k
<1>2. /\ k = "command" => CollectSegments(node, f) = a
      /\ k = "redirected_statement" => CollectSegments(node, f) = b
      /\ k = "negated_command" => CollectSegments(node, f) = c
      /\ k \in Entered => CollectSegments(node, f) = d
  BY <1>1 DEF Entered
<1> QED
  BY <1>2 DEF a, b, c, d, k

\* The segments of a node's children, as the walk goes: nothing of what the node hides.
LEMMA WalkSkips ==
    ASSUME NEW node \in Nodes, node.kind # "command", \A i \in DOMAIN node.kids : FoundRight(node.kids[i])
    PROVE  Segments[node] = FlattenSeq([i \in DOMAIN node.kids |->
                                IF Hides(node, node.kids[i]) THEN <<>> ELSE Segments[node.kids[i]]])
<1> DEFINE kids == node.kids
           shown == [i \in DOMAIN kids |-> IF Hides(node, kids[i]) THEN <<>> ELSE Segments[kids[i]]]
<1>1. Segments[node] = CollectSegments(node, Segments)
  BY SegmentsAre
<1>2. CASE node.kind = "redirected_statement"
  <2> DEFINE some == [i \in DOMAIN kids |-> IF kids[i].kind \in Redirectable THEN Segments[kids[i]] ELSE <<>>]
  <2>1. shown = some
    BY <1>2 DEF Hides
  <2>2. CollectSegments(node, Segments) = FlattenSeq(some)
    BY <1>2, CollectCases
  <2> QED
    BY <1>1, <2>1, <2>2
<1>3. CASE node.kind = "negated_command"
  <2>1. \A i \in DOMAIN kids : kids[i].kind = "command" => Segments[kids[i]] = <<Tokens(kids[i])>>
    <3>1. \A i \in DOMAIN kids : kids[i] \in Nodes
      BY NodesAre, ElementOfSeq, LenProperties
    <3> QED
      BY <3>1, SegmentsAre, CollectCases
  <2> DEFINE some == [i \in DOMAIN kids |-> IF kids[i].kind = "command" THEN <<Tokens(kids[i])>> ELSE <<>>]
  <2>2. shown = some
    BY <1>3, <2>1 DEF Hides
  <2>3. CollectSegments(node, Segments) = FlattenSeq(some)
    BY <1>3, CollectCases
  <2> QED
    BY <1>1, <2>2, <2>3
<1>4. CASE node.kind \in Entered
  <2>1. shown = [i \in DOMAIN kids |-> Segments[kids[i]]]
    BY <1>4 DEF Hides, Entered
  <2>2. CollectSegments(node, Segments) = FlattenSeq([i \in DOMAIN kids |-> Segments[kids[i]]])
    BY <1>4, CollectCases
  <2> QED
    BY <1>1, <2>1, <2>2
<1>5. CASE node.kind \notin Entered \cup {"redirected_statement", "negated_command"}
  <2>1. CollectSegments(node, Segments) = <<>>
    BY <1>5 DEF CollectSegments
  <2>2. \A i \in DOMAIN kids : shown[i] = <<>>
    BY <1>5 DEF Hides
  <2>3. shown \in Seq(Seq(CommandWords))
    <3>1. Len(kids) \in Nat /\ DOMAIN kids = 1..Len(kids) /\ <<>> \in Seq(CommandWords)
      BY NodesAre, LenProperties
    <3> DEFINE V == Seq(CommandWords)
               n == Len(kids)
               f == shown
    <3>3. f = [i \in 1..n |-> f[i]] /\ \A i \in 1..n : f[i] = <<>>
      BY <2>2, <3>1
    <3> HIDE DEF V, n, f
    <3>2. f \in [1..n -> V] /\ n \in Nat
      BY <3>1, <3>3 DEF V, n
    <3>4. f \in Seq(V)
      BY <3>2
    <3> QED
      BY <3>4 DEF V, f
  <2>4. FlattenSeq(shown) = <<>>
    <3>1. DOMAIN shown = DOMAIN kids
      OBVIOUS
    <3> HIDE DEF shown
    <3> QED
      BY <2>2, <2>3, <3>1, FlattenNothing
  <2> QED
    BY <1>1, <2>1, <2>4
<1> QED
  BY <1>2, <1>3, <1>4, <1>5

\* What is seen of a node's commands is what is seen of it and of its children.
LEMMA SeenBelow ==
    ASSUME NEW node \in Nodes, \A i \in DOMAIN node.kids : FoundRight(node.kids[i])
    PROVE  FoundRight(node)
<1> DEFINE kids == node.kids
           n == Len(kids)
           b == Below(node)
           own == IF node.kind = "command" THEN <<[words |-> node.words, hidden |-> FALSE]>> ELSE <<>>
           shown == [i \in DOMAIN kids |-> IF Hides(node, kids[i]) THEN <<>> ELSE Segments[kids[i]]]
<1>1. AllCommands[node] = own \o FlattenSeq(b)
  BY AllCommandsAre DEF CommandsOf, Below
<1>2. own \in Seq(CommandRecords) /\ Seen(own) = IF node.kind = "command" THEN <<node.words>> ELSE <<>>
  <2>1. CASE node.kind # "command"
    <3>1. own = <<>>
      BY <2>1
    <3> QED
      BY <2>1, <3>1, EmptySeq, SeenNone
  <2>2. CASE node.kind = "command"
    <3> DEFINE c == [words |-> node.words, hidden |-> FALSE]
    <3>1. c \in CommandRecords
      BY <2>2, NodesAre DEF CommandRecords, CommandWords
    <3>2. own = <<c>> /\ SeenPart(c) = <<node.words>> /\ SeenPart(c) \in Seq(CommandWords)
      BY <2>2, <3>1, SeenParts DEF SeenPart
    <3> HIDE DEF c, own
    <3>3. own = Append(<<>>, c) /\ <<>> \in Seq(CommandRecords) /\ own \in Seq(CommandRecords)
      BY <3>1, <3>2, EmptySeq
    <3>4. Seen(own) = <<>> \o SeenPart(c)
      BY <3>1, <3>3, SeenStep, SeenNone
    <3>5. <<>> \o SeenPart(c) = SeenPart(c)
      BY <3>2, ConcatEmptySeq
    <3> QED
      BY <2>2, <3>2, <3>3, <3>4, <3>5
  <2> QED
    BY <2>1, <2>2
<1>3. /\ b \in Seq(Seq(CommandRecords)) /\ Len(b) = n /\ DOMAIN b = 1..n /\ DOMAIN kids = 1..n
      /\ n \in Nat /\ \A i \in 1..n : b[i] # <<>> /\ Seen(b[i]) = shown[i]
  <2>1. n \in Nat /\ DOMAIN kids = 1..n
    BY NodesAre, LenProperties
  <2>2. b \in Seq(Seq(CommandRecords)) /\ Len(b) = n
    BY BelowType
  <2>3. DOMAIN b = 1..n
    BY <2>2, LenProperties
  <2>4. \A i \in DOMAIN kids :
           /\ b[i] # <<>>
           /\ Seen(b[i]) = IF Hides(node, kids[i]) THEN <<>> ELSE Segments[kids[i]]
    BY BelowType
  <2> QED
    BY <2>1, <2>2, <2>3, <2>4
<1> HIDE DEF own, b
<1>4. FlattenSeq(b) \in Seq(CommandRecords) /\ Seen(FlattenSeq(b)) = FlattenSeq(shown)
  <2>1. Seen(FlattenSeq(b)) = FlattenSeq([i \in DOMAIN b |-> Seen(b[i])])
    BY <1>3, SeenFlattened
  <2>2. [i \in DOMAIN b |-> Seen(b[i])] = shown
    BY <1>3
  <2> QED
    BY <1>3, <2>1, <2>2, FlattenType
<1>5. AllCommands[node] \in Seq(CommandRecords) /\ Seen(AllCommands[node]) = Seen(own) \o FlattenSeq(shown)
  <2>1. own \o FlattenSeq(b) \in Seq(CommandRecords)
    BY <1>2, <1>4, ConcatProperties
  <2>2. Seen(own \o FlattenSeq(b)) = Seen(own) \o Seen(FlattenSeq(b))
    BY <1>2, <1>4, SeenJoined
  <2> QED
    BY <1>1, <1>4, <2>1, <2>2
<1> HIDE DEF shown
<1>6. FlattenSeq(shown) \in Seq(CommandWords)
  BY <1>4, SeenType
<1>7. Segments[node] = Seen(AllCommands[node])
  <2>1. CASE node.kind = "command"
    <3>1. Segments[node] = <<node.words>>
      BY <2>1, SegmentsAre, CollectCases DEF Tokens
    <3>2. FlattenSeq(shown) = <<>>
      <4>1. \A i \in DOMAIN b : \A j \in 1..Len(b[i]) : b[i][j].hidden
        <5> SUFFICES ASSUME NEW i \in 1..n PROVE \A j \in 1..Len(b[i]) : b[i][j].hidden
          BY <1>3
        <5>1. b[i] = HideAll(AllCommands[kids[i]], TRUE)
          BY <1>3, <2>1 DEF b, Below, Hides, Entered
        <5>2. AllCommands[kids[i]] \in Seq(CommandRecords)
          BY <1>3 DEF FoundRight
        <5> QED
          BY <5>1, <5>2, HideAllIs
      <4>2. \A i \in 1..Len(FlattenSeq(b)) : FlattenSeq(b)[i].hidden
        <5> DEFINE f == FlattenSeq(b)
        <5>1. f \in Seq(CommandRecords) /\ ToSet(f) = UNION {ToSet(b[i]) : i \in DOMAIN b}
          BY <1>3, <1>4, FlattenHas
        <5>2. \A i \in DOMAIN b : DOMAIN b[i] = 1..Len(b[i])
          BY <1>3, ElementOfSeq, LenProperties
        <5> HIDE DEF f
        <5>3. DOMAIN f = 1..Len(f)
          BY <5>1, LenProperties
        <5>4. ASSUME NEW c \in ToSet(f) PROVE c.hidden
          <6>1. PICK i \in DOMAIN b : c \in ToSet(b[i])
            BY <5>1
          <6>2. PICK j \in 1..Len(b[i]) : c = b[i][j]
            BY <5>2, <6>1 DEF ToSet
          <6> QED
            BY <4>1, <6>2
        <5>5. \A i \in 1..Len(f) : f[i] \in ToSet(f)
          BY <5>3 DEF ToSet
        <5> QED
          BY <5>4, <5>5 DEF f
      <4> QED
        BY <1>4, <4>2, HiddenUnseen
    <3>3. <<node.words>> \o <<>> = <<node.words>>
      BY <1>2, <2>1, SeenType, ConcatEmptySeq
    <3> QED
      BY <1>2, <1>5, <2>1, <3>1, <3>2, <3>3
  <2>2. CASE node.kind # "command"
    <3>1. Segments[node] = FlattenSeq(shown)
      BY <2>2, WalkSkips DEF shown
    <3>2. <<>> \o FlattenSeq(shown) = FlattenSeq(shown)
      BY <1>6, ConcatEmptySeq
    <3> QED
      BY <1>2, <1>5, <2>2, <3>1, <3>2
  <2> QED
    BY <2>1, <2>2
<1>8. AllCommands[node] # <<>>
  <2>1. CASE node.kind = "command"
    <3>1. Len(own) = 1 /\ Len(FlattenSeq(b)) \in Nat
      BY <1>4, <2>1, LenProperties DEF own
    <3>2. Len(own \o FlattenSeq(b)) = 1 + Len(FlattenSeq(b))
      BY <1>2, <1>4, <3>1, ConcatProperties
    <3>3. Len(own \o FlattenSeq(b)) # 0
      BY <3>1, <3>2
    <3> QED
      BY <1>1, <3>3
  <2>2. CASE node.kind # "command"
    <3>1. n # 0 /\ own = <<>>
      BY <2>2, NodesAre, EmptySeq DEF own
    <3>2. b[1] # <<>> /\ b[1] \in Seq(CommandRecords) /\ 1 \in DOMAIN b
      BY <1>3, <3>1, ElementOfSeq
    <3>3. ToSet(b[1]) # {}
      <4>1. Len(b[1]) # 0 /\ Len(b[1]) \in Nat /\ DOMAIN b[1] = 1..Len(b[1])
        BY <3>2, EmptySeq, LenProperties
      <4>2. 1 \in DOMAIN b[1]
        BY <4>1
      <4> QED
        BY <4>2 DEF ToSet
    <3>4. ToSet(FlattenSeq(b)) # {}
      <4>1. ToSet(FlattenSeq(b)) = UNION {ToSet(b[i]) : i \in DOMAIN b}
        BY <1>3, FlattenHas
      <4>2. PICK c : c \in ToSet(b[1])
        BY <3>3
      <4>3. c \in UNION {ToSet(b[i]) : i \in DOMAIN b}
        BY <3>2, <4>2
      <4> QED
        BY <4>1, <4>3
    <3>5. FlattenSeq(b) # <<>>
      <4>1. ToSet(<<>>) = {}
        BY DEF ToSet
      <4> QED
        BY <3>4, <4>1
    <3>6. <<>> \o FlattenSeq(b) = FlattenSeq(b)
      BY <1>4, ConcatEmptySeq
    <3> QED
      BY <1>1, <3>1, <3>5, <3>6
  <2> QED
    BY <2>1, <2>2
<1> QED
  BY <1>5, <1>7, <1>8 DEF FoundRight

\* collect_segments on any tree, of whatever constructs in one another: it yields the words of
\* the commands that no construct hides, in the order of the text.
THEOREM AllFoundRight == \A node \in Nodes : FoundRight(node)
<1> DEFINE T == {node \in Nodes : FoundRight(node)}
<1>1. \A node \in Nodes : (\A i \in DOMAIN node.kids : node.kids[i] \in T) => node \in T
  BY SeenBelow
<1> HIDE DEF T
<1>2. \A node \in Nodes : node \in T
  BY <1>1, EveryNode
<1> QED
  BY <1>2 DEF T
-----------------------------------------------------------------------------
(* The invariant: what is written is trees.                                   *)

Grown == script \in Seq(Nodes)

LEMMA CardInvariant == CardSpec => []Grown
<1>1. CardInit => Grown
  BY EmptySeq DEF CardInit, Grown
<1>2. ASSUME Grown, [CardNext]_cardVars PROVE Grown'
  BY <1>2 DEF Grown, CardNext, cardVars, Ask, Write, Begin, Word, Enclose, WithinBounds
<1> QED
  BY <1>1, <1>2, PTL DEF CardSpec

LEMMA WrittenIs ==
    ASSUME NEW s \in Seq(Nodes)
    PROVE  /\ Written(s) \in Seq(CommandRecords)
           /\ FlattenSeq([i \in DOMAIN s |-> Segments[s[i]]]) = Seen(Written(s))
<1> DEFINE n == Len(s)
           V == Seq(CommandRecords)
           all == [i \in DOMAIN s |-> AllCommands[s[i]]]
<1>1. n \in Nat /\ DOMAIN s = 1..n /\ \A i \in 1..n : FoundRight(s[i])
  BY AllFoundRight, LenProperties, ElementOfSeq
<1>2. all \in Seq(V) /\ DOMAIN all = 1..n
  <2>1. \A i \in 1..n : AllCommands[s[i]] \in V
    BY <1>1 DEF FoundRight
  <2> HIDE DEF V, n
  <2>2. all \in [1..n -> V]
    BY <1>1, <2>1
  <2> QED
    BY <1>1, <2>2
<1>3. Seen(FlattenSeq(all)) = FlattenSeq([i \in DOMAIN all |-> Seen(all[i])])
  BY <1>2, SeenFlattened
<1>4. [i \in DOMAIN all |-> Seen(all[i])] = [i \in DOMAIN s |-> Segments[s[i]]]
  BY <1>1, <1>2 DEF FoundRight
<1>5. FlattenSeq(all) \in V
  BY <1>2, FlattenType
<1> QED
  BY <1>3, <1>4, <1>5 DEF Written

\* What the walk (collect_segments) finds are the commands that stand outside the
\* constructs it does not enter, each once and in the order of the text, however
\* deep and in whatever mixture of constructs they are written.
THEOREM CommandsAreFoundInOrder == CardSpec => []SegmentsInOrder
<1>1. Grown => SegmentsInOrder
  BY WrittenIs DEF Grown, SegmentsInOrder, ParseToSegments
<1> QED
  BY <1>1, CardInvariant, PTL

\* The copies of assess_risk_level, build_action, build_diff and extract_questions in
\* hook_server.rs and pipe_server.rs give any call the same risk, diff and questions, and
\* an action that differs only in its words for a field that the call lacks.
THEOREM CardsAgree == CardSpec => []TransportsAgree
<1>1. ASSUME NEW c
      PROVE  /\ Http(c).risk = Pipe(c).risk
             /\ Http(c).diff = Pipe(c).diff
             /\ Http(c).questions = Pipe(c).questions
  BY DEF Http, Pipe, HttpRisk, PipeRisk, HttpDiff, PipeDiff, HttpQuestions, PipeQuestions
<1>2. ASSUME NEW c
      PROVE  /\ Http(c).action[1] = Pipe(c).action[1]
             /\ NamesNothing(c) \/ Http(c).action = Pipe(c).action
  <2> DEFINE tool == c.tool
             input == c.input
  <2>1. Http(c).action = HttpAction(tool, input) /\ Pipe(c).action = PipeAction(tool, input)
    BY DEF Http, Pipe
  <2> HIDE DEF tool, input
  <2>2. CASE tool = "Bash"
    <3>1. HttpAction(tool, input)[1] = PipeAction(tool, input)[1]
      BY <2>2 DEF HttpAction, PipeAction
    <3>2. HttpAction(tool, input) = PipeAction(tool, input)
      BY <2>2 DEF HttpAction, PipeAction, Or
    <3> QED
      BY <3>1, <3>2, <2>1, <2>2 DEF NamesNothing, tool, input
  <2>3. CASE tool = "Read"
    <3>1. HttpAction(tool, input)[1] = PipeAction(tool, input)[1]
      BY <2>3 DEF HttpAction, PipeAction
    <3>2. input.path = Absent \/ HttpAction(tool, input) = PipeAction(tool, input)
      BY <2>3 DEF HttpAction, PipeAction, Or
    <3> QED
      BY <3>1, <3>2, <2>1, <2>3 DEF NamesNothing, tool, input
  <2>4. CASE tool = "Write"
    <3>1. HttpAction(tool, input)[1] = PipeAction(tool, input)[1]
      BY <2>4 DEF HttpAction, PipeAction
    <3>2. input.path = Absent \/ HttpAction(tool, input) = PipeAction(tool, input)
      BY <2>4 DEF HttpAction, PipeAction, Or
    <3> QED
      BY <3>1, <3>2, <2>1, <2>4 DEF NamesNothing, tool, input
  <2>5. CASE tool = "Edit"
    <3>1. HttpAction(tool, input)[1] = PipeAction(tool, input)[1]
      BY <2>5 DEF HttpAction, PipeAction
    <3>2. input.path = Absent \/ HttpAction(tool, input) = PipeAction(tool, input)
      BY <2>5 DEF HttpAction, PipeAction, Or
    <3> QED
      BY <3>1, <3>2, <2>1, <2>5 DEF NamesNothing, tool, input
  <2>6. CASE tool = "Glob"
    <3>1. HttpAction(tool, input)[1] = PipeAction(tool, input)[1]
      BY <2>6 DEF HttpAction, PipeAction
    <3>2. input.pattern = Absent \/ HttpAction(tool, input) = PipeAction(tool, input)
      BY <2>6 DEF HttpAction, PipeAction, Or
    <3> QED
      BY <3>1, <3>2, <2>1, <2>6 DEF NamesNothing, tool, input
  <2>7. CASE tool = "Grep"
    <3>1. HttpAction(tool, input)[1] = PipeAction(tool, input)[1]
      BY <2>7 DEF HttpAction, PipeAction
    <3>2. input.pattern = Absent \/ HttpAction(tool, input) = PipeAction(tool, input)
      BY <2>7 DEF HttpAction, PipeAction, Or
    <3> QED
      BY <3>1, <3>2, <2>1, <2>7 DEF NamesNothing, tool, input
  <2>8. CASE tool \notin {"Bash", "Read", "Write", "Edit", "Glob", "Grep"}
    <3>1. /\ ~(tool = "Bash") /\ ~(tool = "Read") /\ ~(tool = "Write")
          /\ ~(tool = "Edit") /\ ~(tool = "Glob") /\ ~(tool = "Grep")
      BY <2>8
    <3>2. HttpAction(tool, input) = <<"Execute tool", tool>>
      BY <3>1, ZenonT(20) DEF HttpAction
    <3>3. PipeAction(tool, input) = <<"Execute tool", tool>>
      BY <3>1, ZenonT(20) DEF PipeAction
    <3>4. HttpAction(tool, input) = PipeAction(tool, input)
      BY <3>2, <3>3, Zenon
    <3> QED
      BY <3>4, <2>1, Zenon DEF tool, input
  <2> QED
    BY <2>2, <2>3, <2>4, <2>5, <2>6, <2>7, <2>8
<1>3. TransportsAgree
  BY <1>1, <1>2 DEF TransportsAgree
<1> QED
  BY <1>3, PTL
-----------------------------------------------------------------------------
(* The commands of the analysis.                                              *)

\* The segments are words of a command each.
LEMMA SegmentsType ==
    ASSUME NEW s \in Seq(Nodes)
    PROVE  \E n \in Nat : DOMAIN ParseToSegments(s) = 1..n
<1>1. CASE FlattenSeq([i \in DOMAIN s |-> Segments[s[i]]]) # <<>>
  <2>1. ParseToSegments(s) = Seen(Written(s))
    BY <1>1, WrittenIs DEF ParseToSegments
  <2>2. ParseToSegments(s) \in Seq(CommandWords)
    BY <2>1, WrittenIs, SeenType
  <2> QED
    BY <2>2, LenProperties
<1>2. CASE FlattenSeq([i \in DOMAIN s |-> Segments[s[i]]]) = <<>> /\ s = <<>>
  <2>1. ParseToSegments(s) = <<>>
    BY <1>2 DEF ParseToSegments, FallbackShlex
  <2>2. DOMAIN <<>> = 1..0
    OBVIOUS
  <2> QED
    BY <2>1, <2>2
<1>3. CASE FlattenSeq([i \in DOMAIN s |-> Segments[s[i]]]) = <<>> /\ s # <<>>
  <2> DEFINE w == <<s[1].kind>> \o FlattenSeq(Each(Tokens, Written(s)))
  <2>1. ParseToSegments(s) = <<w>>
    BY <1>3 DEF ParseToSegments, FallbackShlex
  <2> HIDE DEF w
  <2>2. DOMAIN <<w>> = 1..1
    OBVIOUS
  <2> QED
    BY <2>1, <2>2
<1> QED
  BY <1>1, <1>2, <1>3

\* The command that a segment is.
Parsed(words) == ParseSegment(<<Head(words)>> \o ExpandKnownFlags(Head(words), Tail(words)))

\* The commands of the analysis are its segments without their sudo, as they are explained.
LEMMA AnalyzedIs ==
    ASSUME NEW s \in Seq(Nodes)
    PROVE  LET segments == ParseToSegments(s)
           IN  ToSet(AnalyzeCommand(s).commands) =
                  {Parsed(StripSudo(segments[i])) : i \in {j \in DOMAIN segments : StripSudo(segments[j]) # <<>>}}
<1> DEFINE segments == ParseToSegments(s)
           D == DOMAIN segments
           S == {Parsed(StripSudo(segments[i])) : i \in D}
           each == [i \in D |-> ParseBare(StripSudo(segments[i]))]
<1>1. AnalyzeCommand(s).commands = FlattenSeq(each)
  BY DEF AnalyzeCommand
<1>2. PICK n \in Nat : D = 1..n
  BY SegmentsType
<1>3. \A i \in D : each[i] = IF StripSudo(segments[i]) = <<>> THEN <<>> ELSE <<Parsed(StripSudo(segments[i]))>>
  BY DEF ParseBare, Parsed
<1> HIDE DEF segments, D
<1>4. \A i \in D : each[i] \in Seq(S) /\ ToSet(each[i]) = IF StripSudo(segments[i]) = <<>> THEN {} ELSE {Parsed(StripSudo(segments[i]))}
  <2> SUFFICES ASSUME NEW i \in D
               PROVE  each[i] \in Seq(S) /\ ToSet(each[i]) = IF StripSudo(segments[i]) = <<>> THEN {} ELSE {Parsed(StripSudo(segments[i]))}
    OBVIOUS
  <2> DEFINE p == Parsed(StripSudo(segments[i]))
  <2>1. p \in S
    OBVIOUS
  <2>2. each[i] = IF StripSudo(segments[i]) = <<>> THEN <<>> ELSE <<p>>
    BY <1>3
  <2> HIDE DEF p, S, each
  <2>3. <<p>> \in Seq(S) /\ <<>> \in Seq(S)
    BY <2>1
  <2>4. ToSet(<<p>>) = {p} /\ ToSet(<<>>) = {}
    BY DEF ToSet
  <2> QED
    BY <2>2, <2>3, <2>4 DEF p
<1> DEFINE V == Seq(S)
<1>5. each \in Seq(V)
  <2>1. \A i \in 1..n : each[i] \in V
    BY <1>2, <1>4
  <2>2. each = [i \in 1..n |-> each[i]]
    BY <1>2
  <2> HIDE DEF V, each
  <2>3. each \in [1..n -> V]
    BY <2>1, <2>2
  <2> QED
    BY <2>3
<1>6. DOMAIN each = D
  OBVIOUS
<1> HIDE DEF each, S
<1>7. ToSet(FlattenSeq(each)) = UNION {ToSet(each[i]) : i \in D}
  BY <1>5, <1>6, FlattenHas DEF V
<1>8. UNION {ToSet(each[i]) : i \in D} = {Parsed(StripSudo(segments[i])) : i \in {j \in D : StripSudo(segments[j]) # <<>>}}
  BY <1>4
<1> QED
  BY <1>1, <1>7, <1>8 DEF segments, D

LEMMA HighestIs ==
    ASSUME NEW levels, levels \subseteq 0..3
    PROVE  /\ Highest(levels) \in levels \cup {0} /\ Highest(levels) \in 0..3
           /\ \A l \in levels : l <= Highest(levels)
<1>1. \E m \in levels \cup {0} : \A l \in levels : l <= m
  <2>1. CASE 3 \in levels
    BY <2>1
  <2>2. CASE 3 \notin levels /\ 2 \in levels
    BY <2>2
  <2>3. CASE 3 \notin levels /\ 2 \notin levels /\ 1 \in levels
    BY <2>3
  <2>4. CASE 3 \notin levels /\ 2 \notin levels /\ 1 \notin levels
    BY <2>4
  <2> QED
    BY <2>1, <2>2, <2>3, <2>4
<1>2. Highest(levels) \in levels \cup {0} /\ \A l \in levels : l <= Highest(levels)
  BY <1>1 DEF Highest, None
<1> DEFINE h == Highest(levels)
<1> HIDE DEF h
<1>3. h \in levels \cup {0} /\ \A l \in levels : l <= h
  BY <1>2 DEF h
<1>4. h \in 0..3
  BY <1>3
<1> QED
  BY <1>3, <1>4 DEF h

\* A parsed command: each argument is a word with its explanation.
LEMMA ParsedIs ==
    ASSUME NEW words
    PROVE  \E h, t : Parsed(words) = [command |-> h, args |-> [i \in DOMAIN t |-> ExplainArg(h, t[i])]]
BY DEF Parsed, ParseSegment, Each

\* The risks of rm go by its two options.
LEMMA RmRisksAre ==
    ASSUME NEW node, NEW risk \in RmRisks(node)
    PROVE  \/ risk.level = 3 /\ "-r" \in Texts(node)
           \/ risk.level = 2 /\ "-f" \in Texts(node)
<1> DEFINE r == "-r" \in Texts(node)
           f == "-f" \in Texts(node)
           what == IF Texts(node) \cap {"/", "*", "."} # {} THEN "rm -rf all" ELSE "rm -rf"
<1>1. RmRisks(node) =
        CASE r /\ f -> {Risk(High, what)} [] r /\ ~f -> {Risk(High, "rm -r")}
          [] ~r /\ f -> {Risk(Medium, "rm -f")} [] OTHER -> {}
  BY DEF RmRisks
<1>2. \A w : Risk(High, w).level = 3 /\ Risk(Medium, w).level = 2
  BY DEF Risk, High, Medium
<1> DEFINE hard == {Risk(High, what)}
           rec == {Risk(High, "rm -r")}
           soft == {Risk(Medium, "rm -f")}
<1>3. (\A x \in hard : x.level = 3) /\ (\A x \in rec : x.level = 3) /\ \A x \in soft : x.level = 2
  BY <1>2
<1> HIDE DEF hard, rec, soft
<1>4. /\ r /\ f => RmRisks(node) = hard
      /\ r /\ ~f => RmRisks(node) = rec
      /\ ~r /\ f => RmRisks(node) = soft
      /\ ~r /\ ~f => RmRisks(node) = {}
  BY <1>1 DEF hard, rec, soft
<1> HIDE DEF r, f
<1>5. r => risk.level = 3
  BY <1>3, <1>4
<1>6. ~r => f /\ risk.level = 2
  BY <1>3, <1>4
<1> QED
  BY <1>5, <1>6 DEF r, f

LEMMA MarksCover ==
    ASSUME NEW words
    PROVE  LET c == Parsed(words)
           IN  /\ {r.level : r \in DetectNodeRisks(c)} \subseteq 0..3
               /\ {c.args[i].mark : i \in DOMAIN c.args} \subseteq 0..3
               /\ \A r \in DetectNodeRisks(c) : \E i \in DOMAIN c.args : r.level <= c.args[i].mark
<1> DEFINE c == Parsed(words)
<1>1. PICK h, t : c = [command |-> h, args |-> [i \in DOMAIN t |-> ExplainArg(h, t[i])]]
  BY ParsedIs
<1> HIDE DEF c
<1> DEFINE D == DOMAIN t
           k == KnownWords(h)
<1>2. /\ c.command = h /\ DOMAIN c.args = D
      /\ \A i \in D : /\ c.args[i].text = t[i]
                       /\ c.args[i].mark = IF t[i] \in k.high THEN High ELSE IF t[i] \in k.medium THEN Medium
                                            ELSE IF t[i] \in k.low THEN Low ELSE None
  BY <1>1 DEF ExplainArg
<1>3. Texts(c) = {t[i] : i \in D}
  BY <1>2 DEF Texts
<1> HIDE DEF D, k
<1>4. \A i \in D : c.args[i].mark \in 0..3
  BY <1>2 DEF High, Medium, Low, None
<1>5. \A w \in Texts(c) \cap k.high : \E i \in D : c.args[i].mark = 3
  BY <1>2, <1>3 DEF High
<1>6. \A w \in Texts(c) \cap k.medium : \E i \in D : c.args[i].mark = 3 \/ c.args[i].mark = 2
  BY <1>2, <1>3 DEF High, Medium
<1>7. \A w \in Texts(c) \cap k.low : \E i \in D : c.args[i].mark = 3 \/ c.args[i].mark = 2 \/ c.args[i].mark = 1
  BY <1>2, <1>3 DEF High, Medium, Low
<1>8. \A r \in DetectNodeRisks(c) :
         \/ r.level = 3 /\ Texts(c) \cap k.high # {}
         \/ r.level = 2 /\ Texts(c) \cap (k.high \cup k.medium) # {}
         \/ r.level = 1 /\ Texts(c) \cap k.low # {}
  <2>1. CASE h = "rm"
    <3>1. DetectNodeRisks(c) = RmRisks(c)
      BY <1>2, <2>1 DEF DetectNodeRisks
    <3>2. k.high = {"-r", "/", "*", "."} /\ k.medium = {"-f"}
      BY <2>1 DEF k, KnownWords, RmWords, Known
    <3> DEFINE texts == Texts(c)
    <3>3. \A r \in RmRisks(c) :
             \/ r.level = 3 /\ "-r" \in texts
             \/ r.level = 2 /\ "-f" \in texts
      BY RmRisksAre
    <3> HIDE DEF texts
    <3>4. \A r \in DetectNodeRisks(c) :
             \/ r.level = 3 /\ texts \cap k.high # {}
             \/ r.level = 2 /\ texts \cap (k.high \cup k.medium) # {}
      BY <3>1, <3>2, <3>3
    <3> QED
      BY <3>4 DEF texts
  <2>2. CASE h = "git"
    BY <1>2, <2>2 DEF DetectNodeRisks, GitRisks, k, KnownWords, GitWords, Known, When, Risk, High, Medium, Low
  <2>3. CASE h = "chmod"
    BY <1>2, <2>3 DEF DetectNodeRisks, k, KnownWords, ChmodWords, Known, When, Risk, High, Medium, Low
  <2>4. CASE h = "find"
    BY <1>2, <2>4 DEF DetectNodeRisks, k, KnownWords, FindWords, Known, When, Risk, High, Medium, Low
  <2>5. CASE h \in {"npm", "pnpm", "yarn"}
    <3>1. DetectNodeRisks(c) = When(Texts(c) \cap {"install", "i", "add"} # {}, Low, "install")
      BY <1>2, <2>5 DEF DetectNodeRisks
    <3>2. k.low = {"install", "i", "add"}
      BY <2>5 DEF k, KnownWords, PackageWords, Known
    <3> QED
      BY <3>1, <3>2 DEF When, Risk, Low
  <2>6. CASE h \notin {"rm", "git", "chmod", "find", "npm", "pnpm", "yarn"}
    BY <1>2, <2>6 DEF DetectNodeRisks
  <2> QED
    BY <2>1, <2>2, <2>3, <2>4, <2>5, <2>6
<1>9. \A r \in DetectNodeRisks(c) : r.level \in 0..3 /\ \E i \in D : r.level <= c.args[i].mark
  <2> SUFFICES ASSUME NEW r \in DetectNodeRisks(c)
               PROVE  r.level \in 0..3 /\ \E i \in D : r.level <= c.args[i].mark
    OBVIOUS
  <2>1. CASE r.level = 3 /\ Texts(c) \cap k.high # {}
    BY <1>5, <2>1
  <2>2. CASE r.level = 2 /\ Texts(c) \cap (k.high \cup k.medium) # {}
    BY <1>5, <1>6, <2>2
  <2>3. CASE r.level = 1 /\ Texts(c) \cap k.low # {}
    BY <1>7, <2>3
  <2> QED
    BY <1>8, <2>1, <2>2, <2>3
<1> QED
  BY <1>2, <1>4, <1>9 DEF c

\* A risk that detect_node_risks finds in a command shows in the marks that
\* explain_arg puts on its words, whatever the words and bundles are.
THEOREM RisksAreMarked == CardSpec => []MarksCoverRisks
<1>1. ASSUME NEW words
      PROVE  LET c == Parsed(words)
             IN  Highest({r.level : r \in DetectNodeRisks(c)}) <= Highest({c.args[i].mark : i \in DOMAIN c.args})
  <2> DEFINE c == Parsed(words)
             risks == {r.level : r \in DetectNodeRisks(c)}
             marks == {c.args[i].mark : i \in DOMAIN c.args}
  <2>1. risks \subseteq 0..3 /\ marks \subseteq 0..3 /\ \A l \in risks : \E k \in marks : l <= k
    BY MarksCover
  <2> HIDE DEF risks, marks
  <2> DEFINE a == Highest(risks)
             b == Highest(marks)
  <2> HIDE DEF a, b
  <2>2. /\ a \in risks \cup {0} /\ a \in 0..3
        /\ b \in 0..3 /\ \A k \in marks : k <= b
    BY <2>1, HighestIs DEF a, b
  <2>5. a <= b
    <3>1. CASE a = 0
      BY <2>2, <3>1
    <3>2. CASE a \in risks
      <4>1. PICK k \in marks : a <= k
        BY <2>1, <3>2
      <4> QED
        BY <2>1, <2>2, <4>1
    <3> QED
      BY <2>2, <3>1, <3>2
  <2> QED
    BY <2>5 DEF risks, marks, a, b
<1>2. Grown => MarksCoverRisks
  BY <1>1, AnalyzedIs DEF Grown, MarksCoverRisks
<1> QED
  BY <1>2, CardInvariant, PTL
-----------------------------------------------------------------------------
(* The words of the analysis.                                                 *)

\* What is not hidden is seen.
LEMMA SeenHas ==
    ASSUME NEW p \in Seq(CommandRecords)
    PROVE  \A c \in ToSet(p) : ~c.hidden => c.words \in ToSet(Seen(p))
<1> DEFINE parts == [i \in DOMAIN p |-> SeenPart(p[i])]
           V == Seq(CommandWords)
           n == Len(p)
<1>1. n \in Nat /\ DOMAIN p = 1..n /\ \A i \in 1..n : p[i] \in CommandRecords
  BY LenProperties, ElementOfSeq
<1>2. \A i \in 1..n : SeenPart(p[i]) \in V
  BY <1>1, SeenParts
<1> HIDE DEF V, n
<1>3. parts \in [1..n -> V]
  BY <1>1, <1>2
<1>4. parts \in Seq(V)
  <2> HIDE DEF parts
  <2> QED
    BY <1>1, <1>3
<1>5. ToSet(Seen(p)) = UNION {ToSet(parts[i]) : i \in DOMAIN parts}
  <2>1. Seen(p) = FlattenSeq(parts)
    BY DEF Seen, SeenPart
  <2> HIDE DEF parts
  <2> QED
    BY <1>4, <2>1, FlattenHas DEF V
<1> SUFFICES ASSUME NEW i \in 1..n, ~p[i].hidden PROVE p[i].words \in ToSet(Seen(p))
  BY <1>1 DEF ToSet
<1>6. parts[i] = <<p[i].words>> /\ i \in DOMAIN parts
  BY <1>1 DEF SeenPart
<1>7. p[i].words \in ToSet(parts[i])
  BY <1>6 DEF ToSet
<1> QED
  BY <1>5, <1>6, <1>7

LEMMA SeenFound ==
    ASSUME NEW s \in Seq(Nodes), NEW c \in ToSet(Written(s)), ~c.hidden
    PROVE  \E i \in DOMAIN ParseToSegments(s) : ParseToSegments(s)[i] = c.words
<1>1. c.words \in ToSet(Seen(Written(s)))
  BY WrittenIs, SeenHas
<1>2. Seen(Written(s)) # <<>>
  <2>1. ToSet(<<>>) = {}
    BY DEF ToSet
  <2> QED
    BY <1>1, <2>1
<1>3. ParseToSegments(s) = Seen(Written(s))
  BY <1>2, WrittenIs DEF ParseToSegments
<1> QED
  BY <1>1, <1>3 DEF ToSet

\* The words of a written command.
LEMMA WrittenWords ==
    ASSUME NEW s \in Seq(Nodes), NEW c \in ToSet(Written(s))
    PROVE  c.words \in CommandWords /\ c.hidden \in BOOLEAN
<1>1. c \in CommandRecords
  BY WrittenIs, ElementOfSeq, LenProperties DEF ToSet
<1> QED
  BY <1>1 DEF CommandRecords

LEMMA One ==
    ASSUME NEW S, NEW e \in S
    PROVE  <<e>> \in Seq(S)
OBVIOUS

\* Taking bundles apart leaves words: those of each word, which is itself if it is no bundle.
Apart(w) == IF w \in DOMAIN LettersOf THEN LettersOf[w] ELSE <<w>>

LEMMA ExpandedHas ==
    ASSUME NEW command, NEW args \in Words
    PROVE  /\ ExpandKnownFlags(command, args) \in Words
           /\ ToSet(ExpandKnownFlags(command, args)) =
                 IF command \in {"rm", "git"} THEN UNION {ToSet(Apart(w)) : w \in ToSet(args)} ELSE ToSet(args)
<1>1. CASE command \notin {"rm", "git"}
  BY <1>1 DEF ExpandKnownFlags
<1>2. CASE command \in {"rm", "git"}
  <2> DEFINE parts == [i \in DOMAIN args |-> Apart(args[i])]
             V == Seq(STRING)
             n == Len(args)
  <2>1. n \in Nat /\ DOMAIN args = 1..n /\ \A i \in 1..n : args[i] \in STRING
    BY LenProperties, ElementOfSeq DEF Words
  <2>2. \A i \in 1..n : parts[i] \in V
    <3> SUFFICES ASSUME NEW i \in 1..n PROVE parts[i] \in V
      OBVIOUS
    <3>1. CASE args[i] \in DOMAIN LettersOf
      BY <2>1, <3>1, BundlesAssumption DEF Words, Apart
    <3>2. CASE args[i] \notin DOMAIN LettersOf
      <4>1. parts[i] = <<args[i]>>
        BY <2>1, <3>2 DEF Apart
      <4>2. <<args[i]>> \in V
        BY <2>1, One
      <4> QED
        BY <4>1, <4>2
    <3> QED
      BY <3>1, <3>2
  <2>3. DOMAIN parts = 1..n /\ parts = [i \in 1..n |-> parts[i]] /\ \A i \in 1..n : parts[i] = Apart(args[i])
    BY <2>1
  <2>5. ExpandKnownFlags(command, args) = FlattenSeq(parts)
    BY <1>2 DEF ExpandKnownFlags, Apart
  <2> HIDE DEF V, n, parts
  <2>6. parts \in [1..n -> V]
    BY <2>2, <2>3
  <2>7. parts \in Seq(V)
    BY <2>1, <2>6
  <2>8. FlattenSeq(parts) \in Words
    BY <2>7, FlattenType DEF V, Words
  <2>9. ToSet(FlattenSeq(parts)) = UNION {ToSet(parts[i]) : i \in DOMAIN parts}
    BY <2>7, FlattenHas DEF V
  <2>10. UNION {ToSet(parts[i]) : i \in DOMAIN parts} = UNION {ToSet(Apart(w)) : w \in ToSet(args)}
    <3>1. ToSet(args) = {args[i] : i \in 1..n}
      BY <2>1 DEF ToSet
    <3>2. \A i \in 1..n : ToSet(parts[i]) = ToSet(Apart(args[i]))
      BY <2>3
    <3> HIDE DEF ToSet, Apart
    <3> QED
      BY <2>3, <3>1, <3>2
  <2> QED
    BY <1>2, <2>5, <2>8, <2>9, <2>10
<1> QED
  BY <1>1, <1>2

\* A command as it is parsed: its first word, and the others taken apart.
LEMMA ParsedWords ==
    ASSUME NEW words \in CommandWords
    PROVE  LET e == ExpandKnownFlags(words[1], Tail(words))
           IN  /\ Head(words) = words[1] /\ Tail(words) \in Words /\ e \in Words
               /\ \A i \in 2..Len(words) : words[i] \in ToSet(Tail(words))
               /\ Len(words) = 1 => Tail(words) = <<>>
               /\ Parsed(words) = [command |-> words[1], args |-> [i \in DOMAIN e |-> ExplainArg(words[1], e[i])]]
<1> DEFINE h == words[1]
           t == Tail(words)
           e == ExpandKnownFlags(h, t)
<1>1. words \in Seq(STRING) /\ words # <<>>
  BY DEF CommandWords, Words
<1>2. /\ Head(words) = h /\ t \in Seq(STRING) /\ Len(t) = Len(words) - 1 /\ Len(words) \in Nat
      /\ \A i \in 1..Len(t) : t[i] = words[i + 1]
  BY <1>1, HeadTailProperties, LenProperties
<1>3. h \in STRING
  BY <1>1, EmptySeq, ElementOfSeq, LenProperties
<1>4. e \in Words
  BY <1>2, ExpandedHas DEF Words
<1>5. \A i \in 2..Len(words) : words[i] \in ToSet(t)
  <2> SUFFICES ASSUME NEW i \in 2..Len(words) PROVE words[i] \in ToSet(t)
    OBVIOUS
  <2> HIDE DEF t
  <2>1. DOMAIN t = 1..Len(t)
    BY <1>2, LenProperties
  <2>2. i - 1 \in 1..Len(t) /\ (i - 1) + 1 = i
    BY <1>2
  <2>3. t[i - 1] = words[i]
    BY <1>2, <2>2
  <2> QED
    BY <2>1, <2>2, <2>3 DEF ToSet
<1>6. Len(words) = 1 => t = <<>>
  <2> HIDE DEF t
  <2>1. Len(words) = 1 => Len(t) = 0
    BY <1>2
  <2> QED
    BY <1>2, <2>1, EmptySeq
<1> HIDE DEF h, t, e
<1>7. Head(<<h>> \o e) = h /\ Tail(<<h>> \o e) = e
  <2>1. e \in Seq(STRING) /\ <<h>> \in Seq(STRING)
    BY <1>3, <1>4, One DEF Words
  <2> QED
    BY <2>1
<1>8. Parsed(words) = [command |-> h, args |-> [i \in DOMAIN e |-> ExplainArg(h, e[i])]]
  <2>1. Parsed(words) = ParseSegment(<<h>> \o e)
    BY <1>2 DEF Parsed, e, t
  <2> QED
    BY <1>7, <2>1 DEF ParseSegment, Each
<1> QED
  BY <1>2, <1>4, <1>5, <1>6, <1>8 DEF h, t, e, Words

\* A word that its command's explanation knows is on the card as that, for any script
\* and any way of taking bundles apart: expand_known_flags and the walk lose none.
THEOREM KnownWordsAreExplained == CardSpec => []KnownWordsExplained
<1>1. ASSUME Grown, NEW c \in ToSet(Written(script)), NEW i \in 2..Len(c.words), ~c.hidden,
             c.words[i] \in AllKnown(KnownWords(c.words[1]))
      PROVE  \E node \in ToSet(AnalyzeCommand(script).commands) : \E j \in DOMAIN node.args :
                node.command = c.words[1] /\ node.args[j].text = c.words[i]
  <2> DEFINE words == c.words
             h == words[1]
             e == ExpandKnownFlags(h, Tail(words))
             node == Parsed(words)
  <2>1. words \in CommandWords
    BY <1>1, WrittenWords DEF Grown
  <2>2. /\ Head(words) = h /\ Tail(words) \in Words /\ e \in Words
        /\ words[i] \in ToSet(Tail(words))
        /\ node = [command |-> h, args |-> [k \in DOMAIN e |-> ExplainArg(h, e[k])]]
    BY <2>1, ParsedWords
  <2>3. h # "sudo"
    BY <1>1 DEF KnownWords, GenericWords, Known, AllKnown
  <2>4. words[i] \in ToSet(e)
    <3>1. h \notin {"rm", "git"} \/ words[i] \notin DOMAIN LettersOf
      BY <1>1, BundlesAssumption DEF KnownWords
    <3>2. h \in {"rm", "git"} => words[i] \in ToSet(Apart(words[i]))
      BY <3>1 DEF Apart, ToSet
    <3>3. ToSet(e) = IF h \in {"rm", "git"} THEN UNION {ToSet(Apart(w)) : w \in ToSet(Tail(words))}
                     ELSE ToSet(Tail(words))
      BY <2>2, ExpandedHas
    <3> HIDE DEF h, e
    <3> QED
      BY <2>2, <3>2, <3>3
  <2>5. PICK j \in DOMAIN e : e[j] = words[i]
    BY <2>4 DEF ToSet
  <2>6. j \in DOMAIN node.args /\ node.args[j].text = words[i] /\ node.command = h
    BY <2>2, <2>5 DEF ExplainArg
  <2>7. node \in ToSet(AnalyzeCommand(script).commands)
    <3>1. PICK k \in DOMAIN ParseToSegments(script) : ParseToSegments(script)[k] = words
      BY <1>1, SeenFound DEF Grown
    <3>2. StripSudo(words) = words /\ words # <<>>
      BY <2>1, <2>2, <2>3 DEF StripSudo, CommandWords
    <3> QED
      BY <1>1, <3>1, <3>2, AnalyzedIs DEF Grown
  <2> QED
    BY <2>6, <2>7
<1>2. Grown => KnownWordsExplained
  BY <1>1 DEF KnownWordsExplained
<1> QED
  BY <1>2, CardInvariant, PTL
-----------------------------------------------------------------------------
(* The risks of the analysis.                                                 *)

\* The risks of one command, each of a level and without a sudo.
LEMMA NodeRisksAre ==
    ASSUME NEW node, NEW r \in DetectNodeRisks(node)
    PROVE  \E level \in 0..3 : \E what : r = Risk(level, what)
<1>1. \A condition, level, what : \A x \in When(condition, level, what) : x = Risk(level, what)
  BY DEF When
<1>2. High \in 0..3 /\ Medium \in 0..3 /\ Low \in 0..3
  BY DEF High, Medium, Low
<1> HIDE DEF Risk
<1> DEFINE k == node.command
           T == Texts(node)
<1>3. CASE k = "rm"
  <2>1. r \in RmRisks(node)
    BY <1>3 DEF DetectNodeRisks
  <2> QED
    BY <1>2, <2>1 DEF RmRisks
<1>4. CASE k = "git"
  <2>1. r \in GitRisks(node)
    BY <1>4 DEF DetectNodeRisks
  <2> QED
    BY <1>1, <1>2, <2>1 DEF GitRisks
<1>5. CASE k = "chmod"
  BY <1>1, <1>2, <1>5 DEF DetectNodeRisks
<1>6. CASE k = "find"
  BY <1>1, <1>2, <1>6 DEF DetectNodeRisks
<1>7. CASE k \in {"npm", "pnpm", "yarn"}
  BY <1>1, <1>2, <1>7 DEF DetectNodeRisks
<1>8. CASE k \notin {"rm", "git", "chmod", "find", "npm", "pnpm", "yarn"}
  BY <1>8 DEF DetectNodeRisks
<1> QED
  BY <1>3, <1>4, <1>5, <1>6, <1>7, <1>8

\* The risks of the analysis: what is found in its commands and their neighbours,
\* and the sudo, which leaves the level of what it makes worse.
LEMMA LevelsAre ==
    ASSUME NEW s
    PROVE  LET commands == AnalyzeCommand(s).commands
               risks == DetectChainRisks(commands) \cup UNION {DetectNodeRisks(c) : c \in ToSet(commands)}
               sudo == \E w \in ToSet(ParseToSegments(s)) : Head(w) = "sudo"
               levels == {r.level : r \in risks} \cup IF sudo THEN {2} ELSE {}
           IN  levels \subseteq 0..3 /\ LevelOf(s) = Highest(levels)
<1> DEFINE commands == AnalyzeCommand(s).commands
           risks == DetectChainRisks(commands) \cup UNION {DetectNodeRisks(c) : c \in ToSet(commands)}
           sudo == \E w \in ToSet(ParseToSegments(s)) : Head(w) = "sudo"
           levels == {r.level : r \in risks} \cup IF sudo THEN {2} ELSE {}
<1>1. LevelOf(s) = Highest({r.level : r \in IF sudo THEN ApplySudoRisk(risks) ELSE risks})
  BY DEF LevelOf, AnalyzeCommand
<1> DEFINE single == UNION {DetectNodeRisks(c) : c \in ToSet(commands)}
           chained == DetectChainRisks(commands)
<1>7. risks = chained \cup single
  OBVIOUS
<1> HIDE DEF risks, single, chained
<1>2. ASSUME NEW r \in risks PROVE \E level \in 0..3 : \E what : r = Risk(level, what)
  <2>1. CASE r \in chained
    <3>1. r = Risk(High, "download and run")
      BY <2>1 DEF DetectChainRisks, chained
    <3>2. High \in 0..3
      BY DEF High
    <3> QED
      BY <3>1, <3>2
  <2>2. CASE r \in single
    BY <2>2, NodeRisksAre DEF single
  <2> QED
    BY <1>7, <2>1, <2>2
<1> HIDE DEF risks, sudo
<1>3. \A r \in risks : r.level \in 0..3 /\ \A b : [r EXCEPT !.sudo = b].level = r.level
  <2> SUFFICES ASSUME NEW r \in risks
               PROVE  r.level \in 0..3 /\ \A b : [r EXCEPT !.sudo = b].level = r.level
    OBVIOUS
  <2>1. PICK level \in 0..3 : \E what : r = Risk(level, what)
    BY <1>2
  <2> QED
    BY <2>1 DEF Risk
<1>4. {r.level : r \in ApplySudoRisk(risks)} = {r.level : r \in risks} \cup {2}
  <2>1. Risk(Medium, "sudo").level = 2
    BY DEF Risk, Medium
  <2> DEFINE worse == {[r EXCEPT !.sudo = r.level = High] : r \in risks}
  <2>2. {r.level : r \in worse} = {r.level : r \in risks}
    <3>1. ASSUME NEW l \in {r.level : r \in worse} PROVE l \in {r.level : r \in risks}
      <4>1. PICK r \in risks : l = [r EXCEPT !.sudo = r.level = High].level
        OBVIOUS
      <4> QED
        BY <1>3, <4>1
    <3>2. ASSUME NEW r \in risks PROVE r.level \in {x.level : x \in worse}
      <4> DEFINE w == [r EXCEPT !.sudo = r.level = High]
      <4>1. w \in worse /\ w.level = r.level
        BY <1>3
      <4> HIDE DEF w, worse
      <4> QED
        BY <4>1
    <3> QED
      BY <3>1, <3>2
  <2>3. ApplySudoRisk(risks) = worse \cup {Risk(Medium, "sudo")}
    BY DEF ApplySudoRisk
  <2> HIDE DEF worse
  <2> QED
    BY <2>1, <2>2, <2>3
<1>5. levels \subseteq 0..3
  BY <1>3
<1>6. LevelOf(s) = Highest(levels)
  <2>1. {r.level : r \in IF sudo THEN ApplySudoRisk(risks) ELSE risks} = levels
    BY <1>4
  <2> QED
    BY <1>1, <2>1
<1> QED
  BY <1>5, <1>6 DEF risks, sudo

LEMMA LevelsBound == \A s : LevelOf(s) \in 0..3
BY LevelsAre, HighestIs

\* A risk of any command is a lower bound of the level.
LEMMA LevelCovers ==
    ASSUME NEW s, NEW c \in ToSet(AnalyzeCommand(s).commands), NEW r \in DetectNodeRisks(c)
    PROVE  r.level <= LevelOf(s) /\ LevelOf(s) \in 0..3
<1> DEFINE commands == AnalyzeCommand(s).commands
           risks == DetectChainRisks(commands) \cup UNION {DetectNodeRisks(x) : x \in ToSet(commands)}
           sudo == \E w \in ToSet(ParseToSegments(s)) : Head(w) = "sudo"
           levels == {x.level : x \in risks} \cup IF sudo THEN {2} ELSE {}
<1>1. levels \subseteq 0..3 /\ LevelOf(s) = Highest(levels)
  BY LevelsAre
<1>2. r \in risks
  OBVIOUS
<1> HIDE DEF risks
<1>3. r.level \in levels
  BY <1>2
<1> HIDE DEF levels
<1> QED
  BY <1>1, <1>3, HighestIs

\* Only rm, git and find can be of the highest level, and rm with words after it.
LEMMA HighAre ==
    ASSUME NEW words \in CommandWords, NEW r \in DetectNodeRisks(Parsed(words)), r.level = High
    PROVE  words[1] \in {"rm", "git", "find"} /\ (words[1] = "rm" => Len(words) # 1)
<1> DEFINE h == words[1]
           e == ExpandKnownFlags(h, Tail(words))
           node == Parsed(words)
<1>1. /\ node = [command |-> h, args |-> [i \in DOMAIN e |-> ExplainArg(h, e[i])]]
      /\ Len(words) = 1 => Tail(words) = <<>>
  BY ParsedWords
<1>2. node.command = h
  BY <1>1
<1>3. h \in {"rm", "git", "find"}
  <2>1. CASE h = "chmod"
    BY <1>2, <2>1 DEF DetectNodeRisks, When, Risk, High, Medium
  <2>2. CASE h \in {"npm", "pnpm", "yarn"}
    <3>1. \A condition, what : \A x \in When(condition, Low, what) : x.level = 1
      BY DEF When, Risk, Low
    <3>2. r.level = 1
      BY <1>2, <2>2, <3>1 DEF DetectNodeRisks
    <3> QED
      BY <3>2 DEF High
  <2>3. CASE h \notin {"rm", "git", "chmod", "find", "npm", "pnpm", "yarn"}
    BY <1>2, <2>3 DEF DetectNodeRisks
  <2> QED
    BY <2>1, <2>2, <2>3
<1>4. ASSUME h = "rm", Len(words) = 1 PROVE FALSE
  <2>1. e = <<>>
    <3>1. e = FlattenSeq([i \in DOMAIN <<>> |->
                 IF <<>>[i] \in DOMAIN LettersOf THEN LettersOf[<<>>[i]] ELSE <<<<>>[i]>>])
      BY <1>1, <1>4 DEF ExpandKnownFlags
    <3> DEFINE f == [i \in DOMAIN <<>> |->
                 IF <<>>[i] \in DOMAIN LettersOf THEN LettersOf[<<>>[i]] ELSE <<<<>>[i]>>]
    <3>2. f = <<>>
      OBVIOUS
    <3>3. FlattenSeq(<<>>) = <<>>
      BY DEF FlattenSeq
    <3> QED
      BY <3>1, <3>2, <3>3
  <2>2. Texts(node) = {}
    BY <1>1, <2>1 DEF Texts
  <2>3. r \in RmRisks(node)
    BY <1>2, <1>4 DEF DetectNodeRisks
  <2> QED
    BY <2>2, <2>3, RmRisksAre
<1> QED
  BY <1>3, <1>4

\* A command that is dangerous on its own makes the risk of the card or of the analysis
\* high, in any script: what the syntax hides from the analysis, the text shows to the
\* card, and only git and find get past both, hidden or behind an assignment.
THEOREM DangersAreShown == CardSpec => []DangerIsShown
<1>1. ASSUME Grown, NEW c \in ToSet(Written(script)), DangerousAlone(Bare(c.words))
      PROVE  \/ LevelOf(script) = High \/ HttpRisk("Bash", BashCall.input) = High
             \/ /\ Bare(c.words)[1] \in {"git", "find"}
                /\ c.hidden \/ c.words[1] = "X=1"
  <2> DEFINE bare == Bare(c.words)
  <2>1. c.words \in CommandWords /\ c.hidden \in BOOLEAN
    BY <1>1, WrittenWords DEF Grown
  <2>2. /\ Head(c.words) = c.words[1] /\ Tail(c.words) \in Words /\ Len(c.words) \in Nat
        /\ \A i \in 1..Len(Tail(c.words)) : Tail(c.words)[i] = c.words[i + 1]
        /\ Len(Tail(c.words)) = Len(c.words) - 1 /\ DOMAIN c.words = 1..Len(c.words)
    <3>1. c.words \in Seq(STRING) /\ c.words # <<>>
      BY <2>1 DEF CommandWords, Words
    <3>2. Len(c.words) \in Nat /\ DOMAIN c.words = 1..Len(c.words)
      BY <3>1, LenProperties
    <3>3. /\ Tail(c.words) \in Seq(STRING) /\ Len(Tail(c.words)) = Len(c.words) - 1
          /\ \A i \in 1..Len(Tail(c.words)) : Tail(c.words)[i] = c.words[i + 1]
      BY <3>1, HeadTailProperties
    <3>4. Head(c.words) = c.words[1]
      BY <2>1, ParsedWords
    <3> QED
      BY <3>2, <3>3, <3>4 DEF Words
  <2>3. bare # <<>> /\ bare \in CommandWords
    BY <1>1, <2>1, <2>2 DEF DangerousAlone, Bare, CommandWords
  <2>4. PICK r \in DetectNodeRisks(Parsed(bare)) : r.level = High
    <3>1. Head(bare) = bare[1]
      BY <2>3, ParsedWords
    <3> QED
      BY <1>1, <3>1 DEF DangerousAlone, Parsed
  <2>5. bare[1] \in {"rm", "git", "find"} /\ (bare[1] = "rm" => Len(bare) # 1)
    BY <2>3, <2>4, HighAre
  <2>6. CASE bare[1] = "rm"
    <3>1. \E i \in DOMAIN c.words : c.words[i] = "rm" /\ i < Len(c.words)
      <4>1. Len(bare) \in Nat /\ Len(bare) > 1
        <5>1. Len(bare) \in Nat /\ Len(bare) # 0
          BY <2>3, EmptySeq, LenProperties DEF CommandWords, Words
        <5>2. Len(bare) # 1
          BY <2>5, <2>6
        <5> DEFINE n == Len(bare)
        <5> HIDE DEF n
        <5>3. n \in Nat /\ n # 0 /\ n # 1
          BY <5>1, <5>2 DEF n
        <5>4. n > 1
          BY <5>3
        <5> QED
          BY <5>3, <5>4 DEF n
      <4>2. CASE bare = c.words
        BY <2>2, <2>6, <4>1, <4>2
      <4>3. CASE bare = Tail(c.words)
        <5>1. c.words[2] = "rm" /\ 2 \in DOMAIN c.words /\ 2 < Len(c.words)
          <6> HIDE DEF bare
          <6>1. Tail(c.words)[1] = c.words[1 + 1] /\ 1 + 1 = 2
            BY <2>2, <4>1, <4>3
          <6> QED
            BY <2>2, <2>6, <4>1, <4>3, <6>1
        <5> QED
          BY <5>1
      <4> QED
        BY <4>2, <4>3 DEF Bare
    <3> DEFINE keys == {"rm ", "rmdir", "del ", "format", "shutdown", "reboot", "sudo",
                        "su ", "chmod", "chown", "mkfs", "dd "}
    <3>2. "rm " \in KeysIn["rm"] \cap keys
      BY CardAssumption
    <3> HIDE DEF keys
    <3>3. TextHas(script, keys)
      BY <3>1, <3>2 DEF TextHas
    <3>4. HttpRisk("Bash", BashCall.input) = High
      BY <3>3 DEF HttpRisk, BashCall, keys
    <3> QED
      BY <3>4
  <2>7. CASE bare[1] # "rm" /\ (c.hidden \/ c.words[1] = "X=1")
    BY <2>5, <2>7
  <2>8. CASE bare[1] # "rm" /\ ~c.hidden /\ c.words[1] # "X=1"
    <3>1. PICK k \in DOMAIN ParseToSegments(script) : ParseToSegments(script)[k] = c.words
      BY <1>1, <2>8, SeenFound DEF Grown
    <3>2. StripSudo(c.words) = bare
      BY <2>2, <2>8 DEF StripSudo, Bare
    <3>3. Parsed(bare) \in ToSet(AnalyzeCommand(script).commands)
      BY <1>1, <2>3, <3>1, <3>2, AnalyzedIs DEF Grown
    <3>4. r.level <= LevelOf(script) /\ LevelOf(script) \in 0..3
      BY <2>4, <3>3, LevelCovers
    <3>5. LevelOf(script) = High
      BY <2>4, <3>4 DEF High
    <3> QED
      BY <3>5
  <2> QED
    BY <2>1, <2>6, <2>7, <2>8
<1>2. Grown => DangerIsShown
  BY <1>1 DEF DangerIsShown
<1> QED
  BY <1>2, CardInvariant, PTL
-----------------------------------------------------------------------------
(* Risks grow.                                                                *)

\* A command with more words has each risk, or a worse one.
LEMMA NodeRisksGrow ==
    ASSUME NEW x, NEW y, x.command = y.command, Texts(x) \subseteq Texts(y)
    PROVE  \A r \in DetectNodeRisks(x) : \E q \in DetectNodeRisks(y) : r.level <= q.level
<1> DEFINE k == x.command
           A == Texts(x)
           B == Texts(y)
<1> SUFFICES ASSUME NEW r \in DetectNodeRisks(x)
             PROVE  \E q \in DetectNodeRisks(y) : r.level <= q.level
  OBVIOUS
<1>0. \A level, what : Risk(level, what).level = level
  BY DEF Risk
<1>9. A \subseteq B
  OBVIOUS
<1> HIDE DEF Risk
<1>1. CASE k = "rm"
  <2>1. r \in RmRisks(x) /\ DetectNodeRisks(y) = RmRisks(y)
    BY <1>1 DEF DetectNodeRisks
  <2>2. /\ "-r" \in Texts(y) => \E q \in RmRisks(y) : q.level = 3
        /\ "-r" \notin Texts(y) /\ "-f" \in Texts(y) => \E q \in RmRisks(y) : q.level = 2
    BY DEF RmRisks, Risk, High, Medium
  <2>5. ("-r" \in A => "-r" \in Texts(y)) /\ ("-f" \in A => "-f" \in Texts(y))
    BY <1>9
  <2>3. CASE r.level = 3 /\ "-r" \in A
    <3>1. PICK q \in RmRisks(y) : q.level = 3
      BY <2>2, <2>3, <2>5
    <3>2. r.level <= q.level
      BY <2>3, <3>1
    <3> QED
      BY <2>1, <3>2
  <2>4. CASE r.level = 2 /\ "-f" \in A
    <3>1. PICK q \in RmRisks(y) : q.level = 3 \/ q.level = 2
      BY <2>2, <2>4, <2>5
    <3>2. r.level <= q.level
      BY <2>4, <3>1
    <3> QED
      BY <2>1, <3>2
  <2> QED
    BY <2>1, <2>3, <2>4, RmRisksAre
<1>2. CASE k = "git"
  <2> DEFINE what(n) == IF {"--staged"} \subseteq Texts(n) THEN "unstage" ELSE "restore"
             four(n) == (IF {"reset", "--hard"} \subseteq Texts(n) THEN {Risk(High, "reset")} ELSE {})
                        \cup (IF {"clean", "-f"} \subseteq Texts(n) THEN {Risk(High, "clean")} ELSE {})
                        \cup (IF {"checkout", "--"} \subseteq Texts(n) THEN {Risk(Medium, "checkout")} ELSE {})
                        \cup (IF {"restore"} \subseteq Texts(n) THEN {Risk(Medium, what(n))} ELSE {})
  <2>1. r \in four(x) /\ DetectNodeRisks(y) = four(y)
    BY <1>2 DEF DetectNodeRisks, GitRisks, When
  <2> HIDE DEF what
  <2>2. CASE r \in IF {"reset", "--hard"} \subseteq A THEN {Risk(High, "reset")} ELSE {}
    <3>1. r = Risk(High, "reset") /\ {"reset", "--hard"} \subseteq B
      BY <1>9, <2>2
    <3>2. r \in DetectNodeRisks(y) /\ r.level <= r.level
      BY <1>0, <2>1, <3>1 DEF High
    <3> QED
      BY <3>2
  <2>3. CASE r \in IF {"clean", "-f"} \subseteq A THEN {Risk(High, "clean")} ELSE {}
    <3>1. r = Risk(High, "clean") /\ {"clean", "-f"} \subseteq B
      BY <1>9, <2>3
    <3>2. r \in DetectNodeRisks(y) /\ r.level <= r.level
      BY <1>0, <2>1, <3>1 DEF High
    <3> QED
      BY <3>2
  <2>4. CASE r \in IF {"checkout", "--"} \subseteq A THEN {Risk(Medium, "checkout")} ELSE {}
    <3>1. r = Risk(Medium, "checkout") /\ {"checkout", "--"} \subseteq B
      BY <1>9, <2>4
    <3>2. r \in DetectNodeRisks(y) /\ r.level <= r.level
      BY <1>0, <2>1, <3>1 DEF Medium
    <3> QED
      BY <3>2
  <2>5. CASE r \in IF {"restore"} \subseteq A THEN {Risk(Medium, what(x))} ELSE {}
    <3>1. r = Risk(Medium, what(x)) /\ {"restore"} \subseteq B
      BY <1>9, <2>5
    <3>2. Risk(Medium, what(y)) \in DetectNodeRisks(y) /\ r.level <= Risk(Medium, what(y)).level
      BY <1>0, <2>1, <3>1 DEF Medium
    <3> QED
      BY <3>2
  <2> QED
    BY <2>1, <2>2, <2>3, <2>4, <2>5
<1>3. CASE k = "chmod"
  <2>1. /\ DetectNodeRisks(x) = IF A \cap {"777", "a+rwx"} # {} THEN {Risk(Medium, "chmod")} ELSE {}
        /\ DetectNodeRisks(y) = IF B \cap {"777", "a+rwx"} # {} THEN {Risk(Medium, "chmod")} ELSE {}
    BY <1>3 DEF DetectNodeRisks, When
  <2>2. r = Risk(Medium, "chmod") /\ r \in DetectNodeRisks(y)
    BY <1>9, <2>1
  <2>3. r.level <= r.level
    BY <1>0, <2>2 DEF Medium
  <2> QED
    BY <2>2, <2>3
<1>4. CASE k = "find"
  <2>1. /\ DetectNodeRisks(x) = IF "-delete" \in A THEN {Risk(High, "delete")} ELSE {}
        /\ DetectNodeRisks(y) = IF "-delete" \in B THEN {Risk(High, "delete")} ELSE {}
    BY <1>4 DEF DetectNodeRisks, When
  <2>2. r = Risk(High, "delete") /\ r \in DetectNodeRisks(y)
    BY <1>9, <2>1
  <2>3. r.level <= r.level
    BY <1>0, <2>2 DEF High
  <2> QED
    BY <2>2, <2>3
<1>5. CASE k \in {"npm", "pnpm", "yarn"}
  <2>1. /\ DetectNodeRisks(x) = IF A \cap {"install", "i", "add"} # {} THEN {Risk(Low, "install")} ELSE {}
        /\ DetectNodeRisks(y) = IF B \cap {"install", "i", "add"} # {} THEN {Risk(Low, "install")} ELSE {}
    BY <1>5 DEF DetectNodeRisks, When
  <2>2. r = Risk(Low, "install") /\ r \in DetectNodeRisks(y)
    BY <1>9, <2>1
  <2>3. r.level <= r.level
    BY <1>0, <2>2 DEF Low
  <2> QED
    BY <2>2, <2>3
<1>6. CASE k \notin {"rm", "git", "chmod", "find", "npm", "pnpm", "yarn"}
  BY <1>6 DEF DetectNodeRisks
<1> QED
  BY <1>1, <1>2, <1>3, <1>4, <1>5, <1>6

\* A sequence of commands says at least what another does: the same commands at the same
\* places, each with all its words, and perhaps more after them.
SaysMore(p, q) ==
    /\ Len(p) \in Nat /\ Len(q) \in Nat /\ DOMAIN p = 1..Len(p) /\ DOMAIN q = 1..Len(q)
    /\ Len(p) <= Len(q)
    /\ \A i \in 1..Len(p) : p[i].command = q[i].command /\ Texts(p[i]) \subseteq Texts(q[i])

LEMMA LevelGrows ==
    ASSUME NEW s, NEW t, SaysMore(AnalyzeCommand(s).commands, AnalyzeCommand(t).commands),
           (\E w \in ToSet(ParseToSegments(s)) : Head(w) = "sudo")
              => \E w \in ToSet(ParseToSegments(t)) : Head(w) = "sudo"
    PROVE  LevelOf(s) <= LevelOf(t)
<1> DEFINE single(u) == UNION {DetectNodeRisks(c) : c \in ToSet(AnalyzeCommand(u).commands)}
           chained(u) == DetectChainRisks(AnalyzeCommand(u).commands)
           sudo(u) == \E w \in ToSet(ParseToSegments(u)) : Head(w) = "sudo"
           levels(u) == {r.level : r \in chained(u) \cup single(u)} \cup IF sudo(u) THEN {2} ELSE {}
           p == AnalyzeCommand(s).commands
           q == AnalyzeCommand(t).commands
<1>1. /\ levels(s) \subseteq 0..3 /\ LevelOf(s) = Highest(levels(s))
      /\ levels(t) \subseteq 0..3 /\ LevelOf(t) = Highest(levels(t))
  BY LevelsAre
<1>2. SaysMore(p, q)
  OBVIOUS
<1>3. \A r \in single(s) : \E x \in single(t) : r.level <= x.level
  <2> SUFFICES ASSUME NEW r \in single(s) PROVE \E x \in single(t) : r.level <= x.level
    OBVIOUS
  <2>1. PICK c \in ToSet(p) : r \in DetectNodeRisks(c)
    OBVIOUS
  <2>2. PICK i \in DOMAIN p : c = p[i]
    BY DEF ToSet
  <2>3. i \in DOMAIN q /\ p[i].command = q[i].command /\ Texts(p[i]) \subseteq Texts(q[i])
    <3> HIDE DEF p, q
    <3> QED
      BY <1>2, <2>2 DEF SaysMore
  <2>4. PICK x \in DetectNodeRisks(q[i]) : r.level <= x.level
    BY <2>1, <2>2, <2>3, NodeRisksGrow
  <2>5. q[i] \in ToSet(q)
    BY <2>3 DEF ToSet
  <2> QED
    BY <2>4, <2>5
<1>4. chained(s) \subseteq chained(t)
  <2> HIDE DEF p, q
  <2>1. \A j \in 1..Len(p) - 1 : /\ j \in 1..Len(q) - 1 /\ p[j].command = q[j].command
                                 /\ p[j + 1].command = q[j + 1].command
    BY <1>2 DEF SaysMore
  <2> QED
    BY <2>1 DEF DetectChainRisks, p, q
<1>5. sudo(s) => sudo(t)
  OBVIOUS
<1> HIDE DEF single, chained, sudo
<1>6. \A l \in levels(s) : \E k \in levels(t) : l <= k
  <2> SUFFICES ASSUME NEW l \in levels(s) PROVE \E k \in levels(t) : l <= k
    OBVIOUS
  <2>0. l \in 0..3
    BY <1>1
  <2>1. CASE \E r \in chained(s) : l = r.level
    <3>1. l \in levels(t)
      BY <1>4, <2>1
    <3> QED
      BY <2>0, <3>1
  <2>2. CASE \E r \in single(s) : l = r.level
    BY <1>3, <2>2
  <2>3. CASE sudo(s) /\ l = 2
    <3>1. 2 \in levels(t)
      BY <1>5, <2>3
    <3> QED
      BY <2>3, <3>1
  <2> QED
    BY <2>1, <2>2, <2>3
<1> DEFINE A == levels(s)
           B == levels(t)
           a == Highest(A)
           b == Highest(B)
<1>7. A \subseteq 0..3 /\ B \subseteq 0..3 /\ \A l \in A : \E k \in B : l <= k
  BY <1>1, <1>6
<1> HIDE DEF A, B
<1>8. /\ a \in A \cup {0} /\ a \in 0..3 /\ b \in 0..3 /\ \A k \in B : k <= b
  BY <1>7, HighestIs
<1> HIDE DEF a, b
<1>9. a <= b
  <2>1. CASE a = 0
    BY <1>8, <2>1
  <2>2. CASE a \in A
    <3>1. PICK k \in B : a <= k
      BY <1>7, <2>2
    <3> QED
      BY <1>7, <1>8, <3>1
  <2> QED
    BY <1>8, <2>1, <2>2
<1> QED
  BY <1>1, <1>9 DEF a, b, A, B

\* One more element, and each of them mapped.
LEMMA EachAppended ==
    ASSUME NEW S, NEW V, NEW f \in [S -> V], NEW p \in Seq(S), NEW c \in S
    PROVE  /\ [i \in DOMAIN p |-> f[p[i]]] \in Seq(V)
           /\ [i \in DOMAIN Append(p, c) |-> f[Append(p, c)[i]]] = Append([i \in DOMAIN p |-> f[p[i]]], f[c])
<1> DEFINE u == Append(p, c)
           n == Len(p)
           a == [i \in DOMAIN p |-> f[p[i]]]
           b == [i \in DOMAIN u |-> f[u[i]]]
<1>1. n \in Nat /\ DOMAIN p = 1..n /\ \A i \in 1..n : p[i] \in S
  BY LenProperties, ElementOfSeq
<1>2. /\ u \in Seq(S) /\ Len(u) = n + 1 /\ (\A i \in 1..n : u[i] = p[i]) /\ u[n + 1] = c
  BY AppendProperties
<1>3. DOMAIN u = 1..(n + 1) /\ (\A i \in 1..(n + 1) : u[i] \in S) /\ n + 1 \in Nat
  BY <1>1, <1>2, LenProperties, ElementOfSeq
<1> HIDE DEF u, n
<1>4. a \in [1..n -> V] /\ b \in [1..(n + 1) -> V]
  BY <1>1, <1>3
<1>5. a \in Seq(V) /\ Len(a) = n /\ b \in Seq(V) /\ Len(b) = n + 1
  BY <1>1, <1>3, <1>4
<1>6. (\A i \in 1..n : a[i] = f[p[i]]) /\ \A i \in 1..(n + 1) : b[i] = f[u[i]]
  BY <1>1, <1>3
<1>7. f[c] \in V
  OBVIOUS
<1> HIDE DEF a, b
<1>8. /\ Append(a, f[c]) \in Seq(V) /\ Len(Append(a, f[c])) = n + 1
      /\ (\A i \in 1..n : Append(a, f[c])[i] = a[i]) /\ Append(a, f[c])[n + 1] = f[c]
  BY <1>5, <1>7, AppendProperties
<1>9. ASSUME NEW i \in 1..(n + 1) PROVE b[i] = Append(a, f[c])[i]
  <2>1. CASE i \in 1..n
    BY <1>2, <1>6, <1>8, <2>1
  <2>2. CASE i = n + 1
    BY <1>2, <1>6, <1>8, <2>2
  <2>3. i \in 1..n \/ i = n + 1
    BY <1>1
  <2> QED
    BY <2>1, <2>2, <2>3
<1>10. b = Append(a, f[c])
  BY <1>5, <1>8, <1>9, SeqEqual
<1> QED
  BY <1>5, <1>10 DEF a, b, u

\* The commands of segments.
CommandsFrom(segments) == FlattenSeq([i \in DOMAIN segments |-> ParseBare(StripSudo(segments[i]))])
ParsedOnes == {Parsed(words) : words \in CommandWords}

LEMMA BareWords ==
    ASSUME NEW words \in CommandWords
    PROVE  /\ StripSudo(words) \in Words /\ ParseBare(StripSudo(words)) \in Seq(ParsedOnes)
           /\ StripSudo(words) = <<>> => ParseBare(StripSudo(words)) = <<>>
           /\ StripSudo(words) # <<>> => ParseBare(StripSudo(words)) = <<Parsed(StripSudo(words))>>
<1> DEFINE bare == StripSudo(words)
<1>1. bare \in Words
  BY ParsedWords DEF StripSudo, CommandWords
<1> HIDE DEF bare
<1>2. /\ bare = <<>> => ParseBare(bare) = <<>>
      /\ bare # <<>> => ParseBare(bare) = <<Parsed(bare)>>
  BY DEF ParseBare, Parsed
<1>3. bare # <<>> => Parsed(bare) \in ParsedOnes
  BY <1>1 DEF ParsedOnes, CommandWords
<1> DEFINE S == ParsedOnes
<1>4. bare # <<>> => <<Parsed(bare)>> \in Seq(S)
  <2> HIDE DEF S
  <2> SUFFICES ASSUME bare # <<>> PROVE <<Parsed(bare)>> \in Seq(S)
    OBVIOUS
  <2>1. Parsed(bare) \in S
    BY <1>3 DEF S
  <2> QED
    BY <2>1, One
<1>5. ParseBare(bare) \in Seq(S)
  <2> HIDE DEF S
  <2> QED
    BY <1>2, <1>4, EmptySeq
<1> QED
  BY <1>1, <1>2, <1>5 DEF bare

LEMMA CommandsStep ==
    ASSUME NEW ss \in Seq(CommandWords), NEW words \in CommandWords
    PROVE  /\ CommandsFrom(ss) \in Seq(ParsedOnes)
           /\ CommandsFrom(Append(ss, words)) = CommandsFrom(ss) \o ParseBare(StripSudo(words))
<1> DEFINE W == CommandWords
           S == ParsedOnes
           V == Seq(S)
           f == [w \in W |-> ParseBare(StripSudo(w))]
           a(q) == [i \in DOMAIN q |-> f[q[i]]]
<1>1. \A w \in W : ParseBare(StripSudo(w)) \in V
  BY BareWords
<1> HIDE DEF V
<1>2. f \in [W -> V] /\ f[words] = ParseBare(StripSudo(words))
  BY <1>1
<1>3. ss \in Seq(W) /\ words \in W /\ Append(ss, words) \in Seq(W)
  BY AppendProperties
<1>4. ASSUME NEW q \in Seq(W) PROVE CommandsFrom(q) = FlattenSeq(a(q))
  <2>1. \A i \in DOMAIN q : q[i] \in W
    BY LenProperties, ElementOfSeq
  <2>2. [i \in DOMAIN q |-> ParseBare(StripSudo(q[i]))] = a(q)
    BY <2>1
  <2> HIDE DEF a
  <2> QED
    BY <2>2 DEF CommandsFrom
<1> HIDE DEF f, W
<1>5. a(ss) \in Seq(V) /\ a(Append(ss, words)) = Append(a(ss), f[words])
  BY <1>2, <1>3, EachAppended
<1> HIDE DEF a, S
<1>6. f[words] \in V
  BY <1>2, <1>3
<1>7. FlattenSeq(a(ss)) \in V /\ FlattenSeq(Append(a(ss), f[words])) = FlattenSeq(a(ss)) \o f[words]
  BY <1>5, <1>6, FlattenStep DEF V
<1> QED
  BY <1>2, <1>3, <1>4, <1>5, <1>7 DEF V, S

\* A word more says more.
LEMMA WordSaysMore ==
    ASSUME NEW words \in CommandWords, NEW w, Append(words, w) \in CommandWords
    PROVE  /\ Head(Append(words, w)) = Head(words)
           /\ StripSudo(words) # <<>> =>
                 /\ StripSudo(Append(words, w)) # <<>>
                 /\ Parsed(StripSudo(words)).command = Parsed(StripSudo(Append(words, w))).command
                 /\ Texts(Parsed(StripSudo(words))) \subseteq Texts(Parsed(StripSudo(Append(words, w))))
<1> DEFINE more == Append(words, w)
<1>1. words \in Seq(STRING) /\ more \in Seq(STRING) /\ words # <<>> /\ more # <<>>
  BY DEF CommandWords, Words
<1>2. Len(words) \in Nat /\ Len(words) # 0 /\ Len(more) = Len(words) + 1
  BY <1>1, EmptySeq, LenProperties
<1>3. w \in STRING
  <2>1. more[Len(words) + 1] = w
    BY <1>1, <1>2
  <2>2. Len(words) + 1 \in 1..Len(more)
    BY <1>2
  <2> QED
    BY <1>1, <2>1, <2>2, ElementOfSeq
<1>4. Head(more) = Head(words) /\ Tail(more) = Append(Tail(words), w)
  BY <1>1, <1>2, <1>3, HeadTailAppend
<1>5. StripSudo(more) = Append(StripSudo(words), w)
  BY <1>4 DEF StripSudo
<1> DEFINE v == StripSudo(words)
           x == Append(v, w)
<1>6. v \in Words
  BY BareWords
<1> HIDE DEF v, more
<1>7. ASSUME v # <<>>
      PROVE  x # <<>> /\ Parsed(v).command = Parsed(x).command /\ Texts(Parsed(v)) \subseteq Texts(Parsed(x))
  <2>1. v \in Seq(STRING) /\ Len(v) \in Nat /\ Len(v) # 0
    BY <1>6, <1>7, EmptySeq, LenProperties DEF Words
  <2>2. x \in Seq(STRING) /\ Len(x) = Len(v) + 1 /\ x[1] = v[1] /\ Tail(x) = Append(Tail(v), w)
    <3>1. /\ x \in Seq(STRING) /\ Len(x) = Len(v) + 1 /\ \A i \in 1..Len(v) : x[i] = v[i]
      BY <1>3, <2>1, AppendProperties
    <3>2. 1 \in 1..Len(v)
      BY <2>1
    <3>3. Tail(x) = Append(Tail(v), w)
      BY <1>3, <1>7, <2>1, HeadTailAppend
    <3> HIDE DEF x
    <3> QED
      BY <3>1, <3>2, <3>3
  <2> HIDE DEF x
  <2>3. x # <<>> /\ x \in CommandWords /\ v \in CommandWords
    <3>1. Len(x) # 0
      BY <2>1, <2>2
    <3> QED
      BY <1>6, <1>7, <2>2, <3>1, EmptySeq DEF CommandWords, Words
  <2>4. Tail(v) \in Words /\ Tail(x) \in Words
    BY <2>3, ParsedWords
  <2>5. ToSet(Tail(v)) \subseteq ToSet(Tail(x))
    <3> DEFINE t == Tail(v)
    <3> HIDE DEF t
    <3>1. t \in Seq(STRING) /\ <<w>> \in Seq(STRING) /\ Tail(x) = t \o <<w>>
      BY <1>3, <2>2, <2>4, One, AppendIsConcat DEF t, Words
    <3>2. ToSet(t \o <<w>>) = ToSet(t) \cup ToSet(<<w>>)
      BY <3>1, JoinedHas
    <3> QED
      BY <3>1, <3>2 DEF t
  <2> DEFINE h == v[1]
             e == ExpandKnownFlags(h, Tail(v))
             g == ExpandKnownFlags(h, Tail(x))
  <2>6. /\ Parsed(v) = [command |-> h, args |-> [i \in DOMAIN e |-> ExplainArg(h, e[i])]]
        /\ Parsed(x) = [command |-> h, args |-> [i \in DOMAIN g |-> ExplainArg(h, g[i])]]
    BY <2>2, <2>3, ParsedWords
  <2>7. ToSet(e) \subseteq ToSet(g)
    <3>1. /\ ToSet(e) = IF h \in {"rm", "git"} THEN UNION {ToSet(Apart(a)) : a \in ToSet(Tail(v))} ELSE ToSet(Tail(v))
          /\ ToSet(g) = IF h \in {"rm", "git"} THEN UNION {ToSet(Apart(a)) : a \in ToSet(Tail(x))} ELSE ToSet(Tail(x))
      BY <2>4, ExpandedHas
    <3> HIDE DEF h, e, g
    <3> QED
      BY <2>5, <3>1
  <2> HIDE DEF h, e, g
  <2>8. Texts(Parsed(v)) = ToSet(e) /\ Texts(Parsed(x)) = ToSet(g)
    BY <2>6 DEF Texts, ToSet, ExplainArg
  <2>9. Parsed(v).command = Parsed(x).command
    BY <2>6
  <2> QED
    BY <2>3, <2>7, <2>8, <2>9
<1> QED
  BY <1>4, <1>5, <1>7 DEF v, more

LEMMA SaysMoreAfter ==
    ASSUME NEW S, NEW p \in Seq(S), NEW q \in Seq(S)
    PROVE  SaysMore(p, p \o q)
<1> DEFINE u == p \o q
           m == Len(p)
           n == Len(q)
<1>1. m \in Nat /\ DOMAIN p = 1..m /\ n \in Nat
  BY LenProperties
<1>2. u \in Seq(S) /\ Len(u) = m + n /\ \A i \in 1..m : u[i] = p[i]
  BY ConcatProperties
<1>3. DOMAIN u = 1..Len(u)
  BY <1>2, LenProperties
<1> HIDE DEF u, m, n
<1> QED
  BY <1>1, <1>2, <1>3 DEF SaysMore, u, m

LEMMA SaysMoreLast ==
    ASSUME NEW S, NEW p \in Seq(S), NEW x \in S, NEW y \in S,
           x.command = y.command, Texts(x) \subseteq Texts(y)
    PROVE  SaysMore(Append(p, x), Append(p, y))
<1> DEFINE u == Append(p, x)
           v == Append(p, y)
           n == Len(p)
<1>1. n \in Nat
  BY LenProperties
<1>2. /\ u \in Seq(S) /\ Len(u) = n + 1 /\ (\A i \in 1..n : u[i] = p[i]) /\ u[n + 1] = x
      /\ v \in Seq(S) /\ Len(v) = n + 1 /\ (\A i \in 1..n : v[i] = p[i]) /\ v[n + 1] = y
  BY AppendProperties
<1>3. DOMAIN u = 1..Len(u) /\ DOMAIN v = 1..Len(v)
  BY <1>2, LenProperties
<1> HIDE DEF u, v, n
<1>4. ASSUME NEW i \in 1..Len(u) PROVE u[i].command = v[i].command /\ Texts(u[i]) \subseteq Texts(v[i])
  <2>1. CASE i \in 1..n
    BY <1>2, <2>1
  <2>2. CASE i = n + 1
    BY <1>2, <2>2
  <2>3. i \in 1..n \/ i = n + 1
    BY <1>1, <1>2
  <2> QED
    BY <2>1, <2>2, <2>3
<1> QED
  BY <1>1, <1>2, <1>3, <1>4 DEF SaysMore, u, v
-----------------------------------------------------------------------------
(* What a step of the agent does to the commands it has written.              *)

Unhidden(p) == \A c \in ToSet(p) : ~c.hidden

LEMMA WrittenJoined ==
    ASSUME NEW s \in Seq(Nodes), NEW t \in Seq(Nodes)
    PROVE  Written(s \o t) = Written(s) \o Written(t)
<1> DEFINE V == Seq(CommandRecords)
           a(q) == [i \in DOMAIN q |-> AllCommands[q[i]]]
           u == s \o t
           m == Len(s)
           n == Len(t)
<1>1. ASSUME NEW q \in Seq(Nodes) PROVE a(q) \in Seq(V) /\ Len(a(q)) = Len(q) /\ Written(q) = FlattenSeq(a(q))
  <2>1. Len(q) \in Nat /\ DOMAIN q = 1..Len(q) /\ \A i \in 1..Len(q) : AllCommands[q[i]] \in V
    BY AllFoundRight, LenProperties, ElementOfSeq DEF FoundRight
  <2> HIDE DEF V
  <2>2. a(q) \in [1..Len(q) -> V]
    BY <2>1
  <2>3. Written(q) = FlattenSeq(a(q))
    BY DEF Written
  <2> HIDE DEF a
  <2> QED
    BY <2>1, <2>2, <2>3
<1>2. m \in Nat /\ n \in Nat /\ DOMAIN s = 1..m /\ DOMAIN t = 1..n
  BY LenProperties
<1>3. /\ u \in Seq(Nodes) /\ Len(u) = m + n
      /\ (\A i \in 1..m : u[i] = s[i]) /\ \A i \in 1..n : u[m + i] = t[i]
  BY ConcatProperties
<1>4. DOMAIN u = 1..(m + n)
  BY <1>3, LenProperties
<1>5. /\ a(s) \in Seq(V) /\ Len(a(s)) = m /\ a(t) \in Seq(V) /\ Len(a(t)) = n
      /\ a(u) \in Seq(V) /\ Len(a(u)) = m + n
  BY <1>1, <1>3
<1> HIDE DEF u, m, n, V
<1>6. /\ \A i \in 1..m : a(s)[i] = AllCommands[s[i]]
      /\ \A i \in 1..n : a(t)[i] = AllCommands[t[i]]
      /\ \A i \in 1..(m + n) : a(u)[i] = AllCommands[u[i]]
  BY <1>2, <1>4
<1> DEFINE f == a(s)
           g == a(t)
           h == a(u)
<1>7. f \in Seq(V) /\ g \in Seq(V) /\ h \in Seq(V) /\ Len(f) = m /\ Len(g) = n /\ Len(h) = m + n
  BY <1>5
<1>8. /\ \A i \in 1..m : f[i] = AllCommands[s[i]]
      /\ \A i \in 1..n : g[i] = AllCommands[t[i]]
      /\ \A i \in 1..(m + n) : h[i] = AllCommands[u[i]]
  BY <1>6
<1> HIDE DEF f, g, h
<1>9. /\ f \o g \in Seq(V) /\ Len(f \o g) = m + n
      /\ (\A i \in 1..m : (f \o g)[i] = f[i]) /\ \A i \in 1..n : (f \o g)[m + i] = g[i]
  <2> HIDE DEF V, m, n, u
  <2>1. /\ f \o g \in Seq(V) /\ Len(f \o g) = Len(f) + Len(g)
        /\ (\A i \in 1..Len(f) : (f \o g)[i] = f[i])
        /\ \A i \in 1..Len(g) : (f \o g)[Len(f) + i] = g[i]
    BY <1>7, ConcatProperties
  <2> QED
    BY <1>7, <2>1
<1>10. ASSUME NEW i \in 1..(m + n) PROVE h[i] = (f \o g)[i]
  <2>1. CASE i \in 1..m
    <3>1. u[i] = s[i] /\ (f \o g)[i] = f[i] /\ f[i] = AllCommands[s[i]]
      BY <1>3, <1>8, <1>9, <2>1
    <3>2. h[i] = AllCommands[u[i]]
      BY <1>8
    <3> QED
      BY <3>1, <3>2
  <2>2. CASE i - m \in 1..n
    <3>1. i = m + (i - m)
      BY <1>2
    <3>2. u[m + (i - m)] = t[i - m] /\ (f \o g)[m + (i - m)] = g[i - m]
      BY <1>3, <1>9, <2>2
    <3> QED
      BY <1>8, <2>2, <3>1, <3>2
  <2>3. i \in 1..m \/ i - m \in 1..n
    BY <1>2
  <2> QED
    BY <2>1, <2>2, <2>3
<1>11. h = f \o g
  BY <1>7, <1>9, <1>10, SeqEqual
<1>12. FlattenSeq(f \o g) = FlattenSeq(f) \o FlattenSeq(g)
  BY <1>7, FlattenJoined DEF V
<1>13. Written(s) = FlattenSeq(f) /\ Written(t) = FlattenSeq(g) /\ Written(u) = FlattenSeq(h)
  BY <1>1, <1>3 DEF f, g, h
<1> QED
  BY <1>11, <1>12, <1>13 DEF u

LEMMA WrittenOne ==
    ASSUME NEW node \in Nodes
    PROVE  Written(<<node>>) = AllCommands[node]
<1>1. [i \in DOMAIN <<node>> |-> AllCommands[<<node>>[i]]] = <<AllCommands[node]>>
  OBVIOUS
<1>2. AllCommands[node] \in Seq(CommandRecords)
  BY AllFoundRight DEF FoundRight
<1>3. FlattenSeq(<<AllCommands[node]>>) = AllCommands[node]
  BY <1>2, FlattenOne
<1> QED
  BY <1>1, <1>3 DEF Written

\* A node that hides no command hides no child, and what is not a command itself has
\* just those of its children.
LEMMA KidsShown ==
    ASSUME NEW node \in Nodes, Unhidden(AllCommands[node])
    PROVE  /\ \A i \in DOMAIN node.kids :
                 ~Hides(node, node.kids[i]) /\ node.kids[i] \in Nodes /\ Unhidden(AllCommands[node.kids[i]])
           /\ node.kind # "command" => AllCommands[node] = Written(node.kids)
<1> DEFINE kids == node.kids
           n == Len(kids)
           b == Below(node)
           own == IF node.kind = "command" THEN <<[words |-> node.words, hidden |-> FALSE]>> ELSE <<>>
<1>1. AllCommands[node] = own \o FlattenSeq(b)
  BY AllCommandsAre DEF CommandsOf, Below
<1>2. n \in Nat /\ DOMAIN kids = 1..n /\ \A i \in 1..n : kids[i] \in Nodes
  BY NodesAre, LenProperties, ElementOfSeq
<1>3. \A i \in DOMAIN kids : FoundRight(kids[i])
  BY <1>2, AllFoundRight
<1>4. /\ b \in Seq(Seq(CommandRecords)) /\ Len(b) = n /\ DOMAIN b = 1..n
      /\ \A i \in 1..n : b[i] # <<>>
  <2>1. b \in Seq(Seq(CommandRecords)) /\ Len(b) = n /\ \A i \in DOMAIN kids : b[i] # <<>>
    BY <1>3, BelowType
  <2> QED
    BY <1>2, <2>1, LenProperties
<1>5. \A i \in 1..n : b[i] = HideAll(AllCommands[kids[i]], Hides(node, kids[i]))
  BY <1>2 DEF Below
<1>6. own \in Seq(CommandRecords)
  <2>1. CASE node.kind = "command"
    <3> DEFINE c == [words |-> node.words, hidden |-> FALSE]
    <3>1. c \in CommandRecords
      BY <2>1, NodesAre DEF CommandRecords, CommandWords
    <3> HIDE DEF c
    <3> QED
      BY <2>1, <3>1, One DEF c
  <2>2. CASE node.kind # "command"
    BY <2>2, EmptySeq
  <2> QED
    BY <2>1, <2>2
<1> HIDE DEF own, b, n
<1>7. ToSet(AllCommands[node]) = ToSet(own) \cup UNION {ToSet(b[i]) : i \in DOMAIN b}
  <2>1. FlattenSeq(b) \in Seq(CommandRecords)
    BY <1>4, FlattenType
  <2>2. ToSet(own \o FlattenSeq(b)) = ToSet(own) \cup ToSet(FlattenSeq(b))
    BY <1>6, <2>1, JoinedHas
  <2>3. ToSet(FlattenSeq(b)) = UNION {ToSet(b[i]) : i \in DOMAIN b}
    BY <1>4, FlattenHas
  <2> QED
    BY <1>1, <2>2, <2>3
<1>8. ASSUME NEW i \in 1..n
      PROVE  ~Hides(node, kids[i]) /\ b[i] = AllCommands[kids[i]] /\ Unhidden(AllCommands[kids[i]])
  <2> DEFINE p == AllCommands[kids[i]]
  <2>1. p \in Seq(CommandRecords) /\ p # <<>>
    BY <1>2, <1>3 DEF FoundRight
  <2> HIDE DEF p
  <2>2. Unhidden(b[i])
    <3>1. \A c \in ToSet(b[i]) : c \in ToSet(AllCommands[node])
      BY <1>4, <1>7
    <3> QED
      BY <3>1 DEF Unhidden
  <2>3. ~Hides(node, kids[i])
    <3> SUFFICES ASSUME Hides(node, kids[i]) PROVE FALSE
      OBVIOUS
    <3>1. Hides(node, kids[i]) = TRUE
      BY HidesOrNot
    <3> DEFINE q == HideAll(p, TRUE)
    <3>2. b[i] = q
      BY <1>5, <3>1 DEF p
    <3>3. q \in Seq(CommandRecords) /\ Len(q) = Len(p) /\ \A j \in 1..Len(p) : q[j].hidden
      BY <2>1, HideAllIs
    <3>4. Len(p) \in Nat /\ Len(p) # 0
      BY <2>1, EmptySeq, LenProperties
    <3> HIDE DEF q
    <3>5. 1 \in 1..Len(p) /\ DOMAIN q = 1..Len(p)
      BY <3>3, <3>4, LenProperties
    <3>6. q[1] \in ToSet(q) /\ q[1].hidden
      BY <3>3, <3>5 DEF ToSet
    <3> QED
      BY <2>2, <3>2, <3>6 DEF Unhidden
  <2>4. b[i] = p
    <3>1. Hides(node, kids[i]) = FALSE
      BY <2>3, HidesOrNot
    <3> QED
      BY <1>5, <2>1, <3>1, HideAllIs DEF p
  <2> QED
    BY <2>2, <2>3, <2>4 DEF p
<1>9. ASSUME node.kind # "command" PROVE AllCommands[node] = Written(kids)
  <2>1. b = [i \in DOMAIN kids |-> AllCommands[kids[i]]]
    <3>1. b = [i \in 1..n |-> b[i]]
      BY <1>4, LenProperties, ElementOfSeq
    <3> QED
      BY <1>2, <1>8, <3>1
  <2>2. own = <<>> /\ FlattenSeq(b) \in Seq(CommandRecords)
    BY <1>4, <1>9, FlattenType DEF own
  <2>3. <<>> \o FlattenSeq(b) = FlattenSeq(b)
    BY <2>2, ConcatEmptySeq
  <2> QED
    BY <1>1, <2>1, <2>2, <2>3 DEF Written
<1> QED
  BY <1>2, <1>8, <1>9 DEF n

\* Without a command that is hidden, the segments are what is written.
LEMMA SegmentsUnhidden ==
    ASSUME NEW s \in Seq(Nodes), Unhidden(Written(s))
    PROVE  ParseToSegments(s) = Seen(Written(s))
<1> DEFINE W == Written(s)
<1>1. /\ W \in Seq(CommandRecords)
      /\ FlattenSeq([i \in DOMAIN s |-> Segments[s[i]]]) = Seen(W)
  BY WrittenIs
<1>2. CASE Seen(W) # <<>>
  BY <1>1, <1>2 DEF ParseToSegments
<1>3. CASE Seen(W) = <<>>
  <2>1. ToSet(<<>>) = {}
    BY DEF ToSet
  <2>2. ToSet(W) = {}
    BY <1>1, <1>3, <2>1, SeenHas DEF Unhidden
  <2>3. s = <<>>
    <3> SUFFICES ASSUME s # <<>> PROVE FALSE
      OBVIOUS
    <3>1. Len(s) \in Nat /\ Len(s) # 0 /\ DOMAIN s = 1..Len(s)
      BY EmptySeq, LenProperties
    <3>2. 1 \in DOMAIN s /\ s[1] \in Nodes
      BY <3>1, ElementOfSeq
    <3> DEFINE a == <<s[1]>>
               p == AllCommands[s[1]]
    <3>3. p \in Seq(CommandRecords) /\ p # <<>>
      BY <3>2, AllFoundRight DEF FoundRight
    <3>4. Len(p) \in Nat /\ Len(p) # 0 /\ DOMAIN p = 1..Len(p)
      BY <3>3, EmptySeq, LenProperties
    <3>5. p[1] \in ToSet(p)
      BY <3>4 DEF ToSet
    <3> DEFINE all == [i \in DOMAIN s |-> AllCommands[s[i]]]
               V == Seq(CommandRecords)
    <3>6. all[1] = p /\ 1 \in DOMAIN all
      BY <3>2
    <3>7. \A i \in 1..Len(s) : AllCommands[s[i]] \in V
      BY AllFoundRight, ElementOfSeq DEF FoundRight
    <3> HIDE DEF V, p
    <3>8. all \in [1..Len(s) -> V]
      BY <3>1, <3>7
    <3>9. Written(s) = FlattenSeq(all)
      BY DEF Written
    <3> HIDE DEF all
    <3>10. all \in Seq(V)
      BY <3>1, <3>8
    <3>11. ToSet(FlattenSeq(all)) = UNION {ToSet(all[i]) : i \in DOMAIN all}
      BY <3>10, FlattenHas DEF V
    <3>12. p[1] \in UNION {ToSet(all[i]) : i \in DOMAIN all}
      BY <3>5, <3>6
    <3> QED
      BY <2>2, <3>9, <3>11, <3>12
  <2>4. ParseToSegments(s) = FallbackShlex(s)
    BY <1>1, <1>3 DEF ParseToSegments
  <2> QED
    BY <1>3, <2>3, <2>4 DEF FallbackShlex
<1> QED
  BY <1>2, <1>3

\* The commands that are written stay, or one comes after them, or the last gets a word.
Kept(p, q) ==
    \/ q = p
    \/ \E c \in CommandRecords : q = Append(p, c)
    \/ \E r \in Seq(CommandRecords), c \in CommandRecords, d \in CommandRecords : \E w :
          p = Append(r, c) /\ q = Append(r, d) /\ d.words = Append(c.words, w)

\* A command without children.
LEMMA PlainCommand ==
    ASSUME NEW node \in Nodes, node.kind = "command", node.kids = <<>>
    PROVE  /\ AllCommands[node] = <<[words |-> node.words, hidden |-> FALSE]>>
           /\ [words |-> node.words, hidden |-> FALSE] \in CommandRecords
<1> DEFINE c == [words |-> node.words, hidden |-> FALSE]
           below == [i \in DOMAIN node.kids |-> HideAll(AllCommands[node.kids[i]], Hides(node, node.kids[i]))]
<1>1. AllCommands[node] = <<c>> \o FlattenSeq(below)
  BY AllCommandsAre DEF CommandsOf
<1>2. below = <<>>
  OBVIOUS
<1>3. FlattenSeq(<<>>) = <<>>
  BY DEF FlattenSeq
<1>4. c \in CommandRecords
  BY NodesAre DEF CommandRecords, CommandWords
<1> HIDE DEF c, below
<1>5. <<c>> \o <<>> = <<c>>
  BY <1>4, One, ConcatEmptySeq
<1> QED
  BY <1>1, <1>2, <1>3, <1>4, <1>5 DEF c

LEMMA UnhiddenParts ==
    ASSUME NEW p \in Seq(CommandRecords), NEW q \in Seq(CommandRecords), Unhidden(p \o q)
    PROVE  Unhidden(p) /\ Unhidden(q)
<1>1. ToSet(p \o q) = ToSet(p) \cup ToSet(q)
  BY JoinedHas
<1> QED
  BY <1>1 DEF Unhidden

LEMMA BeginKeeps ==
    ASSUME script \in Seq(Nodes), Begin, Unhidden(Written(script)')
    PROVE  Kept(Written(script), Written(script)') /\ Unhidden(Written(script))
<1>1. PICK words : script' = Append(script, Command(words, <<>>)) /\ script' \in Seq(Nodes)
  BY DEF Begin, WithinBounds
<1> DEFINE node == Command(words, <<>>)
           c == [words |-> words, hidden |-> FALSE]
<1>2. node \in Nodes
  <2>1. Len(script) \in Nat /\ Len(script') = Len(script) + 1 /\ script'[Len(script) + 1] = node
    BY <1>1, LenProperties
  <2>2. Len(script) + 1 \in 1..Len(script')
    BY <2>1
  <2> QED
    BY <1>1, <2>1, <2>2, ElementOfSeq
<1>3. AllCommands[node] = <<c>> /\ c \in CommandRecords
  BY <1>2, PlainCommand DEF Command
<1> HIDE DEF node, c
<1>4. Written(script') = Written(script) \o Written(<<node>>)
  <2>1. script' = script \o <<node>> /\ <<node>> \in Seq(Nodes)
    BY <1>1, <1>2, AppendIsConcat, One DEF node
  <2> QED
    BY <2>1, WrittenJoined
<1>5. Written(script') = Append(Written(script), c)
  BY <1>2, <1>3, <1>4, WrittenIs, WrittenOne, AppendIsConcat
<1>6. Written(script)' = Written(script')
  BY DEF Written
<1>7. Unhidden(Written(script))
  <2>1. Written(<<node>>) \in Seq(CommandRecords) /\ Written(script) \in Seq(CommandRecords)
    BY <1>2, <1>3, One, WrittenOne, WrittenIs
  <2> QED
    BY <1>4, <1>6, <2>1, UnhiddenParts
<1> QED
  BY <1>3, <1>5, <1>6, <1>7 DEF Kept

LEMMA JoinedAt ==
    ASSUME NEW S, NEW p \in Seq(S), NEW q \in Seq(S)
    PROVE  /\ p \o q \in Seq(S) /\ Len(p \o q) = Len(p) + Len(q)
           /\ \A i \in 1..Len(p) : (p \o q)[i] = p[i]
           /\ \A i \in 1..Len(q) : (p \o q)[Len(p) + i] = q[i]
<1> DEFINE u == p \o q
           m == Len(p)
           n == Len(q)
<1>1. m \in Nat /\ n \in Nat
  BY LenProperties
<1>2. /\ u \in Seq(S) /\ Len(u) = m + n
      /\ \A i \in 1..(m + n) : u[i] = IF i <= m THEN p[i] ELSE q[i - m]
  BY ConcatProperties
<1> HIDE DEF u, m, n
<1>3. \A i \in 1..m : i \in 1..(m + n) /\ i <= m
  BY <1>1
<1>4. \A i \in 1..n : m + i \in 1..(m + n) /\ ~(m + i <= m) /\ (m + i) - m = i
  BY <1>1
<1> QED
  BY <1>2, <1>3, <1>4 DEF u, m, n

\* The last nodes of a script, and what is before them.
LEMMA SplitAt ==
    ASSUME NEW s \in Seq(Nodes), NEW k \in 1..Len(s)
    PROVE  /\ SubSeq(s, 1, Len(s) - k) \in Seq(Nodes) /\ Len(SubSeq(s, 1, Len(s) - k)) = Len(s) - k
           /\ \A i \in 1..(Len(s) - k) : SubSeq(s, 1, Len(s) - k)[i] = s[i]
           /\ k = 1 => s = SubSeq(s, 1, Len(s) - k) \o <<s[Len(s)]>>
           /\ k = 2 => s = SubSeq(s, 1, Len(s) - k) \o <<s[Len(s) - 1], s[Len(s)]>>
<1> DEFINE n == Len(s)
           f == SubSeq(s, 1, n - k)
<1>1. n \in Nat /\ \A i \in 1..n : s[i] \in Nodes
  BY LenProperties, ElementOfSeq
<1>2. f \in Seq(Nodes) /\ Len(f) = n - k /\ \A i \in 1..(n - k) : f[i] = s[i]
  BY <1>1, SubSeqProperties
<1> HIDE DEF f, n
<1>3. ASSUME k = 1 PROVE s = f \o <<s[n]>>
  <2>1. s[n] \in Nodes /\ n \in 1..n
    BY <1>1, <1>3 DEF n
  <2> DEFINE t == <<s[n]>>
             u == f \o t
  <2>2. t \in Seq(Nodes) /\ Len(t) = 1 /\ t[1] = s[n]
    BY <2>1, One
  <2> HIDE DEF t
  <2>3. /\ u \in Seq(Nodes) /\ Len(u) = (n - 1) + 1 /\ (\A i \in 1..(n - 1) : u[i] = f[i])
        /\ \A i \in 1..1 : u[(n - 1) + i] = t[i]
    BY <1>2, <1>3, <2>2, ConcatProperties
  <2> HIDE DEF u
  <2>4. ASSUME NEW i \in 1..n PROVE u[i] = s[i]
    <3>1. CASE i \in 1..(n - 1)
      BY <1>2, <1>3, <2>3, <3>1
    <3>2. CASE i = n
      <4>1. (n - 1) + 1 = n
        BY <1>1
      <4>2. u[(n - 1) + 1] = t[1]
        BY <2>3
      <4> QED
        BY <2>2, <3>2, <4>1, <4>2
    <3>3. i \in 1..(n - 1) \/ i = n
      BY <1>1
    <3> QED
      BY <3>1, <3>2, <3>3
  <2>5. Len(u) = n
    BY <1>1, <2>3
  <2>6. u = s
    BY <2>3, <2>4, <2>5, SeqEqual DEF n
  <2> QED
    BY <2>6 DEF u, t
<1>4. ASSUME k = 2 PROVE s = f \o <<s[n - 1], s[n]>>
  <2>1. s[n - 1] \in Nodes /\ s[n] \in Nodes /\ n \in 2..n
    <3>1. n - 1 \in 1..n /\ n \in 1..n /\ n \in 2..n
      BY <1>1, <1>4 DEF n
    <3> QED
      BY <1>1, <3>1
  <2> DEFINE t == <<s[n - 1], s[n]>>
             u == f \o t
             S == Nodes
  <2> HIDE DEF S
  <2>2. t \in Seq(S) /\ Len(t) = 2 /\ t[1] = s[n - 1] /\ t[2] = s[n]
    BY <2>1 DEF S
  <2> HIDE DEF t
  <2>3. /\ u \in Seq(Nodes) /\ Len(u) = (n - 2) + 2 /\ (\A i \in 1..(n - 2) : u[i] = f[i])
        /\ \A i \in 1..2 : u[(n - 2) + i] = t[i]
    <3>1. f \in Seq(S) /\ Len(f) = n - 2
      BY <1>2, <1>4 DEF S
    <3>2. /\ f \o t \in Seq(S) /\ Len(f \o t) = Len(f) + Len(t)
          /\ (\A i \in 1..Len(f) : (f \o t)[i] = f[i])
          /\ \A i \in 1..Len(t) : (f \o t)[Len(f) + i] = t[i]
      <4> HIDE DEF u
      <4>1. f \in Seq(S) /\ t \in Seq(S)
        BY <2>2, <3>1
      <4> QED
        BY <4>1, JoinedAt
    <3> HIDE DEF u
    <3>3. u = f \o t
      BY DEF u
    <3> QED
      BY <2>2, <3>1, <3>2, <3>3 DEF S
  <2> HIDE DEF u
  <2>4. ASSUME NEW i \in 1..n PROVE u[i] = s[i]
    <3>1. CASE i \in 1..(n - 2)
      BY <1>2, <1>4, <2>3, <3>1
    <3>2. CASE i = n - 1
      <4>1. (n - 2) + 1 = n - 1
        BY <1>1
      <4>2. u[(n - 2) + 1] = t[1]
        BY <2>3
      <4> QED
        BY <2>2, <3>2, <4>1, <4>2
    <3>3. CASE i = n
      <4>1. (n - 2) + 2 = n
        BY <1>1
      <4>2. u[(n - 2) + 2] = t[2]
        BY <2>3
      <4> QED
        BY <2>2, <3>3, <4>1, <4>2
    <3>4. i \in 1..(n - 2) \/ i = n - 1 \/ i = n
      BY <1>1
    <3> QED
      BY <3>1, <3>2, <3>3, <3>4
  <2>5. Len(u) = n
    BY <1>1, <2>3
  <2>6. u = s
    BY <2>3, <2>4, <2>5, SeqEqual DEF n
  <2> QED
    BY <2>6 DEF u, t
<1> QED
  BY <1>2, <1>3, <1>4 DEF n, f

LEMMA LastJoined ==
    ASSUME NEW S, NEW f \in Seq(S), NEW w, f \o <<w>> \in Seq(S)
    PROVE  w \in S
<1> DEFINE V == S \cup {w}
           u == f \o <<w>>
           n == Len(f)
<1>1. w \in V /\ f \in Seq(V)
  BY SeqMonotonic
<1> HIDE DEF V
<1>2. <<w>> \in Seq(V) /\ Len(<<w>>) = 1 /\ <<w>>[1] = w
  BY <1>1, One
<1>3. Len(u) = n + 1 /\ u[n + 1] = w /\ n \in Nat
  <2>1. Len(u) = n + Len(<<w>>) /\ \A i \in 1..Len(<<w>>) : u[n + i] = <<w>>[i]
    BY <1>1, <1>2, JoinedAt
  <2>2. n \in Nat
    BY LenProperties
  <2> HIDE DEF u, n
  <2> QED
    BY <1>2, <2>1, <2>2
<1>4. u \in Seq(S)
  OBVIOUS
<1> HIDE DEF u, n
<1>5. n + 1 \in 1..Len(u)
  BY <1>3
<1> QED
  BY <1>3, <1>4, <1>5, ElementOfSeq

LEMMA WordKeeps ==
    ASSUME script \in Seq(Nodes), Word, Unhidden(Written(script)')
    PROVE  Kept(Written(script), Written(script)') /\ Unhidden(Written(script))
<1> DEFINE n == Len(script)
           node == script[n]
           f == SubSeq(script, 1, n - 1)
           g == SubSeq(script', 1, n - 1)
<1>1. PICK w : script' = [script EXCEPT ![n].words = Append(@, w)]
  BY DEF Word
<1>2. script # <<>> /\ node.kind = "command" /\ node.kids = <<>> /\ script' \in Seq(Nodes)
  BY DEF Word, WithinBounds
<1>3. n \in Nat /\ n # 0 /\ DOMAIN script = 1..n /\ 1 \in 1..n /\ n \in 1..n
  BY <1>2, EmptySeq, LenProperties
<1>4. DOMAIN script' = 1..n /\ Len(script') = n
  BY <1>1, <1>2, <1>3, LenProperties
<1> DEFINE more == [node EXCEPT !.words = Append(@, w)]
<1>5. script'[n] = more /\ \A i \in 1..(n - 1) : script'[i] = script[i]
  BY <1>1, <1>3
<1>6. node \in Nodes /\ script'[n] \in Nodes
  BY <1>2, <1>3, <1>4, ElementOfSeq
<1>7. more \in Nodes /\ more.kind = "command" /\ more.kids = <<>> /\ more.words = Append(node.words, w)
  <2>1. "words" \in DOMAIN node /\ more \in Nodes
    <3>1. node \in NodesOver(Seq(Trees[MaxSize - 1]))
      <4>1. MaxSize \in 1..MaxSize
        BY <1>6, TreesAre DEF Nodes
      <4> QED
        BY <1>6, <4>1, TreesAre DEF Nodes
    <3> QED
      BY <1>5, <1>6, <3>1 DEF NodesOver
  <2> HIDE DEF node
  <2> QED
    BY <1>2, <2>1
<1> HIDE DEF node, more
<1>8. /\ f \in Seq(Nodes) /\ Len(f) = n - 1 /\ (\A i \in 1..(n - 1) : f[i] = script[i])
      /\ script = f \o <<node>>
  BY <1>3, SplitAt DEF node
<1>9. /\ g \in Seq(Nodes) /\ Len(g) = n - 1 /\ (\A i \in 1..(n - 1) : g[i] = script'[i])
      /\ script' = g \o <<more>>
  <2>1. 1 \in 1..Len(script')
    BY <1>3, <1>4
  <2> DEFINE k == SubSeq(script', 1, Len(script') - 1)
  <2>2. /\ k \in Seq(Nodes) /\ Len(k) = Len(script') - 1 /\ \A i \in 1..(Len(script') - 1) : k[i] = script'[i]
        /\ script' = k \o <<script'[Len(script')]>>
    BY <1>2, <2>1, SplitAt
  <2>3. k = g
    BY <1>4
  <2> HIDE DEF k, g
  <2> QED
    BY <1>4, <1>5, <2>2, <2>3
<1> HIDE DEF f, g
<1>10. g = f
  BY <1>5, <1>8, <1>9, SeqEqual
<1> DEFINE c == [words |-> node.words, hidden |-> FALSE]
           d == [words |-> more.words, hidden |-> FALSE]
           p == Written(f)
<1>11. AllCommands[node] = <<c>> /\ c \in CommandRecords /\ AllCommands[more] = <<d>> /\ d \in CommandRecords
  BY <1>2, <1>6, <1>7, PlainCommand DEF node
<1>12. p \in Seq(CommandRecords)
  BY <1>8, WrittenIs
<1>13. d.words = Append(c.words, w)
  BY <1>7
<1> HIDE DEF c, d, p
<1>14. Written(script) = Append(p, c) /\ Written(script') = Append(p, d)
  <2>1. <<node>> \in Seq(Nodes) /\ <<more>> \in Seq(Nodes)
    BY <1>6, <1>7, One
  <2>2. Written(f \o <<node>>) = p \o <<c>> /\ Written(f \o <<more>>) = p \o <<d>>
    BY <1>6, <1>7, <1>8, <1>11, <2>1, WrittenJoined, WrittenOne DEF p
  <2>3. p \o <<c>> = Append(p, c) /\ p \o <<d>> = Append(p, d)
    BY <1>11, <1>12, AppendIsConcat
  <2> QED
    BY <1>8, <1>9, <1>10, <2>2, <2>3
<1>15. Written(script)' = Written(script')
  BY DEF Written
<1>16. Unhidden(Written(script))
  <2>1. <<c>> \in Seq(CommandRecords) /\ <<d>> \in Seq(CommandRecords)
    BY <1>11, One
  <2>2. Written(script) = p \o <<c>> /\ Written(script') = p \o <<d>>
    BY <1>11, <1>12, <1>14, AppendIsConcat
  <2>3. Unhidden(p)
    BY <1>12, <1>15, <2>1, <2>2, UnhiddenParts
  <2>4. ToSet(<<c>>) = {c}
    BY DEF ToSet
  <2>6. ~c.hidden
    BY DEF c
  <2>5. ToSet(Written(script)) = ToSet(p) \cup {c}
    <3>1. ToSet(p \o <<c>>) = ToSet(p) \cup ToSet(<<c>>)
      BY <1>12, <2>1, JoinedHas
    <3> QED
      BY <2>2, <2>4, <3>1
  <2> QED
    BY <2>3, <2>5, <2>6 DEF Unhidden
<1> QED
  BY <1>11, <1>12, <1>13, <1>14, <1>15, <1>16 DEF Kept

\* A construct that shows what it is put around has the same commands.
LEMMA Uncovered ==
    ASSUME NEW kind, kind # "command", NEW kids, Node(kind, kids) \in Nodes,
           Unhidden(AllCommands[Node(kind, kids)])
    PROVE  /\ AllCommands[Node(kind, kids)] = Written(kids)
           /\ \A i \in DOMAIN kids : /\ ~Hides(Node(kind, kids), kids[i]) /\ kids[i] \in Nodes
                                      /\ Unhidden(AllCommands[kids[i]])
<1> DEFINE node == Node(kind, kids)
<1>1. node.kind = kind /\ node.kids = kids
  BY DEF Node
<1> HIDE DEF node
<1> QED
  BY <1>1, KidsShown DEF node

\* What is inside a body of a loop, of a case or of an else is never shown.
LEMMA NeverShown ==
    ASSUME NEW kind, kind \in {"do_group", "case_item", "else_clause", "command_substitution"}, NEW a,
           Node(kind, <<a>>) \in Nodes
    PROVE  ~Unhidden(AllCommands[Node(kind, <<a>>)])
<1> SUFFICES ASSUME Unhidden(AllCommands[Node(kind, <<a>>)]) PROVE FALSE
  OBVIOUS
<1>1. 1 \in DOMAIN <<a>> /\ <<a>>[1] = a
  OBVIOUS
<1>2. ~Hides(Node(kind, <<a>>), a)
  BY <1>1, Uncovered
<1>3. Hides(Node(kind, <<a>>), a)
  BY DEF Hides, Node, Entered
<1> QED
  BY <1>2, <1>3

LEMMA WrapsKeep1 ==
    ASSUME NEW a \in Nodes, NEW w \in Wraps1(a), w \in Nodes, Unhidden(AllCommands[w])
    PROVE  AllCommands[w] = Written(<<a>>)
<1> DEFINE simple(kind) == Node(kind, <<a>>)
           body(kind) == <<Node(kind, <<a>>)>>
<1>1. \/ \E kind \in {"subshell", "compound_statement", "redirected_statement", "negated_command"} : w = simple(kind)
      \/ w = Node("for_statement", body("do_group"))
      \/ w = Node("case_statement", body("case_item"))
      \/ w = Node("function_definition", body("compound_statement"))
      \/ w = Command(<<"echo", "$()">>, body("command_substitution"))
  BY DEF Wraps1
<1>2. ASSUME NEW kind \in {"subshell", "compound_statement", "redirected_statement", "negated_command"},
             w = simple(kind)
      PROVE  AllCommands[w] = Written(<<a>>)
  BY <1>2, Uncovered
<1>3. \A kind : body(kind)[1] = Node(kind, <<a>>) /\ 1 \in DOMAIN body(kind)
  OBVIOUS
<1>4. ASSUME w = Node("for_statement", body("do_group")) PROVE FALSE
  <2>1. Node("do_group", <<a>>) \in Nodes /\ Unhidden(AllCommands[Node("do_group", <<a>>)])
    BY <1>3, <1>4, Uncovered
  <2> QED
    BY <2>1, NeverShown
<1>5. ASSUME w = Node("case_statement", body("case_item")) PROVE FALSE
  <2>1. Node("case_item", <<a>>) \in Nodes /\ Unhidden(AllCommands[Node("case_item", <<a>>)])
    BY <1>3, <1>5, Uncovered
  <2> QED
    BY <2>1, NeverShown
<1>6. ASSUME w = Node("function_definition", body("compound_statement")) PROVE AllCommands[w] = Written(<<a>>)
  <2> DEFINE inner == Node("compound_statement", <<a>>)
  <2>1. /\ AllCommands[w] = Written(body("compound_statement"))
        /\ inner \in Nodes /\ Unhidden(AllCommands[inner])
    BY <1>3, <1>6, Uncovered
  <2>2. Written(<<inner>>) = AllCommands[inner]
    BY <2>1, WrittenOne
  <2>3. AllCommands[inner] = Written(<<a>>)
    BY <2>1, Uncovered
  <2> QED
    BY <2>1, <2>2, <2>3
<1>7. ASSUME w = Command(<<"echo", "$()">>, body("command_substitution")) PROVE FALSE
  <2>1. w.kids = body("command_substitution") /\ w.kind = "command"
    BY <1>7 DEF Command
  <2>2. ~Hides(w, Node("command_substitution", <<a>>))
    BY <1>3, <2>1, KidsShown
  <2> QED
    BY <2>1, <2>2 DEF Hides, Entered
<1> QED
  BY <1>1, <1>2, <1>4, <1>5, <1>6, <1>7

LEMMA WrapsKeep2 ==
    ASSUME NEW a \in Nodes, NEW b \in Nodes, NEW w \in Wraps2(a, b), w \in Nodes, Unhidden(AllCommands[w])
    PROVE  AllCommands[w] = Written(<<a, b>>)
<1> DEFINE loop == <<a, Node("do_group", <<b>>)>>
           other == <<a, Command(<<"true">>, <<>>), Node("else_clause", <<b>>)>>
<1>1. \/ \E kind \in {"pipeline", "list", "if_statement"} : w = Node(kind, <<a, b>>)
      \/ w = Node("while_statement", loop)
      \/ w = Node("if_statement", other)
  BY DEF Wraps2
<1>2. ASSUME NEW kind \in {"pipeline", "list", "if_statement"}, w = Node(kind, <<a, b>>)
      PROVE  AllCommands[w] = Written(<<a, b>>)
  BY <1>2, Uncovered
<1>3. ASSUME w = Node("while_statement", loop) PROVE FALSE
  <2>1. loop[2] = Node("do_group", <<b>>) /\ 2 \in DOMAIN loop
    OBVIOUS
  <2>2. Node("do_group", <<b>>) \in Nodes /\ Unhidden(AllCommands[Node("do_group", <<b>>)])
    BY <1>3, <2>1, Uncovered
  <2> QED
    BY <2>2, NeverShown
<1>4. ASSUME w = Node("if_statement", other) PROVE FALSE
  <2>1. other[3] = Node("else_clause", <<b>>) /\ 3 \in DOMAIN other
    OBVIOUS
  <2>2. Node("else_clause", <<b>>) \in Nodes /\ Unhidden(AllCommands[Node("else_clause", <<b>>)])
    BY <1>4, <2>1, Uncovered
  <2> QED
    BY <2>2, NeverShown
<1> QED
  BY <1>1, <1>2, <1>3, <1>4

LEMMA EncloseKeeps ==
    ASSUME script \in Seq(Nodes), Enclose, Unhidden(Written(script)')
    PROVE  Kept(Written(script), Written(script)') /\ Unhidden(Written(script))
<1> DEFINE n == Len(script)
<1>1. n \in Nat /\ script' \in Seq(Nodes) /\ \A i \in 1..n : script[i] \in Nodes
  BY LenProperties, ElementOfSeq DEF Enclose, WithinBounds
<1>2. ASSUME NEW f \in Seq(Nodes), NEW t \in Seq(Nodes), NEW w, script = f \o t, script' = f \o <<w>>,
             Unhidden(AllCommands[w]) => AllCommands[w] = Written(t)
      PROVE  Written(script)' = Written(script)
  <2>1. w \in Nodes
    BY <1>1, <1>2, LastJoined
  <2>2. <<w>> \in Seq(Nodes)
    BY <2>1, One
  <2>3. Written(script') = Written(f) \o AllCommands[w]
    BY <1>2, <2>1, <2>2, WrittenJoined, WrittenOne
  <2>4. Unhidden(AllCommands[w])
    <3>1. Written(f) \in Seq(CommandRecords) /\ AllCommands[w] \in Seq(CommandRecords)
      BY <2>1, <2>2, WrittenIs, WrittenOne
    <3>2. Unhidden(Written(script'))
      BY DEF Written
    <3> QED
      BY <2>3, <3>1, <3>2, UnhiddenParts
  <2>5. Written(script) = Written(f) \o Written(t)
    BY <1>2, WrittenJoined
  <2> QED
    BY <1>2, <2>3, <2>4, <2>5 DEF Written
<1>3. ASSUME NEW w \in Wraps1(script[n]), n >= 1, script' = SubSeq(script, 1, n - 1) \o <<w>>
      PROVE  Written(script)' = Written(script)
  <2> DEFINE f == SubSeq(script, 1, n - 1)
             a == script[n]
  <2>1. f \in Seq(Nodes) /\ script = f \o <<a>> /\ a \in Nodes
    <3>1. 1 \in 1..n /\ n \in 1..n
      BY <1>1, <1>3
    <3> QED
      BY <1>1, <3>1, SplitAt
  <2>2. script' = f \o <<w>> /\ w \in Wraps1(a)
    BY <1>3
  <2> HIDE DEF f, a
  <2>3. <<a>> \in Seq(Nodes)
    BY <2>1, One
  <2>4. w \in Nodes
    BY <1>1, <2>1, <2>2, LastJoined
  <2>5. Unhidden(AllCommands[w]) => AllCommands[w] = Written(<<a>>)
    BY <2>1, <2>2, <2>4, WrapsKeep1
  <2> QED
    BY <1>2, <2>1, <2>2, <2>3, <2>5
<1>4. ASSUME NEW w \in Wraps2(script[n - 1], script[n]), n >= 2, script' = SubSeq(script, 1, n - 2) \o <<w>>
      PROVE  Written(script)' = Written(script)
  <2> DEFINE f == SubSeq(script, 1, n - 2)
             a == script[n - 1]
             b == script[n]
  <2>1. f \in Seq(Nodes) /\ script = f \o <<a, b>> /\ a \in Nodes /\ b \in Nodes
    <3>1. 2 \in 1..n /\ n \in 1..n /\ n - 1 \in 1..n
      BY <1>1, <1>4
    <3> QED
      BY <1>1, <3>1, SplitAt
  <2>2. script' = f \o <<w>> /\ w \in Wraps2(a, b)
    BY <1>4
  <2> HIDE DEF f, a, b
  <2> DEFINE S == Nodes
  <2>3. <<a, b>> \in Seq(S)
    <3>1. a \in S /\ b \in S
      BY <2>1
    <3> HIDE DEF S
    <3> QED
      BY <3>1
  <2>4. w \in Nodes
    BY <1>1, <2>1, <2>2, LastJoined
  <2>5. Unhidden(AllCommands[w]) => AllCommands[w] = Written(<<a, b>>)
    BY <2>1, <2>2, <2>4, WrapsKeep2
  <2> QED
    BY <1>2, <2>1, <2>2, <2>3, <2>5
<1>5. Written(script)' = Written(script)
  <2>1. \/ \E w \in Wraps1(script[n]) : n >= 1 /\ script' = SubSeq(script, 1, n - 1) \o <<w>>
        \/ \E w \in Wraps2(script[n - 1], script[n]) : n >= 2 /\ script' = SubSeq(script, 1, n - 2) \o <<w>>
    BY DEF Enclose
  <2> QED
    BY <1>3, <1>4, <2>1
<1> QED
  BY <1>5 DEF Kept

LEMMA CommandsType ==
    ASSUME NEW ss \in Seq(CommandWords)
    PROVE  CommandsFrom(ss) \in Seq(ParsedOnes)
<1>1. CASE ss = <<>>
  <2>1. [i \in DOMAIN <<>> |-> ParseBare(StripSudo(<<>>[i]))] = <<>>
    OBVIOUS
  <2>2. FlattenSeq(<<>>) = <<>>
    BY DEF FlattenSeq
  <2>3. CommandsFrom(ss) = <<>>
    BY <1>1, <2>1, <2>2 DEF CommandsFrom
  <2> QED
    BY <2>3, EmptySeq
<1>2. CASE ss # <<>>
  <2>1. Len(ss) \in Nat /\ Len(ss) # 0
    BY <1>2, EmptySeq, LenProperties
  <2>2. ss[1] \in CommandWords
    BY <2>1, ElementOfSeq
  <2> QED
    BY <2>2, CommandsStep
<1> QED
  BY <1>1, <1>2

\* Commands that are kept say more.
LEMMA KeptGrows ==
    ASSUME NEW s \in Seq(Nodes), NEW t \in Seq(Nodes), Unhidden(Written(s)), Unhidden(Written(t)),
           Kept(Written(s), Written(t))
    PROVE  LevelOf(s) <= LevelOf(t)
<1> DEFINE W == Written(s)
           U == Written(t)
           V == CommandRecords
           from(p) == CommandsFrom(Seen(p))
           sudo(p) == \E w \in ToSet(Seen(p)) : Head(w) = "sudo"
<1>1. /\ W \in Seq(V) /\ U \in Seq(V) /\ ParseToSegments(s) = Seen(W) /\ ParseToSegments(t) = Seen(U)
  BY WrittenIs, SegmentsUnhidden
<1>2. AnalyzeCommand(s).commands = from(W) /\ AnalyzeCommand(t).commands = from(U)
  BY <1>1 DEF AnalyzeCommand, CommandsFrom
<1>3. \A p \in Seq(V) : from(p) \in Seq(ParsedOnes)
  BY SeenType, CommandsType
<1>4. ASSUME NEW p \in Seq(V), NEW c \in V, ~c.hidden
      PROVE  /\ Seen(Append(p, c)) = Append(Seen(p), c.words) /\ c.words \in CommandWords
             /\ from(Append(p, c)) = from(p) \o ParseBare(StripSudo(c.words))
  <2>1. c.words \in CommandWords /\ Seen(p) \in Seq(CommandWords)
    BY SeenType DEF CommandRecords
  <2>2. Seen(Append(p, c)) = Seen(p) \o <<c.words>>
    BY <1>4, SeenStep DEF SeenPart
  <2>3. Seen(p) \o <<c.words>> = Append(Seen(p), c.words)
    <3> DEFINE S == CommandWords
    <3>1. c.words \in S /\ Seen(p) \in Seq(S)
      BY <2>1
    <3> HIDE DEF S
    <3> QED
      BY <3>1, AppendIsConcat
  <2> QED
    BY <2>1, <2>2, <2>3, CommandsStep
<1>5. ASSUME NEW p \in Seq(V), NEW c \in V PROVE ToSet(Append(p, c)) = ToSet(p) \cup {c}
  <2>1. <<c>> \in Seq(V) /\ Append(p, c) = p \o <<c>>
    BY One, AppendIsConcat
  <2>2. ToSet(p \o <<c>>) = ToSet(p) \cup ToSet(<<c>>)
    BY <2>1, JoinedHas
  <2>3. ToSet(<<c>>) = {c}
    BY DEF ToSet
  <2> QED
    BY <2>1, <2>2, <2>3
<1>6. ASSUME NEW q \in Seq(CommandWords), NEW x \in CommandWords
      PROVE  ToSet(Append(q, x)) = ToSet(q) \cup {x}
  <2> DEFINE S == CommandWords
  <2>0. q \in Seq(S) /\ x \in S
    OBVIOUS
  <2> HIDE DEF S
  <2>1. <<x>> \in Seq(S) /\ Append(q, x) = q \o <<x>>
    BY <2>0, One, AppendIsConcat
  <2>2. ToSet(q \o <<x>>) = ToSet(q) \cup ToSet(<<x>>)
    BY <2>0, <2>1, JoinedHas
  <2>3. ToSet(<<x>>) = {x}
    BY DEF ToSet
  <2> QED
    BY <2>1, <2>2, <2>3
<1>7. ASSUME SaysMore(from(W), from(U)), sudo(W) => sudo(U) PROVE LevelOf(s) <= LevelOf(t)
  BY <1>1, <1>2, <1>7, LevelGrows
<1> HIDE DEF W, U
<1>8. CASE U = W
  <2> DEFINE S == ParsedOnes
             k == from(W)
  <2>1. k \in Seq(S)
    BY <1>1, <1>3
  <2> HIDE DEF S, k
  <2>2. k \o <<>> = k /\ <<>> \in Seq(S)
    BY <2>1, ConcatEmptySeq, EmptySeq
  <2>3. SaysMore(k, k)
    BY <2>1, <2>2, SaysMoreAfter
  <2> QED
    BY <1>7, <1>8, <2>3 DEF k
<1>9. CASE \E c \in V : U = Append(W, c)
  <2>1. PICK c \in V : U = Append(W, c)
    BY <1>9
  <2>2. ~c.hidden
    BY <1>1, <1>5, <2>1 DEF Unhidden, U
  <2>3. /\ Seen(U) = Append(Seen(W), c.words) /\ c.words \in CommandWords
        /\ from(U) = from(W) \o ParseBare(StripSudo(c.words))
    BY <1>1, <1>4, <2>1, <2>2
  <2>4. SaysMore(from(W), from(U))
    BY <1>1, <1>3, <2>3, BareWords, SaysMoreAfter
  <2>5. sudo(W) => sudo(U)
    BY <1>1, <1>6, <2>3, SeenType
  <2> QED
    BY <1>7, <2>4, <2>5
<1>10. CASE \E r \in Seq(V), c \in V, d \in V : \E w : W = Append(r, c) /\ U = Append(r, d) /\ d.words = Append(c.words, w)
  <2>1. PICK r \in Seq(V), c \in V, d \in V : \E w : W = Append(r, c) /\ U = Append(r, d) /\ d.words = Append(c.words, w)
    BY <1>10
  <2>0. PICK w : W = Append(r, c) /\ U = Append(r, d) /\ d.words = Append(c.words, w)
    BY <2>1
  <2>2. ~c.hidden /\ ~d.hidden
    BY <1>5, <2>0 DEF Unhidden, U, W
  <2>3. /\ Seen(W) = Append(Seen(r), c.words) /\ c.words \in CommandWords
        /\ from(W) = from(r) \o ParseBare(StripSudo(c.words))
        /\ Seen(U) = Append(Seen(r), d.words) /\ d.words \in CommandWords
        /\ from(U) = from(r) \o ParseBare(StripSudo(d.words))
    BY <1>4, <2>0, <2>2
  <2> DEFINE x == StripSudo(c.words)
             y == StripSudo(d.words)
             S == ParsedOnes
             k == from(r)
  <2>4. /\ Head(d.words) = Head(c.words)
        /\ x # <<>> => /\ y # <<>> /\ Parsed(x).command = Parsed(y).command
                       /\ Texts(Parsed(x)) \subseteq Texts(Parsed(y))
    BY <2>0, <2>3, WordSaysMore
  <2>5. /\ k \in Seq(S) /\ x \in Words /\ y \in Words
        /\ ParseBare(x) \in Seq(S) /\ ParseBare(y) \in Seq(S)
        /\ (x = <<>> => ParseBare(x) = <<>>) /\ (x # <<>> => ParseBare(x) = <<Parsed(x)>>)
        /\ (y # <<>> => ParseBare(y) = <<Parsed(y)>>)
    BY <1>3, <2>3, BareWords
  <2>6. \A z \in Words : z # <<>> => Parsed(z) \in S
    BY DEF ParsedOnes, CommandWords
  <2> HIDE DEF x, y, S, k
  <2>7. SaysMore(k \o ParseBare(x), k \o ParseBare(y))
    <3>1. CASE x = <<>>
      BY <2>5, <3>1, ConcatEmptySeq, SaysMoreAfter
    <3>2. CASE x # <<>>
      <4>1. Parsed(x) \in S /\ Parsed(y) \in S
        BY <2>4, <2>5, <2>6, <3>2
      <4>2. k \o <<Parsed(x)>> = Append(k, Parsed(x)) /\ k \o <<Parsed(y)>> = Append(k, Parsed(y))
        BY <2>5, <4>1, AppendIsConcat
      <4>3. SaysMore(Append(k, Parsed(x)), Append(k, Parsed(y)))
        BY <2>4, <2>5, <3>2, <4>1, SaysMoreLast
      <4> QED
        BY <2>4, <2>5, <3>2, <4>2, <4>3
    <3> QED
      BY <3>1, <3>2
  <2>8. SaysMore(from(W), from(U))
    BY <2>3, <2>7 DEF x, y, k
  <2>9. sudo(W) => sudo(U)
    <3>1. /\ ToSet(Seen(W)) = ToSet(Seen(r)) \cup {c.words}
          /\ ToSet(Seen(U)) = ToSet(Seen(r)) \cup {d.words}
      BY <1>6, <2>0, <2>3, SeenType
    <3> QED
      BY <2>4, <3>1
  <2> QED
    BY <1>7, <2>8, <2>9
<1> QED
  BY <1>8, <1>9, <1>10 DEF Kept, W, U

\* Writing on, in any way, never lowers the level that analyze_command gives a script,
\* unless a construct that the walk does not enter has a command in it afterwards.
THEOREM TheRiskOnlyGrows == CardSpec => RiskOnlyGrows
<1>1. ASSUME Grown, Grown', [CardNext]_cardVars
      PROVE  [LevelOf(script') >= LevelOf(script) \/ \E c \in ToSet(Written(script')) : c.hidden]_script
  <2>1. CASE UNCHANGED script
    BY <2>1
  <2>2. CASE Begin \/ Word \/ Enclose
    <3> SUFFICES ASSUME \A c \in ToSet(Written(script')) : ~c.hidden
                 PROVE  LevelOf(script') >= LevelOf(script)
      OBVIOUS
    <3>1. Written(script)' = Written(script') /\ Unhidden(Written(script'))
      BY DEF Written, Unhidden
    <3>2. script \in Seq(Nodes) /\ script' \in Seq(Nodes)
      BY <1>1 DEF Grown
    <3>3. Unhidden(Written(script)')
      BY <3>1
    <3>4. Kept(Written(script), Written(script)') /\ Unhidden(Written(script))
      BY <2>2, <3>2, <3>3, BeginKeeps, WordKeeps, EncloseKeeps
    <3>5. LevelOf(script) <= LevelOf(script')
      BY <3>1, <3>2, <3>4, KeptGrows
    <3>6. LevelOf(script) \in 0..3 /\ LevelOf(script') \in 0..3
      BY LevelsBound
    <3> QED
      BY <3>5, <3>6
  <2> QED
    BY <1>1, <2>1, <2>2 DEF CardNext, cardVars, Ask, Write
<1> QED
  BY <1>1, CardInvariant, PTL DEF CardSpec, RiskOnlyGrows
=============================================================================
