----------------------------- MODULE WithCanvas -----------------------------
(***************************************************************************)
(* with_canvas of the demo driver: a canvas is created, a display thread   *)
(* starts to show it (display.odin), the demo renders into it (Render),    *)
(* and when the window is closed the display is joined and the canvas      *)
(* destroyed.  The display reads the canvas with no lock while the threads *)
(* of the pool write it: what it gets for a pixel that is stored to while  *)
(* it is read is some mixture, "torn".                                     *)
(***************************************************************************)
EXTENDS Render

VARIABLES
  app,       \* with_canvas: "created", "rendering", "joining", "destroyed"
  display,   \* the display thread: see DisplayStates
  pos,       \* the pixel of the frame that is being drawn
  seen,      \* what the display saw of that pixel when it began to read it
  target,    \* the render texture being drawn
  shown      \* the last frame that was presented

displayVars == <<display, pos, seen, target, shown>>
allVars == <<vars, app, displayVars>>

DisplayStates == {"none", "waiting", "reading", "read", "closed"}
Colours == {"blank", "torn", "done"}
BlackFrame == [c \in Cells |-> "blank"]

CanvasInit ==
  /\ Init
  /\ app = "created"
  /\ display = "none"
  /\ pos = 0
  /\ seen = "blank"
  /\ target = BlackFrame
  /\ shown = BlackFrame

-----------------------------------------------------------------------------
(* start_display; then the demo is called. *)
StartDisplay ==
  /\ app = "created"
  /\ app' = "rendering"
  /\ display' = "waiting"
  /\ UNCHANGED <<vars, pos, seen, target, shown>>

(* A step of render_to_canvas, called by the demo. *)
RenderStep ==
  /\ app = "rendering"
  /\ Next
  /\ UNCHANGED <<app, displayVars>>

(* The demo returns to with_canvas, which calls end_display. *)
DemoReturns ==
  /\ app = "rendering"
  /\ pc = "returned"
  /\ app' = "joining"
  /\ UNCHANGED <<vars, displayVars>>

MutantEndDisplay ==
  /\ app = "joining"
  /\ app' = "destroyed"
  /\ UNCHANGED <<vars, displayVars>>

(* The join of end_display ends; the deferred canvas_destroy runs. *)
EndDisplay ==
  /\ app = "joining"
  /\ display = "closed"
  /\ app' = "destroyed"
  /\ UNCHANGED <<vars, displayVars>>

-----------------------------------------------------------------------------
(* The display thread: the loop of display_internal. *)

(* WindowShouldClose is false: the texture is cleared, the loops begin. *)
BeginFrame ==
  /\ display = "waiting"
  /\ target' = BlackFrame
  /\ pos' = 0
  /\ display' = "reading"
  /\ UNCHANGED <<vars, app, seen, shown>>

(* The user has closed the window; the thread ends. *)
CloseWindow ==
  /\ display = "waiting"
  /\ display' = "closed"
  /\ UNCHANGED <<vars, app, pos, seen, target, shown>>

(* canvas_get_pixel starts to copy a colour ... *)
BeginRead ==
  /\ display = "reading"
  /\ pos \in Cells
  /\ seen' = canvas[pos]
  /\ display' = "read"
  /\ UNCHANGED <<vars, app, pos, target, shown>>

(* ... and draws what it got: a mixture if the pixel changed meanwhile. *)
EndRead ==
  /\ display = "read"
  /\ target' = [target EXCEPT ![pos] = IF canvas[pos] = seen THEN seen ELSE "torn"]
  /\ pos' = pos + 1
  /\ display' = "reading"
  /\ UNCHANGED <<vars, app, seen, shown>>

MutantPresent ==
  /\ display = "reading"
  /\ pos >= Width * (Height - 1)
  /\ shown' = target
  /\ display' = "waiting"
  /\ UNCHANGED <<vars, app, pos, seen, target>>

(* EndDrawing: the frame is presented. *)
Present ==
  /\ display = "reading"
  /\ pos \notin Cells
  /\ shown' = target
  /\ display' = "waiting"
  /\ UNCHANGED <<vars, app, pos, seen, target>>

DrawStep == BeginFrame \/ BeginRead \/ EndRead \/ Present

CanvasDestroyed == app = "destroyed" /\ UNCHANGED allVars

CanvasNext ==
  \/ StartDisplay \/ RenderStep \/ DemoReturns \/ EndDisplay
  \/ DrawStep \/ CloseWindow
  \/ CanvasDestroyed

CanvasSpec == CanvasInit /\ [][CanvasNext]_allVars

(* Every thread runs when it can; nobody has to close the window. *)
CanvasFairness ==
  /\ WF_allVars(StartDisplay \/ DemoReturns \/ EndDisplay)
  /\ WF_allVars(app = "rendering" /\ MainStep /\ UNCHANGED <<app, displayVars>>)
  /\ \A e \in Threads :
       WF_allVars(app = "rendering" /\ RunTask(e) /\ UNCHANGED <<app, displayVars>>)
  /\ \A w \in Workers :
       WF_allVars(app = "rendering" /\ WorkerExits(w) /\ UNCHANGED <<app, displayVars>>)
  /\ WF_allVars(/\ app = "rendering"
                /\ \E t \in Tasks : TakeTask(Main, t)
                /\ UNCHANGED <<app, displayVars>>)
  /\ WF_allVars(DrawStep)

CanvasFairSpec == CanvasSpec /\ CanvasFairness

-----------------------------------------------------------------------------
(* Properties.                                                             *)

CanvasTypeOK ==
  /\ TypeOK
  /\ app \in {"created", "rendering", "joining", "destroyed"}
  /\ display \in DisplayStates
  /\ pos \in 0 .. Width * Height
  /\ seen \in Colours
  /\ target \in [Cells -> Colours]
  /\ shown \in [Cells -> Colours]

(* canvas_destroy frees the pixels under the pointer that the display      *)
(* thread was given and that the render tasks were given: it runs only     *)
(* when neither the display nor a task can use them.                       *)
CanvasOutlivesItsUsers ==
  app = "destroyed" =>
    /\ display = "closed"
    /\ \A e \in Threads : job[e] = NoTask

(* What the user sees only gets better: a pixel that was shown with its    *)
(* final colour is never shown blank or torn again, although the display   *)
(* redraws everything from an unlocked canvas in every frame.              *)
ShownPixelsStay ==
  [][\A c \in Cells : shown[c] = "done" => shown'[c] = "done"]_allVars

(* Unless the user closes the window, it ends up showing the whole image,  *)
(* with no torn pixel left in it.                                          *)
ImageIsShown ==
  <>(display = "closed" \/ \A c \in Cells : shown[c] = "done")

(* Once the window is closed, even in the middle of the rendering, the     *)
(* rendering ends, the display is joined and the canvas is released.       *)
ClosedIsReleased == display = "closed" ~> app = "destroyed"
=============================================================================
