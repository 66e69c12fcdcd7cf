------------------------------- MODULE Render -------------------------------
(***************************************************************************)
(* render_to_canvas of camera.odin, its threaded branch: the calling       *)
(* thread (Main) cuts the image into NumTasks bands of lines and queues    *)
(* one task per band while the pool's workers already run; it then helps   *)
(* with the tasks that are left, stops the pool, joins the workers and     *)
(* releases the task data and scratch memory.                              *)
(*                                                                         *)
(* The pool is core:thread, which is not part of the repository: TakeTask, *)
(* EndTask, StopPool and WorkerExits are modelled from how render_to_canvas*)
(* uses it.  A colour is abstracted to what is known about it: "blank" is  *)
(* the zero colour of a new canvas, "torn" a colour whose components are   *)
(* being stored, "done" the colour that color_at computed for that pixel.  *)
(*                                                                         *)
(* The operators named Mutant... are not part of the specification: each   *)
(* is the definition below it with a bug that one of the properties is     *)
(* there to catch.                                                         *)
(***************************************************************************)
EXTENDS Integers

CONSTANTS
  Width, Height,   \* canvas.width, canvas.height (equal to the camera's size)
  Workers,         \* the NUM_THREADS threads of the pool
  NumTasks,        \* num_tasks, NUM_THREADS * 4 in the code
  Main             \* the thread that calls render_to_canvas

ASSUME SizeAssumption == Width \in Nat \ {0} /\ Height \in Nat \ {0}
ASSUME TasksAssumption == NumTasks \in Nat \ {0}
ASSUME MainAssumption == Main \notin Workers

Threads == Workers \cup {Main}
Tasks == 0 .. NumTasks - 1
NoTask == -1

Columns == 0 .. Width - 1
Lines == 0 .. Height - 1
Pixels == Columns \X Lines

(* canvas.pixels[x + y * c.width] *)
Index(x, y) == x + y * Width
Cells == 0 .. Width * Height - 1

VARIABLES
  pc,            \* where the calling thread is in render_to_canvas
  i,             \* its loop variable: the task being prepared
  lines_queued,  \* lines handed out so far
  task_data,     \* the band of each task: line_start and line_count
  waiting,       \* tasks added to the pool that no thread has taken
  alive,         \* workers that have not been joined
  job,           \* the task a thread executes, or NoTask
  at,            \* where a thread is in render_lines_task
  x, y, stop,    \* its loop variables, and the bound of the outer loop
  canvas         \* canvas.pixels

mainVars == <<pc, i, lines_queued, task_data>>
poolVars == <<waiting, alive, job>>
taskVars == <<at, x, y, stop>>
vars == <<mainVars, poolVars, taskVars, canvas>>

Init ==
  /\ pc = "prepare"
  /\ i = 0
  /\ lines_queued = 0
  /\ task_data = [t \in Tasks |-> [line_start |-> 0, line_count |-> 0]]
  /\ waiting = {}
  /\ alive = Workers
  /\ job = [e \in Threads |-> NoTask]
  /\ at = [e \in Threads |-> "idle"]
  /\ x = [e \in Threads |-> 0]
  /\ y = [e \in Threads |-> 0]
  /\ stop = [e \in Threads |-> 0]
  /\ canvas = [c \in Cells |-> "blank"]

-----------------------------------------------------------------------------
(* The calling thread.                                                     *)

MutantLinesPerTask == Height \div NumTasks

(* int(math.ceil(f64(c.size.y) / f64(num_tasks))) *)
LinesPerTask == (Height + NumTasks - 1) \div NumTasks

(* The band of the next task: the last ones are cut short, or are empty.   *)
LineCount(queued) ==
  IF queued + LinesPerTask > Height THEN Height - queued ELSE LinesPerTask

MutantPrepareTask ==
  /\ pc = "prepare"
  /\ LET first == IF lines_queued = 0 THEN 0 ELSE lines_queued - 1 IN
     task_data' = [task_data EXCEPT ![i] =
       [line_start |-> first, line_count |-> LineCount(lines_queued)]]
  /\ lines_queued' = lines_queued + LineCount(lines_queued)
  /\ pc' = "add"
  /\ UNCHANGED <<i, poolVars, taskVars, canvas>>

(* The loop body up to pool_add_task: the task's data is filled in.        *)
PrepareTask ==
  /\ pc = "prepare"
  /\ task_data' = [task_data EXCEPT ![i] =
       [line_start |-> lines_queued, line_count |-> LineCount(lines_queued)]]
  /\ lines_queued' = lines_queued + LineCount(lines_queued)
  /\ pc' = "add"
  /\ UNCHANGED <<i, poolVars, taskVars, canvas>>

MutantAddTask ==
  /\ pc = "add"
  /\ waiting' = waiting \cup {i}
  /\ i' = i + 1
  /\ pc' = IF i < NumTasks THEN "prepare" ELSE "finish"
  /\ UNCHANGED <<lines_queued, task_data, alive, job, taskVars, canvas>>

(* pool_add_task and the loop's increment and test. *)
AddTask ==
  /\ pc = "add"
  /\ waiting' = waiting \cup {i}
  /\ i' = i + 1
  /\ pc' = IF i + 1 < NumTasks THEN "prepare" ELSE "finish"
  /\ UNCHANGED <<lines_queued, task_data, alive, job, taskVars, canvas>>

(* pool_finish, once nothing waits any more and Main has no task itself:   *)
(* the pool is told to stop and the join begins.                           *)
StopPool ==
  /\ pc = "finish"
  /\ waiting = {}
  /\ job[Main] = NoTask
  /\ pc' = "join"
  /\ UNCHANGED <<i, lines_queued, task_data, poolVars, taskVars, canvas>>

MutantReturn ==
  /\ pc = "join"
  /\ pc' = "returned"
  /\ UNCHANGED <<i, lines_queued, task_data, poolVars, taskVars, canvas>>

(* The join ends; the deferred calls release task_mem, task_data and the   *)
(* pool before render_to_canvas returns.                                   *)
Return ==
  /\ pc = "join"
  /\ alive = {}
  /\ pc' = "returned"
  /\ UNCHANGED <<i, lines_queued, task_data, poolVars, taskVars, canvas>>

-----------------------------------------------------------------------------
(* A thread of the pool, or Main while it helps.                           *)

(* Workers take tasks until the pool stops; Main from pool_finish on.      *)
MayTake(e) ==
  IF e = Main THEN pc = "finish"
              ELSE e \in alive /\ pc \in {"prepare", "add", "finish"}

MutantTakeTask(e, t) ==
  /\ MayTake(e)
  /\ job[e] = NoTask
  /\ t \in waiting
  /\ job' = [job EXCEPT ![e] = t]
  /\ at' = [at EXCEPT ![e] = "begin"]
  /\ UNCHANGED <<mainVars, waiting, alive, x, y, stop, canvas>>

TakeTask(e, t) ==
  /\ MayTake(e)
  /\ job[e] = NoTask
  /\ t \in waiting
  /\ waiting' = waiting \ {t}
  /\ job' = [job EXCEPT ![e] = t]
  /\ at' = [at EXCEPT ![e] = "begin"]
  /\ UNCHANGED <<mainVars, alive, x, y, stop, canvas>>

(* Entry of render_lines_task: the range of the outer loop is evaluated.   *)
BeginTask(e) ==
  LET band == task_data[job[e]] IN
  /\ at[e] = "begin"
  /\ y' = [y EXCEPT ![e] = band.line_start]
  /\ stop' = [stop EXCEPT ![e] = band.line_start + band.line_count]
  /\ x' = [x EXCEPT ![e] = 0]
  /\ at' = [at EXCEPT ![e] = IF band.line_count > 0 THEN "shade" ELSE "end"]
  /\ UNCHANGED <<mainVars, poolVars, canvas>>

(* color_at computes the colour with the task's own scratch buffers, and   *)
(* canvas_write_pixel begins to store its components.                      *)
ShadePixel(e) ==
  /\ at[e] = "shade"
  /\ canvas' = [canvas EXCEPT ![Index(x[e], y[e])] = "torn"]
  /\ at' = [at EXCEPT ![e] = "write"]
  /\ UNCHANGED <<mainVars, poolVars, x, y, stop>>

MutantWritePixel(e) ==
  /\ at[e] = "write"
  /\ canvas' = [canvas EXCEPT ![Index(x[e], y[e])] = "done"]
  /\ x' = [x EXCEPT ![e] = IF x[e] + 1 < Width THEN x[e] + 1 ELSE 0]
  /\ at' = [at EXCEPT ![e] = "shade"]
  /\ UNCHANGED <<mainVars, poolVars, y, stop>>

(* The store is complete; the two loops advance. *)
WritePixel(e) ==
  /\ at[e] = "write"
  /\ canvas' = [canvas EXCEPT ![Index(x[e], y[e])] = "done"]
  /\ \/ /\ x[e] + 1 < Width
        /\ x' = [x EXCEPT ![e] = x[e] + 1]
        /\ at' = [at EXCEPT ![e] = "shade"]
        /\ UNCHANGED y
     \/ /\ x[e] + 1 >= Width
        /\ x' = [x EXCEPT ![e] = 0]
        /\ y' = [y EXCEPT ![e] = y[e] + 1]
        /\ at' = [at EXCEPT ![e] = IF y[e] + 1 < stop[e] THEN "shade" ELSE "end"]
  /\ UNCHANGED <<mainVars, poolVars, stop>>

(* render_lines_task returns to the pool. *)
EndTask(e) ==
  /\ at[e] = "end"
  /\ job' = [job EXCEPT ![e] = NoTask]
  /\ at' = [at EXCEPT ![e] = "idle"]
  /\ UNCHANGED <<mainVars, waiting, alive, x, y, stop, canvas>>

(* A worker without a task sees that the pool has stopped.                 *)
WorkerExits(w) ==
  /\ pc = "join"
  /\ w \in alive
  /\ job[w] = NoTask
  /\ alive' = alive \ {w}
  /\ UNCHANGED <<mainVars, waiting, job, taskVars, canvas>>

RunTask(e) ==
  \/ BeginTask(e)
  \/ ShadePixel(e)
  \/ WritePixel(e)
  \/ EndTask(e)

(* The caller has its image: nothing happens any more. *)
Terminated == pc = "returned" /\ UNCHANGED vars

MainStep == PrepareTask \/ AddTask \/ StopPool \/ Return

Next ==
  \/ MainStep
  \/ \E e \in Threads : RunTask(e) \/ \E t \in Tasks : TakeTask(e, t)
  \/ \E w \in Workers : WorkerExits(w)
  \/ Terminated

Spec == Init /\ [][Next]_vars

(* The operating system runs every thread that can run.  A worker may      *)
(* still find that the others were always faster at taking tasks.          *)
Fairness ==
  /\ WF_vars(MainStep)
  /\ \A e \in Threads : WF_vars(RunTask(e))
  /\ \A w \in Workers : WF_vars(WorkerExits(w))
  /\ WF_vars(\E t \in Tasks : TakeTask(Main, t))

FairSpec == Spec /\ Fairness

-----------------------------------------------------------------------------
(* Properties.                                                             *)

TypeOK ==
  /\ pc \in {"prepare", "add", "finish", "join", "returned"}
  /\ i \in 0 .. NumTasks
  /\ lines_queued \in 0 .. Height
  /\ task_data \in [Tasks -> [line_start : 0 .. Height, line_count : 0 .. Height]]
  /\ waiting \subseteq Tasks
  /\ alive \subseteq Workers
  /\ job \in [Threads -> Tasks \cup {NoTask}]
  /\ at \in [Threads -> {"idle", "begin", "shade", "write", "end"}]
  /\ x \in [Threads -> Columns]
  /\ y \in [Threads -> 0 .. Height]
  /\ stop \in [Threads -> 0 .. Height]
  /\ canvas \in [Cells -> {"blank", "torn", "done"}]

(* Two threads never run the same task, so the intersection buffer and the *)
(* hi_mem slice that color_at overwrites for every ray, which belong to    *)
(* the task and have no lock, are used by one thread at a time.            *)
ScratchIsExclusive ==
  \A e, f \in Threads : e # f /\ job[e] # NoTask => job[e] # job[f]

(* While render_lines_task is between its loop test and its store, its     *)
(* pixel is inside the canvas: the assertions of canvas_write_pixel hold,  *)
(* whatever the height leaves for the last bands.                          *)
WritesInCanvas ==
  \A e \in Threads : at[e] \in {"shade", "write"} => <<x[e], y[e]>> \in Pixels

(* task_mem, task_data and the pool are released when render_to_canvas     *)
(* returns: by then no thread runs a task, none waits in the pool, and no  *)
(* worker is left that could still look for one.                           *)
ReleasedMemoryIsIdle ==
  pc = "returned" =>
    /\ waiting = {}
    /\ alive = {}
    /\ \A e \in Threads : job[e] = NoTask

(* render_to_canvas implements ImageFill: a pixel is painted when its      *)
(* store completes.                                                        *)
Painted == {p \in Pixels : canvas[Index(p[1], p[2])] = "done"}

Fill == INSTANCE ImageFill WITH painted <- Painted, returned <- pc = "returned"

(* Every pixel is painted once, by whichever thread, in whatever order;    *)
(* a painted pixel is never touched again; and the call returns only when  *)
(* the bands, cut short, empty or not, have covered the whole image.       *)
ImplementsFill == Fill!Spec

(* Under the scheduler's fairness the call returns, with the image done.   *)
EventuallyReturns == <>(pc = "returned")
=============================================================================
