---------------------------- MODULE RenderProofs ----------------------------
(***************************************************************************)
(* Proofs about Render, for every size of the image, every number of tasks *)
(* and every set of workers: the inductive invariant IInv, the safety      *)
(* properties that follow from it, and that Render implements ImageFill.   *)
(* Then, from IInv, the invariant WInv of WithCanvas: the canvas outlives  *)
(* its users, and a pixel that was shown finished stays so.                *)
(***************************************************************************)
EXTENDS WithCanvas, TLAPS

(* The number of tasks whose band has been laid down. *)
Prepared == IF pc = "add" THEN i + 1 ELSE i
Laid == 0 .. Prepared - 1
First(t) == task_data[t].line_start
End(t) == task_data[t].line_start + task_data[t].line_count
InBand(l, t) == First(t) <= l /\ l < End(t)

(* The loop of the calling thread: unless the image is used up, every band *)
(* so far has LinesPerTask lines.                                          *)
QueueInv ==
  /\ i < NumTasks <=> pc \in {"prepare", "add"}
  /\ lines_queued = Height \/ lines_queued = Prepared * LinesPerTask

(* The bands follow each other and cover the lines handed out so far.      *)
BandsInv ==
  /\ \A t \in Laid : End(t) <= lines_queued
  /\ \A s, t \in Laid : s < t => End(s) <= First(t)
  /\ \A l \in Lines : l < lines_queued => \E t \in Laid : InBand(l, t)

(* A task waits, or runs on one thread, or is over. *)
PoolInv ==
  /\ \A t \in waiting : t < i
  /\ \A e \in Threads : job[e] # NoTask => job[e] < i /\ job[e] \notin waiting
  /\ ScratchIsExclusive
  /\ \A w \in Workers : w \notin alive => job[w] = NoTask
  /\ job[Main] # NoTask => pc = "finish"
  /\ pc \in {"join", "returned"} => waiting = {}
  /\ pc = "returned" => alive = {}
  /\ \A e \in Threads : job[e] = NoTask <=> at[e] = "idle"

(* A thread works inside the band of its task. *)
Working(e) == at[e] \in {"shade", "write"}

CursorInv ==
  \A e \in Threads : Working(e) =>
    stop[e] = End(job[e]) /\ InBand(y[e], job[e])

(* What a pixel looks like to the thread that works on its band. *)
Passed(e, px, py) == py < y[e] \/ (py = y[e] /\ px < x[e])

Expected(e, px, py) ==
  IF Passed(e, px, py) THEN "done"
  ELSE IF px = x[e] /\ py = y[e] /\ at[e] = "write" THEN "torn" ELSE "blank"

Unstarted(t) ==
  \/ t >= i
  \/ t \in waiting
  \/ \E e \in Threads : job[e] = t /\ at[e] = "begin"

Over(t) ==
  /\ t < i
  /\ t \notin waiting
  /\ \A e \in Threads : job[e] = t => at[e] = "end"

CanvasInv ==
  \A px \in Columns, py \in Lines :
    /\ py >= lines_queued => canvas[Index(px, py)] = "blank"
    /\ \A t \in Laid : InBand(py, t) =>
         /\ Unstarted(t) => canvas[Index(px, py)] = "blank"
         /\ Over(t) => canvas[Index(px, py)] = "done"
         /\ \A e \in Threads : job[e] = t /\ Working(e) =>
              canvas[Index(px, py)] = Expected(e, px, py)

IInv == TypeOK /\ QueueInv /\ BandsInv /\ PoolInv /\ CursorInv /\ CanvasInv

-----------------------------------------------------------------------------
(* Facts about the operators.                                              *)

(* Every pixel has a cell of its own in canvas.pixels.                     *)
LEMMA IndexFacts ==
  /\ \A px \in Columns, py \in Lines : Index(px, py) \in Cells
  /\ \A px, qx \in Columns, py, qy \in Lines :
       Index(px, py) = Index(qx, qy) => px = qx /\ py = qy
<1>1. ASSUME NEW px \in Columns, NEW py \in Lines
      PROVE  Index(px, py) \in Cells
  <2>1. py * Width <= (Height - 1) * Width
    BY SizeAssumption DEF Lines
  <2>2. (Height - 1) * Width = Width * Height - Width
    BY SizeAssumption
  <2>. QED
    BY <2>1, <2>2, SizeAssumption DEF Index, Cells, Columns, Lines
<1>2. ASSUME NEW px \in Columns, NEW qx \in Columns,
             NEW py \in Lines, NEW qy \in Lines, py < qy
      PROVE  Index(px, py) < Index(qx, qy)
  <2>1. (py + 1) * Width <= qy * Width
    BY <1>2, SizeAssumption DEF Lines
  <2>2. (py + 1) * Width = py * Width + Width
    BY SizeAssumption DEF Lines
  <2>. QED
    BY <2>1, <2>2, SizeAssumption DEF Index, Columns, Lines
<1>3. ASSUME NEW px \in Columns, NEW qx \in Columns,
             NEW py \in Lines, NEW qy \in Lines, Index(px, py) = Index(qx, qy)
      PROVE  px = qx /\ py = qy
  <2>1. ~(py < qy) /\ ~(qy < py)
    BY <1>1, <1>2, <1>3 DEF Cells
  <2>2. py = qy
    BY <2>1 DEF Lines
  <2>. QED
    BY <2>2, <1>3, SizeAssumption DEF Index, Columns, Lines
<1>. QED
  BY <1>1, <1>3

(* The quotient is within one divisor of the dividend. *)
LEMMA DivisionFacts ==
  ASSUME NEW n \in Int, NEW h \in Int, n > 0, h >= 0
  PROVE  h \div n \in Nat /\ h < n * (h \div n) + n
<1>1. h \div n \in Int /\ h \div n >= 0
  OBVIOUS
<1>2. h < n * (h \div n) + n
  OBVIOUS
<1>. QED
  BY <1>1, <1>2

(* Rounding up hands out enough lines for the whole image.                 *)
LEMMA LinesPerTaskFacts ==
  /\ LinesPerTask \in Nat
  /\ NumTasks * LinesPerTask >= Height
<1>1. /\ NumTasks \in Int /\ NumTasks > 0 /\ Height \in Nat
      /\ Height + NumTasks - 1 \in Int /\ Height + NumTasks - 1 >= 0
  BY SizeAssumption, TasksAssumption
<1>2. /\ LinesPerTask \in Nat
      /\ Height + NumTasks - 1 < NumTasks * LinesPerTask + NumTasks
  BY <1>1, DivisionFacts DEF LinesPerTask
<1>3. NumTasks * LinesPerTask \in Int
  BY <1>1, <1>2
<1>. QED
  BY <1>1, <1>2, <1>3

LEMMA LineCountFacts ==
  ASSUME NEW q \in 0 .. Height
  PROVE  /\ LineCount(q) \in 0 .. Height
         /\ q + LineCount(q) \in 0 .. Height
         /\ q + LineCount(q) = Height \/ q + LineCount(q) = q + LinesPerTask
BY LinesPerTaskFacts, SizeAssumption DEF LineCount

-----------------------------------------------------------------------------
(* IInv holds initially, and every step of the calling thread keeps it.    *)

LEMMA InitInv == Init => IInv
<1>. SUFFICES ASSUME Init PROVE IInv
  OBVIOUS
<1>1. TypeOK
  BY SizeAssumption, TasksAssumption
  DEF Init, TypeOK, Tasks, Threads, NoTask, Columns
<1>2. QueueInv
  BY LinesPerTaskFacts, SizeAssumption, TasksAssumption DEF Init, QueueInv, Prepared
<1>3. BandsInv
  BY TasksAssumption DEF Init, BandsInv, Laid, Prepared, Lines
<1>4. PoolInv
  BY MainAssumption DEF Init, PoolInv, ScratchIsExclusive, Threads, NoTask
<1>5. CursorInv
  BY DEF Init, CursorInv, Working
<1>6. CanvasInv
  BY IndexFacts, TasksAssumption DEF Init, CanvasInv, Laid, Prepared, Lines
<1>. QED
  BY <1>1, <1>2, <1>3, <1>4, <1>5, <1>6 DEF IInv

LEMMA PrepareTaskInv == IInv /\ PrepareTask => IInv'
<1>. SUFFICES ASSUME IInv, PrepareTask PROVE IInv'
  OBVIOUS
<1>. USE DEF IInv, PrepareTask, poolVars, taskVars
<1>. DEFINE n == LineCount(lines_queued)
            q == lines_queued
<1>1. /\ i \in Tasks /\ i \in Nat /\ Laid = 0 .. i - 1 /\ Laid' = 0 .. i
      /\ Prepared = i /\ Prepared' = i + 1
  BY TasksAssumption DEF TypeOK, QueueInv, Tasks, Laid, Prepared
<1>2. /\ q \in 0 .. Height /\ n \in 0 .. Height /\ q + n \in 0 .. Height
      /\ q + n = Height \/ q + n = q + LinesPerTask
  BY LineCountFacts DEF TypeOK
<1>3. /\ First(i)' = q /\ End(i)' = q + n
      /\ \A t \in Laid : First(t)' = First(t) /\ End(t)' = End(t)
      /\ \A t \in Laid : First(t) \in 0 .. Height /\ End(t) \in Nat
  <2>1. task_data'[i] = [line_start |-> q, line_count |-> n]
    BY <1>1 DEF TypeOK
  <2>2. \A t \in Laid : t \in Tasks /\ task_data'[t] = task_data[t]
    <3>1. \A t \in Laid : t \in Tasks /\ t # i
      BY <1>1, TasksAssumption DEF Tasks
    <3>. QED
      BY <3>1 DEF TypeOK
  <2>3. \A t \in Tasks : First(t) \in 0 .. Height /\ End(t) \in Nat
    BY SizeAssumption DEF TypeOK, First, End
  <2>4. First(i)' = q /\ End(i)' = q + n
    BY <2>1 DEF First, End
  <2>5. \A t \in Laid : First(t)' = First(t) /\ End(t)' = End(t)
    BY <2>2 DEF First, End
  <2>. QED
    BY <2>2, <2>3, <2>4, <2>5
<1>4. TypeOK'
  BY <1>1, <1>2 DEF TypeOK
<1>5. QueueInv'
  <2>1. q = Height \/ q = i * LinesPerTask
    BY <1>1 DEF QueueInv
  <2>2. (i + 1) * LinesPerTask = i * LinesPerTask + LinesPerTask
    BY <1>1, LinesPerTaskFacts
  <2>3. q + n = Height \/ q + n = (i + 1) * LinesPerTask
    BY <1>2, <2>1, <2>2, SizeAssumption
  <2>. QED
    BY <1>1, <2>3 DEF QueueInv, Tasks
<1>6. BandsInv'
  <2>1. \A t \in Laid' : End(t)' <= lines_queued'
    BY <1>1, <1>2, <1>3, SMTT(60) DEF BandsInv
  <2>2. \A s, t \in Laid' : s < t => End(s)' <= First(t)'
    BY <1>1, <1>2, <1>3, SMTT(60) DEF BandsInv
  <2>3. ASSUME NEW l \in Lines, l < lines_queued'
        PROVE  \E t \in Laid' : InBand(l, t)'
    <3>1. CASE l < q
      BY <3>1, <1>1, <1>3 DEF BandsInv, InBand
    <3>2. CASE ~(l < q)
      BY <3>2, <2>3, <1>1, <1>2, <1>3 DEF InBand, Lines
    <3>. QED
      BY <3>1, <3>2
  <2>. QED
    BY <2>1, <2>2, <2>3 DEF BandsInv
<1>7. PoolInv'
  BY DEF PoolInv, ScratchIsExclusive
<1>8. CursorInv'
  <2>. SUFFICES ASSUME NEW e \in Threads, Working(e)
                PROVE  stop[e] = End(job[e])' /\ InBand(y[e], job[e])'
    BY DEF CursorInv, Working
  <2>1. job[e] \in Laid
    BY <1>1 DEF PoolInv, TypeOK, Working, Tasks, NoTask
  <2>. QED
    BY <1>3, <2>1 DEF CursorInv, InBand
<1>9. CanvasInv'
  <2>. SUFFICES ASSUME NEW px \in Columns, NEW py \in Lines
                PROVE  /\ py >= lines_queued' => canvas[Index(px, py)] = "blank"
                       /\ \A t \in Laid' : InBand(py, t)' =>
                            /\ Unstarted(t)' => canvas[Index(px, py)] = "blank"
                            /\ Over(t)' => canvas[Index(px, py)] = "done"
                            /\ \A e \in Threads : job[e] = t /\ Working(e) =>
                                 canvas[Index(px, py)] = Expected(e, px, py)
    BY DEF CanvasInv, Working, Expected, Passed
  <2>1. py >= lines_queued' => canvas[Index(px, py)] = "blank"
    BY <1>2 DEF CanvasInv, Lines
  <2>2. ASSUME NEW t \in Laid, InBand(py, t)'
        PROVE  /\ Unstarted(t)' => canvas[Index(px, py)] = "blank"
               /\ Over(t)' => canvas[Index(px, py)] = "done"
               /\ \A e \in Threads : job[e] = t /\ Working(e) =>
                    canvas[Index(px, py)] = Expected(e, px, py)
    <3>1. InBand(py, t)
      BY <1>3, <2>2 DEF InBand
    <3>2. (Unstarted(t)' <=> Unstarted(t)) /\ (Over(t)' <=> Over(t))
      BY DEF Unstarted, Over
    <3>. QED
      BY <3>1, <3>2 DEF CanvasInv
  <2>3. ASSUME InBand(py, i)'
        PROVE  /\ canvas[Index(px, py)] = "blank"
               /\ ~Over(i)'
               /\ \A e \in Threads : Working(e) => job[e] # i
    <3>1. py >= lines_queued
      BY <1>3, <2>3 DEF InBand
    <3>2. \A e \in Threads : Working(e) => job[e] < i
      BY DEF PoolInv, TypeOK, Working
    <3>. QED
      BY <1>1, <3>1, <3>2 DEF CanvasInv, Over
  <2>. QED
    BY <1>1, <2>1, <2>2, <2>3
<1>. QED
  BY <1>4, <1>5, <1>6, <1>7, <1>8, <1>9

LEMMA AddTaskInv == IInv /\ AddTask => IInv'
<1>. SUFFICES ASSUME IInv, AddTask PROVE IInv'
  OBVIOUS
<1>. USE DEF IInv, AddTask, taskVars
<1>1. /\ i \in Tasks /\ i \in Nat /\ Laid = 0 .. i /\ Laid' = 0 .. i
      /\ Prepared = i + 1 /\ Prepared' = i + 1
  BY TasksAssumption DEF TypeOK, QueueInv, Tasks, Laid, Prepared
<1>2. \A t : First(t)' = First(t) /\ End(t)' = End(t)
  BY DEF First, End
<1>3. TypeOK'
  BY <1>1, TasksAssumption DEF TypeOK, Tasks
<1>4. QueueInv'
  BY <1>1, TasksAssumption DEF QueueInv, Tasks
<1>5. BandsInv'
  BY <1>1, <1>2 DEF BandsInv, InBand
<1>6. PoolInv'
  BY <1>1 DEF PoolInv, ScratchIsExclusive, TypeOK, Tasks, NoTask
<1>7. CursorInv'
  BY <1>2 DEF CursorInv, Working, InBand
<1>8. CanvasInv'
  BY <1>1, <1>2 DEF CanvasInv, InBand, Unstarted, Over, Working, Expected, Passed,
     PoolInv, TypeOK
<1>. QED
  BY <1>3, <1>4, <1>5, <1>6, <1>7, <1>8

LEMMA StopPoolInv == IInv /\ StopPool => IInv'
<1>. SUFFICES ASSUME IInv, StopPool PROVE IInv'
  OBVIOUS
<1>. USE DEF IInv, StopPool, poolVars, taskVars
<1>1. Laid' = Laid /\ Prepared' = Prepared
  BY DEF Laid, Prepared
<1>2. TypeOK' /\ QueueInv'
  BY <1>1 DEF TypeOK, QueueInv
<1>3. BandsInv' /\ CursorInv'
  BY <1>1 DEF BandsInv, CursorInv, InBand, First, End, Working
<1>4. PoolInv'
  BY DEF PoolInv, ScratchIsExclusive
<1>5. CanvasInv'
  BY <1>1 DEF CanvasInv, InBand, First, End, Unstarted, Over, Working, Expected, Passed
<1>. QED
  BY <1>2, <1>3, <1>4, <1>5

LEMMA ReturnInv == IInv /\ Return => IInv'
<1>. SUFFICES ASSUME IInv, Return PROVE IInv'
  OBVIOUS
<1>. USE DEF IInv, Return, poolVars, taskVars
<1>1. Laid' = Laid /\ Prepared' = Prepared
  BY DEF Laid, Prepared
<1>2. TypeOK' /\ QueueInv'
  BY <1>1 DEF TypeOK, QueueInv
<1>3. BandsInv' /\ CursorInv'
  BY <1>1 DEF BandsInv, CursorInv, InBand, First, End, Working
<1>4. PoolInv'
  BY DEF PoolInv, ScratchIsExclusive
<1>5. CanvasInv'
  BY <1>1 DEF CanvasInv, InBand, First, End, Unstarted, Over, Working, Expected, Passed
<1>. QED
  BY <1>2, <1>3, <1>4, <1>5

-----------------------------------------------------------------------------
(* Every step of a thread that runs a task, or stops, keeps IInv.          *)

LEMMA TakeTaskInv ==
  ASSUME IInv, NEW e \in Threads, NEW t \in Tasks, TakeTask(e, t)
  PROVE  IInv'
<1>. USE DEF IInv, TakeTask, mainVars
<1>1. Laid' = Laid /\ Prepared' = Prepared
  BY DEF Laid, Prepared
<1>2. /\ t \in waiting /\ t < i /\ t # NoTask
      /\ job'[e] = t /\ at'[e] = "begin"
      /\ \A f \in Threads : f # e => job'[f] = job[f] /\ at'[f] = at[f]
  BY DEF TypeOK, PoolInv, Tasks, NoTask
<1>3. TypeOK'
  BY DEF TypeOK
<1>4. QueueInv' /\ BandsInv'
  BY <1>1 DEF QueueInv, BandsInv, InBand, First, End
<1>5. PoolInv'
  <2>1. ScratchIsExclusive'
    BY <1>2 DEF PoolInv, ScratchIsExclusive
  <2>2. \A f \in Threads : job'[f] # NoTask => job'[f] < i /\ job'[f] \notin waiting'
    BY <1>2 DEF PoolInv
  <2>3. \A f \in Threads : job'[f] = NoTask <=> at'[f] = "idle"
    BY <1>2 DEF PoolInv
  <2>4. /\ \A w \in Workers : w \notin alive => job'[w] = NoTask
        /\ job'[Main] # NoTask => pc = "finish"
    BY <1>2, MainAssumption DEF PoolInv, MayTake, Threads
  <2>5. pc \notin {"join", "returned"}
    BY <1>2 DEF PoolInv
  <2>. QED
    BY <2>1, <2>2, <2>3, <2>4, <2>5 DEF PoolInv
<1>6. CursorInv'
  BY <1>2 DEF CursorInv, Working, InBand, First, End
<1>7. CanvasInv'
  <2>1. ASSUME NEW s \in Laid
        PROVE  (Unstarted(s)' => Unstarted(s)) /\ (Over(s)' => Over(s))
    <3>1. CASE s = t
      BY <1>2, <3>1 DEF Unstarted, Over
    <3>2. CASE s # t
      <4>1. \A f \in Threads : job'[f] = s => f # e /\ job[f] = s /\ at'[f] = at[f]
        BY <1>2, <3>2
      <4>2. job[e] = NoTask /\ s # NoTask
        BY TasksAssumption DEF Laid, Prepared, TypeOK, NoTask
      <4>. QED
        BY <1>2, <3>2, <4>1, <4>2 DEF Unstarted, Over
    <3>. QED
      BY <3>1, <3>2
  <2>2. \A f \in Threads : Working(f)' => f # e /\ Working(f)
    BY <1>2 DEF Working
  <2>. QED
    BY <1>1, <1>2, <2>1, <2>2 DEF CanvasInv, InBand, First, End, Expected, Passed
<1>. QED
  BY <1>3, <1>4, <1>5, <1>6, <1>7

LEMMA EndTaskInv ==
  ASSUME IInv, NEW e \in Threads, EndTask(e)
  PROVE  IInv'
<1>. USE DEF IInv, EndTask, mainVars
<1>1. Laid' = Laid /\ Prepared' = Prepared
  BY DEF Laid, Prepared
<1>2. /\ job'[e] = NoTask /\ at'[e] = "idle"
      /\ \A f \in Threads : f # e => job'[f] = job[f] /\ at'[f] = at[f]
  BY DEF TypeOK
<1>3. TypeOK'
  BY DEF TypeOK
<1>4. QueueInv' /\ BandsInv'
  BY <1>1 DEF QueueInv, BandsInv, InBand, First, End
<1>5. PoolInv'
  BY <1>2, MainAssumption DEF PoolInv, ScratchIsExclusive, Threads
<1>6. CursorInv'
  BY <1>2 DEF CursorInv, Working, InBand, First, End
<1>7. CanvasInv'
  <2>1. \A s \in Laid : s # NoTask
    BY TasksAssumption DEF Laid, Prepared, TypeOK, NoTask
  <2>2. \A s \in Laid : /\ Unstarted(s)' => Unstarted(s)
                        /\ Over(s)' => Over(s)
    BY <1>2, <2>1 DEF Unstarted, Over
  <2>3. \A f \in Threads : Working(f)' => f # e /\ Working(f)
    BY <1>2 DEF Working
  <2>. QED
    BY <1>1, <1>2, <2>2, <2>3 DEF CanvasInv, InBand, First, End, Expected, Passed
<1>. QED
  BY <1>3, <1>4, <1>5, <1>6, <1>7

LEMMA WorkerExitsInv ==
  ASSUME IInv, NEW w \in Workers, WorkerExits(w)
  PROVE  IInv'
<1>. USE DEF IInv, WorkerExits, mainVars, taskVars
<1>1. Laid' = Laid /\ Prepared' = Prepared
  BY DEF Laid, Prepared
<1>2. TypeOK'
  BY DEF TypeOK
<1>3. QueueInv' /\ BandsInv' /\ CursorInv'
  BY <1>1 DEF QueueInv, BandsInv, CursorInv, InBand, First, End, Working
<1>4. PoolInv'
  BY DEF PoolInv, ScratchIsExclusive
<1>5. CanvasInv'
  BY <1>1 DEF CanvasInv, InBand, First, End, Unstarted, Over, Working, Expected, Passed
<1>. QED
  BY <1>2, <1>3, <1>4, <1>5

LEMMA BeginTaskInv ==
  ASSUME IInv, NEW e \in Threads, BeginTask(e)
  PROVE  IInv'
<1>. USE DEF IInv, BeginTask, mainVars, poolVars
<1>. DEFINE t == job[e]
            band == task_data[t]
<1>1. Laid' = Laid /\ Prepared' = Prepared
  BY DEF Laid, Prepared
<1>2. /\ t \in Tasks /\ t \in Laid /\ t < i /\ t \notin waiting
      /\ First(t) \in 0 .. Height /\ End(t) \in 0 .. Height
      /\ band.line_count \in 0 .. Height
  <2>1. t \in Tasks /\ t < i /\ t \notin waiting
    BY DEF PoolInv, TypeOK
  <2>2. t \in Laid
    BY <2>1 DEF TypeOK, Tasks, Laid, Prepared
  <2>3. First(t) \in 0 .. Height /\ band.line_count \in 0 .. Height
    BY <2>1 DEF TypeOK, First
  <2>4. End(t) \in 0 .. Height
    BY <2>2, <2>3, SizeAssumption DEF BandsInv, TypeOK, First, End
  <2>. QED
    BY <2>1, <2>2, <2>3, <2>4
<1>3. /\ y'[e] = First(t) /\ stop'[e] = End(t) /\ x'[e] = 0
      /\ at'[e] = IF band.line_count > 0 THEN "shade" ELSE "end"
      /\ \A f \in Threads : f # e =>
           at'[f] = at[f] /\ x'[f] = x[f] /\ y'[f] = y[f] /\ stop'[f] = stop[f]
  BY DEF TypeOK, First, End
<1>4. TypeOK'
  BY <1>2, SizeAssumption DEF TypeOK, Columns, First, End
<1>5. QueueInv' /\ BandsInv'
  BY <1>1 DEF QueueInv, BandsInv, InBand, First, End
<1>6. PoolInv'
  BY <1>3 DEF PoolInv, ScratchIsExclusive
<1>7. CursorInv'
  <2>1. Working(e)' => InBand(First(t), t)
    BY <1>2, <1>3 DEF Working, InBand, First, End
  <2>. QED
    BY <1>3, <2>1 DEF CursorInv, Working, InBand, First, End
<1>8. CanvasInv'
  <2>. SUFFICES ASSUME NEW px \in Columns, NEW py \in Lines,
                       NEW s \in Laid, InBand(py, s)
                PROVE  /\ Unstarted(s)' => canvas[Index(px, py)] = "blank"
                       /\ Over(s)' => canvas[Index(px, py)] = "done"
                       /\ \A f \in Threads : job[f] = s /\ Working(f)' =>
                            canvas[Index(px, py)] = Expected(f, px, py)'
    BY <1>1 DEF CanvasInv, InBand, First, End, Expected, Working
  <2>1. CASE s = t
    <3>1. canvas[Index(px, py)] = "blank"
      BY <2>1 DEF CanvasInv, Unstarted
    <3>2. band.line_count > 0 /\ First(t) <= py
      BY <1>2, <2>1 DEF InBand, First, End, Lines
    <3>3. ~Over(s)'
      BY <1>3, <2>1, <3>2 DEF Over
    <3>4. \A f \in Threads : job[f] = s => f = e
      BY <1>2, <2>1 DEF PoolInv, ScratchIsExclusive, Tasks, NoTask
    <3>5. Expected(e, px, py)' = "blank"
      BY <1>2, <1>3, <3>2 DEF Expected, Passed, Columns, Lines
    <3>. QED
      BY <3>1, <3>3, <3>4, <3>5
  <2>2. CASE s # t
    <3>1. (Unstarted(s)' => Unstarted(s)) /\ (Over(s)' => Over(s))
      BY <1>3, <2>2 DEF Unstarted, Over
    <3>2. \A f \in Threads : job[f] = s /\ Working(f)' =>
            Working(f) /\ Expected(f, px, py)' = Expected(f, px, py)
      BY <1>3, <2>2 DEF Working, Expected, Passed
    <3>. QED
      BY <3>1, <3>2 DEF CanvasInv
  <2>. QED
    BY <2>1, <2>2
<1>. QED
  BY <1>4, <1>5, <1>6, <1>7, <1>8

(* A working thread is inside the canvas and inside its own band, which no *)
(* other task shares.                                                      *)
LEMMA WorkingFacts ==
  ASSUME IInv, NEW e \in Threads, Working(e)
  PROVE  /\ x[e] \in Columns /\ y[e] \in Lines
         /\ job[e] \in Laid /\ job[e] \in Tasks /\ job[e] # NoTask
         /\ job[e] < i /\ job[e] \notin waiting
         /\ stop[e] = End(job[e]) /\ stop[e] \in 0 .. lines_queued
         /\ InBand(y[e], job[e])
         /\ \A t \in Laid : InBand(y[e], t) => t = job[e]
         /\ \A f \in Threads : job[f] = job[e] => f = e
<1>. USE DEF IInv
<1>1. job[e] \in Tasks /\ job[e] # NoTask /\ job[e] < i /\ job[e] \notin waiting
  BY DEF PoolInv, TypeOK, Working, Tasks, NoTask
<1>2. job[e] \in Laid
  BY <1>1 DEF TypeOK, Tasks, Laid, Prepared
<1>3. stop[e] = End(job[e]) /\ InBand(y[e], job[e]) /\ End(job[e]) <= lines_queued
  BY <1>2 DEF CursorInv, BandsInv
<1>4. x[e] \in Columns /\ y[e] \in 0 .. Height /\ stop[e] \in 0 .. Height
      /\ lines_queued \in 0 .. Height
  BY DEF TypeOK
<1>5. y[e] \in Lines /\ stop[e] \in 0 .. lines_queued
  BY <1>3, <1>4, SizeAssumption DEF InBand, Lines
<1>6. ASSUME NEW t \in Laid, InBand(y[e], t)
      PROVE  t = job[e]
  <2>1. t \in Tasks
    BY TasksAssumption DEF Laid, Prepared, TypeOK, QueueInv, Tasks
  <2>2. \A s \in Tasks : First(s) \in Int /\ End(s) \in Int
    BY SizeAssumption DEF TypeOK, First, End
  <2>3. ~(t < job[e]) /\ ~(job[e] < t)
    BY <1>1, <1>2, <1>3, <1>5, <1>6, <2>1, <2>2 DEF BandsInv, InBand, Lines
  <2>. QED
    BY <1>1, <2>1, <2>3 DEF Tasks
<1>7. \A f \in Threads : job[f] = job[e] => f = e
  BY <1>1 DEF PoolInv, ScratchIsExclusive
<1>. QED
  BY <1>1, <1>2, <1>3, <1>4, <1>5, <1>6, <1>7

(* A store changes the cell of one pixel. *)
LEMMA StoreFacts ==
  ASSUME TypeOK, NEW e \in Threads, x[e] \in Columns, y[e] \in Lines,
         NEW v, canvas' = [canvas EXCEPT ![Index(x[e], y[e])] = v]
  PROVE  /\ canvas'[Index(x[e], y[e])] = v
         /\ \A px \in Columns, py \in Lines : px # x[e] \/ py # y[e] =>
              canvas'[Index(px, py)] = canvas[Index(px, py)]
BY IndexFacts DEF TypeOK

LEMMA ShadePixelInv ==
  ASSUME IInv, NEW e \in Threads, ShadePixel(e)
  PROVE  IInv'
<1>. USE DEF IInv, ShadePixel, mainVars, poolVars
<1>1. Laid' = Laid /\ Prepared' = Prepared
  BY DEF Laid, Prepared
<1>2. Working(e)
  BY DEF Working
<1>3. /\ at'[e] = "write"
      /\ \A f \in Threads : f # e => at'[f] = at[f]
      /\ \A f \in Threads : Working(f)' <=> Working(f)
  BY DEF TypeOK, Working
<1>4. /\ canvas'[Index(x[e], y[e])] = "torn"
      /\ \A px \in Columns, py \in Lines : px # x[e] \/ py # y[e] =>
           canvas'[Index(px, py)] = canvas[Index(px, py)]
  BY <1>2, WorkingFacts, StoreFacts
<1>5. TypeOK'
  BY DEF TypeOK
<1>6. QueueInv' /\ BandsInv'
  BY <1>1 DEF QueueInv, BandsInv, InBand, First, End
<1>7. PoolInv'
  BY <1>3 DEF PoolInv, ScratchIsExclusive
<1>8. CursorInv'
  BY <1>3 DEF CursorInv, InBand, First, End
<1>9. CanvasInv'
  <2>. SUFFICES ASSUME NEW px \in Columns, NEW py \in Lines
                PROVE  /\ py >= lines_queued => canvas'[Index(px, py)] = "blank"
                       /\ \A s \in Laid : InBand(py, s) =>
                            /\ Unstarted(s)' => canvas'[Index(px, py)] = "blank"
                            /\ Over(s)' => canvas'[Index(px, py)] = "done"
                            /\ \A f \in Threads : job[f] = s /\ Working(f) =>
                                 canvas'[Index(px, py)] = Expected(f, px, py)'
    BY <1>1, <1>3 DEF CanvasInv, InBand, First, End
  <2>0. \A s \in Laid : (Unstarted(s)' => Unstarted(s)) /\ (Over(s)' => Over(s))
    BY <1>3 DEF Unstarted, Over
  <2>1. CASE px = x[e] /\ py = y[e]
    <3>1. ~(py >= lines_queued)
      BY <1>2, <2>1, WorkingFacts DEF InBand, Lines, TypeOK
    <3>2. ASSUME NEW s \in Laid, InBand(py, s)
          PROVE  s = job[e] /\ ~Unstarted(s)' /\ ~Over(s)'
                 /\ \A f \in Threads : job[f] = s => f = e
      <4>1. s = job[e] /\ \A f \in Threads : job[f] = s => f = e
        BY <1>2, <2>1, <3>2, WorkingFacts
      <4>2. ~Unstarted(s)'
        BY <1>2, <1>3, <4>1, WorkingFacts DEF Unstarted, TypeOK, Tasks
      <4>. QED
        BY <1>3, <4>1, <4>2 DEF Over
    <3>3. Expected(e, px, py)' = "torn"
      BY <1>2, <1>3, <2>1, WorkingFacts DEF Expected, Passed, Columns, Lines
    <3>. QED
      BY <1>4, <2>1, <3>1, <3>2, <3>3
  <2>2. CASE px # x[e] \/ py # y[e]
    <3>1. \A f \in Threads : Working(f) => Expected(f, px, py)' = Expected(f, px, py)
      BY <1>3, <2>2 DEF Expected, Passed
    <3>. QED
      BY <1>4, <2>0, <2>2, <3>1 DEF CanvasInv
  <2>. QED
    BY <2>1, <2>2
<1>. QED
  BY <1>5, <1>6, <1>7, <1>8, <1>9

LEMMA WritePixelInv ==
  ASSUME IInv, NEW e \in Threads, WritePixel(e)
  PROVE  IInv'
<1>. USE DEF IInv, mainVars, poolVars
<1>. DEFINE px0 == x[e]
            py0 == y[e]
<1>1. Laid' = Laid /\ Prepared' = Prepared
  BY DEF Laid, Prepared, WritePixel
<1>2. Working(e) /\ at[e] = "write"
  BY DEF Working, WritePixel
<1>3. /\ \A f \in Threads : f # e =>
           at'[f] = at[f] /\ x'[f] = x[f] /\ y'[f] = y[f]
      /\ stop' = stop /\ job' = job /\ waiting' = waiting /\ i' = i
      /\ lines_queued' = lines_queued /\ task_data' = task_data
  BY DEF TypeOK, WritePixel
<1>4. \/ /\ px0 + 1 < Width
         /\ x'[e] = px0 + 1 /\ y'[e] = py0 /\ at'[e] = "shade"
      \/ /\ px0 = Width - 1
         /\ x'[e] = 0 /\ y'[e] = py0 + 1
         /\ at'[e] = IF py0 + 1 < stop[e] THEN "shade" ELSE "end"
  <2>1. x[e] \in 0 .. Width - 1 /\ Width \in Nat
    BY <1>2, WorkingFacts, SizeAssumption DEF Columns
  <2>2. CASE px0 + 1 < Width
    BY <2>1, <2>2 DEF TypeOK, WritePixel
  <2>3. CASE px0 + 1 >= Width
    <3>1. px0 = Width - 1 /\ ~(px0 + 1 < Width)
      BY <2>1, <2>3
    <3>2. /\ x' = [x EXCEPT ![e] = 0]
          /\ y' = [y EXCEPT ![e] = y[e] + 1]
          /\ at' = [at EXCEPT ![e] = IF y[e] + 1 < stop[e] THEN "shade" ELSE "end"]
      BY <3>1 DEF WritePixel
    <3>3. x'[e] = 0 /\ y'[e] = py0 + 1
      BY <3>2 DEF TypeOK
    <3>4. at'[e] = IF py0 + 1 < stop[e] THEN "shade" ELSE "end"
      BY <3>2 DEF TypeOK
    <3>. QED
      BY <3>1, <3>3, <3>4
  <2>. QED
    BY <2>1, <2>2, <2>3
<1>5. /\ canvas'[Index(px0, py0)] = "done"
      /\ \A px \in Columns, py \in Lines : px # px0 \/ py # py0 =>
           canvas'[Index(px, py)] = canvas[Index(px, py)]
  BY <1>2, WorkingFacts, StoreFacts DEF WritePixel
<1>6. TypeOK'
  <2>1. x' \in [Threads -> Columns] /\ y' \in [Threads -> 0 .. Height]
    BY <1>2, WorkingFacts, SizeAssumption DEF TypeOK, WritePixel, Columns, Lines
  <2>2. /\ at' \in [Threads -> {"idle", "begin", "shade", "write", "end"}]
        /\ canvas' \in [Cells -> {"blank", "torn", "done"}]
    BY DEF TypeOK, WritePixel
  <2>. QED
    BY <2>1, <2>2 DEF TypeOK, WritePixel
<1>7. QueueInv' /\ BandsInv'
  BY <1>1 DEF QueueInv, BandsInv, InBand, First, End, WritePixel
<1>8. PoolInv'
  <2>1. \A f \in Threads : job'[f] = NoTask <=> at'[f] = "idle"
    BY <1>2, <1>3, <1>4 DEF PoolInv
  <2>. QED
    BY <2>1 DEF PoolInv, ScratchIsExclusive, WritePixel
<1>9. CursorInv'
  <2>1. Working(e)' => InBand(y'[e], job[e])
    BY <1>2, <1>4, WorkingFacts DEF Working, InBand, Lines, TypeOK, First
  <2>. QED
    BY <1>2, <1>3, <2>1, WorkingFacts DEF CursorInv, Working, InBand, First, End
<1>10. CanvasInv'
  <2>. SUFFICES ASSUME NEW px \in Columns, NEW py \in Lines
                PROVE  /\ py >= lines_queued => canvas'[Index(px, py)] = "blank"
                       /\ \A s \in Laid : InBand(py, s) =>
                            /\ Unstarted(s)' => canvas'[Index(px, py)] = "blank"
                            /\ Over(s)' => canvas'[Index(px, py)] = "done"
                            /\ \A f \in Threads : job[f] = s /\ Working(f)' =>
                                 canvas'[Index(px, py)] = Expected(f, px, py)'
    BY <1>1, <1>3 DEF CanvasInv, InBand, First, End
  <2>1. py >= lines_queued => canvas'[Index(px, py)] = "blank"
    <3>1. y[e] < lines_queued
      BY <1>2, WorkingFacts DEF InBand, Lines, TypeOK
    <3>. QED
      BY <1>5, <3>1 DEF CanvasInv, Lines, TypeOK
  <2>2. ASSUME NEW s \in Laid, InBand(py, s), s = job[e]
        PROVE  /\ ~Unstarted(s)'
               /\ Over(s)' => canvas'[Index(px, py)] = "done"
               /\ Working(e)' => canvas'[Index(px, py)] = Expected(e, px, py)'
               /\ \A f \in Threads : job[f] = s => f = e
    <3>1. /\ \A f \in Threads : job[f] = s => f = e
          /\ s < i /\ s \notin waiting /\ stop[e] = End(s)
          /\ px0 \in Columns /\ py0 \in Lines /\ stop[e] \in Int
      BY <1>2, <2>2, WorkingFacts
    <3>2. ~Unstarted(s)'
      <4>1. ~(s >= i) /\ at'[e] # "begin"
        BY <1>2, <1>4, <2>2, WorkingFacts DEF TypeOK, Tasks
      <4>. QED
        BY <1>3, <3>1, <4>1 DEF Unstarted
    <3>3. canvas[Index(px, py)] = Expected(e, px, py)
      BY <1>2, <2>2 DEF CanvasInv
    <3>4. canvas'[Index(px, py)] =
            IF Passed(e, px, py) \/ (px = px0 /\ py = py0) THEN "done" ELSE "blank"
      BY <1>2, <1>5, <3>3 DEF Expected
    <3>5. Passed(e, px, py)' <=> (Passed(e, px, py) \/ (px = px0 /\ py = py0))
      BY <1>4, <3>1 DEF Passed, Columns, Lines
    <3>6. Working(e)' => canvas'[Index(px, py)] = Expected(e, px, py)'
      BY <1>4, <3>4, <3>5 DEF Expected, Working
    <3>7. Over(s)' => canvas'[Index(px, py)] = "done"
      <4>1. Over(s)' => px0 = Width - 1 /\ py0 + 1 >= stop[e]
        BY <1>3, <1>4, <2>2, <3>1 DEF Over, Lines
      <4>2. py < stop[e]
        BY <2>2, <3>1 DEF InBand
      <4>3. Over(s)' => Passed(e, px, py) \/ (px = px0 /\ py = py0)
        BY <3>1, <4>1, <4>2, SizeAssumption DEF Passed, Columns, Lines
      <4>. QED
        BY <3>4, <4>3
    <3>. QED
      BY <3>1, <3>2, <3>6, <3>7
  <2>3. ASSUME NEW s \in Laid, InBand(py, s), s # job[e]
        PROVE  /\ Unstarted(s)' => canvas'[Index(px, py)] = "blank"
               /\ Over(s)' => canvas'[Index(px, py)] = "done"
               /\ \A f \in Threads : job[f] = s /\ Working(f)' =>
                    canvas'[Index(px, py)] = Expected(f, px, py)'
    <3>1. py # y[e]
      BY <1>2, <2>3, WorkingFacts
    <3>2. canvas'[Index(px, py)] = canvas[Index(px, py)]
      BY <1>5, <3>1
    <3>3. (Unstarted(s)' => Unstarted(s)) /\ (Over(s)' => Over(s))
      BY <1>3, <2>3 DEF Unstarted, Over
    <3>4. \A f \in Threads : job[f] = s /\ Working(f)' =>
            Working(f) /\ Expected(f, px, py)' = Expected(f, px, py)
      BY <1>3, <2>3 DEF Working, Expected, Passed
    <3>. QED
      BY <2>3, <3>2, <3>3, <3>4 DEF CanvasInv
  <2>. QED
    BY <2>1, <2>2, <2>3
<1>. QED
  BY <1>6, <1>7, <1>8, <1>9, <1>10

-----------------------------------------------------------------------------
(* IInv is inductive.                                                      *)

LEMMA StutterInv == IInv /\ UNCHANGED vars => IInv'
<1>. SUFFICES ASSUME IInv, UNCHANGED vars PROVE IInv'
  OBVIOUS
<1>. USE DEF IInv, vars, mainVars, poolVars, taskVars
<1>1. Laid' = Laid /\ Prepared' = Prepared
  BY DEF Laid, Prepared
<1>2. TypeOK' /\ QueueInv'
  BY <1>1 DEF TypeOK, QueueInv
<1>3. BandsInv' /\ CursorInv'
  BY <1>1 DEF BandsInv, CursorInv, InBand, First, End, Working
<1>4. PoolInv'
  BY DEF PoolInv, ScratchIsExclusive
<1>5. CanvasInv'
  BY <1>1 DEF CanvasInv, InBand, First, End, Unstarted, Over, Working, Expected, Passed
<1>. QED
  BY <1>2, <1>3, <1>4, <1>5

LEMMA NextInv == IInv /\ [Next]_vars => IInv'
<1>. SUFFICES ASSUME IInv, [Next]_vars PROVE IInv'
  OBVIOUS
<1>1. CASE MainStep
  BY <1>1, PrepareTaskInv, AddTaskInv, StopPoolInv, ReturnInv DEF MainStep
<1>2. ASSUME NEW e \in Threads, RunTask(e)
      PROVE  IInv'
  BY <1>2, BeginTaskInv, ShadePixelInv, WritePixelInv, EndTaskInv DEF RunTask
<1>3. ASSUME NEW e \in Threads, NEW t \in Tasks, TakeTask(e, t)
      PROVE  IInv'
  BY <1>3, TakeTaskInv
<1>4. ASSUME NEW w \in Workers, WorkerExits(w)
      PROVE  IInv'
  BY <1>4, WorkerExitsInv
<1>5. CASE Terminated
  BY <1>5, StutterInv DEF Terminated
<1>6. CASE UNCHANGED vars
  BY <1>6, StutterInv
<1>. QED
  BY <1>1, <1>2, <1>3, <1>4, <1>5, <1>6 DEF Next

(* The inductive invariant holds in every reachable state. *)
THEOREM Invariance == Spec => []IInv
<1>. QED
  BY InitInv, NextInv, PTL DEF Spec

-----------------------------------------------------------------------------
(* What follows from it.                                                   *)

(* Type correctness, for every image size, number of tasks and workers.    *)
THEOREM TypeCorrect == Spec => []TypeOK
<1>1. IInv => TypeOK
  BY DEF IInv
<1>. QED
  BY <1>1, Invariance, PTL

(* No two threads of the pool ever use the scratch buffers of one task.    *)
THEOREM ScratchExclusion == Spec => []ScratchIsExclusive
<1>1. IInv => ScratchIsExclusive
  BY DEF IInv, PoolInv
<1>. QED
  BY <1>1, Invariance, PTL

(* The assertions of canvas_write_pixel never fail, whatever the height    *)
(* leaves for the last bands.                                              *)
THEOREM WritesStayInCanvas == Spec => []WritesInCanvas
<1>1. IInv => WritesInCanvas
  BY WorkingFacts DEF WritesInCanvas, Working, Pixels
<1>. QED
  BY <1>1, Invariance, PTL

(* When render_to_canvas returns, nothing is left that could use the       *)
(* memory it releases.                                                     *)
THEOREM ReleasedMemory == Spec => []ReleasedMemoryIsIdle
<1>1. IInv => ReleasedMemoryIsIdle
  BY DEF IInv, PoolInv, ReleasedMemoryIsIdle, Threads
<1>. QED
  BY <1>1, Invariance, PTL

-----------------------------------------------------------------------------
(* Render implements ImageFill.                                            *)

(* Once the join has ended every pixel of the image is painted: the bands  *)
(* cover all lines, and each of their tasks is over.                       *)
LEMMA AllPainted == IInv /\ Return => Painted = Pixels
<1>. SUFFICES ASSUME IInv, Return, NEW px \in Columns, NEW py \in Lines
              PROVE  canvas[Index(px, py)] = "done"
  BY DEF Painted, Pixels
<1>. USE DEF IInv, Return
<1>1. /\ pc = "join" /\ waiting = {}
      /\ \A e \in Threads : job[e] = NoTask
  BY DEF PoolInv, Threads
<1>2. i = NumTasks /\ Laid = 0 .. NumTasks - 1
  BY <1>1, TasksAssumption DEF QueueInv, TypeOK, Laid, Prepared
<1>3. lines_queued = Height
  <2>1. lines_queued = Height \/ lines_queued = NumTasks * LinesPerTask
    BY <1>1, <1>2 DEF QueueInv, Prepared
  <2>. QED
    BY <2>1, LinesPerTaskFacts, SizeAssumption DEF TypeOK
<1>4. PICK t \in Laid : InBand(py, t)
  BY <1>3, SizeAssumption DEF BandsInv, Lines
<1>5. Over(t)
  <2>1. t < i /\ t # NoTask
    BY <1>2, TasksAssumption DEF NoTask
  <2>. QED
    BY <1>1, <2>1 DEF Over
<1>. QED
  BY <1>4, <1>5 DEF CanvasInv

(* A step that leaves the canvas alone leaves the painted pixels alone.    *)
LEMMA SameCanvas == canvas' = canvas => Painted' = Painted
BY DEF Painted

LEMMA ShadePaintsNothing ==
  ASSUME IInv, NEW e \in Threads, ShadePixel(e)
  PROVE  Painted' = Painted
<1>1. Working(e) /\ at[e] = "shade"
  BY DEF ShadePixel, Working
<1>2. x[e] \in Columns /\ y[e] \in Lines /\ job[e] \in Laid /\ InBand(y[e], job[e])
  BY <1>1, WorkingFacts
<1>3. canvas[Index(x[e], y[e])] = Expected(e, x[e], y[e])
  BY <1>1, <1>2 DEF IInv, CanvasInv
<1>4. canvas[Index(x[e], y[e])] = "blank"
  BY <1>1, <1>2, <1>3 DEF Expected, Passed, Columns, Lines
<1>5. /\ canvas'[Index(x[e], y[e])] = "torn"
      /\ \A px \in Columns, py \in Lines : px # x[e] \/ py # y[e] =>
           canvas'[Index(px, py)] = canvas[Index(px, py)]
  BY <1>2, StoreFacts DEF IInv, ShadePixel
<1>. QED
  BY <1>2, <1>4, <1>5 DEF Painted, Pixels

LEMMA WritePaintsOne ==
  ASSUME IInv, NEW e \in Threads, WritePixel(e)
  PROVE  /\ <<x[e], y[e]>> \in Pixels
         /\ <<x[e], y[e]>> \notin Painted
         /\ Painted' = Painted \cup {<<x[e], y[e]>>}
<1>1. Working(e) /\ at[e] = "write"
  BY DEF WritePixel, Working
<1>2. x[e] \in Columns /\ y[e] \in Lines /\ job[e] \in Laid /\ InBand(y[e], job[e])
  BY <1>1, WorkingFacts
<1>3. canvas[Index(x[e], y[e])] = Expected(e, x[e], y[e])
  BY <1>1, <1>2 DEF IInv, CanvasInv
<1>4. canvas[Index(x[e], y[e])] = "torn"
  BY <1>1, <1>2, <1>3 DEF Expected, Passed, Columns, Lines
<1>5. /\ canvas'[Index(x[e], y[e])] = "done"
      /\ \A px \in Columns, py \in Lines : px # x[e] \/ py # y[e] =>
           canvas'[Index(px, py)] = canvas[Index(px, py)]
  BY <1>2, StoreFacts DEF IInv, WritePixel
<1>. QED
  BY <1>2, <1>4, <1>5 DEF Painted, Pixels

(* Each pixel is painted exactly once, none is touched again, and the call *)
(* returns with the whole image: for every size of the image, every number *)
(* of tasks and every set of workers.                                      *)
THEOREM Implementation == Spec => ImplementsFill
<1>1. Init => Fill!Init
  <2>. SUFFICES ASSUME Init PROVE Fill!Init
    OBVIOUS
  <2>1. Painted = {}
    BY IndexFacts DEF Init, Painted, Pixels
  <2>. QED
    BY <2>1 DEF Init, Fill!Init
<1>2. IInv /\ [Next]_vars => [Fill!Next]_(Fill!vars)
  <2>. SUFFICES ASSUME IInv, [Next]_vars PROVE [Fill!Next]_(Fill!vars)
    OBVIOUS
  <2>. USE DEF Fill!vars
  <2>1. ASSUME canvas' = canvas, (pc' = "returned") <=> (pc = "returned")
        PROVE  UNCHANGED Fill!vars
    BY <2>1, SameCanvas
  <2>2. CASE PrepareTask \/ AddTask \/ StopPool
    BY <2>1, <2>2 DEF PrepareTask, AddTask, StopPool
  <2>3. CASE Return
    BY <2>3, AllPainted, SameCanvas DEF Return, Fill!Next, Fill!Return
  <2>4. ASSUME NEW e \in Threads, RunTask(e)
        PROVE  [Fill!Next]_(Fill!vars)
    <3>1. CASE BeginTask(e) \/ EndTask(e)
      BY <2>1, <3>1 DEF BeginTask, EndTask, mainVars
    <3>2. CASE ShadePixel(e)
      BY <3>2, ShadePaintsNothing DEF ShadePixel, mainVars
    <3>3. CASE WritePixel(e)
      <4>1. pc # "returned"
        BY <3>3 DEF IInv, PoolInv, WritePixel, Threads
      <4>2. pc' = pc
        BY <3>3 DEF WritePixel, mainVars
      <4>. QED
        BY <3>3, <4>1, <4>2, WritePaintsOne DEF Fill!Next, Fill!Paint
    <3>. QED
      BY <2>4, <3>1, <3>2, <3>3 DEF RunTask
  <2>5. ASSUME NEW e \in Threads, NEW t \in Tasks, TakeTask(e, t)
        PROVE  [Fill!Next]_(Fill!vars)
    BY <2>1, <2>5 DEF TakeTask, mainVars
  <2>6. ASSUME NEW w \in Workers, WorkerExits(w)
        PROVE  [Fill!Next]_(Fill!vars)
    BY <2>1, <2>6 DEF WorkerExits, mainVars
  <2>7. CASE Terminated \/ UNCHANGED vars
    BY <2>1, <2>7 DEF Terminated, vars, mainVars
  <2>. QED
    BY <2>2, <2>3, <2>4, <2>5, <2>6, <2>7 DEF Next, MainStep
<1>. QED
  BY <1>1, <1>2, Invariance, PTL DEF Spec, ImplementsFill, Fill!Spec

-----------------------------------------------------------------------------
(* WithCanvas: the driver and the display around Render.                   *)

(* Who has ended when: the driver waits for the demo, then for the display. *)
AppInv ==
  /\ app \in {"joining", "destroyed"} => pc = "returned"
  /\ app = "destroyed" => display = "closed"

(* What was drawn as finished is finished in the canvas, and the part of   *)
(* the frame that is drawn already holds what the last frame showed.       *)
FrameInv ==
  /\ \A c \in Cells : target[c] = "done" \/ shown[c] = "done" => canvas[c] = "done"
  /\ display = "read" => pos \in Cells /\ (shown[pos] = "done" => seen = "done")
  /\ display \in {"reading", "read"} =>
       \A c \in Cells : c < pos /\ shown[c] = "done" => target[c] = "done"

WInv == CanvasTypeOK /\ IInv /\ AppInv /\ FrameInv

-----------------------------------------------------------------------------
(* Facts about Render's steps.                                             *)

(* No step of render_to_canvas touches a pixel that is done. *)
LEMMA DoneStays ==
  ASSUME IInv, [Next]_vars
  PROVE  \A c \in Cells : canvas[c] = "done" => canvas'[c] = "done"
<1>. USE DEF IInv
<1>1. ASSUME canvas' = canvas
      PROVE  \A c \in Cells : canvas[c] = "done" => canvas'[c] = "done"
  BY <1>1
<1>2. ASSUME NEW e \in Threads, ShadePixel(e)
      PROVE  \A c \in Cells : canvas[c] = "done" => canvas'[c] = "done"
  <2>1. Working(e) /\ at[e] = "shade"
    BY <1>2 DEF ShadePixel, Working
  <2>2. x[e] \in Columns /\ y[e] \in Lines /\ job[e] \in Laid /\ InBand(y[e], job[e])
    BY <2>1, WorkingFacts
  <2>3. canvas[Index(x[e], y[e])] = Expected(e, x[e], y[e])
    BY <2>1, <2>2 DEF CanvasInv
  <2>4. canvas[Index(x[e], y[e])] = "blank"
    BY <2>1, <2>2, <2>3 DEF Expected, Passed, Columns, Lines
  <2>. QED
    BY <1>2, <2>4 DEF ShadePixel, TypeOK
<1>3. ASSUME NEW e \in Threads, WritePixel(e)
      PROVE  \A c \in Cells : canvas[c] = "done" => canvas'[c] = "done"
  BY <1>3 DEF WritePixel, TypeOK
<1>4. CASE MainStep
  BY <1>1, <1>4 DEF MainStep, PrepareTask, AddTask, StopPool, Return
<1>5. ASSUME NEW e \in Threads, BeginTask(e) \/ EndTask(e)
      PROVE  canvas' = canvas
  BY <1>5 DEF BeginTask, EndTask
<1>6. ASSUME NEW e \in Threads, NEW t \in Tasks, TakeTask(e, t)
      PROVE  canvas' = canvas
  BY <1>6 DEF TakeTask
<1>7. ASSUME NEW w \in Workers, WorkerExits(w)
      PROVE  canvas' = canvas
  BY <1>7 DEF WorkerExits
<1>8. CASE Terminated \/ UNCHANGED vars
  BY <1>1, <1>8 DEF Terminated, vars
<1>. QED
  BY <1>1, <1>2, <1>3, <1>4, <1>5, <1>6, <1>7, <1>8 DEF Next, RunTask

(* After the call has returned, Render only stutters. *)
LEMMA ReturnedStays ==
  ASSUME IInv, [Next]_vars, pc = "returned"
  PROVE  pc' = "returned"
BY DEF Next, MainStep, PrepareTask, AddTask, StopPool, Return, RunTask, BeginTask,
   ShadePixel, WritePixel, EndTask, TakeTask, WorkerExits, Terminated, vars, mainVars

-----------------------------------------------------------------------------
(* WInv is inductive.                                                      *)

LEMMA CanvasInitInv == CanvasInit => WInv
<1>. SUFFICES ASSUME CanvasInit PROVE WInv
  OBVIOUS
<1>1. IInv
  BY InitInv DEF CanvasInit
<1>2. CanvasTypeOK
  <2>1. 0 \in 0 .. Width * Height
    BY SizeAssumption
  <2>. QED
    BY <1>1, <2>1 DEF CanvasInit, CanvasTypeOK, IInv, DisplayStates, Colours, BlackFrame
<1>3. AppInv /\ FrameInv
  BY DEF CanvasInit, AppInv, FrameInv, BlackFrame
<1>. QED
  BY <1>1, <1>2, <1>3 DEF WInv

(* The driver: it changes neither the canvas nor what is drawn. *)
LEMMA DriverInv == WInv /\ (StartDisplay \/ DemoReturns \/ EndDisplay) => WInv'
<1>. SUFFICES ASSUME WInv, StartDisplay \/ DemoReturns \/ EndDisplay PROVE WInv'
  OBVIOUS
<1>. USE DEF WInv, StartDisplay, DemoReturns, EndDisplay
<1>1. UNCHANGED <<vars, pos, seen, target, shown>>
  BY DEF displayVars
<1>2. IInv'
  BY <1>1, StutterInv
<1>3. CanvasTypeOK'
  BY <1>1, <1>2 DEF CanvasTypeOK, IInv, DisplayStates, displayVars
<1>4. AppInv'
  BY <1>1 DEF AppInv, vars, mainVars, displayVars, CanvasTypeOK
<1>5. FrameInv'
  BY <1>1 DEF FrameInv, vars, displayVars
<1>. QED
  BY <1>2, <1>3, <1>4, <1>5

LEMMA RenderStepInv == WInv /\ RenderStep => WInv'
<1>. SUFFICES ASSUME WInv, RenderStep PROVE WInv'
  OBVIOUS
<1>. USE DEF WInv, RenderStep, displayVars
<1>1. IInv'
  BY NextInv
<1>2. CanvasTypeOK'
  BY <1>1 DEF CanvasTypeOK, IInv
<1>3. AppInv'
  BY DEF AppInv
<1>4. FrameInv'
  BY DoneStays DEF FrameInv
<1>. QED
  BY <1>1, <1>2, <1>3, <1>4

(* The display: Render's variables stay, so its invariant does. *)
LEMMA DisplayInv == WInv /\ (DrawStep \/ CloseWindow) => WInv'
<1>. SUFFICES ASSUME WInv, DrawStep \/ CloseWindow PROVE WInv'
  OBVIOUS
<1>. USE DEF WInv
<1>1. UNCHANGED <<vars, app>> /\ display # "closed"
  BY DEF DrawStep, CloseWindow, BeginFrame, BeginRead, EndRead, Present
<1>2. IInv' /\ TypeOK'
  BY <1>1, StutterInv DEF IInv
<1>3. AppInv'
  BY <1>1 DEF AppInv, vars, mainVars, DrawStep, CloseWindow, BeginFrame, BeginRead,
     EndRead, Present
<1>4. /\ canvas' = canvas /\ pos \in 0 .. Width * Height /\ Width * Height \in Nat
      /\ canvas \in [Cells -> Colours] /\ seen \in Colours
      /\ target \in [Cells -> Colours] /\ shown \in [Cells -> Colours]
  BY <1>1, SizeAssumption DEF vars, CanvasTypeOK, TypeOK, Colours
<1>5. CASE BeginFrame
  <2>1. CanvasTypeOK'
    BY <1>1, <1>2, <1>4, <1>5
    DEF BeginFrame, CanvasTypeOK, DisplayStates, Colours, BlackFrame
  <2>2. FrameInv'
    BY <1>4, <1>5 DEF BeginFrame, FrameInv, BlackFrame, Cells
  <2>. QED
    BY <1>2, <1>3, <2>1, <2>2
<1>6. CASE CloseWindow
  <2>1. CanvasTypeOK'
    BY <1>1, <1>2, <1>6 DEF CloseWindow, CanvasTypeOK, DisplayStates
  <2>2. FrameInv'
    BY <1>4, <1>6 DEF CloseWindow, FrameInv
  <2>. QED
    BY <1>2, <1>3, <2>1, <2>2
<1>7. CASE BeginRead
  <2>1. CanvasTypeOK'
    BY <1>1, <1>2, <1>4, <1>7 DEF BeginRead, CanvasTypeOK, DisplayStates
  <2>2. FrameInv'
    BY <1>4, <1>7 DEF BeginRead, FrameInv
  <2>. QED
    BY <1>2, <1>3, <2>1, <2>2
<1>8. CASE EndRead
  <2>1. pos \in Cells /\ (shown[pos] = "done" => canvas[pos] = "done" /\ seen = "done")
    BY <1>8 DEF EndRead, FrameInv
  <2>2. /\ target'[pos] = IF canvas[pos] = seen THEN seen ELSE "torn"
        /\ \A c \in Cells : c # pos => target'[c] = target[c]
    BY <1>4, <1>8, <2>1 DEF EndRead
  <2>3. CanvasTypeOK'
    <3>1. pos' \in 0 .. Width * Height
      BY <1>4, <1>8, <2>1 DEF EndRead, Cells
    <3>2. target' \in [Cells -> Colours]
      BY <1>4, <1>8 DEF EndRead, Colours
    <3>. QED
      BY <1>1, <1>2, <1>8, <3>1, <3>2 DEF EndRead, CanvasTypeOK, DisplayStates
  <2>4. FrameInv'
    <3>1. \A c \in Cells : target'[c] = "done" => canvas[c] = "done"
      BY <2>1, <2>2 DEF FrameInv
    <3>2. \A c \in Cells : c < pos + 1 /\ shown[c] = "done" => target'[c] = "done"
      <4>1. \A c \in Cells : c < pos + 1 => c < pos \/ c = pos
        BY <2>1 DEF Cells
      <4>. QED
        BY <1>8, <2>1, <2>2, <4>1 DEF FrameInv, EndRead
    <3>. QED
      BY <1>4, <1>8, <3>1, <3>2 DEF EndRead, FrameInv
  <2>. QED
    BY <1>2, <1>3, <2>3, <2>4
<1>9. CASE Present
  <2>1. CanvasTypeOK'
    BY <1>1, <1>2, <1>4, <1>9 DEF Present, CanvasTypeOK, DisplayStates
  <2>2. FrameInv'
    BY <1>4, <1>9 DEF Present, FrameInv
  <2>. QED
    BY <1>2, <1>3, <2>1, <2>2
<1>. QED
  BY <1>5, <1>6, <1>7, <1>8, <1>9 DEF DrawStep

LEMMA CanvasStutterInv == WInv /\ UNCHANGED allVars => WInv'
<1>. SUFFICES ASSUME WInv, UNCHANGED allVars PROVE WInv'
  OBVIOUS
<1>. USE DEF WInv, allVars, displayVars
<1>1. IInv'
  BY StutterInv
<1>2. CanvasTypeOK'
  BY <1>1 DEF CanvasTypeOK, IInv
<1>3. AppInv' /\ FrameInv'
  BY DEF AppInv, FrameInv, vars, mainVars
<1>. QED
  BY <1>1, <1>2, <1>3

LEMMA CanvasNextInv == WInv /\ [CanvasNext]_allVars => WInv'
BY DriverInv, RenderStepInv, DisplayInv, CanvasStutterInv DEF CanvasNext, CanvasDestroyed

(* The inductive invariant holds in every reachable state. *)
THEOREM CanvasInvariance == CanvasSpec => []WInv
<1>. QED
  BY CanvasInitInv, CanvasNextInv, PTL DEF CanvasSpec

-----------------------------------------------------------------------------
(* What follows from it.                                                   *)

(* Type correctness of the driver and the display. *)
THEOREM CanvasTypeCorrect == CanvasSpec => []CanvasTypeOK
<1>1. WInv => CanvasTypeOK
  BY DEF WInv
<1>. QED
  BY <1>1, CanvasInvariance, PTL

(* canvas_destroy runs when neither the display thread nor a render task   *)
(* can still use the pixels.                                               *)
THEOREM CanvasOutlives == CanvasSpec => []CanvasOutlivesItsUsers
<1>1. WInv => CanvasOutlivesItsUsers
  BY DEF WInv, AppInv, IInv, PoolInv, CanvasOutlivesItsUsers, Threads
<1>. QED
  BY <1>1, CanvasInvariance, PTL

(* A pixel that the window has shown with its final colour is never shown  *)
(* blank or torn again.                                                    *)
THEOREM ShownPixels == CanvasSpec => ShownPixelsStay
<1>1. WInv /\ [CanvasNext]_allVars
        => [\A c \in Cells : shown[c] = "done" => shown'[c] = "done"]_allVars
  <2>. SUFFICES ASSUME WInv, [CanvasNext]_allVars, NEW c \in Cells, shown[c] = "done"
                PROVE  shown'[c] = "done"
    OBVIOUS
  <2>1. CASE Present
    <3>1. pos = Width * Height
      BY <2>1, SizeAssumption DEF Present, WInv, CanvasTypeOK, Cells
    <3>2. c < pos
      BY <3>1, SizeAssumption DEF Cells
    <3>. QED
      BY <2>1, <3>2 DEF Present, WInv, FrameInv
  <2>2. CASE StartDisplay \/ DemoReturns \/ EndDisplay \/ RenderStep
    BY <2>2 DEF StartDisplay, DemoReturns, EndDisplay, RenderStep, displayVars
  <2>3. CASE BeginFrame \/ BeginRead \/ EndRead \/ CloseWindow
    BY <2>3 DEF BeginFrame, BeginRead, EndRead, CloseWindow
  <2>4. CASE CanvasDestroyed \/ UNCHANGED allVars
    BY <2>4 DEF CanvasDestroyed, allVars, displayVars
  <2>. QED
    BY <2>1, <2>2, <2>3, <2>4 DEF CanvasNext, DrawStep
<1>. QED
  BY <1>1, CanvasInvariance, PTL DEF CanvasSpec, ShownPixelsStay
=============================================================================
