--------------------------- MODULE ColorAtProofs ---------------------------
(***************************************************************************)
(* Proofs about ColorAt, for every recursion depth, number of lights and   *)
(* objects, set of group sizes and set of threads.                         *)
(***************************************************************************)
EXTENDS ColorAt, SequenceTheorems, SetInduction, TLAPS

(* Only the holder of the mutex is in the critical section, and what it    *)
(* has loaded is current.                                                  *)
StatsInv ==
  /\ statsAt \in [Threads -> {"out", "load", "store", "unlock"}]
  /\ \A e \in Threads : statsAt[e] # "out" => mutex = e
  /\ \A e \in Threads : statsAt[e] = "store" => loaded[e] = totals
  /\ DOMAIN loaded = Threads
  /\ NoAdditionIsLost

Places == {"cast", "hit", "lights", "shadow", "reflect", "refract", "blend"}

Frames == [at : Places, remaining : 0 .. RecursionDepth, shadows : BOOLEAN,
           light : 1 .. Lights + 1]

(* Each activation has one ray less to cast than its caller, and a caller  *)
(* has left shade_hit's loop over the lights.                              *)
StackInv ==
  /\ stack \in [Threads -> Seq(Frames)]
  /\ \A e \in Threads : \A d \in 1 .. Depth(e) :
       stack[e][d].remaining = RecursionDepth - (d - 1)
  /\ \A e \in Threads : \A d \in 1 .. Depth(e) - 1 :
       stack[e][d].at \in {"refract", "blend"}

BufferInv ==
  /\ DOMAIN xs = Threads
  /\ XsBelongToTheReader

IInv == StatsInv /\ StackInv /\ BufferInv

-----------------------------------------------------------------------------
LEMMA InitInv == Init => IInv
<1>. SUFFICES ASSUME Init PROVE IInv
  OBVIOUS
<1>. DEFINE f == Frame(RecursionDepth, Shadows)
<1>1. StatsInv
  BY DEF Init, StatsInv, NoAdditionIsLost, Zero, Totals
<1>2. \A e \in Threads : stack[e] = <<f>> /\ Depth(e) = 1 /\ stack[e][1] = f
  BY DEF Init, Depth
<1>3. f \in Frames /\ f.at = "cast" /\ f.remaining = RecursionDepth
  BY DepthAssumption, LightsAssumption, ShadowsAssumption DEF Frame, Frames, Places
<1>4. stack \in [Threads -> Seq(Frames)]
  BY <1>3 DEF Init
<1>. HIDE DEF f
<1>5. StackInv
  BY <1>2, <1>3, <1>4, DepthAssumption DEF StackInv
<1>6. BufferInv
  BY <1>2, <1>3 DEF Init, BufferInv, XsBelongToTheReader, Top
<1>. QED
  BY <1>1, <1>5, <1>6 DEF IInv

-----------------------------------------------------------------------------
(* The counters.                                                           *)

LEMMA CountKeepsStats ==
  ASSUME StatsInv, NEW e \in Threads, Count(e)
  PROVE  StatsInv'
<1>. USE DEF StatsInv, NoAdditionIsLost
<1>1. CASE Lock(e)
  BY <1>1, NoThreadAssumption DEF Lock
<1>2. CASE Load(e)
  BY <1>2 DEF Load
<1>3. CASE Store(e)
  BY <1>3 DEF Store
<1>4. CASE Unlock(e)
  BY <1>4 DEF Unlock
<1>. QED
  BY <1>1, <1>2, <1>3, <1>4 DEF Count

LEMMA CountKeepsTheRest ==
  ASSUME StackInv, BufferInv, NEW e \in Threads, Count(e)
  PROVE  StackInv' /\ BufferInv'
<1>1. UNCHANGED <<stack, xs>>
  BY DEF Count, Lock, Load, Store, Unlock
<1>. QED
  BY <1>1 DEF StackInv, BufferInv, XsBelongToTheReader, Depth, Top

-----------------------------------------------------------------------------
(* The recursion.                                                          *)

LEMMA TraceKeepsStats ==
  ASSUME StatsInv, NEW e \in Threads, Trace(e)
  PROVE  StatsInv'
<1>1. UNCHANGED <<statsAt, loaded, mutex, totals, accounted>>
  BY DEF Trace, CastRay, Miss, HitInfo, CastShadow, Lighting, LightsDone,
     Reflect, Refract, Blend, IntersectWorld, statsVars
<1>. QED
  BY <1>1 DEF StatsInv, NoAdditionIsLost

(* A step replaces the stack of one thread.                                *)
LEMMA StackStep ==
  ASSUME StackInv, NEW e \in Threads, NEW s \in Seq(Frames),
         stack' = [stack EXCEPT ![e] = s],
         \A d \in 1 .. Len(s) : s[d].remaining = RecursionDepth - (d - 1),
         \A d \in 1 .. Len(s) - 1 : s[d].at \in {"refract", "blend"}
  PROVE  /\ StackInv'
         /\ stack'[e] = s
         /\ \A g \in Threads : g # e => stack'[g] = stack[g]
<1>1. /\ stack' \in [Threads -> Seq(Frames)]
      /\ stack'[e] = s
      /\ \A g \in Threads : g # e => stack'[g] = stack[g]
  BY DEF StackInv
<1>2. ASSUME NEW g \in Threads
      PROVE  /\ \A d \in 1 .. Len(stack'[g]) :
                  stack'[g][d].remaining = RecursionDepth - (d - 1)
             /\ \A d \in 1 .. Len(stack'[g]) - 1 :
                  stack'[g][d].at \in {"refract", "blend"}
  <2>1. CASE g = e
    BY <2>1, <1>1
  <2>2. CASE g # e
    BY <2>2, <1>1 DEF StackInv, Depth
  <2>. QED
    BY <2>1, <2>2
<1>. QED
  BY <1>1, <1>2 DEF StackInv, Depth

LEMMA StackFacts ==
  ASSUME StackInv, NEW e \in Threads, Depth(e) > 0
  PROVE  \E n \in Nat \ {0}, t \in Seq(Frames) :
           /\ t = stack[e] /\ n = Len(t) /\ n = Depth(e) /\ t[n] = Top(e)
           /\ t[n] \in Frames
           /\ \A d \in 1 .. n : t[d].remaining = RecursionDepth - (d - 1)
           /\ \A d \in 1 .. n - 1 : t[d].at \in {"refract", "blend"}
<1>1. PICK t \in Seq(Frames) : t = stack[e]
  BY DEF StackInv
<1>2. PICK n \in Nat \ {0} : n = Len(t) /\ n = Depth(e)
  BY <1>1 DEF Depth
<1>3. t[n] \in Frames /\ t[n] = Top(e)
  <2>1. n \in 1 .. Len(t)
    BY <1>2
  <2>2. t[n] \in Frames
    BY <2>1, ElementOfSeq
  <2>3. t[n] = Top(e)
    BY <1>1, <1>2 DEF Top
  <2>. QED
    BY <2>2, <2>3
<1>4. /\ \A d \in 1 .. n : t[d].remaining = RecursionDepth - (d - 1)
      /\ \A d \in 1 .. n - 1 : t[d].at \in {"refract", "blend"}
  BY <1>1, <1>2 DEF StackInv
<1>. QED
  BY <1>1, <1>2, <1>3, <1>4

(* The top activation moves on without touching the stack below it.        *)
LEMMA SetTopFacts ==
  ASSUME StackInv, NEW e \in Threads, Depth(e) > 0,
         NEW f \in Frames, f.remaining = Top(e).remaining, SetTop(e, f)
  PROVE  /\ StackInv'
         /\ Depth(e)' = Depth(e) /\ Top(e)' = f
         /\ \A d \in 1 .. Depth(e) - 1 : stack'[e][d] = stack[e][d]
         /\ \A g \in Threads : g # e => stack'[g] = stack[g]
<1>1. PICK n \in Nat \ {0}, t \in Seq(Frames) :
        /\ t = stack[e] /\ n = Len(t) /\ n = Depth(e) /\ t[n] = Top(e)
        /\ \A d \in 1 .. n : t[d].remaining = RecursionDepth - (d - 1)
        /\ \A d \in 1 .. n - 1 : t[d].at \in {"refract", "blend"}
  BY StackFacts
<1>2. PICK s : s = [t EXCEPT ![n] = f]
  OBVIOUS
<1>3. stack' = [stack EXCEPT ![e] = s]
  BY <1>1, <1>2 DEF SetTop, StackInv
<1>4. /\ s \in Seq(Frames) /\ Len(s) = n /\ s[n] = f
      /\ \A d \in 1 .. n - 1 : s[d] = t[d]
  <2>1. n \in 1 .. Len(t)
    BY <1>1
  <2>2. s \in Seq(Frames) /\ Len(s) = Len(t) /\ \A d \in 1 .. Len(t) :
          s[d] = IF d = n THEN f ELSE t[d]
    BY <2>1, <1>2, ExceptSeq
  <2>3. s[n] = f
    BY <2>1, <2>2
  <2>4. ASSUME NEW d \in 1 .. n - 1
        PROVE  s[d] = t[d]
    <3>1. d \in 1 .. Len(t) /\ d # n
      BY <1>1
    <3>. QED
      BY <3>1, <2>2
  <2>. QED
    BY <1>1, <2>2, <2>3, <2>4
<1>5. ASSUME NEW d \in 1 .. Len(s)
      PROVE  s[d].remaining = RecursionDepth - (d - 1)
  <2>1. CASE d = n
    <3>1. s[d].remaining = t[n].remaining
      BY <2>1, <1>1, <1>4
    <3>. QED
      BY <2>1, <3>1, <1>1
  <2>2. CASE d # n
    <3>1. d \in 1 .. n - 1 /\ d \in 1 .. n
      BY <2>2, <1>1, <1>4
    <3>2. s[d] = t[d] /\ t[d].remaining = RecursionDepth - (d - 1)
      BY <3>1, <1>1, <1>4
    <3>. QED
      BY <3>2
  <2>. QED
    BY <2>1, <2>2
<1>6. \A d \in 1 .. Len(s) - 1 : s[d].at \in {"refract", "blend"}
  BY <1>1, <1>4
<1>7. /\ StackInv' /\ stack'[e] = s
      /\ \A g \in Threads : g # e => stack'[g] = stack[g]
  BY <1>3, <1>4, <1>5, <1>6, StackStep
<1>. QED
  BY <1>1, <1>4, <1>7 DEF Depth, Top

(* An activation returns: the one below, which is waiting for a secondary  *)
(* ray, becomes the top.                                                   *)
LEMMA PopFacts ==
  ASSUME StackInv, NEW e \in Threads, Depth(e) > 0, Pop(e)
  PROVE  /\ StackInv'
         /\ Depth(e)' > 0 => Top(e)'.at \in {"refract", "blend"}
         /\ Depth(e)' = Depth(e) - 1
         /\ \A d \in 1 .. Depth(e) - 1 : stack'[e][d] = stack[e][d]
         /\ \A g \in Threads : g # e => stack'[g] = stack[g]
<1>1. PICK n \in Nat \ {0}, t \in Seq(Frames) :
        /\ t = stack[e] /\ n = Len(t) /\ n = Depth(e)
        /\ \A d \in 1 .. n : t[d].remaining = RecursionDepth - (d - 1)
        /\ \A d \in 1 .. n - 1 : t[d].at \in {"refract", "blend"}
  BY StackFacts
<1>2. PICK s : s = SubSeq(t, 1, n - 1)
  OBVIOUS
<1>3. stack' = [stack EXCEPT ![e] = s]
  BY <1>1, <1>2 DEF Pop, StackInv
<1>4. /\ s \in Seq(Frames) /\ Len(s) = n - 1
      /\ \A d \in 1 .. n - 1 : s[d] = t[d]
  <2>1. \A d \in 1 .. n - 1 : t[d] \in Frames
    <3>1. \A d \in 1 .. n - 1 : d \in 1 .. Len(t)
      BY <1>1
    <3>. QED
      BY <3>1, ElementOfSeq
  <2>2. /\ s \in Seq(Frames)
        /\ Len(s) = IF 1 <= n - 1 THEN n - 1 - 1 + 1 ELSE 0
        /\ \A d \in 1 .. n - 1 - 1 + 1 : s[d] = t[1 + d - 1]
    BY <2>1, <1>2, SubSeqProperties
  <2>3. n - 1 - 1 + 1 = n - 1 /\ \A d \in 1 .. n - 1 : 1 + d - 1 = d
    OBVIOUS
  <2>4. Len(s) = n - 1
    BY <2>2
  <2>. QED
    BY <2>2, <2>3, <2>4
<1>5. ASSUME NEW d \in 1 .. Len(s)
      PROVE  /\ s[d].remaining = RecursionDepth - (d - 1)
             /\ s[d].at \in {"refract", "blend"}
  <2>1. d \in 1 .. n /\ d \in 1 .. n - 1
    BY <1>4
  <2>2. s[d] = t[d] /\ t[d].remaining = RecursionDepth - (d - 1)
    BY <2>1, <1>1, <1>4
  <2>3. t[d].at \in {"refract", "blend"}
    BY <2>1, <1>1
  <2>. QED
    BY <2>2, <2>3
<1>6. \A d \in 1 .. Len(s) - 1 : s[d].at \in {"refract", "blend"}
  <2>1. \A d \in 1 .. Len(s) - 1 : d \in 1 .. Len(s)
    BY <1>4
  <2>. QED
    BY <1>5, <2>1
<1>7. /\ StackInv' /\ stack'[e] = s
      /\ \A g \in Threads : g # e => stack'[g] = stack[g]
  BY <1>3, <1>4, <1>5, <1>6, StackStep
<1>8. Depth(e)' = n - 1 /\ Top(e)' = s[n - 1]
  BY <1>4, <1>7 DEF Depth, Top
<1>9. \A d \in 1 .. Depth(e) - 1 : stack'[e][d] = stack[e][d]
  BY <1>1, <1>4, <1>7
<1>. QED
  BY <1>1, <1>4, <1>5, <1>7, <1>8, <1>9

(* color_at is called for a secondary ray. *)
LEMMA CallFacts ==
  ASSUME StackInv, NEW e \in Threads, Depth(e) > 0, Top(e).remaining > 0,
         NEW next \in {"refract", "blend"}, Call(e, next)
  PROVE  /\ StackInv'
         /\ Depth(e)' = Depth(e) + 1 /\ Top(e)'.at = "cast"
         /\ Top(e)'.remaining = Top(e).remaining - 1
         /\ stack'[e][Depth(e)] = [Top(e) EXCEPT !.at = next]
         /\ \A d \in 1 .. Depth(e) - 1 : stack'[e][d] = stack[e][d]
         /\ \A g \in Threads : g # e => stack'[g] = stack[g]
<1>1. PICK n \in Nat \ {0}, t \in Seq(Frames) :
        /\ t = stack[e] /\ n = Len(t) /\ n = Depth(e) /\ t[n] = Top(e)
        /\ t[n] \in Frames
        /\ \A d \in 1 .. n : t[d].remaining = RecursionDepth - (d - 1)
        /\ \A d \in 1 .. n - 1 : t[d].at \in {"refract", "blend"}
  BY StackFacts
<1>2. PICK f : f = Frame(t[n].remaining - 1, TRUE)
  OBVIOUS
<1>3. f \in Frames /\ f.at = "cast" /\ f.remaining = RecursionDepth - n
  <2>1. t[n].remaining = RecursionDepth - (n - 1)
    BY <1>1
  <2>2. t[n].remaining \in 0 .. RecursionDepth /\ t[n].remaining > 0
    BY <1>1 DEF Frames
  <2>3. /\ t[n].remaining - 1 \in 0 .. RecursionDepth
        /\ t[n].remaining - 1 = RecursionDepth - n
    BY <2>1, <2>2, DepthAssumption
  <2>. QED
    BY <1>2, <2>3, LightsAssumption DEF Frame, Frames, Places
<1>4. PICK caller : caller = [t[n] EXCEPT !.at = next]
  OBVIOUS
<1>5. caller \in Frames /\ caller.at = next /\ caller.remaining = t[n].remaining
  BY <1>1, <1>4 DEF Frames, Places
<1>6. PICK below : below = [t EXCEPT ![n] = caller]
  OBVIOUS
<1>7. /\ below \in Seq(Frames) /\ Len(below) = n /\ below[n] = caller
      /\ \A d \in 1 .. n - 1 : below[d] = t[d]
  <2>1. n \in 1 .. Len(t)
    BY <1>1
  <2>2. /\ below \in Seq(Frames) /\ Len(below) = Len(t)
        /\ \A d \in 1 .. Len(t) : below[d] = IF d = n THEN caller ELSE t[d]
    BY <2>1, <1>5, <1>6, ExceptSeq
  <2>3. below[n] = caller
    BY <2>1, <2>2
  <2>4. ASSUME NEW d \in 1 .. n - 1
        PROVE  below[d] = t[d]
    <3>1. d \in 1 .. Len(t) /\ d # n
      BY <1>1
    <3>. QED
      BY <3>1, <2>2
  <2>. QED
    BY <1>1, <2>2, <2>3, <2>4
<1>8. PICK s : s = Append(below, f)
  OBVIOUS
<1>9. stack' = [stack EXCEPT ![e] = s]
  <2>1. below = [t EXCEPT ![n].at = next]
    BY <1>4, <1>6
  <2>. QED
    BY <1>1, <1>2, <1>8, <2>1 DEF Call, StackInv
<1>10. /\ s \in Seq(Frames) /\ Len(s) = n + 1 /\ s[n + 1] = f
       /\ \A d \in 1 .. n : s[d] = below[d]
  BY <1>1, <1>3, <1>7, <1>8
<1>11. ASSUME NEW d \in 1 .. Len(s)
       PROVE  s[d].remaining = RecursionDepth - (d - 1)
  <2>1. CASE d = n + 1
    <3>1. s[d].remaining = RecursionDepth - n /\ d - 1 = n
      BY <2>1, <1>1, <1>3, <1>10
    <3>. QED
      BY <3>1
  <2>2. CASE d = n
    <3>1. d \in 1 .. n
      BY <2>2, <1>1
    <3>2. s[d].remaining = t[d].remaining
      BY <2>2, <3>1, <1>5, <1>7, <1>10
    <3>. QED
      BY <3>1, <3>2, <1>1
  <2>3. CASE d # n /\ d # n + 1
    <3>1. d \in 1 .. n /\ d \in 1 .. n - 1
      BY <2>3, <1>1, <1>10
    <3>2. s[d] = t[d] /\ t[d].remaining = RecursionDepth - (d - 1)
      BY <3>1, <1>1, <1>7, <1>10
    <3>. QED
      BY <3>2
  <2>. QED
    BY <2>1, <2>2, <2>3
<1>12. ASSUME NEW d \in 1 .. Len(s) - 1
       PROVE  s[d].at \in {"refract", "blend"}
  <2>1. CASE d = n
    <3>1. s[d] = caller
      BY <2>1, <1>1, <1>7, <1>10
    <3>. QED
      BY <3>1, <1>5
  <2>2. CASE d # n
    <3>1. d \in 1 .. n /\ d \in 1 .. n - 1
      BY <2>2, <1>1, <1>10
    <3>2. s[d] = t[d] /\ t[d].at \in {"refract", "blend"}
      BY <3>1, <1>1, <1>7, <1>10
    <3>. QED
      BY <3>2
  <2>. QED
    BY <2>1, <2>2
<1>13. /\ StackInv' /\ stack'[e] = s
       /\ \A g \in Threads : g # e => stack'[g] = stack[g]
  BY <1>9, <1>10, <1>11, <1>12, StackStep
<1>14. Depth(e)' = n + 1 /\ Top(e)' = f
  BY <1>1, <1>10, <1>13 DEF Depth, Top
<1>15. f.remaining = Top(e).remaining - 1
  BY <1>1, <1>2 DEF Frame
<1>16. stack'[e][n] = [Top(e) EXCEPT !.at = next]
  BY <1>1, <1>4, <1>7, <1>10, <1>13
<1>17. \A d \in 1 .. n - 1 : stack'[e][d] = stack[e][d]
  <2>1. \A d \in 1 .. n - 1 : d \in 1 .. n
    BY <1>1
  <2>. QED
    BY <2>1, <1>1, <1>7, <1>10, <1>13
<1>. QED
  BY <1>1, <1>3, <1>13, <1>14, <1>15, <1>16, <1>17

-----------------------------------------------------------------------------
(* The buffer.                                                             *)

(* What XsBelongToTheReader says of one thread. *)
OwnXs(e) ==
  Depth(e) > 0 /\ Top(e).at \in {"hit", "shadow"} =>
    /\ xs[e].owner = e
    /\ xs[e].depth = Depth(e)
    /\ xs[e].use = IF Top(e).at = "hit" THEN "color" ELSE "shadow"

(* A step of one thread leaves the buffers and stacks of the others alone. *)
LEMMA BufferStep ==
  ASSUME BufferInv, NEW e \in Threads, DOMAIN xs' = Threads, OwnXs(e)',
         \A g \in Threads : g # e => stack'[g] = stack[g] /\ xs'[g] = xs[g]
  PROVE  BufferInv'
<1>1. ASSUME NEW g \in Threads
      PROVE  OwnXs(g)'
  <2>1. CASE g = e
    BY <2>1
  <2>2. CASE g # e
    <3>1. OwnXs(g)
      BY DEF BufferInv, XsBelongToTheReader, OwnXs, Buffer
    <3>. QED
      BY <2>2, <3>1 DEF OwnXs, Depth, Top
  <2>. QED
    BY <2>1, <2>2
<1>. QED
  BY <1>1 DEF BufferInv, XsBelongToTheReader, OwnXs, Buffer

(* The top activation casts a ray and waits for what it hits.              *)
LEMMA CastKeepsInv ==
  ASSUME StackInv, BufferInv, NEW e \in Threads, Depth(e) > 0,
         NEW place \in {"hit", "shadow"}, Goto(e, place),
         IntersectWorld(e, IF place = "hit" THEN "color" ELSE "shadow")
  PROVE  StackInv' /\ BufferInv'
<1>1. PICK f : f = [Top(e) EXCEPT !.at = place]
  OBVIOUS
<1>2. Top(e) \in Frames
  BY StackFacts
<1>3. f \in Frames /\ f.remaining = Top(e).remaining /\ f.at = place
  BY <1>1, <1>2 DEF Frames, Places
<1>4. SetTop(e, f)
  BY <1>1 DEF Goto
<1>5. /\ StackInv' /\ Depth(e)' = Depth(e) /\ Top(e)' = f
      /\ \A g \in Threads : g # e => stack'[g] = stack[g]
  BY <1>3, <1>4, SetTopFacts
<1>6. PICK hit \in BOOLEAN :
        xs' = [xs EXCEPT ![e] =
                [owner |-> e, depth |-> Depth(e),
                 use |-> IF place = "hit" THEN "color" ELSE "shadow",
                 hit |-> hit]]
  BY DEF IntersectWorld, Buffer
<1>7. /\ DOMAIN xs' = Threads
      /\ \A g \in Threads : g # e => xs'[g] = xs[g]
      /\ xs'[e].owner = e /\ xs'[e].depth = Depth(e)
      /\ xs'[e].use = IF place = "hit" THEN "color" ELSE "shadow"
  BY <1>6 DEF BufferInv
<1>8. OwnXs(e)'
  BY <1>3, <1>5, <1>7 DEF OwnXs
<1>. QED
  BY <1>5, <1>7, <1>8, BufferStep

(* The top activation moves on to a place where it does not look at the    *)
(* buffer.                                                                 *)
LEMMA MoveKeepsInv ==
  ASSUME StackInv, BufferInv, NEW e \in Threads, Depth(e) > 0,
         NEW f \in Frames, f.remaining = Top(e).remaining,
         f.at \notin {"hit", "shadow"}, SetTop(e, f), xs' = xs
  PROVE  StackInv' /\ BufferInv'
<1>1. /\ StackInv' /\ Top(e)' = f
      /\ \A g \in Threads : g # e => stack'[g] = stack[g]
  BY SetTopFacts
<1>2. OwnXs(e)'
  BY <1>1 DEF OwnXs
<1>. QED
  BY <1>1, <1>2, BufferStep DEF BufferInv

LEMMA GotoKeepsInv ==
  ASSUME StackInv, BufferInv, NEW e \in Threads, Depth(e) > 0,
         NEW place \in {"lights", "reflect", "refract", "blend"},
         Goto(e, place), xs' = xs
  PROVE  StackInv' /\ BufferInv'
<1>1. PICK f : f = [Top(e) EXCEPT !.at = place]
  OBVIOUS
<1>2. Top(e) \in Frames
  BY StackFacts
<1>3. f \in Frames /\ f.remaining = Top(e).remaining /\ f.at = place
  BY <1>1, <1>2 DEF Frames, Places
<1>4. SetTop(e, f)
  BY <1>1 DEF Goto
<1>. QED
  BY <1>3, <1>4, MoveKeepsInv

LEMMA PopKeepsInv ==
  ASSUME StackInv, BufferInv, NEW e \in Threads, Depth(e) > 0, Pop(e), xs' = xs
  PROVE  StackInv' /\ BufferInv'
<1>1. /\ StackInv'
      /\ Depth(e)' > 0 => Top(e)'.at \in {"refract", "blend"}
      /\ \A g \in Threads : g # e => stack'[g] = stack[g]
  BY PopFacts
<1>2. OwnXs(e)'
  BY <1>1 DEF OwnXs
<1>. QED
  BY <1>1, <1>2, BufferStep DEF BufferInv

LEMMA CallKeepsInv ==
  ASSUME StackInv, BufferInv, NEW e \in Threads, Depth(e) > 0, xs' = xs,
         NEW next \in {"refract", "blend"}, Top(e).remaining > 0, Call(e, next)
  PROVE  StackInv' /\ BufferInv'
<1>1. /\ StackInv' /\ Top(e)'.at = "cast"
      /\ \A g \in Threads : g # e => stack'[g] = stack[g]
  BY CallFacts
<1>2. OwnXs(e)'
  BY <1>1 DEF OwnXs
<1>. QED
  BY <1>1, <1>2, BufferStep DEF BufferInv

LEMMA TraceKeepsTheRest ==
  ASSUME StackInv, BufferInv, NEW e \in Threads, Trace(e)
  PROVE  StackInv' /\ BufferInv'
<1>1. CASE CastRay(e)
  BY <1>1, CastKeepsInv DEF CastRay, At
<1>2. CASE Miss(e)
  BY <1>2, PopKeepsInv DEF Miss, At
<1>3. CASE HitInfo(e)
  BY <1>3, GotoKeepsInv DEF HitInfo, At
<1>4. CASE CastShadow(e)
  BY <1>4, CastKeepsInv DEF CastShadow, At
<1>5. CASE Lighting(e)
  <2>1. PICK f : f = [Top(e) EXCEPT !.at = "lights", !.light = @ + 1]
    OBVIOUS
  <2>2. Depth(e) > 0 /\ Top(e).light <= Lights /\ SetTop(e, f) /\ xs' = xs
    BY <1>5, <2>1 DEF Lighting
  <2>3. Top(e) \in Frames
    BY <2>2, StackFacts
  <2>4. f \in Frames /\ f.remaining = Top(e).remaining /\ f.at = "lights"
    <3>1. PICK t \in Frames : t = Top(e)
      BY <2>3
    <3>2. t.light + 1 \in 1 .. Lights + 1
      BY <2>2, <3>1, LightsAssumption DEF Frames
    <3>3. f = [at |-> "lights", remaining |-> t.remaining,
               shadows |-> t.shadows, light |-> t.light + 1]
      BY <2>1, <3>1 DEF Frames
    <3>. QED
      BY <3>1, <3>2, <3>3 DEF Frames, Places
  <2>. QED
    BY <2>2, <2>4, MoveKeepsInv
<1>6. CASE LightsDone(e)
  BY <1>6, GotoKeepsInv DEF LightsDone, At
<1>7. CASE Reflect(e)
  BY <1>7, CallKeepsInv, GotoKeepsInv DEF Reflect, At
<1>8. CASE Refract(e)
  BY <1>8, CallKeepsInv, GotoKeepsInv DEF Refract, At
<1>9. CASE Blend(e)
  BY <1>9, PopKeepsInv DEF Blend, At
<1>. QED
  BY <1>1, <1>2, <1>3, <1>4, <1>5, <1>6, <1>7, <1>8, <1>9 DEF Trace

-----------------------------------------------------------------------------
LEMMA NextInv == IInv /\ [Next]_vars => IInv'
<1>. SUFFICES ASSUME IInv, [Next]_vars PROVE IInv'
  OBVIOUS
<1>. USE DEF IInv
<1>1. CASE UNCHANGED vars
  BY <1>1 DEF vars, statsVars, StatsInv, StackInv, BufferInv,
     NoAdditionIsLost, XsBelongToTheReader, Depth, Top
<1>2. ASSUME NEW e \in Threads, Trace(e)
      PROVE  IInv'
  BY <1>2, TraceKeepsStats, TraceKeepsTheRest
<1>3. ASSUME NEW e \in Threads, Count(e)
      PROVE  IInv'
  BY <1>3, CountKeepsStats, CountKeepsTheRest
<1>. QED
  BY <1>1, <1>2, <1>3 DEF Next, Terminated

-----------------------------------------------------------------------------
(* Types.                                                                  *)

Buffers == [owner : Threads \cup {NoThread}, depth : Nat,
            use : {"none", "color", "shadow"}, hit : BOOLEAN]

(* A thread past the unlocked part of the critical section still has       *)
(* something to add: Head and Tail of the store are those of a sequence    *)
(* that is not empty.                                                      *)
TypesInv ==
  /\ xs \in [Threads -> Buffers]
  /\ adding \in [Threads -> Seq(Totals)]
  /\ \A e \in Threads : statsAt[e] \in {"load", "store"} => adding[e] # <<>>
  /\ loaded \in [Threads -> Totals]
  /\ mutex \in Threads \cup {NoThread}
  /\ totals \in Totals
  /\ accounted \in Totals
  /\ rays \in [Threads -> Nat]

LEMMA InitTypes == Init => TypesInv
BY DEF Init, TypesInv, Buffers, NoXs, Zero, Totals

(* What intersect_world is going to add are additions.                     *)
LEMMA AdditionsType ==
  ASSUME NEW hit \in BOOLEAN, NEW a \in Additions(hit)
  PROVE  a \in Seq(Totals)
<1>1. PICK groups \in {<<>>} \cup {<<[tests |-> n, hits |-> 0]>> : n \in GroupSizes} :
        a = groups \o <<[tests |-> Objects, hits |-> IF hit THEN 1 ELSE 0]>>
  BY DEF Additions
<1>2. groups \in Seq(Totals)
  <2>1. CASE groups = <<>>
    BY <2>1
  <2>2. ASSUME NEW n \in GroupSizes, groups = <<[tests |-> n, hits |-> 0]>>
        PROVE  groups \in Seq(Totals)
    <3>1. n \in Nat
      BY GroupsAssumption
    <3>2. [tests |-> n, hits |-> 0] \in Totals
      BY <3>1 DEF Totals
    <3>. QED
      BY <2>2, <3>2
  <2>. QED
    BY <1>1, <2>1, <2>2
<1>3. <<[tests |-> Objects, hits |-> IF hit THEN 1 ELSE 0]>> \in Seq(Totals)
  BY ObjectsAssumption DEF Totals
<1>. QED
  BY <1>1, <1>2, <1>3

LEMMA CastKeepsTypes ==
  ASSUME TypesInv, StackInv, StatsInv, NEW e \in Threads, statsAt[e] = "out",
         NEW use \in {"color", "shadow"}, IntersectWorld(e, use)
  PROVE  TypesInv'
<1>1. PICK hit \in BOOLEAN : \E a \in Additions(hit) :
        /\ xs' = [xs EXCEPT ![e] =
                    [owner |-> e, depth |-> Depth(e), use |-> use, hit |-> hit]]
        /\ adding' = [adding EXCEPT ![e] = a]
        /\ rays' = [rays EXCEPT ![e] = @ + 1]
        /\ UNCHANGED <<statsAt, loaded, mutex, totals, accounted>>
  BY DEF IntersectWorld, Buffer
<1>2. Depth(e) \in Nat
  BY DEF StackInv, Depth
<1>3. xs' \in [Threads -> Buffers]
  BY <1>1, <1>2 DEF TypesInv, Buffers
<1>4. adding' \in [Threads -> Seq(Totals)]
  BY <1>1, AdditionsType DEF TypesInv
<1>5. \A g \in Threads : statsAt'[g] \in {"load", "store"} => adding'[g] # <<>>
  BY <1>1 DEF TypesInv
<1>6. rays' \in [Threads -> Nat]
  BY <1>1 DEF TypesInv
<1>. QED
  BY <1>1, <1>3, <1>4, <1>5, <1>6 DEF TypesInv

LEMMA TraceKeepsTypes ==
  ASSUME TypesInv, StackInv, StatsInv, NEW e \in Threads, Trace(e)
  PROVE  TypesInv'
<1>1. CASE CastRay(e)
  BY <1>1, CastKeepsTypes DEF Trace, CastRay
<1>2. CASE CastShadow(e)
  BY <1>2, CastKeepsTypes DEF Trace, CastShadow
<1>3. CASE UNCHANGED <<xs, statsVars, rays>>
  BY <1>3 DEF TypesInv, statsVars
<1>. QED
  BY <1>1, <1>2, <1>3 DEF Trace, Miss, HitInfo, Lighting, LightsDone,
     Reflect, Refract, Blend

(* Adding to the counters leaves them natural numbers. *)
LEMMA PlusType ==
  ASSUME NEW a \in Totals, NEW b \in Totals
  PROVE  Plus(a, b) \in Totals
<1>1. a.tests \in Nat /\ a.hits \in Nat /\ b.tests \in Nat /\ b.hits \in Nat
  BY DEF Totals
<1>. DEFINE t == a.tests + b.tests
            h == a.hits + b.hits
<1>2. t \in Nat /\ h \in Nat
  BY <1>1
<1>3. Plus(a, b) = [tests |-> t, hits |-> h]
  BY DEF Plus
<1>. HIDE DEF t, h
<1>. QED
  BY <1>2, <1>3 DEF Totals

LEMMA CountKeepsTypes ==
  ASSUME TypesInv, StatsInv, NEW e \in Threads, Count(e)
  PROVE  TypesInv'
<1>. USE DEF TypesInv
<1>1. CASE Lock(e)
  BY <1>1 DEF Lock, StatsInv
<1>2. CASE Load(e)
  BY <1>2 DEF Load, StatsInv
<1>3. CASE Store(e)
  <2>1. PICK q \in Seq(Totals) : q = adding[e] /\ q # <<>>
    BY <1>3 DEF Store
  <2>2. Head(q) \in Totals /\ Tail(q) \in Seq(Totals)
    BY <2>1, HeadTailProperties
  <2>3. \A a, b \in Totals : Plus(a, b) \in Totals
    BY PlusType
  <2>4. totals' \in Totals /\ accounted' \in Totals
    BY <1>3, <2>1, <2>2, <2>3 DEF Store
  <2>5. adding' \in [Threads -> Seq(Totals)]
    BY <1>3, <2>1, <2>2 DEF Store
  <2>6. \A g \in Threads : statsAt'[g] \in {"load", "store"} => adding'[g] # <<>>
    BY <1>3 DEF Store, StatsInv
  <2>. QED
    BY <1>3, <2>4, <2>5, <2>6 DEF Store
<1>4. CASE Unlock(e)
  BY <1>4, NoThreadAssumption DEF Unlock, StatsInv
<1>. QED
  BY <1>1, <1>2, <1>3, <1>4 DEF Count

LEMMA NextTypes == IInv /\ TypesInv /\ [Next]_vars => TypesInv'
<1>. SUFFICES ASSUME IInv, TypesInv, [Next]_vars PROVE TypesInv'
  OBVIOUS
<1>1. CASE UNCHANGED vars
  BY <1>1 DEF vars, statsVars, TypesInv
<1>2. ASSUME NEW e \in Threads, Trace(e)
      PROVE  TypesInv'
  BY <1>2, TraceKeepsTypes DEF IInv
<1>3. ASSUME NEW e \in Threads, Count(e)
      PROVE  TypesInv'
  BY <1>3, CountKeepsTypes DEF IInv
<1>. QED
  BY <1>1, <1>2, <1>3 DEF Next, Terminated

LEMMA TypesFollow == IInv /\ TypesInv => TypeOK
<1>. SUFFICES ASSUME IInv, TypesInv PROVE TypeOK
  OBVIOUS
<1>1. ASSUME NEW e \in Threads, NEW d \in 1 .. Depth(e)
      PROVE  stack[e][d] \in Frames
  <2>1. stack[e] \in Seq(Frames) /\ d \in 1 .. Len(stack[e])
    BY DEF IInv, StackInv, Depth
  <2>. QED
    BY <2>1, ElementOfSeq
<1>2. \A e \in Threads : xs[e].owner \in Threads \cup {NoThread} /\ xs[e].hit \in BOOLEAN
  BY DEF TypesInv, Buffers
<1>. QED
  BY <1>1, <1>2 DEF IInv, StatsInv, TypesInv, TypeOK, Frames, Places

LEMMA InvIsSafe == IInv => NoAdditionIsLost /\ XsBelongToTheReader /\ RecursionIsBounded
<1>. SUFFICES ASSUME IInv PROVE RecursionIsBounded
  BY DEF IInv, StatsInv, BufferInv
<1>1. ASSUME NEW e \in Threads
      PROVE  Depth(e) <= RecursionDepth + 1
  <2>1. Depth(e) \in Nat
    BY DEF IInv, StackInv, Depth
  <2>2. CASE Depth(e) > 0
    <3>1. PICK n \in Nat \ {0}, t \in Seq(Frames) :
            /\ n = Depth(e) /\ t[n] \in Frames
            /\ t[n].remaining = RecursionDepth - (n - 1)
      BY <2>2, StackFacts DEF IInv
    <3>2. t[n].remaining \in 0 .. RecursionDepth
      BY <3>1 DEF Frames
    <3>. QED
      BY <3>1, <3>2, DepthAssumption
  <2>. QED
    BY <2>1, <2>2, DepthAssumption
<1>. QED
  BY <1>1 DEF IInv, StackInv, RecursionIsBounded

-----------------------------------------------------------------------------
(* The rays of a pixel.                                                    *)

(* What a secondary ray of an activation with n levels left may cost.      *)
Secondary(n) == IF n = 0 THEN 0 ELSE Budget[n - 1]

(* The equation of Budget: the function it is chosen to be exists.         *)
LEMMA BudgetFacts ==
  /\ Budget \in [Nat -> Nat]
  /\ \A n \in Nat : Budget[n] = 1 + Lights + 2 * Secondary(n)
<1>. DEFINE P(b) == b = [n \in Nat |-> 1 + Lights + IF n = 0 THEN 0 ELSE 2 * b[n - 1]]
            step == [w \in Nat \X Nat |-> 1 + Lights + 2 * w[2]]
<1>1. 1 + Lights \in Nat
  BY LightsAssumption
<1>2. PICK f \in [Nat -> Nat] :
        f[0] = 1 + Lights /\ \A n \in Nat : f[n + 1] = step[<<n, f[n]>>]
  <2>1. step \in [Nat \X Nat -> Nat]
    BY <1>1
  <2>. HIDE DEF step
  <2>2. PICK a \in Nat : a = 1 + Lights
    BY <1>1
  <2>3. \E f : Iterates(f, Nat, a, step)
    BY <2>1, Recursion
  <2>. QED
    BY <2>2, <2>3 DEF Iterates
<1>3. \A n \in Nat : f[n + 1] = 1 + Lights + 2 * f[n]
  BY <1>2
<1>4. ASSUME NEW n \in Nat
      PROVE  f[n] = 1 + Lights + IF n = 0 THEN 0 ELSE 2 * f[n - 1]
  <2>1. CASE n = 0
    BY <2>1, <1>1, <1>2
  <2>2. CASE n # 0
    <3>1. n - 1 \in Nat /\ (n - 1) + 1 = n
      BY <2>2
    <3>2. f[n] = 1 + Lights + 2 * f[n - 1]
      BY <3>1, <1>3
    <3>. QED
      BY <2>2, <3>2
  <2>. QED
    BY <2>1, <2>2
<1>5. P(f)
  BY <1>2, <1>4
<1>6. Budget = CHOOSE b : P(b)
  BY DEF Budget
<1>. HIDE DEF P
<1>7. P(Budget)
  BY <1>5, <1>6
<1>8. DOMAIN Budget = Nat /\
      \A n \in Nat : Budget[n] = 1 + Lights + IF n = 0 THEN 0 ELSE 2 * Budget[n - 1]
  BY <1>7 DEF P
<1>9. ASSUME NEW b, P(b)
      PROVE  \A n \in Nat : b[n] = f[n]
  <2>. DEFINE S == {n \in Nat : b[n] = f[n]}
  <2>1. \A n \in Nat : b[n] = 1 + Lights + IF n = 0 THEN 0 ELSE 2 * b[n - 1]
    BY <1>9 DEF P
  <2>2. 0 \in S
    BY <2>1, <1>4
  <2>3. ASSUME NEW n \in S
        PROVE  n + 1 \in S
    <3>1. n \in Nat /\ n + 1 \in Nat /\ n + 1 # 0 /\ (n + 1) - 1 = n
      OBVIOUS
    <3>2. b[n + 1] = 1 + Lights + 2 * b[n]
      BY <3>1, <2>1
    <3>. QED
      BY <3>1, <3>2, <1>3
  <2>. HIDE DEF S
  <2>4. S \in SUBSET Nat
    BY DEF S
  <2>5. \A n \in Nat : n \in S
    BY <2>2, <2>3, <2>4, SetOfAllNaturals
  <2>. QED
    BY <2>5 DEF S
<1>10. \A n \in Nat : Budget[n] = f[n] /\ f[n] \in Nat
  BY <1>2, <1>7, <1>9
<1>11. Budget \in [Nat -> Nat]
  <2>1. Budget = [n \in Nat |-> Budget[n]]
    BY <1>7 DEF P
  <2>. QED
    BY <1>10, <2>1
<1>. QED
  BY <1>8, <1>11 DEF Secondary

(* What an activation has cast at most, by the place it has reached: a     *)
(* caller's place is past the secondary ray it waits for.                  *)
Spent(f) ==
  CASE f.at = "cast" -> 0
    [] f.at = "hit" -> 1
    [] f.at = "lights" -> f.light
    [] f.at = "shadow" -> f.light + 1
    [] f.at = "reflect" -> 1 + Lights
    [] f.at = "refract" -> 1 + Lights + Secondary(f.remaining)
    [] f.at = "blend" -> 1 + Lights + 2 * Secondary(f.remaining)

(* The rays a thread had cast when each of its activations began: a caller *)
(* had left enough for the activation it called, no activation may need    *)
(* more than the pixel has, and the top one has spent what its place says. *)
Ledger(e, before) ==
  /\ before \in [1 .. Depth(e) -> 0 .. rays[e]]
  /\ \A d \in 1 .. Depth(e) : before[d] + Budget[stack[e][d].remaining] <= Budget[RecursionDepth]
  /\ \A d \in 1 .. Depth(e) - 1 :
       before[d + 1] + Secondary(stack[e][d].remaining) <= before[d] + Spent(stack[e][d])
  /\ Depth(e) > 0 =>
       /\ rays[e] <= before[Depth(e)] + Spent(Top(e))
       /\ Top(e).at = "shadow" => Top(e).light <= Lights
  /\ Depth(e) = 0 => rays[e] <= Budget[RecursionDepth]

LedgerInv == \A e \in Threads : \E before : Ledger(e, before)

LEMMA SpentFacts ==
  ASSUME NEW f \in Frames
  PROVE  /\ Spent(f) \in Nat /\ Secondary(f.remaining) \in Nat /\ Budget[f.remaining] \in Nat
         /\ Budget[f.remaining] = 1 + Lights + 2 * Secondary(f.remaining)
         /\ f.remaining > 0 => Secondary(f.remaining) = Budget[f.remaining - 1]
         /\ f.at # "shadow" \/ f.light <= Lights => Spent(f) <= Budget[f.remaining]
<1>1. PICK n \in Nat : n = f.remaining
  BY DepthAssumption DEF Frames
<1>2. PICK l \in Nat : l = f.light /\ l <= Lights + 1
  BY LightsAssumption DEF Frames
<1>3. f.at \in Places
  BY DEF Frames
<1>4. PICK b \in Nat : b = Budget[n]
  BY <1>1, BudgetFacts
<1>5. PICK s \in Nat : s = Secondary(n)
  <2>1. CASE n = 0
    BY <2>1 DEF Secondary
  <2>2. CASE n # 0
    <3>1. n - 1 \in Nat
      BY <2>2
    <3>. QED
      BY <2>2, <3>1, BudgetFacts DEF Secondary
  <2>. QED
    BY <2>1, <2>2
<1>6. b = 1 + Lights + 2 * s
  BY <1>1, <1>4, <1>5, BudgetFacts
<1>7. n > 0 => s = Budget[n - 1]
  BY <1>5 DEF Secondary
<1>8. /\ Spent(f) \in Nat
      /\ f.at # "shadow" \/ l <= Lights => Spent(f) <= b
  BY <1>1, <1>2, <1>3, <1>5, <1>6, LightsAssumption DEF Spent, Places
<1>. QED
  BY <1>1, <1>2, <1>4, <1>5, <1>6, <1>7, <1>8

(* The ledger of a thread that a step leaves alone. *)
LEMMA LedgerStays ==
  ASSUME NEW g \in Threads, NEW before, Ledger(g, before),
         stack'[g] = stack[g], rays'[g] = rays[g]
  PROVE  Ledger(g, before)'
BY DEF Ledger, Depth, Top

(* The top activation moves on, with or without a ray. *)
LEMMA LedgerMoves ==
  ASSUME StackInv, TypesInv, NEW e \in Threads, Depth(e) > 0, NEW before, Ledger(e, before),
         NEW f \in Frames, f.remaining = Top(e).remaining, SetTop(e, f),
         f.at = "shadow" => f.light <= Lights,
         NEW n \in {0, 1}, rays'[e] = rays[e] + n, Spent(Top(e)) + n <= Spent(f)
  PROVE  Ledger(e, before)'
<1>1. /\ Depth(e)' = Depth(e) /\ Top(e)' = f
      /\ \A d \in 1 .. Depth(e) - 1 : stack'[e][d] = stack[e][d]
  BY SetTopFacts
<1>2. PICK k \in Nat \ {0} : k = Depth(e) /\ stack[e][k] = Top(e) /\ stack[e][k] \in Frames
  BY StackFacts
<1>3. stack'[e][k] = f
  BY <1>1, <1>2 DEF Top
<1>4. PICK r \in Nat : r = rays[e]
  BY DEF TypesInv
<1>5. before \in [1 .. k -> 0 .. r] /\ rays'[e] = r + n /\ r + n \in Nat
  BY <1>2, <1>4 DEF Ledger
<1>6. before \in [1 .. k -> 0 .. rays'[e]]
  BY <1>4, <1>5
<1>7. ASSUME NEW d \in 1 .. k
      PROVE  before[d] + Budget[stack'[e][d].remaining] <= Budget[RecursionDepth]
  <2>1. stack'[e][d].remaining = stack[e][d].remaining
    <3>1. CASE d = k
      BY <3>1, <1>2, <1>3
    <3>2. CASE d # k
      BY <3>2, <1>1, <1>2
    <3>. QED
      BY <3>1, <3>2
  <2>. QED
    BY <2>1, <1>2 DEF Ledger
<1>8. ASSUME NEW d \in 1 .. k - 1
      PROVE  before[d + 1] + Secondary(stack'[e][d].remaining) <= before[d] + Spent(stack'[e][d])
  BY <1>1, <1>2 DEF Ledger
<1>9. rays'[e] <= before[k] + Spent(f)
  <2>1. r <= before[k] + Spent(Top(e)) /\ before[k] \in Nat
    BY <1>2, <1>4, <1>5 DEF Ledger
  <2>2. Spent(Top(e)) \in Nat /\ Spent(f) \in Nat
    BY <1>2, SpentFacts
  <2>. QED
    BY <1>4, <2>1, <2>2
<1>. QED
  BY <1>1, <1>2, <1>6, <1>7, <1>8, <1>9 DEF Ledger

(* The top activation returns: its caller had left enough for it. *)
LEMMA LedgerPops ==
  ASSUME StackInv, TypesInv, NEW e \in Threads, Depth(e) > 0, NEW before, Ledger(e, before),
         Top(e).at # "shadow", Pop(e), rays'[e] = rays[e]
  PROVE  \E w : Ledger(e, w)'
<1>1. /\ Depth(e)' = Depth(e) - 1
      /\ Depth(e)' > 0 => Top(e)'.at \in {"refract", "blend"}
      /\ \A d \in 1 .. Depth(e) - 1 : stack'[e][d] = stack[e][d]
  BY PopFacts
<1>2. PICK k \in Nat \ {0}, t \in Seq(Frames) :
        /\ k = Depth(e) /\ t = stack[e] /\ k = Len(t) /\ t[k] = Top(e) /\ t[k] \in Frames
        /\ \A d \in 1 .. k : t[d].remaining = RecursionDepth - (d - 1)
  BY StackFacts
<1>3. PICK r \in Nat : r = rays[e]
  BY DEF TypesInv
<1>. DEFINE b == [d \in 1 .. k - 1 |-> before[d]]
<1>4. before \in [1 .. k -> 0 .. r]
  BY <1>2, <1>3 DEF Ledger
<1>5. b \in [1 .. k - 1 -> 0 .. r] /\ \A d \in 1 .. k - 1 : b[d] = before[d]
  BY <1>4
<1>6. r <= before[k] + Budget[t[k].remaining]
  <2>1. r <= before[k] + Spent(t[k]) /\ before[k] \in Nat
    BY <1>2, <1>3, <1>4 DEF Ledger
  <2>2. Spent(t[k]) \in Nat /\ Budget[t[k].remaining] \in Nat /\ Spent(t[k]) <= Budget[t[k].remaining]
    BY <1>2, SpentFacts
  <2>. QED
    BY <1>3, <2>1, <2>2
<1>7. CASE k = 1
  <2>1. r <= Budget[RecursionDepth]
    <3>1. before[1] + Budget[t[1].remaining] <= Budget[RecursionDepth]
      BY <1>2, <1>7 DEF Ledger
    <3>2. before[1] \in Nat
      BY <1>4, <1>7
    <3>3. Budget[t[1].remaining] \in Nat
      BY <1>2, <1>7, SpentFacts
    <3>4. Budget[RecursionDepth] \in Nat
      BY BudgetFacts, DepthAssumption
    <3>. QED
      BY <1>3, <1>6, <1>7, <3>1, <3>2, <3>3, <3>4
  <2>2. Depth(e)' = 0 /\ rays'[e] = r
    BY <1>1, <1>2, <1>3, <1>7
  <2>3. b \in [1 .. Depth(e)' -> 0 .. rays'[e]]
    BY <1>5, <1>7, <2>2
  <2>4. Ledger(e, b)'
    <3>. HIDE DEF b
    <3>. QED
      BY <2>1, <2>2, <2>3 DEF Ledger
  <2>. QED
    BY <2>4
<1>8. CASE k > 1
  <2>. DEFINE m == k - 1
  <2>1. m \in Nat \ {0} /\ m + 1 = k /\ m \in 1 .. k /\ m \in 1 .. k - 1
    BY <1>8
  <2>2. t[m] \in Frames
    BY <1>2, <2>1, ElementOfSeq
  <2>3. stack'[e][m] = t[m] /\ Depth(e)' = m /\ Top(e)' = t[m] /\ rays'[e] = r
    BY <1>1, <1>2, <1>3, <2>1 DEF Top
  <2>4. Secondary(t[m].remaining) = Budget[t[k].remaining]
    <3>1. t[m].remaining = RecursionDepth - (m - 1) /\ t[k].remaining = RecursionDepth - (k - 1)
      BY <1>2, <2>1
    <3>2. t[k].remaining \in Nat
      BY <1>2 DEF Frames
    <3>3. t[m].remaining # 0 /\ t[m].remaining - 1 = t[k].remaining
      BY <3>1, <3>2, <2>1, DepthAssumption
    <3>. QED
      BY <3>3 DEF Secondary
  <2>5. r <= before[m] + Spent(t[m])
    <3>1. before[m + 1] + Secondary(t[m].remaining) <= before[m] + Spent(t[m])
      BY <1>2, <2>1 DEF Ledger
    <3>2. before[m] \in Nat /\ before[k] \in Nat /\ Spent(t[m]) \in Nat
          /\ Secondary(t[m].remaining) \in Nat
      BY <1>4, <2>1, <2>2, SpentFacts
    <3>. QED
      BY <1>3, <1>6, <2>1, <2>4, <3>1, <3>2
  <2>6. \A d \in 1 .. m : b[d] + Budget[stack'[e][d].remaining] <= Budget[RecursionDepth]
    <3>1. \A d \in 1 .. m : d \in 1 .. k /\ d \in 1 .. k - 1
      BY <2>1
    <3>. QED
      BY <3>1, <1>1, <1>2, <1>5 DEF Ledger
  <2>7. ASSUME NEW d \in 1 .. m - 1
        PROVE  b[d + 1] + Secondary(stack'[e][d].remaining) <= b[d] + Spent(stack'[e][d])
    <3>1. d \in 1 .. k - 1 /\ d + 1 \in 1 .. k - 1
      BY <2>1
    <3>. QED
      BY <3>1, <1>1, <1>2, <1>5 DEF Ledger
  <2>8. Top(e)'.at # "shadow"
    BY <1>1, <2>1, <2>3
  <2>9. Ledger(e, b)'
    <3>. HIDE DEF b, m
    <3>1. b[m] = before[m] /\ 1 .. k - 1 = 1 .. m
      BY <1>5, <2>1
    <3>. QED
      BY <1>5, <2>1, <2>3, <2>5, <2>6, <2>7, <2>8, <3>1 DEF Ledger
  <2>. QED
    BY <2>9
<1>9. k = 1 \/ k > 1
  OBVIOUS
<1>. QED
  BY <1>7, <1>8, <1>9

(* The top activation calls color_at: what it has left is enough. *)
LEMMA LedgerCalls ==
  ASSUME StackInv, TypesInv, NEW e \in Threads, Depth(e) > 0, NEW before, Ledger(e, before),
         Top(e).remaining > 0, rays'[e] = rays[e],
         NEW next \in {"refract", "blend"}, Call(e, next),
         Top(e).at = IF next = "refract" THEN "reflect" ELSE "refract"
  PROVE  \E w : Ledger(e, w)'
<1>1. /\ Depth(e)' = Depth(e) + 1 /\ Top(e)'.at = "cast"
      /\ Top(e)'.remaining = Top(e).remaining - 1
      /\ stack'[e][Depth(e)] = [Top(e) EXCEPT !.at = next]
      /\ \A d \in 1 .. Depth(e) - 1 : stack'[e][d] = stack[e][d]
      /\ StackInv'
  BY CallFacts
<1>2. PICK k \in Nat \ {0}, f \in Frames : k = Depth(e) /\ stack[e][k] = f /\ f = Top(e)
  BY StackFacts
<1>3. PICK r \in Nat : r = rays[e]
  BY DEF TypesInv
<1>4. PICK caller : caller = [f EXCEPT !.at = next]
  OBVIOUS
<1>5. /\ caller \in Frames /\ caller.remaining = f.remaining /\ caller.at = next
      /\ stack'[e][k] = caller
  BY <1>1, <1>2, <1>4 DEF Frames, Places
<1>6. stack'[e][k + 1].at = "cast" /\ stack'[e][k + 1].remaining = f.remaining - 1
  BY <1>1, <1>2 DEF Top
<1>7. before \in [1 .. k -> 0 .. r] /\ before[k] \in Nat
  BY <1>2, <1>3 DEF Ledger
<1>. DEFINE b == [d \in 1 .. k + 1 |-> IF d = k + 1 THEN r ELSE before[d]]
<1>8. /\ b \in [1 .. k + 1 -> 0 .. r] /\ b[k + 1] = r
      /\ \A d \in 1 .. k : b[d] = before[d] /\ d \in 1 .. k + 1
  BY <1>7
<1>9. PICK s \in Nat : /\ s = Secondary(f.remaining) /\ s = Budget[f.remaining - 1]
                       /\ Budget[f.remaining] = 1 + Lights + 2 * s
  BY <1>2, SpentFacts
<1>10. Spent(caller) = Spent(f) + s /\ Spent(f) \in Nat /\ Spent(f) + s <= Budget[f.remaining]
  BY <1>2, <1>5, <1>9, LightsAssumption DEF Spent
<1>11. r <= before[k] + Spent(f)
  BY <1>2, <1>3 DEF Ledger
<1>12. b[k + 1] + Secondary(caller.remaining) <= b[k] + Spent(caller)
  BY <1>5, <1>7, <1>8, <1>9, <1>10, <1>11
<1>. HIDE DEF b
<1>13. b[k + 1] + Budget[f.remaining - 1] <= Budget[RecursionDepth]
  <2>1. before[k] + Budget[f.remaining] <= Budget[RecursionDepth]
    BY <1>2 DEF Ledger
  <2>2. Budget[RecursionDepth] \in Nat /\ Budget[f.remaining] \in Nat
    BY BudgetFacts, SpentFacts, DepthAssumption
  <2>3. r + s <= before[k] + Budget[f.remaining]
    <3>1. PICK p \in Nat : p = before[k]
      BY <1>7
    <3>2. PICK q \in Nat : q = Spent(f)
      BY <1>10
    <3>3. PICK u \in Nat : u = Budget[f.remaining]
      BY <2>2
    <3>4. r <= p + q /\ q + s <= u
      BY <1>10, <1>11, <3>1, <3>2, <3>3
    <3>5. r + s <= p + u
      BY <3>4
    <3>. QED
      BY <3>1, <3>3, <3>5
  <2>4. r + s <= Budget[RecursionDepth]
    BY <1>3, <1>7, <1>9, <2>1, <2>2, <2>3
  <2>. QED
    BY <1>8, <1>9, <2>4
<1>14. ASSUME NEW d \in 1 .. k + 1
       PROVE  b[d] + Budget[stack'[e][d].remaining] <= Budget[RecursionDepth]
  <2>1. CASE d = k + 1
    BY <2>1, <1>6, <1>13
  <2>2. CASE d = k
    BY <2>2, <1>2, <1>5, <1>8 DEF Ledger
  <2>3. CASE d # k /\ d # k + 1
    <3>1. d \in 1 .. k - 1 /\ d \in 1 .. k
      BY <2>3
    <3>. QED
      BY <3>1, <1>1, <1>2, <1>8 DEF Ledger
  <2>. QED
    BY <2>1, <2>2, <2>3
<1>15. ASSUME NEW d \in 1 .. k
       PROVE  b[d + 1] + Secondary(stack'[e][d].remaining) <= b[d] + Spent(stack'[e][d])
  <2>1. CASE d = k
    BY <2>1, <1>5, <1>12
  <2>2. CASE d # k
    <3>1. d \in 1 .. k - 1 /\ d + 1 \in 1 .. k /\ d \in 1 .. k
      BY <2>2
    <3>2. before[d + 1] + Secondary(stack[e][d].remaining) <= before[d] + Spent(stack[e][d])
      BY <3>1, <1>2 DEF Ledger
    <3>. QED
      BY <3>1, <3>2, <1>1, <1>2, <1>8
  <2>. QED
    BY <2>1, <2>2
<1>16. Spent(stack'[e][k + 1]) = 0 /\ Depth(e)' = k + 1 /\ Top(e)' = stack'[e][k + 1]
  BY <1>1, <1>2, <1>6 DEF Spent, Top
<1>17. /\ b \in [1 .. Depth(e)' -> 0 .. rays'[e]]
       /\ rays'[e] <= b[k + 1] + 0
  BY <1>3, <1>8, <1>16
<1>18. Ledger(e, b)'
  <2>1. (k + 1) - 1 = k /\ k + 1 # 0
    OBVIOUS
  <2>2. Top(e)'.at # "shadow"
    BY <1>1
  <2>. QED
    BY <1>14, <1>15, <1>16, <1>17, <2>1, <2>2 DEF Ledger
<1>. QED
  BY <1>18

LEMMA LedgerStep ==
  ASSUME LedgerInv, NEW e \in Threads, \E w : Ledger(e, w)',
         \A g \in Threads : g # e => stack'[g] = stack[g] /\ rays'[g] = rays[g]
  PROVE  LedgerInv'
<1>1. ASSUME NEW g \in Threads
      PROVE  \E w : Ledger(g, w)'
  <2>1. CASE g = e
    BY <2>1
  <2>2. CASE g # e
    <3>1. PICK before : Ledger(g, before)
      BY DEF LedgerInv
    <3>2. Ledger(g, before)'
      BY <2>2, <3>1, LedgerStays
    <3>. QED
      BY <3>2
  <2>. QED
    BY <2>1, <2>2
<1>. QED
  BY <1>1 DEF LedgerInv

LEMMA InitLedger == Init => LedgerInv
<1>. SUFFICES ASSUME Init, NEW e \in Threads
              PROVE  \E before : Ledger(e, before)
  BY DEF LedgerInv
<1>. DEFINE f == Frame(RecursionDepth, Shadows)
            before == [d \in 1 .. 1 |-> 0]
<1>1. stack[e] = <<f>> /\ Depth(e) = 1 /\ Top(e) = f /\ stack[e][1] = f /\ rays[e] = 0
  BY DEF Init, Depth, Top
<1>2. f.at = "cast" /\ f.remaining = RecursionDepth /\ Spent(f) = 0
  BY DEF Frame, Spent
<1>3. before \in [1 .. Depth(e) -> 0 .. rays[e]] /\ before[1] = 0
  BY <1>1
<1>4. Budget[RecursionDepth] \in Nat
  BY BudgetFacts, DepthAssumption
<1>5. Ledger(e, before)
  <2>. HIDE DEF before, f
  <2>1. before[1] + Budget[RecursionDepth] <= Budget[RecursionDepth]
    BY <1>3, <1>4
  <2>2. \A d \in 1 .. Depth(e) : d = 1
    BY <1>1
  <2>3. rays[e] <= before[1] + Spent(f)
    BY <1>1, <1>2, <1>3
  <2>. QED
    BY <1>1, <1>2, <1>3, <2>1, <2>2, <2>3 DEF Ledger
<1>. QED
  BY <1>5

(* The place of the top activation changes, with n rays. *)
LEMMA LedgerGoes ==
  ASSUME StackInv, TypesInv, LedgerInv, NEW e \in Threads, Depth(e) > 0,
         NEW place \in Places, Goto(e, place),
         NEW n \in {0, 1}, rays'[e] = rays[e] + n,
         \A g \in Threads : g # e => rays'[g] = rays[g],
         Spent(Top(e)) + n <= Spent([Top(e) EXCEPT !.at = place]),
         place = "shadow" => Top(e).light <= Lights
  PROVE  LedgerInv'
<1>1. PICK f : f = [Top(e) EXCEPT !.at = place]
  OBVIOUS
<1>2. Top(e) \in Frames
  BY StackFacts
<1>3. /\ f \in Frames /\ f.remaining = Top(e).remaining
      /\ f.at = place /\ f.light = Top(e).light
  BY <1>1, <1>2 DEF Frames
<1>4. SetTop(e, f)
  BY <1>1 DEF Goto
<1>5. PICK before : Ledger(e, before)
  BY DEF LedgerInv
<1>6. Ledger(e, before)'
  BY <1>1, <1>3, <1>4, <1>5, LedgerMoves
<1>7. \A g \in Threads : g # e => stack'[g] = stack[g]
  BY <1>3, <1>4, SetTopFacts
<1>. QED
  BY <1>6, <1>7, LedgerStep

LEMMA TraceKeepsLedger ==
  ASSUME StackInv, TypesInv, LedgerInv, NEW e \in Threads, Trace(e)
  PROVE  LedgerInv'
<1>1. Depth(e) > 0
  BY DEF Trace, CastRay, Miss, HitInfo, CastShadow, Lighting, LightsDone,
     Reflect, Refract, Blend, At
<1>2. PICK f \in Frames : f = Top(e)
  BY <1>1, StackFacts
<1>3. PICK before : Ledger(e, before)
  BY DEF LedgerInv
<1>4. /\ f.light \in Nat /\ Lights \in Nat /\ rays[e] \in Nat
      /\ f.light <= Lights + 1 /\ f.light >= 1
      /\ Secondary(f.remaining) \in Nat
  BY <1>2, SpentFacts, LightsAssumption DEF Frames, TypesInv
<1>5. \A use : IntersectWorld(e, use) =>
        /\ rays'[e] = rays[e] + 1
        /\ \A g \in Threads : g # e => rays'[g] = rays[g]
  BY DEF IntersectWorld, TypesInv
<1>6. UNCHANGED rays =>
        /\ rays'[e] = rays[e] + 0
        /\ \A g \in Threads : g # e => rays'[g] = rays[g]
  BY <1>4
<1>7. \A place \in Places :
        [f EXCEPT !.at = place] =
          [at |-> place, remaining |-> f.remaining, shadows |-> f.shadows, light |-> f.light]
  BY DEF Frames
<1>8. CASE CastRay(e)
  <2>1. Spent(Top(e)) + 1 <= Spent([Top(e) EXCEPT !.at = "hit"])
    BY <1>2, <1>7, <1>8 DEF CastRay, At, Spent, Places
  <2>. QED
    BY <1>1, <1>5, <1>8, <2>1, LedgerGoes DEF CastRay, Places
<1>9. CASE HitInfo(e)
  <2>1. Spent(Top(e)) + 0 <= Spent([Top(e) EXCEPT !.at = "lights"])
    BY <1>2, <1>4, <1>7, <1>9 DEF HitInfo, At, Spent, Places
  <2>. QED
    BY <1>1, <1>6, <1>9, <2>1, LedgerGoes DEF HitInfo, Places
<1>10. CASE CastShadow(e)
  <2>1. Spent(Top(e)) + 1 <= Spent([Top(e) EXCEPT !.at = "shadow"])
    BY <1>2, <1>4, <1>7, <1>10 DEF CastShadow, At, Spent, Places
  <2>. QED
    BY <1>1, <1>5, <1>10, <2>1, LedgerGoes DEF CastShadow, Places
<1>11. CASE LightsDone(e)
  <2>1. Spent(Top(e)) + 0 <= Spent([Top(e) EXCEPT !.at = "reflect"])
    BY <1>2, <1>4, <1>7, <1>11 DEF LightsDone, At, Spent, Places
  <2>. QED
    BY <1>1, <1>6, <1>11, <2>1, LedgerGoes DEF LightsDone, Places
<1>12. CASE Lighting(e)
  <2>1. PICK h : h = [f EXCEPT !.at = "lights", !.light = @ + 1]
    OBVIOUS
  <2>2. f.light + 1 \in 1 .. Lights + 1 /\ SetTop(e, h) /\ UNCHANGED rays
    BY <1>2, <1>4, <1>12, <2>1 DEF Lighting, statsVars
  <2>3. h \in Frames /\ h.remaining = f.remaining /\ h.at = "lights" /\ h.light = f.light + 1
    BY <2>1, <2>2 DEF Frames, Places
  <2>4. Spent(f) + 0 <= Spent(h)
    BY <1>2, <1>4, <1>12, <2>3 DEF Lighting, At, Spent
  <2>5. Ledger(e, before)'
    BY <1>1, <1>2, <1>3, <1>6, <2>2, <2>3, <2>4, LedgerMoves
  <2>6. \A g \in Threads : g # e => stack'[g] = stack[g]
    BY <1>1, <1>2, <2>2, <2>3, SetTopFacts
  <2>. QED
    BY <1>6, <2>2, <2>5, <2>6, LedgerStep
<1>13. CASE Miss(e) \/ Blend(e)
  <2>1. Pop(e) /\ UNCHANGED rays /\ Top(e).at # "shadow"
    BY <1>13 DEF Miss, Blend, At
  <2>2. \E w : Ledger(e, w)'
    BY <1>1, <1>3, <2>1, LedgerPops
  <2>3. \A g \in Threads : g # e => stack'[g] = stack[g]
    BY <1>1, <2>1, PopFacts
  <2>. QED
    BY <1>6, <2>1, <2>2, <2>3, LedgerStep
<1>14. ASSUME NEW next \in {"refract", "blend"}, UNCHANGED rays,
              Top(e).at = IF next = "refract" THEN "reflect" ELSE "refract",
              (Top(e).remaining > 0 /\ Call(e, next)) \/ Goto(e, next)
       PROVE  LedgerInv'
  <2>1. CASE Top(e).remaining > 0 /\ Call(e, next)
    <3>1. \E w : Ledger(e, w)'
      BY <1>1, <1>3, <1>14, <2>1, LedgerCalls
    <3>2. \A g \in Threads : g # e => stack'[g] = stack[g]
      BY <1>1, <2>1, CallFacts
    <3>. QED
      BY <1>6, <1>14, <3>1, <3>2, LedgerStep
  <2>2. CASE Goto(e, next)
    <3>1. Spent(Top(e)) + 0 <= Spent([Top(e) EXCEPT !.at = next])
      BY <1>2, <1>4, <1>7, <1>14 DEF Spent, Places
    <3>. QED
      BY <1>1, <1>6, <1>14, <2>2, <3>1, LedgerGoes DEF Places
  <2>. QED
    BY <1>14, <2>1, <2>2
<1>15. CASE Reflect(e)
  BY <1>14, <1>15 DEF Reflect, At
<1>16. CASE Refract(e)
  BY <1>14, <1>16 DEF Refract, At
<1>. QED
  BY <1>8, <1>9, <1>10, <1>11, <1>12, <1>13, <1>15, <1>16 DEF Trace

LEMMA NextLedger == IInv /\ TypesInv /\ LedgerInv /\ [Next]_vars => LedgerInv'
<1>. SUFFICES ASSUME IInv, TypesInv, LedgerInv, [Next]_vars PROVE LedgerInv'
  OBVIOUS
<1>1. ASSUME UNCHANGED <<stack, rays>>
      PROVE  LedgerInv'
  BY <1>1 DEF LedgerInv, Ledger, Depth, Top
<1>2. ASSUME NEW e \in Threads, Trace(e)
      PROVE  LedgerInv'
  BY <1>2, TraceKeepsLedger DEF IInv
<1>3. ASSUME NEW e \in Threads, Count(e)
      PROVE  UNCHANGED <<stack, rays>>
  BY <1>3 DEF Count, Lock, Load, Store, Unlock
<1>. QED
  BY <1>1, <1>2, <1>3 DEF Next, Terminated, vars

(* The ledger of a thread says that its rays are within the budget. *)
LEMMA LedgerBounds == IInv /\ TypesInv /\ LedgerInv => RayBudget
<1>. SUFFICES ASSUME IInv, TypesInv, LedgerInv, NEW e \in Threads
              PROVE  rays[e] <= Budget[RecursionDepth]
  BY DEF RayBudget
<1>1. PICK before : Ledger(e, before)
  BY DEF LedgerInv
<1>2. CASE Depth(e) = 0
  BY <1>1, <1>2 DEF Ledger
<1>3. CASE Depth(e) # 0
  <2>1. Depth(e) \in Nat /\ Depth(e) > 0
    BY <1>3 DEF IInv, StackInv, Depth
  <2>2. PICK k \in Nat \ {0}, f \in Frames : k = Depth(e) /\ f = Top(e) /\ stack[e][k] = f
    BY <2>1, StackFacts DEF IInv
  <2>3. PICK p \in Nat : p = before[k]
    BY <1>1, <2>2 DEF Ledger, TypesInv
  <2>4. PICK u \in Nat, q \in Nat : u = Budget[f.remaining] /\ q = Spent(f)
    BY SpentFacts
  <2>5. PICK all \in Nat : all = Budget[RecursionDepth]
    BY BudgetFacts, DepthAssumption
  <2>6. q <= u
    BY <1>1, <2>1, <2>2, <2>4, SpentFacts DEF Ledger
  <2>7. rays[e] <= p + q /\ p + u <= all /\ rays[e] \in Nat
    BY <1>1, <2>1, <2>2, <2>3, <2>4, <2>5 DEF Ledger, TypesInv
  <2>. QED
    BY <2>5, <2>6, <2>7
<1>. QED
  BY <1>2, <1>3

(* The invariant holds in every reachable state.                           *)
THEOREM Invariance == Spec => []IInv
<1>. QED
  BY InitInv, NextInv, PTL DEF Spec

(* Activations, buffers and counters keep their types: remaining never     *)
(* goes below zero, no light after the last is asked for, and a thread     *)
(* that stores a sum has one to store.                                     *)
THEOREM TypeCorrect == Spec => []TypeOK
<1>1. Spec => []TypesInv
  BY Invariance, InitTypes, NextTypes, PTL DEF Spec
<1>. QED
  BY <1>1, Invariance, TypesFollow, PTL

(* No update of total_xs_test and total_hit is lost, whatever the          *)
(* interleaving of the threads that run intersect_world and                *)
(* group_intersects.                                                       *)
THEOREM NoLostAddition == Spec => []NoAdditionIsLost
<1>. QED
  BY Invariance, InvIsSafe, PTL

(* hit, hit_info and is_shadowed read the intersections of the ray that    *)
(* was cast for them, although all the activations of a pixel share one    *)
(* buffer.                                                                 *)
THEOREM XsOwnership == Spec => []XsBelongToTheReader
<1>. QED
  BY Invariance, InvIsSafe, PTL

(* color_at never nests deeper than RecursionDepth + 1, and what an        *)
(* activation believes remains is what remains.                            *)
THEOREM RecursionBound == Spec => []RecursionIsBounded
<1>. QED
  BY Invariance, InvIsSafe, PTL

(* A pixel never casts more rays than the tree of its secondary rays has   *)
(* room for, each node with its shadow rays: shade_hit's two calls take    *)
(* one from remaining before they ask whether any is left.                 *)
THEOREM RayBound == Spec => []RayBudget
<1>1. Spec => []TypesInv
  BY Invariance, InitTypes, NextTypes, PTL DEF Spec
<1>2. Spec => []LedgerInv
  BY <1>1, Invariance, InitLedger, NextLedger, PTL DEF Spec
<1>. QED
  BY <1>1, <1>2, Invariance, LedgerBounds, PTL

=============================================================================
