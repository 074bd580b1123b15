-------------------------- MODULE EventLoopProofs --------------------------
(***************************************************************************)
(* The safety properties of EventLoop and its refinement of TaskLifecycle, *)
(* for any threads and tasks, however deep the awaits nest.  Most of the   *)
(* invariant speaks of the set of all frames (Active), in which the code a *)
(* frame runs identifies it (Once); only what depends on the order of a    *)
(* stack (Shape, Below) speaks of positions.                               *)
(***************************************************************************)
EXTENDS EventLoop, TLAPS

\* The frames of all the threads.  Who a frame runs tells it from the others.
Active == UNION {{stack[h][d] : d \in 1 .. Depth(h)} : h \in Threads}

AwaitLabels == {"poll", "count", "once", "take", "drop"}
HostLabels == {"pump", "pop", "halt", "drain"}

\* A thread's own code is at the bottom, tasks above it; whoever is not on top
\* is waiting for the task above in an await or a pump.
Shape ==
  \A h \in Threads :
    /\ Depth(h) > 0
    /\ \A d \in 1 .. Depth(h) :
         /\ IF d = 1 THEN stack[h][d].who = h ELSE stack[h][d].who \in Tasks
         /\ d < Depth(h) => stack[h][d].at \in {"poll", "pump"}
         /\ stack[h][d].at \in HostLabels => d = 1
         /\ stack[h][d].at = "release" => d > 1

\* No code is run twice at a time.
Once ==
  \A h, g \in Threads : \A d \in 1 .. Depth(h), e \in 1 .. Depth(g) :
    stack[h][d].who = stack[g][e].who => h = g /\ d = e

\* No task is run by an await or a pump of its own child's.
Below ==
  \A h \in Threads : \A e, d \in 1 .. Depth(h) :
    1 < e /\ e <= d => Parent[stack[h][e].who] # stack[h][d].who

\* What a frame is about: the future it schedules, or one its own code
\* started and has not awaited yet; the end of a task, or of the loop.
CallOK(f) ==
  /\ f.want # None <=> f.at \in AwaitLabels \union {"schedule"}
  /\ f.at \in AwaitLabels => slot[f.want] /\ Parent[f.want] = f.who
  /\ f.at = "schedule" =>
       /\ Parent[f.want] = f.who /\ state[f.want] = "Pending"
       /\ f.want \notin Range(queue) /\ ~Executing(f.want)
  /\ f.who \in Tasks => (f.at = "release" <=> state[f.who] # "Pending")
  /\ f.at \in {"halt", "drain"} => ~running

Calls == \A f \in Active : CallOK(f)

Queued ==
  /\ IsInjective(queue)
  /\ \A t \in Range(queue) : state[t] = "Pending" /\ ~Executing(t)

\* A future is started by code that has begun.
Begun ==
  \A t \in Tasks : life[t] # "none" /\ Parent[t] \in Tasks =>
    Executing(Parent[t]) \/ state[Parent[t]] # "Pending"

Holding ==
  /\ RefsExact
  /\ \A t \in Tasks : InCustody(t) \/ slot[t] => life[t] = "live"
  /\ \A t \in Tasks : life[t] = "live" /\ state[t] = "Pending" => InCustody(t)

Boxes ==
  \A t \in Tasks :
    /\ life[t] \in {"none", "absent"} => state[t] = "Pending"
    /\ state[t] = "Pending" => box[t] = "none" /\ life[t] # "freed"
    /\ state[t] = "Ready" => box[t] = IF life[t] = "live" THEN "handle" ELSE "freed"
    /\ state[t] = "Consumed" => box[t] = "program"
    /\ state[t] = "Error" => box[t] = "none"

IInv == TypeOK /\ Shape /\ Once /\ Below /\ Calls /\ Queued /\ Begun /\ Holding /\ Boxes
        /\ AwaitAbandonsOnlyOthers

-----------------------------------------------------------------------------
(* Sequences without repetition                                            *)

\* What Append does to the elements of a sequence, and to their being distinct.
LEMMA AppendRange ==
  ASSUME NEW S, NEW s \in Seq(S), NEW e \in S
  PROVE  /\ Append(s, e) \in Seq(S)
         /\ Range(Append(s, e)) = Range(s) \union {e}
         /\ IsInjective(s) /\ e \notin Range(s) => IsInjective(Append(s, e))
<1>1. /\ DOMAIN Append(s, e) = 1 .. Len(s) + 1
      /\ \A i \in 1 .. Len(s) : Append(s, e)[i] = s[i]
      /\ Append(s, e)[Len(s) + 1] = e
      /\ DOMAIN s = 1 .. Len(s)
      /\ Len(s) \in Nat
  OBVIOUS
<1>2. Range(Append(s, e)) = Range(s) \union {e}
  BY <1>1 DEF Range
<1>3. IsInjective(s) /\ e \notin Range(s) => IsInjective(Append(s, e))
  BY <1>1 DEF IsInjective, Range
<1> QED BY <1>2, <1>3

\* What Tail does to the elements of a sequence without repetition.
LEMMA TailRange ==
  ASSUME NEW S, NEW s \in Seq(S), s # <<>>, IsInjective(s)
  PROVE  /\ Head(s) \in Range(s) /\ Head(s) \in S
         /\ Tail(s) \in Seq(S)
         /\ Range(Tail(s)) = Range(s) \ {Head(s)}
         /\ IsInjective(Tail(s))
<1>1. /\ DOMAIN Tail(s) = 1 .. Len(s) - 1
      /\ \A i \in 1 .. Len(s) - 1 : Tail(s)[i] = s[i + 1]
      /\ DOMAIN s = 1 .. Len(s)
      /\ Len(s) \in Nat /\ Len(s) > 0
      /\ Head(s) = s[1] /\ Tail(s) \in Seq(S)
  OBVIOUS
<1>2. Head(s) \in Range(s) /\ Head(s) \in S
  BY <1>1 DEF Range
<1>3. IsInjective(Tail(s))
  BY <1>1 DEF IsInjective
<1>4. ASSUME NEW x \in Range(Tail(s)) PROVE x \in Range(s) \ {Head(s)}
  BY <1>1 DEF Range, IsInjective
<1>5. ASSUME NEW x \in Range(s) \ {Head(s)} PROVE x \in Range(Tail(s))
  <2>1. PICK i \in 1 .. Len(s) : s[i] = x /\ i # 1
    BY <1>1 DEF Range
  <2>2. i - 1 \in 1 .. Len(s) - 1 /\ Tail(s)[i - 1] = x
    BY <1>1, <2>1
  <2> QED BY <1>1, <2>2 DEF Range
<1> QED BY <1>1, <1>2, <1>3, <1>4, <1>5

-----------------------------------------------------------------------------
(* Frames                                                                  *)

\* A stack's frames, and its top.
LEMMA FrameFacts ==
  ASSUME TypeOK, Shape, NEW h \in Threads
  PROVE  /\ stack[h] \in Seq(Frames) /\ Depth(h) \in Nat /\ Depth(h) > 0
         /\ DOMAIN stack[h] = 1 .. Depth(h)
         /\ \A d \in 1 .. Depth(h) : stack[h][d] \in Frames /\ stack[h][d] \in Active
         /\ Top(h) \in Frames /\ Top(h) \in Active
<1>1. stack[h] \in Seq(Frames)
  BY DEF TypeOK
<1>2. Depth(h) \in Nat /\ Depth(h) > 0 /\ DOMAIN stack[h] = 1 .. Depth(h)
  BY <1>1 DEF Depth, Shape
<1>3. \A d \in 1 .. Depth(h) : stack[h][d] \in Frames
  BY <1>1, <1>2
<1>4. \A d \in 1 .. Depth(h) : stack[h][d] \in Active
  BY DEF Active
<1>5. Depth(h) \in 1 .. Depth(h)
  BY <1>2
<1> QED BY <1>1, <1>2, <1>3, <1>4, <1>5 DEF Top

\* Who is executed, and who is in custody, in terms of the frames.
LEMMA ExecutingActive ==
  /\ \A t : Executing(t) <=> \E f \in Active : f.who = t
  /\ \A t : Executing(t)' <=> \E f \in Active' : f.who = t
  /\ \A t : InCustody(t) <=> t \in Range(queue) \/ Executing(t)
                            \/ \E f \in Active : f.want = t /\ f.at = "schedule"
  /\ \A t : InCustody(t)' <=> t \in Range(queue') \/ Executing(t)'
                            \/ \E f \in Active' : f.want = t /\ f.at = "schedule"
BY DEF Executing, Inside, InCustody, Active

\* Where the frames are.
LEMMA InActive ==
  /\ \A x : x \in Active <=> \E g \in Threads : \E d \in 1 .. Depth(g) : x = stack[g][d]
  /\ \A x : x \in Active' <=> \E g \in Threads : \E d \in 1 .. Depth(g)' : x = stack'[g][d]
BY DEF Active

\* The top frame of h becomes f.
Replaces(h, f) == stack' = [stack EXCEPT ![h] = [stack[h] EXCEPT ![Depth(h)] = f]]

\* A frame is replaced by a frame of the same code.
LEMMA Replaced ==
  ASSUME TypeOK, Shape, Once, NEW h \in Threads, NEW f \in Frames,
         Replaces(h, f), f.who = Top(h).who,
         f.at \in HostLabels => Depth(h) = 1, f.at = "release" => Depth(h) > 1
  PROVE  /\ stack' \in [Threads -> Seq(Frames)]
         /\ \A g \in Threads : Depth(g)' = Depth(g)
         /\ \A g \in Threads : \A d \in 1 .. Depth(g) :
              stack'[g][d] = IF g = h /\ d = Depth(h) THEN f ELSE stack[g][d]
         /\ Shape' /\ Once' /\ (Below => Below')
         /\ Active' = (Active \ {Top(h)}) \union {f}
         /\ \A t : Executing(t)' <=> Executing(t)
<1>1. /\ stack \in [Threads -> Seq(Frames)] /\ stack[h] \in Seq(Frames)
      /\ Depth(h) \in 1 .. Depth(h) /\ Depth(h) \in Nat /\ Depth(h) = Len(stack[h])
  BY FrameFacts DEF TypeOK, Depth
<1>2. [stack[h] EXCEPT ![Depth(h)] = f] \in Seq(Frames)
      /\ Len([stack[h] EXCEPT ![Depth(h)] = f]) = Depth(h)
  BY <1>1
<1>3. stack' \in [Threads -> Seq(Frames)] /\ \A g \in Threads : Depth(g)' = Depth(g)
  BY <1>1, <1>2 DEF Replaces, Depth
<1>4. \A g \in Threads : \A d \in 1 .. Depth(g) :
        stack'[g][d] = IF g = h /\ d = Depth(h) THEN f ELSE stack[g][d]
  BY <1>1, FrameFacts DEF Replaces
<1>5. \A g \in Threads : \A d \in 1 .. Depth(g) : stack'[g][d].who = stack[g][d].who
  BY <1>1, <1>4 DEF Top
<1>6. Shape'
  <2> SUFFICES ASSUME NEW g \in Threads, NEW d \in 1 .. Depth(g)
               PROVE  /\ IF d = 1 THEN stack'[g][d].who = g ELSE stack'[g][d].who \in Tasks
                      /\ d < Depth(g) => stack'[g][d].at \in {"poll", "pump"}
                      /\ stack'[g][d].at \in HostLabels => d = 1
                      /\ stack'[g][d].at = "release" => d > 1
    BY <1>3 DEF Shape
  <2>1. CASE g = h /\ d = Depth(h)
    BY <1>1, <1>4, <1>5, <2>1 DEF Shape
  <2>2. CASE ~(g = h /\ d = Depth(h))
    BY <1>4, <2>2 DEF Shape
  <2> QED BY <2>1, <2>2
<1>7. Once'
  BY <1>3, <1>5 DEF Once
<1>8. Below => Below'
  BY <1>3, <1>5 DEF Below
<1>9. Active' = (Active \ {Top(h)}) \union {f}
  <2>1. \A g \in Threads : \A d \in 1 .. Depth(g) : stack[g][d] = Top(h) => g = h /\ d = Depth(h)
    BY <1>1 DEF Once, Top
  <2>2. \A x : x \in Active' <=> \E g \in Threads : \E d \in 1 .. Depth(g) : x = stack'[g][d]
    BY <1>3 DEF Active
  <2>3. \A x : x \in Active <=> \E g \in Threads : \E d \in 1 .. Depth(g) : x = stack[g][d]
    BY DEF Active
  <2>4. ASSUME NEW x \in Active' PROVE x \in (Active \ {Top(h)}) \union {f}
    <3>g. PICK g \in Threads : \E d \in 1 .. Depth(g) : x = stack'[g][d]
      BY <2>2
    <3>1. PICK d \in 1 .. Depth(g) : x = stack'[g][d]
      BY <3>g
    <3>2. CASE g = h /\ d = Depth(h)
      BY <1>4, <3>1, <3>2
    <3>3. CASE ~(g = h /\ d = Depth(h))
      <4>1. x = stack[g][d] /\ x # Top(h)
        BY <1>4, <2>1, <3>1, <3>3
      <4> QED BY <2>3, <4>1
    <3> QED BY <3>2, <3>3
  <2>5. ASSUME NEW x \in Active, x # Top(h) PROVE x \in Active'
    <3>g. PICK g \in Threads : \E d \in 1 .. Depth(g) : x = stack[g][d]
      BY <2>3
    <3>1. PICK d \in 1 .. Depth(g) : x = stack[g][d]
      BY <3>g
    <3>2. ~(g = h /\ d = Depth(h))
      BY <2>5, <3>1 DEF Top
    <3> QED BY <1>4, <2>2, <3>1, <3>2
  <2>6. f \in Active'
    BY <1>1, <1>4, <2>2
  <2> QED BY <2>4, <2>5, <2>6
<1>10. \A t : Executing(t)' <=> Executing(t)
  BY <1>3, <1>5 DEF Executing
<1> QED BY <1>3, <1>4, <1>6, <1>7, <1>8, <1>9, <1>10

\* The top frame of h waits at `back` for a new frame that runs q.
Pushes(h, back, q) ==
  stack' = [stack EXCEPT ![h] = Append([stack[h] EXCEPT ![Depth(h)].at = back], Frame(q))]

\* A task that nobody runs, and whose children have not been started, is run.
LEMMA Pushed ==
  ASSUME TypeOK, Shape, Once, Below, NEW h \in Threads, NEW back \in {"poll", "pump"},
         back = "pump" => Depth(h) = 1,
         NEW q \in Tasks, ~Executing(q), Pushes(h, back, q),
         Parent[q] # q, \A u \in Tasks : Executing(u) => Parent[u] # q
  PROVE  \E top \in Frames :
         /\ top.who = Top(h).who /\ top.want = Top(h).want /\ top.at = back
         /\ Frame(q) \in Frames
         /\ stack' \in [Threads -> Seq(Frames)]
         /\ \A g \in Threads : Depth(g)' = IF g = h THEN Depth(h) + 1 ELSE Depth(g)
         /\ \A g \in Threads : \A d \in 1 .. Depth(g) :
              stack'[g][d] = IF g = h /\ d = Depth(h) THEN top ELSE stack[g][d]
         /\ stack'[h][Depth(h) + 1] = Frame(q)
         /\ Shape' /\ Once' /\ Below'
         /\ Active' = (Active \ {Top(h)}) \union {top, Frame(q)}
         /\ \A t : Executing(t)' <=> Executing(t) \/ t = q
<1> DEFINE f == [Top(h) EXCEPT !.at = back]
           s == [stack[h] EXCEPT ![Depth(h)] = f]
<1>1. /\ stack \in [Threads -> Seq(Frames)] /\ stack[h] \in Seq(Frames) /\ Top(h) \in Frames
      /\ Depth(h) \in 1 .. Depth(h) /\ Depth(h) \in Nat /\ Depth(h) = Len(stack[h])
  BY FrameFacts DEF TypeOK, Depth
<1>2. f \in Frames /\ Frame(q) \in Frames /\ f.who = Top(h).who /\ f.at = back
      /\ f.want = Top(h).want
  <2>1. f.who = Top(h).who /\ f.at = back /\ f.want = Top(h).want
    BY <1>1 DEF Frames
  <2> QED BY <1>1, <2>1 DEF Frames, Frame, Labels, Codes
<1>3. s \in Seq(Frames) /\ Len(s) = Depth(h) /\ s = [stack[h] EXCEPT ![Depth(h)].at = back]
  BY <1>1, <1>2 DEF Top
<1>4. /\ Append(s, Frame(q)) \in Seq(Frames) /\ Len(Append(s, Frame(q))) = Depth(h) + 1
      /\ \A d \in 1 .. Depth(h) : Append(s, Frame(q))[d] = IF d = Depth(h) THEN f ELSE stack[h][d]
      /\ Append(s, Frame(q))[Depth(h) + 1] = Frame(q)
  BY <1>1, <1>2, <1>3
<1>5. stack' = [stack EXCEPT ![h] = Append(s, Frame(q))]
  BY <1>3 DEF Pushes
<1>6. /\ stack' \in [Threads -> Seq(Frames)]
      /\ \A g \in Threads : stack'[g] = IF g = h THEN Append(s, Frame(q)) ELSE stack[g]
  BY <1>1, <1>4, <1>5
<1>7. \A g \in Threads : Depth(g)' = IF g = h THEN Depth(h) + 1 ELSE Depth(g)
  BY <1>4, <1>6 DEF Depth
<1>8. /\ \A g \in Threads : \A d \in 1 .. Depth(g) :
           stack'[g][d] = IF g = h /\ d = Depth(h) THEN f ELSE stack[g][d]
      /\ stack'[h][Depth(h) + 1] = Frame(q)
  BY <1>4, <1>6
<1>9. /\ \A g \in Threads : \A d \in 1 .. Depth(g) : stack'[g][d].who = stack[g][d].who
      /\ stack'[h][Depth(h) + 1].who = q /\ stack'[h][Depth(h) + 1].at = "code"
  <2>1. stack[h][Depth(h)].who = f.who
    BY <1>2 DEF Top
  <2>2. \A g \in Threads : \A d \in 1 .. Depth(g) : stack'[g][d].who = stack[g][d].who
    BY <1>8, <2>1
  <2>3. Frame(q).who = q /\ Frame(q).at = "code"
    BY DEF Frame
  <2> QED BY <1>8, <2>2, <2>3
<1>0. \A g \in Threads : Depth(g) \in Nat
  BY FrameFacts
<1>10. \A g \in Threads : \A d \in 1 .. Depth(g)' : d \in 1 .. Depth(g) \/ (g = h /\ d = Depth(h) + 1)
  <2> SUFFICES ASSUME NEW g \in Threads, NEW d \in 1 .. Depth(g)'
               PROVE  d \in 1 .. Depth(g) \/ (g = h /\ d = Depth(h) + 1)
    OBVIOUS
  <2>1. Depth(g)' = (IF g = h THEN Depth(h) + 1 ELSE Depth(g)) /\ Depth(g) \in Nat
    BY <1>0, <1>7
  <2> QED BY <2>1
<1>11. \A g \in Threads : \A d \in 1 .. Depth(g) : d \in 1 .. Depth(g)'
  BY <1>1, <1>7, FrameFacts
<1>12. \A g \in Threads : \A d \in 1 .. Depth(g) : stack[g][d].who # q
  BY DEF Executing
<1>13. Shape'
  <2> SUFFICES ASSUME NEW g \in Threads
               PROVE  /\ Depth(g)' > 0
                      /\ \A d \in 1 .. Depth(g)' :
                           /\ IF d = 1 THEN stack'[g][d].who = g ELSE stack'[g][d].who \in Tasks
                           /\ d < Depth(g)' => stack'[g][d].at \in {"poll", "pump"}
                           /\ stack'[g][d].at \in HostLabels => d = 1
                           /\ stack'[g][d].at = "release" => d > 1
    BY DEF Shape
  <2>1. Depth(g)' > 0
    BY <1>1, <1>7, FrameFacts
  <2>2. ASSUME NEW d \in 1 .. Depth(g)'
        PROVE  /\ IF d = 1 THEN stack'[g][d].who = g ELSE stack'[g][d].who \in Tasks
               /\ d < Depth(g)' => stack'[g][d].at \in {"poll", "pump"}
               /\ stack'[g][d].at \in HostLabels => d = 1
               /\ stack'[g][d].at = "release" => d > 1
    <3>1. CASE g = h /\ d = Depth(h) + 1
      BY <1>1, <1>7, <1>9, <3>1 DEF HostLabels
    <3>2. CASE g = h /\ d = Depth(h)
      <4>1. stack'[g][d].who = stack[g][d].who /\ stack'[g][d].at = back /\ d \in 1 .. Depth(g)
        BY <1>1, <1>2, <1>8, <1>9, <3>2
      <4>2. IF d = 1 THEN stack'[g][d].who = g ELSE stack'[g][d].who \in Tasks
        BY <4>1 DEF Shape
      <4> QED BY <3>2, <4>1, <4>2 DEF HostLabels
    <3>3. CASE ~(g = h /\ d \in {Depth(h), Depth(h) + 1})
      <4>1. d \in 1 .. Depth(g) /\ stack'[g][d] = stack[g][d]
        BY <1>8, <1>10, <3>3
      <4>2. d < Depth(g)' => d < Depth(g)
        BY <1>1, <1>7, <3>3, <4>1, FrameFacts
      <4> QED BY <4>1, <4>2 DEF Shape
    <3> QED BY <3>1, <3>2, <3>3
  <2> QED BY <2>1, <2>2
<1>14. Once'
  <2> SUFFICES ASSUME NEW a \in Threads, NEW b \in Threads,
                      NEW d \in 1 .. Depth(a)', NEW e \in 1 .. Depth(b)',
                      stack'[a][d].who = stack'[b][e].who
               PROVE  a = b /\ d = e
    BY DEF Once
  <2>1. CASE d \in 1 .. Depth(a) /\ e \in 1 .. Depth(b)
    BY <1>9, <2>1 DEF Once
  <2>2. CASE ~(d \in 1 .. Depth(a) /\ e \in 1 .. Depth(b))
    BY <1>9, <1>10, <1>12, <2>2
  <2> QED BY <2>1, <2>2
<1>15. Below'
  <2> SUFFICES ASSUME NEW g \in Threads, NEW e \in 1 .. Depth(g)', NEW d \in 1 .. Depth(g)',
                      1 < e, e <= d
               PROVE  Parent[stack'[g][e].who] # stack'[g][d].who
    BY DEF Below
  <2>1. CASE d \in 1 .. Depth(g)
    <3>1. e \in 1 .. Depth(g)
      BY <1>1, <2>1, FrameFacts
    <3> QED BY <1>9, <2>1, <3>1 DEF Below
  <2>2. CASE d \notin 1 .. Depth(g)
    <3>1. g = h /\ d = Depth(h) + 1 /\ stack'[g][d].who = q
      BY <1>9, <1>10, <2>2
    <3>2. CASE e = d
      BY <3>1, <3>2
    <3>3. CASE e # d
      <4>1. e \in 1 .. Depth(h) /\ stack'[h][e].who = stack[h][e].who
        BY <1>1, <1>9, <3>1, <3>3
      <4>2. stack[h][e].who \in Tasks /\ Executing(stack[h][e].who)
        BY <4>1 DEF Shape, Executing
      <4> QED BY <3>1, <4>1, <4>2
    <3> QED BY <3>2, <3>3
  <2> QED BY <2>1, <2>2
<1>16. Active' = (Active \ {Top(h)}) \union {f, Frame(q)}
  <2>1. \A g \in Threads : \A d \in 1 .. Depth(g) : stack[g][d] = Top(h) => g = h /\ d = Depth(h)
    BY <1>1 DEF Once, Top
  <2>2. \A x : x \in Active' <=> \E g \in Threads : \E d \in 1 .. Depth(g)' : x = stack'[g][d]
    BY DEF Active
  <2>3. \A x : x \in Active <=> \E g \in Threads : \E d \in 1 .. Depth(g) : x = stack[g][d]
    BY DEF Active
  <2>4. ASSUME NEW x \in Active' PROVE x \in (Active \ {Top(h)}) \union {f, Frame(q)}
    <3>g. PICK g \in Threads : \E d \in 1 .. Depth(g)' : x = stack'[g][d]
      BY <2>2
    <3>1. PICK d \in 1 .. Depth(g)' : x = stack'[g][d]
      BY <3>g
    <3>2. CASE g = h /\ d \in {Depth(h), Depth(h) + 1}
      BY <1>1, <1>8, <3>1, <3>2
    <3>3. CASE ~(g = h /\ d \in {Depth(h), Depth(h) + 1})
      <4>1. d \in 1 .. Depth(g)
        BY <1>10, <3>3
      <4>2. x = stack[g][d] /\ x # Top(h)
        BY <1>8, <2>1, <3>1, <3>3, <4>1
      <4> QED BY <2>3, <4>1, <4>2
    <3> QED BY <3>2, <3>3
  <2>5. ASSUME NEW x \in Active, x # Top(h) PROVE x \in Active'
    <3>g. PICK g \in Threads : \E d \in 1 .. Depth(g) : x = stack[g][d]
      BY <2>3
    <3>1. PICK d \in 1 .. Depth(g) : x = stack[g][d]
      BY <3>g
    <3>2. ~(g = h /\ d = Depth(h))
      BY <2>5, <3>1 DEF Top
    <3> QED BY <1>8, <1>11, <2>2, <3>1, <3>2
  <2>6. f \in Active' /\ Frame(q) \in Active'
    <3>1. Depth(h) \in 1 .. Depth(h)' /\ Depth(h) + 1 \in 1 .. Depth(h)'
      BY <1>1, <1>7
    <3> QED BY <1>1, <1>8, <2>2, <3>1
  <2> QED BY <2>4, <2>5, <2>6
<1>17. \A t : Executing(t)' <=> Executing(t) \/ t = q
  <2>1. Depth(h) + 1 \in 1 .. Depth(h)'
    BY <1>1, <1>7
  <2> QED BY <1>9, <1>10, <1>11, <2>1 DEF Executing
<1> QED BY <1>2, <1>6, <1>7, <1>8, <1>13, <1>14, <1>15, <1>16, <1>17

\* A task's frame leaves the stack.
LEMMA Popped ==
  ASSUME TypeOK, Shape, Once, Below, NEW h \in Threads, Depth(h) > 1,
         stack' = [stack EXCEPT ![h] = SubSeq(stack[h], 1, Depth(h) - 1)]
  PROVE  /\ stack' \in [Threads -> Seq(Frames)]
         /\ \A g \in Threads : Depth(g)' = IF g = h THEN Depth(h) - 1 ELSE Depth(g)
         /\ \A g \in Threads : \A d \in 1 .. Depth(g)' : stack'[g][d] = stack[g][d]
         /\ Shape' /\ Once' /\ Below'
         /\ Active' = Active \ {Top(h)}
         /\ \A t : Executing(t)' <=> Executing(t) /\ t # Top(h).who
<1>1. /\ stack \in [Threads -> Seq(Frames)] /\ stack[h] \in Seq(Frames)
      /\ Depth(h) \in 1 .. Depth(h) /\ Depth(h) \in Nat /\ Depth(h) = Len(stack[h])
  BY FrameFacts DEF TypeOK, Depth
<1>2. /\ SubSeq(stack[h], 1, Depth(h) - 1) \in Seq(Frames)
      /\ Len(SubSeq(stack[h], 1, Depth(h) - 1)) = Depth(h) - 1
      /\ \A d \in 1 .. Depth(h) - 1 : SubSeq(stack[h], 1, Depth(h) - 1)[d] = stack[h][d]
  BY <1>1
<1>3. stack' \in [Threads -> Seq(Frames)]
      /\ \A g \in Threads : stack'[g] = IF g = h THEN SubSeq(stack[h], 1, Depth(h) - 1) ELSE stack[g]
  BY <1>1, <1>2
<1>4. \A g \in Threads : Depth(g)' = IF g = h THEN Depth(h) - 1 ELSE Depth(g)
  BY <1>2, <1>3 DEF Depth
<1>5. \A g \in Threads : \A d \in 1 .. Depth(g)' : stack'[g][d] = stack[g][d] /\ d \in 1 .. Depth(g)
  BY <1>1, <1>2, <1>3, <1>4, FrameFacts
<1>6. \A g \in Threads : \A d \in 1 .. Depth(g) : d \in 1 .. Depth(g)' \/ (g = h /\ d = Depth(h))
  <2> SUFFICES ASSUME NEW g \in Threads, NEW d \in 1 .. Depth(g)
               PROVE  d \in 1 .. Depth(g)' \/ (g = h /\ d = Depth(h))
    OBVIOUS
  <2>1. Depth(g)' = (IF g = h THEN Depth(h) - 1 ELSE Depth(g)) /\ Depth(g) \in Nat
    BY <1>4, FrameFacts
  <2> QED BY <2>1
<1>7. Depth(h) \notin 1 .. Depth(h)'
  BY <1>1, <1>4
<1>8. Shape'
  <2> SUFFICES ASSUME NEW g \in Threads
               PROVE  /\ Depth(g)' > 0
                      /\ \A d \in 1 .. Depth(g)' :
                           /\ IF d = 1 THEN stack'[g][d].who = g ELSE stack'[g][d].who \in Tasks
                           /\ d < Depth(g)' => stack'[g][d].at \in {"poll", "pump"}
                           /\ stack'[g][d].at \in HostLabels => d = 1
                           /\ stack'[g][d].at = "release" => d > 1
    BY DEF Shape
  <2>1. Depth(g)' > 0 /\ Depth(g)' <= Depth(g) /\ Depth(g) \in Nat /\ Depth(g)' \in Nat
    <3>1. Depth(g)' = (IF g = h THEN Depth(h) - 1 ELSE Depth(g)) /\ Depth(g) \in Nat /\ Depth(g) > 0
      BY <1>4, FrameFacts
    <3> QED BY <3>1
  <2>2. ASSUME NEW d \in 1 .. Depth(g)'
        PROVE  /\ IF d = 1 THEN stack'[g][d].who = g ELSE stack'[g][d].who \in Tasks
               /\ d < Depth(g)' => stack'[g][d].at \in {"poll", "pump"}
               /\ stack'[g][d].at \in HostLabels => d = 1
               /\ stack'[g][d].at = "release" => d > 1
    <3>1. stack'[g][d] = stack[g][d] /\ d \in 1 .. Depth(g)
      BY <1>5
    <3>2. d < Depth(g)' => d < Depth(g)
      BY <2>1
    <3>3. /\ IF d = 1 THEN stack[g][d].who = g ELSE stack[g][d].who \in Tasks
          /\ d < Depth(g) => stack[g][d].at \in {"poll", "pump"}
          /\ stack[g][d].at \in HostLabels => d = 1
          /\ stack[g][d].at = "release" => d > 1
      BY <3>1 DEF Shape
    <3> QED BY <3>1, <3>2, <3>3
  <2> QED BY <2>1, <2>2
<1>9. Once'
  <2> SUFFICES ASSUME NEW a \in Threads, NEW b \in Threads,
                      NEW d \in 1 .. Depth(a)', NEW e \in 1 .. Depth(b)',
                      stack'[a][d].who = stack'[b][e].who
               PROVE  a = b /\ d = e
    BY DEF Once
  <2>1. stack[a][d].who = stack[b][e].who /\ d \in 1 .. Depth(a) /\ e \in 1 .. Depth(b)
    BY <1>5
  <2> QED BY <2>1 DEF Once
<1>10. Below'
  <2> SUFFICES ASSUME NEW g \in Threads, NEW e \in 1 .. Depth(g)', NEW d \in 1 .. Depth(g)',
                      1 < e, e <= d
               PROVE  Parent[stack'[g][e].who] # stack'[g][d].who
    BY DEF Below
  <2>1. /\ stack'[g][e] = stack[g][e] /\ e \in 1 .. Depth(g)
        /\ stack'[g][d] = stack[g][d] /\ d \in 1 .. Depth(g)
    BY <1>5
  <2> QED BY <2>1 DEF Below
<1>11. \A g \in Threads : \A d \in 1 .. Depth(g) :
         stack[g][d] = Top(h) \/ stack[g][d].who = Top(h).who <=> g = h /\ d = Depth(h)
  BY <1>1 DEF Once, Top
<1>12. Active' = Active \ {Top(h)}
  <2>1. \A x : x \in Active' <=> \E g \in Threads : \E d \in 1 .. Depth(g)' : x = stack'[g][d]
    BY InActive
  <2>2. \A x : x \in Active <=> \E g \in Threads : \E d \in 1 .. Depth(g) : x = stack[g][d]
    BY DEF Active
  <2>3. ASSUME NEW x \in Active' PROVE x \in Active \ {Top(h)}
    <3>g. PICK g \in Threads : \E d \in 1 .. Depth(g)' : x = stack'[g][d]
      BY <2>1
    <3>1. PICK d \in 1 .. Depth(g)' : x = stack'[g][d]
      BY <3>g
    <3>2. x = stack[g][d] /\ d \in 1 .. Depth(g)
      BY <1>5, <3>1
    <3>3. ~(g = h /\ d = Depth(h))
      BY <1>7
    <3> QED BY <1>11, <2>2, <3>2, <3>3
  <2>4. ASSUME NEW x \in Active, x # Top(h) PROVE x \in Active'
    <3>g. PICK g \in Threads : \E d \in 1 .. Depth(g) : x = stack[g][d]
      BY <2>2
    <3>1. PICK d \in 1 .. Depth(g) : x = stack[g][d]
      BY <3>g
    <3>2. ~(g = h /\ d = Depth(h))
      BY <2>4, <3>1 DEF Top
    <3>3. d \in 1 .. Depth(g)' /\ x = stack'[g][d]
      BY <1>5, <1>6, <3>1, <3>2
    <3> QED BY <2>1, <3>3
  <2> QED BY <2>3, <2>4
<1>13. \A t : Executing(t)' <=> Executing(t) /\ t # Top(h).who
  <2> SUFFICES ASSUME NEW t PROVE Executing(t)' <=> Executing(t) /\ t # Top(h).who
    OBVIOUS
  <2>1. ASSUME Executing(t)' PROVE Executing(t) /\ t # Top(h).who
    <3>g. PICK g \in Threads : \E d \in 1 .. Depth(g)' : stack'[g][d].who = t
      BY <2>1 DEF Executing
    <3>1. PICK d \in 1 .. Depth(g)' : stack'[g][d].who = t
      BY <3>g
    <3>2. stack[g][d].who = t /\ d \in 1 .. Depth(g) /\ ~(g = h /\ d = Depth(h))
      BY <1>5, <1>7, <3>1
    <3> QED BY <1>11, <3>2 DEF Executing
  <2>2. ASSUME Executing(t), t # Top(h).who PROVE Executing(t)'
    <3>g. PICK g \in Threads : \E d \in 1 .. Depth(g) : stack[g][d].who = t
      BY <2>2 DEF Executing
    <3>1. PICK d \in 1 .. Depth(g) : stack[g][d].who = t
      BY <3>g
    <3>2. d \in 1 .. Depth(g)' /\ stack'[g][d].who = t
      BY <1>5, <1>6, <2>2, <3>1 DEF Top
    <3> QED BY <3>2 DEF Executing
  <2> QED BY <2>1, <2>2
<1> QED BY <1>3, <1>4, <1>5, <1>8, <1>9, <1>10, <1>12, <1>13

-----------------------------------------------------------------------------
(* The parts of the invariant, by what a step changes                      *)

\* Each code has one frame; every frame is well formed.
LEMMA ActiveFacts ==
  ASSUME TypeOK, Shape, Once
  PROVE  /\ \A f \in Active : f \in Frames
         /\ \A f, g \in Active : f.who = g.who => f = g
<1>1. \A f \in Active : f \in Frames
  <2> SUFFICES ASSUME NEW f \in Active PROVE f \in Frames
    OBVIOUS
  <2>g. PICK g \in Threads : \E d \in 1 .. Depth(g) : f = stack[g][d]
    BY InActive
  <2> QED BY <2>g, FrameFacts
<1>2. \A f, g \in Active : f.who = g.who => f = g
  <2> SUFFICES ASSUME NEW f \in Active, NEW g \in Active, f.who = g.who PROVE f = g
    OBVIOUS
  <2>a. PICK a \in Threads : \E d \in 1 .. Depth(a) : f = stack[a][d]
    BY InActive
  <2>b. PICK b \in Threads : \E d \in 1 .. Depth(b) : g = stack[b][d]
    BY InActive
  <2>d. PICK d \in 1 .. Depth(a) : f = stack[a][d]
    BY <2>a
  <2>e. PICK e \in 1 .. Depth(b) : g = stack[b][e]
    BY <2>b
  <2>1. a = b /\ d = e
    BY <2>d, <2>e DEF Once
  <2> QED BY <2>1, <2>d, <2>e
<1> QED BY <1>1, <1>2

\* A frame about a future: the future exists, its code is not waiting for itself.
LEMMA WantFacts ==
  ASSUME TypeOK, Shape, Calls, NEW f \in Active, f.at \in AwaitLabels \union {"schedule"}
  PROVE  f.want \in Tasks /\ f.who \in Codes /\ Parent[f.want] = f.who
<1>1. CallOK(f)
  BY DEF Calls
<1>2. f \in Frames
  <2>g. PICK g \in Threads : \E d \in 1 .. Depth(g) : f = stack[g][d]
    BY InActive
  <2> QED BY <2>g, FrameFacts
<1> QED BY <1>1, <1>2 DEF CallOK, Frames

\* A step of h that neither makes a future pending nor stops executing one
\* that is, and that takes no pending one, leaves the waits as they are.
LEMMA AbandonsKept ==
  ASSUME IInv, NEW h \in Threads,
         \A g \in Threads \ {h} : stack'[g] = stack[g],
         \A t \in Tasks : state'[t] = "Pending" => state[t] = "Pending",
         \A t \in Tasks : state'[t] = "Pending" /\ (\E d \in 1 .. Depth(h) : stack[h][d].who = t)
                => \E d \in 1 .. Depth(h)' : stack'[h][d].who = t,
         Top(h)'.at = "take" /\ state'[Top(h)'.want] = "Pending" =>
           \E g \in Threads \ {h} : \E d \in 1 .. Depth(g) : stack[g][d].who = Top(h)'.want
  PROVE  AwaitAbandonsOnlyOthers'
<1> SUFFICES ASSUME NEW a \in Threads, Top(a)'.at = "take", state'[Top(a)'.want] = "Pending"
             PROVE  \E g \in Threads \ {a} : \E d \in 1 .. Depth(g)' : stack'[g][d].who = Top(a)'.want
  BY DEF AwaitAbandonsOnlyOthers, At
<1>1. \A g \in Threads \ {h} : Depth(g)' = Depth(g) /\ Top(g)' = Top(g)
  BY DEF Depth, Top
<1>2. CASE a = h
  <2>1. PICK g \in Threads \ {h} : \E d \in 1 .. Depth(g) : stack[g][d].who = Top(h)'.want
    BY <1>2
  <2> QED BY <1>1, <1>2, <2>1
<1>3. CASE a # h
  <2>0. Top(a)' = Top(a) /\ Top(a).at = "take" /\ Top(a).want \in Tasks
    BY <1>1, <1>3, FrameFacts, WantFacts DEF IInv, AwaitLabels
  <2>1. Top(a)' = Top(a) /\ state[Top(a).want] = "Pending" /\ Top(a).want \in Tasks
    BY <2>0
  <2>2. PICK g \in Threads \ {a} : \E d \in 1 .. Depth(g) : stack[g][d].who = Top(a).want
    BY <2>0, <2>1 DEF IInv, AwaitAbandonsOnlyOthers, At
  <2>3. \E d \in 1 .. Depth(g)' : stack'[g][d].who = Top(a).want
    BY <1>1, <2>1, <2>2
  <2> QED BY <2>1, <2>2, <2>3
<1> QED BY <1>2, <1>3

\* Custody, references and variables unchanged: the counts stay right.
LEMMA HoldingKept ==
  ASSUME Holding, \A t \in Tasks : InCustody(t)' <=> InCustody(t),
         \A t \in Tasks : state'[t] = "Pending" => state[t] = "Pending",
         life' = life, refs' = refs, slot' = slot
  PROVE  Holding'
BY DEF Holding, RefsExact

\* No task is started but by code that has begun.
LEMMA BegunKept ==
  ASSUME Begun,
         \A t \in Tasks : life'[t] # "none" =>
           life[t] # "none" \/ Executing(Parent[t])',
         \A p \in Tasks : Executing(p) => Executing(p)' \/ state'[p] # "Pending",
         \A p \in Tasks : state[p] # "Pending" => state'[p] # "Pending"
  PROVE  Begun'
BY DEF Begun

\* What a release does to each future.
LEMMA Released ==
  ASSUME TypeOK, NEW t \in Tasks, NEW st, Release(t, st), refs[t] > 0
  PROVE  /\ refs' \in [Tasks -> 0 .. 2]
         /\ life' \in [Tasks -> {"none", "absent", "live", "freed"}]
         /\ box' \in [Tasks -> {"none", "handle", "program", "freed"}]
         /\ \A u \in Tasks \ {t} : refs'[u] = refs[u] /\ life'[u] = life[u] /\ box'[u] = box[u]
         /\ refs'[t] = refs[t] - 1
         /\ life'[t] = IF refs[t] = 1 THEN "freed" ELSE life[t]
         /\ box'[t] = IF refs[t] = 1 /\ st # "Consumed" /\ box[t] = "handle"
                      THEN "freed" ELSE box[t]
<1>1. refs[t] - 1 \in 0 .. 2
  BY DEF TypeOK
<1> QED BY <1>1 DEF TypeOK, Release

\* A reference goes with its holder: the loop's, when t leaves its custody
\* settled, or the variable's.
LEMMA ReleaseHolding ==
  ASSUME TypeOK, Holding, NEW t \in Tasks, NEW st, Release(t, st), life[t] = "live",
         \A u \in Tasks \ {t} : /\ InCustody(u)' <=> InCustody(u)
                               /\ slot'[u] = slot[u] /\ state'[u] = state[u],
         \/ /\ InCustody(t) /\ ~InCustody(t)' /\ slot'[t] = slot[t] /\ state'[t] # "Pending"
         \/ /\ InCustody(t)' <=> InCustody(t)
            /\ slot[t] /\ ~slot'[t] /\ state'[t] = state[t]
  PROVE  Holding'
<1>0. refs[t] > 0 /\ refs[t] \in 0 .. 2
  BY DEF Holding, RefsExact, TypeOK
<1>1. /\ \A u \in Tasks \ {t} : refs'[u] = refs[u] /\ life'[u] = life[u]
      /\ refs'[t] = refs[t] - 1
      /\ life'[t] = IF refs[t] = 1 THEN "freed" ELSE life[t]
  BY <1>0, Released
<1>2. refs[t] = (IF InCustody(t) THEN 1 ELSE 0) + (IF slot[t] THEN 1 ELSE 0)
  BY DEF Holding, RefsExact
<1>3. /\ life'[t] = "live" => refs'[t] = (IF InCustody(t)' THEN 1 ELSE 0) + (IF slot'[t] THEN 1 ELSE 0)
                              /\ refs'[t] > 0
      /\ InCustody(t)' \/ slot'[t] => life'[t] = "live"
      /\ life'[t] = "live" /\ state'[t] = "Pending" => InCustody(t)'
  <2>1. CASE InCustody(t) /\ ~InCustody(t)' /\ slot'[t] = slot[t] /\ state'[t] # "Pending"
    <3>1. slot[t] = TRUE \/ slot[t] = FALSE
      BY DEF TypeOK
    <3>2. CASE slot[t] = TRUE
      BY <1>1, <1>2, <2>1, <3>2
    <3>3. CASE slot[t] = FALSE
      BY <1>1, <1>2, <2>1, <3>3
    <3> QED BY <3>1, <3>2, <3>3
  <2>2. CASE (InCustody(t)' <=> InCustody(t)) /\ slot[t] /\ ~slot'[t] /\ state'[t] = state[t]
    <3>1. CASE InCustody(t)
      BY <1>1, <1>2, <2>2, <3>1
    <3>2. CASE ~InCustody(t)
      <4>1. refs[t] = 1 /\ refs'[t] = 0 /\ life'[t] = "freed"
        BY <1>1, <1>2, <2>2, <3>2
      <4> QED BY <2>2, <3>2, <4>1
    <3> QED BY <3>1, <3>2
  <2> QED BY <2>1, <2>2
<1>4. ASSUME NEW u \in Tasks, u # t
      PROVE  /\ life'[u] = "live" => refs'[u] = (IF InCustody(u)' THEN 1 ELSE 0) + (IF slot'[u] THEN 1 ELSE 0)
                                    /\ refs'[u] > 0
             /\ InCustody(u)' \/ slot'[u] => life'[u] = "live"
             /\ life'[u] = "live" /\ state'[u] = "Pending" => InCustody(u)'
  <2>1. /\ InCustody(u)' <=> InCustody(u)
        /\ slot'[u] = slot[u] /\ state'[u] = state[u] /\ refs'[u] = refs[u] /\ life'[u] = life[u]
    BY <1>1, <1>4
  <2> QED BY <2>1 DEF Holding, RefsExact
<1> QED BY <1>3, <1>4 DEF Holding, RefsExact

\* The box of a released future.
LEMMA ReleaseBoxes ==
  ASSUME TypeOK, Boxes, Holding, NEW t \in Tasks, Release(t, state'[t]), life[t] = "live",
         state' \in [Tasks -> {"Pending", "Ready", "Consumed", "Error"}],
         \A u \in Tasks \ {t} : state'[u] = state[u],
         state'[t] = state[t] \/ (state[t] = "Pending" /\ state'[t] = "Error"),
         state'[t] = "Pending" => refs[t] # 1
  PROVE  Boxes'
<1>0. refs[t] > 0
  BY DEF Holding, RefsExact
<1>1. /\ \A u \in Tasks \ {t} : life'[u] = life[u] /\ box'[u] = box[u]
      /\ life'[t] = IF refs[t] = 1 THEN "freed" ELSE life[t]
      /\ box'[t] = IF refs[t] = 1 /\ state'[t] # "Consumed" /\ box[t] = "handle"
                   THEN "freed" ELSE box[t]
  BY <1>0, Released
<1>2. ASSUME NEW u \in Tasks, u # t
      PROVE  /\ life'[u] \in {"none", "absent"} => state'[u] = "Pending"
             /\ state'[u] = "Pending" => box'[u] = "none" /\ life'[u] # "freed"
             /\ state'[u] = "Ready" => box'[u] = IF life'[u] = "live" THEN "handle" ELSE "freed"
             /\ state'[u] = "Consumed" => box'[u] = "program"
             /\ state'[u] = "Error" => box'[u] = "none"
  <2>1. state'[u] = state[u] /\ life'[u] = life[u] /\ box'[u] = box[u]
    BY <1>1, <1>2
  <2> QED BY <2>1 DEF Boxes
<1>3. /\ state[t] = "Pending" => box[t] = "none"
      /\ state[t] = "Ready" => box[t] = "handle"
      /\ state[t] = "Consumed" => box[t] = "program"
      /\ state[t] = "Error" => box[t] = "none"
  BY DEF Boxes
<1>4. /\ life'[t] \in {"none", "absent"} => state'[t] = "Pending"
      /\ state'[t] = "Pending" => box'[t] = "none" /\ life'[t] # "freed"
      /\ state'[t] = "Ready" => box'[t] = IF life'[t] = "live" THEN "handle" ELSE "freed"
      /\ state'[t] = "Consumed" => box'[t] = "program"
      /\ state'[t] = "Error" => box'[t] = "none"
  BY <1>1, <1>3
<1> QED BY <1>2, <1>4 DEF Boxes

\* The top frame of h moves to another label: no future is touched.
LEMMA Move ==
  ASSUME IInv, NEW h \in Threads, NEW f \in Frames,
         Replaces(h, f), f.who = Top(h).who,
         f.at \in HostLabels => Depth(h) = 1,
         f.at \notin {"schedule", "release"}, Top(h).at \notin {"schedule", "release"},
         f.want # None <=> f.at \in AwaitLabels,
         f.at \in AwaitLabels => slot[f.want] /\ Parent[f.want] = f.who,
         f.at = "take" => \/ state[f.want] # "Pending"
                          \/ \E g \in Threads \ {h} : \E d \in 1 .. Depth(g) : stack[g][d].who = f.want,
         f.at \in {"halt", "drain"} => ~running',
         running' \in BOOLEAN, running' => running, UNCHANGED <<queue, handles>>
  PROVE  IInv'
<1>1. /\ TypeOK /\ Shape /\ Once /\ Below /\ Calls /\ Queued /\ Begun /\ Holding /\ Boxes
      /\ AwaitAbandonsOnlyOthers
  BY DEF IInv
<1>2. queue' = queue /\ life' = life /\ refs' = refs /\ state' = state /\ box' = box /\ slot' = slot
  BY DEF handles
<1>3. /\ stack' \in [Threads -> Seq(Frames)]
      /\ \A g \in Threads : Depth(g)' = Depth(g)
      /\ \A g \in Threads : \A d \in 1 .. Depth(g) :
           stack'[g][d] = IF g = h /\ d = Depth(h) THEN f ELSE stack[g][d]
      /\ Shape' /\ Once' /\ Below'
      /\ Active' = (Active \ {Top(h)}) \union {f}
      /\ \A t : Executing(t)' <=> Executing(t)
  BY <1>1, Replaced DEF HostLabels
<1>4. Top(h) \in Active /\ Top(h) \in Frames
  BY <1>1, FrameFacts
<1>5. \A t : InCustody(t)' <=> InCustody(t)
  BY <1>2, <1>3, <1>4, ExecutingActive
<1>6. TypeOK'
  BY <1>1, <1>2, <1>3 DEF TypeOK
<1>7. Calls'
  <2> SUFFICES ASSUME NEW x \in Active' PROVE CallOK(x)'
    BY DEF Calls
  <2>1. CASE x = f
    <3>1. f.who \in Tasks => state[f.who] = "Pending"
      BY <1>1, <1>4 DEF Calls, CallOK
    <3> QED BY <1>2, <2>1, <3>1 DEF CallOK
  <2>2. CASE x # f
    <3>1. x \in Active /\ CallOK(x)
      BY <1>1, <1>3, <2>2 DEF Calls
    <3> QED BY <1>2, <1>3, <3>1 DEF CallOK
  <2> QED BY <2>1, <2>2
<1>8. Queued'
  BY <1>1, <1>2, <1>3 DEF Queued
<1>9. Begun'
  BY <1>1, <1>2, <1>3, BegunKept
<1>10. Holding'
  BY <1>1, <1>2, <1>5, HoldingKept
<1>11. Boxes'
  BY <1>1, <1>2 DEF Boxes
<1>12. AwaitAbandonsOnlyOthers'
  <2>1. \A g \in Threads \ {h} : stack'[g] = stack[g]
    BY <1>1 DEF Replaces, TypeOK
  <2>2. Depth(h) \in 1 .. Depth(h) /\ Top(h) = stack[h][Depth(h)]
    BY <1>1, FrameFacts DEF Top
  <2>3. Top(h)' = f
    BY <1>3, <2>2 DEF Top
  <2>4. \A d \in 1 .. Depth(h) : stack'[h][d].who = stack[h][d].who
    BY <1>3, <2>2
  <2>5. Depth(h)' = Depth(h)
    BY <1>3
  <2>6. f.at = "take" /\ state'[f.want] = "Pending" =>
          \E g \in Threads \ {h} : \E d \in 1 .. Depth(g) : stack[g][d].who = f.want
    BY <1>2
  <2> QED BY <1>1, <1>2, <2>1, <2>3, <2>4, <2>5, <2>6, AbandonsKept
<1> QED BY <1>3, <1>6, <1>7, <1>8, <1>9, <1>10, <1>11, <1>12 DEF IInv

\* Goto and Enter replace the top frame.
LEMMA Going ==
  ASSUME TypeOK, Shape, NEW h \in Threads, NEW label \in Labels, Goto(h, label)
  PROVE  \E f \in Frames : /\ Replaces(h, f)
                           /\ f.who = Top(h).who /\ f.want = Top(h).want /\ f.at = label
<1>1. stack[h] \in Seq(Frames) /\ Top(h) \in Frames /\ Top(h) = stack[h][Depth(h)]
      /\ Depth(h) \in DOMAIN stack[h] /\ stack \in [Threads -> Seq(Frames)]
  BY FrameFacts DEF Top, TypeOK
<1>2. /\ [Top(h) EXCEPT !.at = label] \in Frames
      /\ [Top(h) EXCEPT !.at = label].who = Top(h).who
      /\ [Top(h) EXCEPT !.at = label].want = Top(h).want
      /\ [Top(h) EXCEPT !.at = label].at = label
  BY <1>1 DEF Frames
<1>3. Replaces(h, [Top(h) EXCEPT !.at = label])
  BY <1>1 DEF Goto, Replaces
<1> QED BY <1>2, <1>3 DEF Replaces

\* Enter, in or out of a call about a future, likewise.
LEMMA Entering ==
  ASSUME TypeOK, Shape, NEW h \in Threads, NEW label \in Labels, NEW t \in Tasks \union {None},
         Enter(h, label, t)
  PROVE  \E f \in Frames : /\ Replaces(h, f)
                           /\ f.who = Top(h).who /\ f.want = t /\ f.at = label
<1>1. stack[h] \in Seq(Frames) /\ Top(h) \in Frames /\ Top(h) = stack[h][Depth(h)]
      /\ Depth(h) \in DOMAIN stack[h] /\ stack \in [Threads -> Seq(Frames)]
  BY FrameFacts DEF Top, TypeOK
<1>2. /\ [Top(h) EXCEPT !.at = label, !.want = t] \in Frames
      /\ [Top(h) EXCEPT !.at = label, !.want = t].who = Top(h).who
      /\ [Top(h) EXCEPT !.at = label, !.want = t].want = t
      /\ [Top(h) EXCEPT !.at = label, !.want = t].at = label
  BY <1>1 DEF Frames
<1>3. Replaces(h, [Top(h) EXCEPT !.at = label, !.want = t])
  <2>1. [[Top(h) EXCEPT !.at = label] EXCEPT !.want = t] = [Top(h) EXCEPT !.at = label, !.want = t]
    OBVIOUS
  <2> QED BY <1>1, <2>1 DEF Enter, Replaces
<1> QED BY <1>2, <1>3 DEF Replaces

\* Goto, in and out of an await's labels only through Enter.
LEMMA GotoMoves ==
  ASSUME IInv, NEW h \in Threads, NEW label \in Labels \ {"schedule", "release"}, Goto(h, label),
         Top(h).at \notin {"schedule", "release"},
         Top(h).at \in AwaitLabels <=> label \in AwaitLabels,
         label \in HostLabels => Depth(h) = 1,
         label = "take" =>
           \/ state[Top(h).want] # "Pending"
           \/ \E g \in Threads \ {h} : \E d \in 1 .. Depth(g) : stack[g][d].who = Top(h).want,
         label \in {"halt", "drain"} => ~running',
         running' \in BOOLEAN, running' => running, UNCHANGED <<queue, handles>>
  PROVE  IInv'
<1>1. PICK f \in Frames : /\ Replaces(h, f) /\ f.who = Top(h).who
                          /\ f.want = Top(h).want /\ f.at = label
  BY Going DEF IInv
<1>2. CallOK(Top(h))
  BY FrameFacts DEF IInv, Calls
<1>3. /\ f.want # None <=> f.at \in AwaitLabels
      /\ f.at \in AwaitLabels => slot[f.want] /\ Parent[f.want] = f.who
  BY <1>1, <1>2 DEF CallOK
<1> QED BY <1>1, <1>3, Move

\* A host label is a thread's own code's.
LEMMA HostDepth ==
  ASSUME Shape, TypeOK, NEW h \in Threads
  PROVE  /\ Top(h).at \in HostLabels => Depth(h) = 1
         /\ Top(h).at = "release" => Depth(h) > 1
         /\ Depth(h) > 1 => Top(h).who \in Tasks
         /\ Depth(h) = 1 => Top(h).who = h
BY FrameFacts DEF Shape, Top

\* An await begins: the frame polls a future its code holds.
LEMMA AwaitInv ==
  ASSUME IInv, NEW h \in Threads, NEW t \in Tasks, Await(h, t) PROVE IInv'
<1>1. PICK f \in Frames : /\ Replaces(h, f) /\ f.who = Top(h).who
                          /\ f.want = t /\ f.at = "poll"
  BY Entering DEF IInv, Await, Labels
<1>2. /\ Top(h).at = "code" /\ slot[t] /\ Parent[t] = Top(h).who
      /\ running' \in BOOLEAN /\ (running' => running) /\ UNCHANGED <<queue, handles>>
  BY DEF Await, At, IInv, TypeOK
<1>3. t # None
  BY LoopAssumption DEF Codes
<1> QED BY <1>1, <1>2, <1>3, Move DEF HostLabels, AwaitLabels

\* The poll finds the future pending, or goes to take it.
LEMMA PollStateInv ==
  ASSUME IInv, NEW h \in Threads, PollState(h) PROVE IInv'
<1>1. Top(h).at = "poll" /\ running' \in BOOLEAN /\ (running' => running) /\ UNCHANGED <<queue, handles>>
  BY DEF PollState, At, IInv, TypeOK
<1>2. CASE state[Top(h).want] = "Pending"
  <2>1. Goto(h, "count")
    BY <1>2 DEF PollState
  <2> QED BY <1>1, <2>1, GotoMoves DEF Labels, HostLabels, AwaitLabels
<1>3. CASE state[Top(h).want] # "Pending"
  <2>1. Goto(h, "take")
    BY <1>3 DEF PollState
  <2> QED BY <1>1, <1>3, <2>1, GotoMoves DEF Labels, HostLabels, AwaitLabels
<1> QED BY <1>2, <1>3

\* With nothing queued, a pending future is being run, and not below its own
\* await: another thread runs it.
LEMMA PollCountInv ==
  ASSUME IInv, NEW h \in Threads, PollCount(h) PROVE IInv'
<1>1. Top(h).at = "count" /\ running' \in BOOLEAN /\ (running' => running) /\ UNCHANGED <<queue, handles>>
  BY DEF PollCount, At, IInv, TypeOK
<1>2. CASE queue # <<>>
  <2>1. Goto(h, "once")
    BY <1>2 DEF PollCount
  <2> QED BY <1>1, <2>1, GotoMoves DEF Labels, HostLabels, AwaitLabels
<1>3. CASE queue = <<>>
  <2>1. Goto(h, "take")
    BY <1>3 DEF PollCount
  <2>2. ASSUME state[Top(h).want] = "Pending"
        PROVE  \E g \in Threads \ {h} : \E d \in 1 .. Depth(g) : stack[g][d].who = Top(h).want
    <3>t. PICK t : t = Top(h).want
      OBVIOUS
    <3>0. /\ TypeOK /\ Shape /\ Once /\ Below /\ Calls /\ Holding /\ Top(h) \in Active
          /\ Depth(h) \in 1 .. Depth(h) /\ Top(h) = stack[h][Depth(h)]
      BY FrameFacts DEF IInv, Top
    <3>1. t \in Tasks /\ Parent[t] = Top(h).who /\ slot[t]
      BY <1>1, <3>0, <3>t, WantFacts DEF AwaitLabels, Calls, CallOK
    <3>2. life[t] = "live" /\ InCustody(t)
      BY <2>2, <3>0, <3>1, <3>t DEF Holding
    <3>3. t \notin Range(queue)
      BY <1>3 DEF Range
    <3>4. ASSUME NEW x \in Active, x.want = t, x.at = "schedule" PROVE FALSE
      <4>1. x.who = Top(h).who
        BY <3>0, <3>1, <3>4 DEF Calls, CallOK
      <4>2. x = Top(h)
        BY <3>0, <4>1, ActiveFacts
      <4> QED BY <1>1, <3>4, <4>2
    <3>5. Executing(t)
      BY <3>2, <3>3, <3>4, ExecutingActive
    <3>g. PICK g \in Threads : \E d \in 1 .. Depth(g) : stack[g][d].who = t
      BY <3>5 DEF Executing
    <3>6. g # h
      <4>1. SUFFICES ASSUME g = h PROVE FALSE
        OBVIOUS
      <4>2. PICK d \in 1 .. Depth(h) : stack[h][d].who = t
        BY <3>g, <4>1
      <4>3. 1 < d /\ d <= Depth(h)
        <5>1. d # 1
          BY <3>0, <3>1, <4>2, LoopAssumption DEF Shape
        <5> QED BY <3>0, <5>1, FrameFacts
      <4> QED BY <3>0, <3>1, <4>2, <4>3 DEF Below
    <3> QED BY <3>g, <3>6, <3>t
  <2> QED BY <1>1, <2>1, <2>2, GotoMoves DEF Labels, HostLabels, AwaitLabels
<1> QED BY <1>2, <1>3

\* The host begins to pump.
LEMMA PumpInv ==
  ASSUME IInv, NEW h \in Threads, Pump(h) PROVE IInv'
<1>1. /\ Top(h).at = "code" /\ Depth(h) = 1 /\ Goto(h, "pump")
      /\ running' \in BOOLEAN /\ (running' => running) /\ UNCHANGED <<queue, handles>>
  BY DEF Pump, At, IInv, TypeOK
<1> QED BY <1>1, GotoMoves DEF Labels, HostLabels, AwaitLabels

\* The pump reads m_running and goes on, or returns.
LEMMA PumpCheckInv ==
  ASSUME IInv, NEW h \in Threads, PumpCheck(h) PROVE IInv'
<1>1. /\ Top(h).at = "pump" /\ Goto(h, IF running THEN "pop" ELSE "code")
      /\ running' \in BOOLEAN /\ (running' => running) /\ UNCHANGED <<queue, handles>>
  BY DEF PumpCheck, At, IInv, TypeOK
<1>2. Depth(h) = 1
  BY <1>1, HostDepth DEF HostLabels, IInv
<1>3. CASE running
  BY <1>1, <1>2, <1>3, GotoMoves DEF Labels, HostLabels, AwaitLabels
<1>4. CASE ~running
  BY <1>1, <1>2, <1>4, GotoMoves DEF Labels, HostLabels, AwaitLabels
<1> QED BY <1>3, <1>4

\* A shutdown closes the loop: no frame was ending it before.
LEMMA HaltInv ==
  ASSUME IInv, NEW h \in Threads, Halt(h) PROVE IInv'
<1>1. /\ Top(h).at = "code" /\ Depth(h) = 1 /\ Goto(h, "halt") /\ ~running'
      /\ running' \in BOOLEAN /\ (running' => running) /\ UNCHANGED <<queue, handles>>
  BY DEF Halt, At
<1> QED BY <1>1, GotoMoves DEF Labels, HostLabels, AwaitLabels

\* The shutdown has the mutex.
LEMMA HaltLockInv ==
  ASSUME IInv, NEW h \in Threads, HaltLock(h) PROVE IInv'
<1>1. /\ Top(h).at = "halt" /\ Goto(h, "drain")
      /\ running' = running /\ running' \in BOOLEAN /\ UNCHANGED <<queue, handles>>
  BY DEF HaltLock, At, IInv, TypeOK
<1>2. Depth(h) = 1 /\ ~running
  BY <1>1, HostDepth, FrameFacts DEF HostLabels, IInv, Calls, CallOK
<1> QED BY <1>1, <1>2, GotoMoves DEF Labels, HostLabels, AwaitLabels

\* The shutdown returns.
LEMMA HaltReturnsInv ==
  ASSUME IInv, NEW h \in Threads, HaltReturns(h) PROVE IInv'
<1>1. /\ Top(h).at = "drain" /\ Goto(h, "code")
      /\ running' \in BOOLEAN /\ (running' => running) /\ UNCHANGED <<queue, handles>>
  BY DEF HaltReturns, At, IInv, TypeOK
<1> QED BY <1>1, GotoMoves DEF Labels, HostLabels, AwaitLabels

\* A queued task is not run, nor is any task its code started.
LEMMA QueuedApart ==
  ASSUME IInv, NEW q \in Range(queue), q \in Tasks
  PROVE  /\ state[q] = "Pending" /\ life[q] = "live" /\ ~Executing(q)
         /\ \A u \in Tasks : Executing(u) \/ u = q => Parent[u] # q
<1>1. state[q] = "Pending" /\ ~Executing(q)
  BY DEF IInv, Queued
<1>2. ASSUME NEW u \in Tasks, Executing(u) \/ u = q PROVE life[u] = "live"
  BY <1>2 DEF IInv, Holding, InCustody
<1>3. ASSUME NEW u \in Tasks, Executing(u) \/ u = q PROVE Parent[u] # q
  BY <1>1, <1>2, <1>3 DEF IInv, Begun
<1> QED BY <1>1, <1>2, <1>3

\* A task taken off the queue is run by a new frame.
LEMMA CallInv ==
  ASSUME IInv, NEW h \in Threads, NEW back \in {"poll", "pump"}, Call(h, back),
         Top(h).at = IF back = "poll" THEN "once" ELSE "pop"
  PROVE  IInv'
<1>1. /\ TypeOK /\ Shape /\ Once /\ Below /\ Calls /\ Queued /\ Begun /\ Holding /\ Boxes
      /\ AwaitAbandonsOnlyOthers
  BY DEF IInv
<1>2. /\ life' = life /\ refs' = refs /\ state' = state /\ box' = box /\ slot' = slot
      /\ running' = running
  BY DEF Call, handles
<1>q. PICK q : q = Head(queue)
  OBVIOUS
<1>3. /\ q \in Range(queue) /\ q \in Tasks /\ queue' \in Seq(Tasks) /\ IsInjective(queue')
      /\ Range(queue') = Range(queue) \ {q}
  BY <1>1, <1>q, TailRange DEF Call, Queued, TypeOK
<1>4. state[q] = "Pending" /\ ~Executing(q)
  BY <1>3, QueuedApart
<1>5. Parent[q] # q /\ \A u \in Tasks : Executing(u) => Parent[u] # q
  BY <1>3, QueuedApart
<1>6. Pushes(h, back, q)
  BY <1>q DEF Call, Pushes
<1>7. back = "pump" => Depth(h) = 1
  BY <1>1, HostDepth DEF HostLabels
<1>8. PICK f \in Frames :
      /\ f.who = Top(h).who /\ f.want = Top(h).want /\ f.at = back
      /\ Frame(q) \in Frames
      /\ stack' \in [Threads -> Seq(Frames)]
      /\ \A g \in Threads : Depth(g)' = IF g = h THEN Depth(h) + 1 ELSE Depth(g)
      /\ \A g \in Threads : \A d \in 1 .. Depth(g) :
           stack'[g][d] = IF g = h /\ d = Depth(h) THEN f ELSE stack[g][d]
      /\ stack'[h][Depth(h) + 1] = Frame(q)
      /\ Shape' /\ Once' /\ Below'
      /\ Active' = (Active \ {Top(h)}) \union {f, Frame(q)}
      /\ \A t : Executing(t)' <=> Executing(t) \/ t = q
  BY <1>1, <1>3, <1>4, <1>5, <1>6, <1>7, Pushed
<1>9. /\ Top(h) \in Active /\ Top(h) \in Frames
      /\ f.who = Top(h).who /\ f.want = Top(h).want /\ f.at = back
  BY <1>1, <1>8, FrameFacts
<1>10. Frame(q).who = q /\ Frame(q).at = "code" /\ Frame(q).want = None
  BY DEF Frame
<1>11. \A t : InCustody(t)' <=> InCustody(t)
  BY <1>3, <1>8, <1>9, <1>10, ExecutingActive
<1>12. TypeOK'
  BY <1>1, <1>2, <1>3, <1>8 DEF TypeOK
<1>13. Calls'
  <2> SUFFICES ASSUME NEW x \in Active' PROVE CallOK(x)'
    BY DEF Calls
  <2>0. CallOK(Top(h))
    BY <1>1, <1>9 DEF Calls
  <2>1. CASE x = f
    BY <1>2, <1>9, <2>0, <2>1 DEF CallOK, AwaitLabels
  <2>2. CASE x = Frame(q)
    BY <1>2, <1>4, <1>10, <2>2 DEF CallOK, AwaitLabels
  <2>3. CASE x # f /\ x # Frame(q)
    <3>1. x \in Active /\ CallOK(x)
      BY <1>1, <1>8, <2>3 DEF Calls
    <3> QED BY <1>2, <1>3, <1>8, <3>1 DEF CallOK
  <2> QED BY <2>1, <2>2, <2>3
<1>14. Queued'
  BY <1>1, <1>2, <1>3, <1>8 DEF Queued
<1>15. Begun'
  BY <1>1, <1>2, <1>8, BegunKept
<1>16. Holding'
  BY <1>1, <1>2, <1>11, HoldingKept
<1>17. Boxes'
  BY <1>1, <1>2 DEF Boxes
<1>18. AwaitAbandonsOnlyOthers'
  <2>1. \A g \in Threads \ {h} : stack'[g] = stack[g]
    BY <1>1 DEF Call, TypeOK
  <2>2. Depth(h) \in Nat /\ Depth(h) \in 1 .. Depth(h) /\ Top(h) = stack[h][Depth(h)]
    BY <1>1, FrameFacts DEF Top
  <2>3. Depth(h)' = Depth(h) + 1
    BY <1>8
  <2>4. Top(h)' = Frame(q)
    BY <1>8, <2>3 DEF Top
  <2>5. \A d \in 1 .. Depth(h) : d \in 1 .. Depth(h)' /\ stack'[h][d].who = stack[h][d].who
    BY <1>8, <1>9, <2>2, <2>3
  <2> QED BY <1>1, <1>2, <1>10, <2>1, <2>4, <2>5, AbandonsKept
<1> QED BY <1>8, <1>12, <1>13, <1>14, <1>15, <1>16, <1>17, <1>18 DEF IInv

\* An await runs the head of the queue, or finds none.
LEMMA RunOnceInv ==
  ASSUME IInv, NEW h \in Threads, RunOnce(h) PROVE IInv'
<1>1. Top(h).at = "once"
  BY DEF RunOnce, At
<1>2. CASE Call(h, "poll")
  BY <1>1, <1>2, CallInv
<1>3. CASE Goto(h, "poll") /\ UNCHANGED <<queue, running, handles>>
  <2>1. running' \in BOOLEAN /\ (running' => running) /\ UNCHANGED <<queue, handles>>
    BY <1>3 DEF IInv, TypeOK
  <2> QED BY <1>1, <1>3, <2>1, GotoMoves DEF Labels, HostLabels, AwaitLabels
<1> QED BY <1>2, <1>3 DEF RunOnce

\* The pump runs the head of the queue, or returns.
LEMMA PumpPopInv ==
  ASSUME IInv, NEW h \in Threads, PumpPop(h) PROVE IInv'
<1>1. Top(h).at = "pop"
  BY DEF PumpPop, At
<1>2. CASE Call(h, "pump")
  BY <1>1, <1>2, CallInv
<1>3. CASE Goto(h, "code") /\ UNCHANGED <<queue, running, handles>>
  <2>1. running' \in BOOLEAN /\ (running' => running) /\ UNCHANGED <<queue, handles>>
    BY <1>3 DEF IInv, TypeOK
  <2> QED BY <1>1, <1>3, <2>1, GotoMoves DEF Labels, HostLabels, AwaitLabels
<1> QED BY <1>2, <1>3 DEF PumpPop

\* A step that only changes what the top frame is at leaves the waits alone.
LEMMA AbandonsReplaced ==
  ASSUME IInv, NEW h \in Threads, NEW f \in Frames, Replaces(h, f), f.who = Top(h).who,
         f.at \notin HostLabels \union {"take"}, f.at = "release" => Depth(h) > 1,
         \A t \in Tasks : state'[t] = "Pending" => state[t] = "Pending"
  PROVE  AwaitAbandonsOnlyOthers'
<1>1. TypeOK /\ Shape /\ Once /\ AwaitAbandonsOnlyOthers
  BY DEF IInv
<1>2. /\ \A g \in Threads : Depth(g)' = Depth(g)
      /\ \A g \in Threads : \A d \in 1 .. Depth(g) :
           stack'[g][d] = IF g = h /\ d = Depth(h) THEN f ELSE stack[g][d]
  BY <1>1, Replaced
<1>3. \A g \in Threads \ {h} : stack'[g] = stack[g]
  BY <1>1 DEF Replaces, TypeOK
<1>4. Depth(h) \in 1 .. Depth(h) /\ Top(h) = stack[h][Depth(h)]
  BY <1>1, FrameFacts DEF Top
<1>5. Top(h)' = f
  BY <1>2, <1>4 DEF Top
<1>6. \A d \in 1 .. Depth(h) : d \in 1 .. Depth(h)' /\ stack'[h][d].who = stack[h][d].who
  BY <1>2, <1>4
<1> QED BY <1>1, <1>3, <1>5, <1>6, AbandonsKept

\* Code that runs may start t, which nobody knows yet.
LEMMA AsyncFacts ==
  ASSUME IInv, NEW h \in Threads, NEW t \in Tasks, MayAsync(h, t)
  PROVE  /\ Top(h) \in Active /\ Top(h).at = "code" /\ Parent[t] = Top(h).who
         /\ Executing(Parent[t])
         /\ life[t] = "none" /\ state[t] = "Pending" /\ box[t] = "none"
         /\ ~InCustody(t) /\ ~slot[t]
<1>1. Top(h) \in Active /\ Top(h).at = "code" /\ Parent[t] = Top(h).who /\ life[t] = "none"
  BY FrameFacts DEF IInv, MayAsync, At
<1>2. Executing(Parent[t])
  BY <1>1, ExecutingActive
<1>3. state[t] = "Pending" /\ box[t] = "none" /\ ~InCustody(t) /\ ~slot[t]
  BY <1>1 DEF IInv, Boxes, Holding
<1> QED BY <1>1, <1>2, <1>3

\* A future that could not be allocated is nobody's.
LEMMA AsyncFailsInv ==
  ASSUME IInv, NEW h \in Threads, NEW t \in Tasks, AsyncFails(h, t) PROVE IInv'
<1>1. /\ TypeOK /\ Shape /\ Once /\ Below /\ Calls /\ Queued /\ Begun /\ Holding /\ Boxes
      /\ AwaitAbandonsOnlyOthers
  BY DEF IInv
<1>2. /\ stack' = stack /\ queue' = queue /\ running' = running
      /\ refs' = refs /\ state' = state /\ box' = box /\ slot' = slot
      /\ life' = [life EXCEPT ![t] = "absent"] /\ MayAsync(h, t)
  BY DEF AsyncFails
<1>3. /\ Executing(Parent[t]) /\ ~InCustody(t) /\ ~slot[t] /\ state[t] = "Pending"
      /\ box[t] = "none"
  BY <1>2, AsyncFacts
<1>4. /\ life' \in [Tasks -> {"none", "absent", "live", "freed"}] /\ life'[t] = "absent"
      /\ \A u \in Tasks \ {t} : life'[u] = life[u]
  BY <1>1, <1>2 DEF TypeOK
<1>5. /\ \A u : Executing(u)' <=> Executing(u)
      /\ \A u : InCustody(u)' <=> InCustody(u)
      /\ Active' = Active
  BY <1>2 DEF Executing, InCustody, Inside, Active, Depth
<1>6. TypeOK' /\ Shape' /\ Once' /\ Below' /\ Queued' /\ AwaitAbandonsOnlyOthers'
  BY <1>1, <1>2, <1>4, <1>5
     DEF TypeOK, Shape, Once, Below, Queued, AwaitAbandonsOnlyOthers, At, Top, Depth
<1>7. Calls'
  <2> SUFFICES ASSUME NEW x \in Active PROVE CallOK(x)'
    BY <1>5 DEF Calls
  <2> QED BY <1>1, <1>2, <1>5 DEF Calls, CallOK
<1>8. Begun'
  <2>1. \A u \in Tasks : life'[u] # "none" => life[u] # "none" \/ Executing(Parent[u])'
    BY <1>3, <1>4, <1>5
  <2>2. \A p \in Tasks : Executing(p) => Executing(p)'
    BY <1>5
  <2> QED BY <1>1, <1>2, <2>1, <2>2, BegunKept
<1>9. Holding'
  <2> SUFFICES ASSUME NEW u \in Tasks
               PROVE  /\ life'[u] = "live" =>
                           /\ refs'[u] = (IF InCustody(u)' THEN 1 ELSE 0) + (IF slot'[u] THEN 1 ELSE 0)
                           /\ refs'[u] > 0
                      /\ InCustody(u)' \/ slot'[u] => life'[u] = "live"
                      /\ life'[u] = "live" /\ state'[u] = "Pending" => InCustody(u)'
    BY DEF Holding, RefsExact
  <2>1. CASE u = t
    BY <1>2, <1>3, <1>4, <1>5, <2>1
  <2>2. CASE u # t
    <3>1. /\ InCustody(u)' <=> InCustody(u)
          /\ slot'[u] = slot[u] /\ state'[u] = state[u] /\ refs'[u] = refs[u] /\ life'[u] = life[u]
      BY <1>2, <1>4, <1>5, <2>2
    <3> QED BY <1>1, <3>1 DEF Holding, RefsExact
  <2> QED BY <2>1, <2>2
<1>10. Boxes'
  <2> SUFFICES ASSUME NEW u \in Tasks
               PROVE  /\ life'[u] \in {"none", "absent"} => state'[u] = "Pending"
                      /\ state'[u] = "Pending" => box'[u] = "none" /\ life'[u] # "freed"
                      /\ state'[u] = "Ready" => box'[u] = IF life'[u] = "live" THEN "handle" ELSE "freed"
                      /\ state'[u] = "Consumed" => box'[u] = "program"
                      /\ state'[u] = "Error" => box'[u] = "none"
    BY DEF Boxes
  <2>1. CASE u = t
    BY <1>2, <1>3, <1>4, <2>1
  <2>2. CASE u # t
    BY <1>1, <1>2, <1>4, <2>2 DEF Boxes
  <2> QED BY <2>1, <2>2
<1> QED BY <1>6, <1>7, <1>8, <1>9, <1>10 DEF IInv

\* A future is born with a reference for each of its holders.
LEMMA AsyncInv ==
  ASSUME IInv, NEW h \in Threads, NEW t \in Tasks, Async(h, t) PROVE IInv'
<1>1. /\ TypeOK /\ Shape /\ Once /\ Below /\ Calls /\ Queued /\ Begun /\ Holding /\ Boxes
      /\ AwaitAbandonsOnlyOthers
  BY DEF IInv
<1>2. /\ queue' = queue /\ running' = running /\ state' = state /\ box' = box
      /\ life' = [life EXCEPT ![t] = "live"]
      /\ refs' = [refs EXCEPT ![t] = IF t \in Kept THEN 2 ELSE 1]
      /\ slot' = [slot EXCEPT ![t] = t \in Kept]
      /\ MayAsync(h, t) /\ Enter(h, "schedule", t)
  BY DEF Async
<1>3. /\ Top(h) \in Active /\ Top(h).at = "code" /\ Parent[t] = Top(h).who
      /\ Executing(Parent[t])
      /\ state[t] = "Pending" /\ box[t] = "none"
      /\ ~InCustody(t) /\ ~slot[t]
  BY <1>2, AsyncFacts
<1>4. /\ life' \in [Tasks -> {"none", "absent", "live", "freed"}] /\ life'[t] = "live"
      /\ refs' \in [Tasks -> 0 .. 2] /\ refs'[t] = IF t \in Kept THEN 2 ELSE 1
      /\ slot' \in [Tasks -> BOOLEAN] /\ (slot'[t] <=> t \in Kept)
      /\ \A u \in Tasks \ {t} : life'[u] = life[u] /\ refs'[u] = refs[u] /\ slot'[u] = slot[u]
  <2>1. slot \in [Tasks -> BOOLEAN] /\ t \in Tasks /\ (t \in Kept) \in BOOLEAN
    BY <1>1 DEF TypeOK
  <2>2. slot' \in [Tasks -> BOOLEAN] /\ slot'[t] = (t \in Kept)
    BY <1>2, <2>1
  <2>3. \A u \in Tasks \ {t} : slot'[u] = slot[u]
    BY <1>2, <2>1
  <2>4. /\ life' \in [Tasks -> {"none", "absent", "live", "freed"}] /\ life'[t] = "live"
        /\ \A u \in Tasks \ {t} : life'[u] = life[u]
    BY <1>1, <1>2 DEF TypeOK
  <2>5. /\ refs' \in [Tasks -> 0 .. 2] /\ refs'[t] = IF t \in Kept THEN 2 ELSE 1
        /\ \A u \in Tasks \ {t} : refs'[u] = refs[u]
    BY <1>1, <1>2 DEF TypeOK
  <2> QED BY <2>2, <2>3, <2>4, <2>5
<1>5. PICK f \in Frames : /\ Replaces(h, f) /\ f.who = Top(h).who
                          /\ f.want = t /\ f.at = "schedule"
  BY <1>1, <1>2, Entering DEF Labels
<1>6. /\ stack' \in [Threads -> Seq(Frames)]
      /\ Shape' /\ Once' /\ Below'
      /\ Active' = (Active \ {Top(h)}) \union {f}
      /\ \A u : Executing(u)' <=> Executing(u)
  BY <1>1, <1>5, Replaced DEF HostLabels
<1>7. \A u : InCustody(u)' <=> InCustody(u) \/ u = t
  BY <1>2, <1>3, <1>5, <1>6, ExecutingActive
<1>8. TypeOK'
  BY <1>1, <1>2, <1>4, <1>6 DEF TypeOK
<1>9. Calls'
  <2> SUFFICES ASSUME NEW x \in Active' PROVE CallOK(x)'
    BY DEF Calls
  <2>1. t \notin Range(queue) /\ ~Executing(t) /\ t # None
    BY <1>3, LoopAssumption DEF InCustody, Codes
  <2>2. CASE x = f
    <3>1. CallOK(Top(h))
      BY <1>1, <1>3 DEF Calls
    <3> QED BY <1>2, <1>3, <1>5, <1>6, <2>1, <2>2, <3>1 DEF CallOK, AwaitLabels
  <2>3. CASE x # f
    <3>1. x \in Active /\ CallOK(x)
      BY <1>1, <1>6, <2>3 DEF Calls
    <3>2. x.at \in AwaitLabels => slot'[x.want]
      <4>1. SUFFICES ASSUME x.at \in AwaitLabels PROVE slot'[x.want]
        OBVIOUS
      <4>2. slot[x.want] /\ x.want # t /\ x.want \in Tasks
        BY <1>1, <1>3, <3>1, <4>1, WantFacts DEF CallOK
      <4> QED BY <1>4, <4>2
    <3> QED BY <1>2, <1>6, <3>1, <3>2 DEF CallOK
  <2> QED BY <2>2, <2>3
<1>10. Queued'
  BY <1>1, <1>2, <1>6 DEF Queued
<1>11. Begun'
  <2>1. \A u \in Tasks : life'[u] # "none" => life[u] # "none" \/ Executing(Parent[u])'
    BY <1>3, <1>4, <1>6
  <2> QED BY <1>1, <1>2, <1>6, <2>1, BegunKept
<1>12. Holding'
  <2> SUFFICES ASSUME NEW u \in Tasks
               PROVE  /\ life'[u] = "live" =>
                           /\ refs'[u] = (IF InCustody(u)' THEN 1 ELSE 0) + (IF slot'[u] THEN 1 ELSE 0)
                           /\ refs'[u] > 0
                      /\ InCustody(u)' \/ slot'[u] => life'[u] = "live"
                      /\ life'[u] = "live" /\ state'[u] = "Pending" => InCustody(u)'
    BY DEF Holding, RefsExact
  <2>1. CASE u = t
    <3>1. CASE t \in Kept
      BY <1>4, <1>7, <2>1, <3>1
    <3>2. CASE t \notin Kept
      BY <1>4, <1>7, <2>1, <3>2
    <3> QED BY <3>1, <3>2
  <2>2. CASE u # t
    <3>1. /\ InCustody(u)' <=> InCustody(u)
          /\ slot'[u] = slot[u] /\ state'[u] = state[u] /\ refs'[u] = refs[u] /\ life'[u] = life[u]
      BY <1>2, <1>4, <1>7, <2>2
    <3> QED BY <1>1, <3>1 DEF Holding, RefsExact
  <2> QED BY <2>1, <2>2
<1>13. Boxes'
  <2> SUFFICES ASSUME NEW u \in Tasks
               PROVE  /\ life'[u] \in {"none", "absent"} => state'[u] = "Pending"
                      /\ state'[u] = "Pending" => box'[u] = "none" /\ life'[u] # "freed"
                      /\ state'[u] = "Ready" => box'[u] = IF life'[u] = "live" THEN "handle" ELSE "freed"
                      /\ state'[u] = "Consumed" => box'[u] = "program"
                      /\ state'[u] = "Error" => box'[u] = "none"
    BY DEF Boxes
  <2>1. CASE u = t
    BY <1>2, <1>3, <1>4, <2>1
  <2>2. CASE u # t
    BY <1>1, <1>2, <1>4, <2>2 DEF Boxes
  <2> QED BY <2>1, <2>2
<1>14. AwaitAbandonsOnlyOthers'
  BY <1>2, <1>5, AbandonsReplaced DEF HostLabels
<1> QED BY <1>6, <1>8, <1>9, <1>10, <1>11, <1>12, <1>13, <1>14 DEF IInv

\* A frame that schedules t is the only one, and t is nowhere else.
LEMMA SchedulingFacts ==
  ASSUME IInv, NEW h \in Threads, At(h, "schedule")
  PROVE  /\ Top(h) \in Active /\ Top(h).want \in Tasks /\ Top(h).at = "schedule"
         /\ state[Top(h).want] = "Pending" /\ life[Top(h).want] = "live"
         /\ Top(h).want \notin Range(queue) /\ ~Executing(Top(h).want)
         /\ InCustody(Top(h).want)
         /\ \A x \in Active : x.at = "schedule" /\ x.want = Top(h).want => x = Top(h)
         /\ Top(h).who \in Tasks => state[Top(h).who] = "Pending" /\ Top(h).who # Top(h).want
<1>1. TypeOK /\ Shape /\ Once /\ Calls /\ Holding
  BY DEF IInv
<1>2. Top(h) \in Active /\ Top(h).at = "schedule" /\ CallOK(Top(h))
  BY <1>1, FrameFacts DEF At, Calls
<1>3. /\ Top(h).want \in Tasks /\ state[Top(h).want] = "Pending"
      /\ Top(h).want \notin Range(queue) /\ ~Executing(Top(h).want)
  BY <1>1, <1>2, WantFacts DEF CallOK
<1>4. InCustody(Top(h).want)
  BY <1>2, ExecutingActive
<1>5. life[Top(h).want] = "live"
  BY <1>1, <1>3, <1>4 DEF Holding
<1>6. \A x \in Active : x.at = "schedule" /\ x.want = Top(h).want => x = Top(h)
  BY <1>1, <1>2, ActiveFacts DEF Calls, CallOK
<1>7. Top(h).who \in Tasks => state[Top(h).who] = "Pending" /\ Top(h).who # Top(h).want
  BY <1>2, <1>3, ExecutingActive DEF CallOK
<1> QED BY <1>2, <1>3, <1>4, <1>5, <1>6, <1>7

\* Custody of t goes from the frame that schedules it to the queue.
LEMMA ScheduleInv ==
  ASSUME IInv, NEW h \in Threads, Schedule(h) PROVE IInv'
<1>t. PICK t : t = Top(h).want
  OBVIOUS
<1>1. /\ TypeOK /\ Shape /\ Once /\ Below /\ Calls /\ Queued /\ Begun /\ Holding /\ Boxes
      /\ AwaitAbandonsOnlyOthers
  BY DEF IInv
<1>2. /\ running' = running /\ life' = life /\ refs' = refs /\ state' = state
      /\ box' = box /\ slot' = slot
      /\ queue' = Append(queue, t) /\ Enter(h, "code", None) /\ At(h, "schedule")
  BY <1>t DEF Schedule, handles
<1>3. /\ Top(h) \in Active /\ t \in Tasks /\ Top(h).at = "schedule"
      /\ state[t] = "Pending" /\ t \notin Range(queue) /\ ~Executing(t) /\ InCustody(t)
      /\ \A x \in Active : x.at = "schedule" /\ x.want = t => x = Top(h)
      /\ Top(h).who \in Tasks => state[Top(h).who] = "Pending"
  BY <1>2, <1>t, SchedulingFacts
<1>4. queue' \in Seq(Tasks) /\ IsInjective(queue') /\ Range(queue') = Range(queue) \union {t}
  BY <1>1, <1>2, <1>3, AppendRange DEF TypeOK, Queued
<1>5. PICK f \in Frames : /\ Replaces(h, f) /\ f.who = Top(h).who
                          /\ f.want = None /\ f.at = "code"
  BY <1>1, <1>2, Entering DEF Labels
<1>6. /\ stack' \in [Threads -> Seq(Frames)]
      /\ Shape' /\ Once' /\ Below'
      /\ Active' = (Active \ {Top(h)}) \union {f}
      /\ \A u : Executing(u)' <=> Executing(u)
  BY <1>1, <1>5, Replaced DEF HostLabels
<1>7. \A u : InCustody(u)' <=> InCustody(u)
  <2> SUFFICES ASSUME NEW u PROVE InCustody(u)' <=> InCustody(u)
    OBVIOUS
  <2>1. CASE u = t
    BY <1>3, <1>4, <2>1, ExecutingActive
  <2>2. CASE u # t
    BY <1>3, <1>4, <1>5, <1>6, <1>t, <2>2, ExecutingActive
  <2> QED BY <2>1, <2>2
<1>8. TypeOK'
  BY <1>1, <1>2, <1>4, <1>6 DEF TypeOK
<1>9. Calls'
  <2> SUFFICES ASSUME NEW x \in Active' PROVE CallOK(x)'
    BY DEF Calls
  <2>1. CASE x = f
    BY <1>2, <1>3, <1>5, <2>1 DEF CallOK, AwaitLabels
  <2>2. CASE x # f
    <3>1. x \in Active /\ CallOK(x) /\ (x.at = "schedule" => x.want # t)
      BY <1>1, <1>3, <1>6, <2>2 DEF Calls
    <3> QED BY <1>2, <1>4, <1>6, <3>1 DEF CallOK
  <2> QED BY <2>1, <2>2
<1>10. Queued'
  BY <1>1, <1>2, <1>3, <1>4, <1>6 DEF Queued
<1>11. Begun'
  BY <1>1, <1>2, <1>6, BegunKept
<1>12. Holding'
  BY <1>1, <1>2, <1>7, HoldingKept
<1>13. Boxes'
  BY <1>1, <1>2 DEF Boxes
<1>14. AwaitAbandonsOnlyOthers'
  BY <1>2, <1>5, AbandonsReplaced DEF HostLabels
<1> QED BY <1>6, <1>8, <1>9, <1>10, <1>11, <1>12, <1>13, <1>14 DEF IInv

\* The loop gives its reference to a refused task back, failed.
LEMMA ScheduleRefusedInv ==
  ASSUME IInv, NEW h \in Threads, ScheduleRefused(h) PROVE IInv'
<1>t. PICK t : t = Top(h).want
  OBVIOUS
<1>1. /\ TypeOK /\ Shape /\ Once /\ Below /\ Calls /\ Queued /\ Begun /\ Holding /\ Boxes
      /\ AwaitAbandonsOnlyOthers
  BY DEF IInv
<1>2. /\ queue' = queue /\ running' = running /\ slot' = slot
      /\ state' = [state EXCEPT ![t] = "Error"] /\ Release(t, "Error")
      /\ Enter(h, "code", None) /\ At(h, "schedule")
  BY <1>t DEF ScheduleRefused, Release
<1>3. /\ Top(h) \in Active /\ t \in Tasks /\ Top(h).at = "schedule" /\ life[t] = "live"
      /\ state[t] = "Pending" /\ t \notin Range(queue) /\ ~Executing(t) /\ InCustody(t)
      /\ \A x \in Active : x.at = "schedule" /\ x.want = t => x = Top(h)
      /\ Top(h).who \in Tasks => state[Top(h).who] = "Pending" /\ Top(h).who # t
  BY <1>2, <1>t, SchedulingFacts
<1>4. /\ state' \in [Tasks -> {"Pending", "Ready", "Consumed", "Error"}] /\ state'[t] = "Error"
      /\ \A u \in Tasks \ {t} : state'[u] = state[u]
  BY <1>1, <1>2, <1>3 DEF TypeOK
<1>5. PICK f \in Frames : /\ Replaces(h, f) /\ f.who = Top(h).who
                          /\ f.want = None /\ f.at = "code"
  BY <1>1, <1>2, Entering DEF Labels
<1>6. /\ stack' \in [Threads -> Seq(Frames)]
      /\ Shape' /\ Once' /\ Below'
      /\ Active' = (Active \ {Top(h)}) \union {f}
      /\ \A u : Executing(u)' <=> Executing(u)
  BY <1>1, <1>5, Replaced DEF HostLabels
<1>7. \A u : InCustody(u)' <=> InCustody(u) /\ u # t
  <2> SUFFICES ASSUME NEW u PROVE InCustody(u)' <=> InCustody(u) /\ u # t
    OBVIOUS
  <2>1. CASE u = t
    BY <1>2, <1>3, <1>5, <1>6, <2>1, ExecutingActive
  <2>2. CASE u # t
    BY <1>2, <1>3, <1>5, <1>6, <1>t, <2>2, ExecutingActive
  <2> QED BY <2>1, <2>2
<1>8. TypeOK'
  <2>1. refs[t] > 0
    BY <1>1, <1>3 DEF Holding, RefsExact
  <2>2. /\ refs' \in [Tasks -> 0 .. 2]
        /\ life' \in [Tasks -> {"none", "absent", "live", "freed"}]
        /\ box' \in [Tasks -> {"none", "handle", "program", "freed"}]
    BY <1>1, <1>2, <1>3, <2>1, Released
  <2> QED BY <1>1, <1>2, <1>4, <1>6, <2>2 DEF TypeOK
<1>9. Calls'
  <2> SUFFICES ASSUME NEW x \in Active' PROVE CallOK(x)'
    BY DEF Calls
  <2>1. CASE x = f
    BY <1>2, <1>3, <1>4, <1>5, <2>1 DEF CallOK, AwaitLabels
  <2>2. CASE x # f
    <3>1. x \in Active /\ CallOK(x) /\ (x.at = "schedule" => x.want # t /\ x.want \in Tasks)
      BY <1>1, <1>3, <1>6, <2>2, WantFacts DEF Calls
    <3>2. x.who # t
      BY <1>3, <3>1, ExecutingActive
    <3> QED BY <1>2, <1>4, <1>6, <3>1, <3>2 DEF CallOK
  <2> QED BY <2>1, <2>2
<1>10. Queued'
  <2>1. Range(queue) \subseteq Tasks
    BY <1>1 DEF TypeOK, Range
  <2> QED BY <1>1, <1>2, <1>3, <1>4, <1>6, <2>1 DEF Queued
<1>11. Begun'
  <2>1. \A u \in Tasks : life'[u] # "none" => life[u] # "none"
    <3>1. refs[t] > 0 /\ life[t] = "live"
      BY <1>1, <1>3 DEF Holding, RefsExact
    <3>2. \A u \in Tasks \ {t} : life'[u] = life[u]
      BY <1>1, <1>2, <1>3, <3>1, Released
    <3> QED BY <3>1, <3>2
  <2>2. \A p \in Tasks : state[p] # "Pending" => state'[p] # "Pending"
    BY <1>4
  <2> QED BY <1>1, <1>6, <2>1, <2>2, BegunKept
<1>12. Holding'
  BY <1>1, <1>2, <1>3, <1>4, <1>7, ReleaseHolding
<1>13. Boxes'
  <2>1. Release(t, state'[t])
    BY <1>2, <1>4 DEF Release
  <2> QED BY <1>1, <1>3, <1>4, <2>1, ReleaseBoxes
<1>14. AwaitAbandonsOnlyOthers'
  <2>1. \A u \in Tasks : state'[u] = "Pending" => state[u] = "Pending"
    BY <1>3, <1>4
  <2> QED BY <1>5, <2>1, AbandonsReplaced DEF HostLabels
<1> QED BY <1>6, <1>8, <1>9, <1>10, <1>11, <1>12, <1>13, <1>14 DEF IInv

\* A frame that awaits t is the only one, and holds it.
LEMMA AwaitingFacts ==
  ASSUME IInv, NEW h \in Threads, Top(h).at \in AwaitLabels
  PROVE  /\ Top(h) \in Active /\ Top(h).want \in Tasks /\ Top(h).want # None
         /\ slot[Top(h).want] /\ life[Top(h).want] = "live"
         /\ Parent[Top(h).want] = Top(h).who
         /\ \A x \in Active : x.at \in AwaitLabels /\ x.want = Top(h).want => x = Top(h)
         /\ Top(h).who \in Tasks => state[Top(h).who] = "Pending"
<1>1. TypeOK /\ Shape /\ Once /\ Calls /\ Holding
  BY DEF IInv
<1>2. Top(h) \in Active /\ CallOK(Top(h))
  BY <1>1, FrameFacts DEF Calls
<1>3. /\ Top(h).want \in Tasks /\ slot[Top(h).want] /\ Parent[Top(h).want] = Top(h).who
      /\ Top(h).want # None
  BY <1>1, <1>2, WantFacts DEF CallOK
<1>4. life[Top(h).want] = "live"
  BY <1>1, <1>3 DEF Holding
<1>5. \A x \in Active : x.at \in AwaitLabels /\ x.want = Top(h).want => x = Top(h)
  BY <1>1, <1>2, <1>3, ActiveFacts DEF Calls, CallOK
<1>6. Top(h).who \in Tasks => state[Top(h).who] = "Pending"
  BY <1>2 DEF CallOK, AwaitLabels
<1> QED BY <1>2, <1>3, <1>4, <1>5, <1>6

\* The box of a ready future becomes the program's.
LEMMA TakeInv ==
  ASSUME IInv, NEW h \in Threads, Take(h) PROVE IInv'
<1>t. PICK t : t = Top(h).want
  OBVIOUS
<1>1. /\ TypeOK /\ Shape /\ Once /\ Below /\ Calls /\ Queued /\ Begun /\ Holding /\ Boxes
      /\ AwaitAbandonsOnlyOthers
  BY DEF IInv
<1>2. /\ queue' = queue /\ running' = running /\ life' = life /\ refs' = refs /\ slot' = slot
      /\ IF state[t] = "Ready"
         THEN /\ box' = [box EXCEPT ![t] = "program"]
              /\ state' = [state EXCEPT ![t] = "Consumed"]
         ELSE box' = box /\ state' = state
      /\ Goto(h, "drop") /\ Top(h).at = "take"
  BY <1>t DEF Take, At
<1>3. /\ Top(h) \in Active /\ t \in Tasks /\ t # None
      /\ slot[t] /\ life[t] = "live" /\ Parent[t] = Top(h).who
      /\ Top(h).who \in Tasks => state[Top(h).who] = "Pending"
  BY <1>2, <1>t, AwaitingFacts DEF AwaitLabels
<1>4. /\ state' \in [Tasks -> {"Pending", "Ready", "Consumed", "Error"}]
      /\ box' \in [Tasks -> {"none", "handle", "program", "freed"}]
      /\ \A u \in Tasks : state'[u] = "Pending" <=> state[u] = "Pending"
      /\ \A u \in Tasks \ {t} : state'[u] = state[u] /\ box'[u] = box[u]
      /\ state[t] = "Ready" => state'[t] = "Consumed" /\ box'[t] = "program"
      /\ state[t] # "Ready" => state'[t] = state[t] /\ box'[t] = box[t]
  BY <1>1, <1>2, <1>3 DEF TypeOK
<1>5. PICK f \in Frames : /\ Replaces(h, f) /\ f.who = Top(h).who
                          /\ f.want = t /\ f.at = "drop"
  BY <1>1, <1>2, <1>t, Going DEF Labels
<1>6. /\ stack' \in [Threads -> Seq(Frames)]
      /\ Shape' /\ Once' /\ Below'
      /\ Active' = (Active \ {Top(h)}) \union {f}
      /\ \A u : Executing(u)' <=> Executing(u)
  BY <1>1, <1>5, Replaced DEF HostLabels
<1>7. \A u : InCustody(u)' <=> InCustody(u)
  BY <1>2, <1>3, <1>5, <1>6, ExecutingActive
<1>8. TypeOK'
  BY <1>1, <1>2, <1>4, <1>6 DEF TypeOK
<1>9. Calls'
  <2> SUFFICES ASSUME NEW x \in Active' PROVE CallOK(x)'
    BY DEF Calls
  <2>1. CASE x = f
    BY <1>2, <1>3, <1>4, <1>5, <2>1 DEF CallOK, AwaitLabels
  <2>2. CASE x # f
    <3>1. x \in Active /\ CallOK(x) /\ (x.at = "schedule" => x.want \in Tasks)
      BY <1>1, <1>6, <2>2, WantFacts DEF Calls
    <3> QED BY <1>2, <1>4, <1>6, <3>1 DEF CallOK
  <2> QED BY <2>1, <2>2
<1>10. Queued'
  <2>1. Range(queue) \subseteq Tasks
    BY <1>1 DEF TypeOK, Range
  <2> QED BY <1>1, <1>2, <1>4, <1>6, <2>1 DEF Queued
<1>11. Begun'
  BY <1>1, <1>2, <1>4, <1>6, BegunKept
<1>12. Holding'
  BY <1>1, <1>2, <1>4, <1>7, HoldingKept
<1>13. Boxes'
  <2> SUFFICES ASSUME NEW u \in Tasks
               PROVE  /\ life'[u] \in {"none", "absent"} => state'[u] = "Pending"
                      /\ state'[u] = "Pending" => box'[u] = "none" /\ life'[u] # "freed"
                      /\ state'[u] = "Ready" => box'[u] = IF life'[u] = "live" THEN "handle" ELSE "freed"
                      /\ state'[u] = "Consumed" => box'[u] = "program"
                      /\ state'[u] = "Error" => box'[u] = "none"
    BY DEF Boxes
  <2>1. CASE u = t /\ state[t] = "Ready"
    BY <1>2, <1>3, <1>4, <2>1
  <2>2. CASE ~(u = t /\ state[t] = "Ready")
    <3>1. state'[u] = state[u] /\ box'[u] = box[u]
      BY <1>4, <2>2
    <3> QED BY <1>1, <1>2, <3>1 DEF Boxes
  <2> QED BY <2>1, <2>2
<1>14. AwaitAbandonsOnlyOthers'
  BY <1>4, <1>5, AbandonsReplaced DEF HostLabels
<1> QED BY <1>6, <1>8, <1>9, <1>10, <1>11, <1>12, <1>13, <1>14 DEF IInv

\* The await gives the program's reference back.
LEMMA DropInv ==
  ASSUME IInv, NEW h \in Threads, Drop(h) PROVE IInv'
<1>t. PICK t : t = Top(h).want
  OBVIOUS
<1>1. /\ TypeOK /\ Shape /\ Once /\ Below /\ Calls /\ Queued /\ Begun /\ Holding /\ Boxes
      /\ AwaitAbandonsOnlyOthers
  BY DEF IInv
<1>2. /\ queue' = queue /\ running' = running /\ state' = state
      /\ slot' = [slot EXCEPT ![t] = FALSE] /\ Release(t, state[t])
      /\ Enter(h, "code", None) /\ Top(h).at = "drop"
  BY <1>t DEF Drop, At, Release
<1>3. /\ Top(h) \in Active /\ t \in Tasks
      /\ slot[t] /\ life[t] = "live"
      /\ \A x \in Active : x.at \in AwaitLabels /\ x.want = t => x = Top(h)
      /\ Top(h).who \in Tasks => state[Top(h).who] = "Pending"
  BY <1>2, <1>t, AwaitingFacts DEF AwaitLabels
<1>4. /\ slot' \in [Tasks -> BOOLEAN] /\ ~slot'[t]
      /\ \A u \in Tasks \ {t} : slot'[u] = slot[u]
  BY <1>1, <1>2, <1>3 DEF TypeOK
<1>5. PICK f \in Frames : /\ Replaces(h, f) /\ f.who = Top(h).who
                          /\ f.want = None /\ f.at = "code"
  BY <1>1, <1>2, Entering DEF Labels
<1>6. /\ stack' \in [Threads -> Seq(Frames)]
      /\ Shape' /\ Once' /\ Below'
      /\ Active' = (Active \ {Top(h)}) \union {f}
      /\ \A u : Executing(u)' <=> Executing(u)
  BY <1>1, <1>5, Replaced DEF HostLabels
<1>7. \A u : InCustody(u)' <=> InCustody(u)
  BY <1>2, <1>3, <1>5, <1>6, ExecutingActive
<1>8. refs[t] > 0
  BY <1>1, <1>3 DEF Holding, RefsExact
<1>9. /\ refs' \in [Tasks -> 0 .. 2]
      /\ life' \in [Tasks -> {"none", "absent", "live", "freed"}]
      /\ box' \in [Tasks -> {"none", "handle", "program", "freed"}]
      /\ \A u \in Tasks \ {t} : life'[u] = life[u]
  BY <1>1, <1>2, <1>3, <1>8, Released
<1>10. TypeOK'
  BY <1>1, <1>2, <1>4, <1>6, <1>9 DEF TypeOK
<1>11. Calls'
  <2> SUFFICES ASSUME NEW x \in Active' PROVE CallOK(x)'
    BY DEF Calls
  <2>1. CASE x = f
    BY <1>2, <1>3, <1>5, <2>1 DEF CallOK, AwaitLabels
  <2>2. CASE x # f
    <3>1. x \in Active /\ CallOK(x) /\ (x.at \in AwaitLabels => x.want # t /\ x.want \in Tasks)
      BY <1>1, <1>3, <1>6, <2>2, WantFacts DEF Calls
    <3> QED BY <1>2, <1>4, <1>6, <3>1 DEF CallOK
  <2> QED BY <2>1, <2>2
<1>12. Queued'
  BY <1>1, <1>2, <1>6 DEF Queued
<1>13. Begun'
  <2>1. \A u \in Tasks : life'[u] # "none" => life[u] # "none"
    BY <1>3, <1>9
  <2> QED BY <1>1, <1>2, <1>6, <2>1, BegunKept
<1>14. Holding'
  BY <1>1, <1>2, <1>3, <1>4, <1>7, ReleaseHolding
<1>15. Boxes'
  <2>1. Release(t, state'[t])
    BY <1>2
  <2>2. state'[t] = "Pending" => refs[t] # 1
    BY <1>1, <1>2, <1>3 DEF Holding, RefsExact
  <2>3. state' \in [Tasks -> {"Pending", "Ready", "Consumed", "Error"}]
    BY <1>1, <1>2 DEF TypeOK
  <2> QED BY <1>1, <1>2, <1>3, <2>1, <2>2, <2>3, ReleaseBoxes
<1>16. AwaitAbandonsOnlyOthers'
  BY <1>2, <1>5, AbandonsReplaced DEF HostLabels
<1> QED BY <1>6, <1>10, <1>11, <1>12, <1>13, <1>14, <1>15, <1>16 DEF IInv

\* A frame above the first runs a task, in the loop's custody.
LEMMA RunningFacts ==
  ASSUME IInv, NEW h \in Threads, Depth(h) > 1
  PROVE  /\ Top(h) \in Active /\ Top(h).who \in Tasks /\ Executing(Top(h).who)
         /\ InCustody(Top(h).who) /\ life[Top(h).who] = "live"
         /\ Top(h).who \notin Range(queue)
         /\ \A x \in Active : x.who = Top(h).who => x = Top(h)
         /\ \A x \in Active : x.at = "schedule" => x.want # Top(h).who
         /\ Top(h).at = "release" <=> state[Top(h).who] # "Pending"
<1>1. TypeOK /\ Shape /\ Once /\ Calls /\ Holding /\ Queued
  BY DEF IInv
<1>2. Top(h) \in Active /\ CallOK(Top(h)) /\ Top(h).who \in Tasks
  BY <1>1, FrameFacts, HostDepth DEF Calls
<1>3. Executing(Top(h).who) /\ InCustody(Top(h).who)
  BY <1>2, ExecutingActive
<1>4. life[Top(h).who] = "live" /\ Top(h).who \notin Range(queue)
  BY <1>1, <1>2, <1>3 DEF Holding, Queued
<1>5. \A x \in Active : x.who = Top(h).who => x = Top(h)
  BY <1>1, <1>2, ActiveFacts
<1>6. \A x \in Active : x.at = "schedule" => x.want # Top(h).who
  BY <1>1, <1>3 DEF Calls, CallOK
<1> QED BY <1>2, <1>3, <1>4, <1>5, <1>6 DEF CallOK

\* A task ends: its future has an outcome from now on.
LEMMA FinishInv ==
  ASSUME IInv, NEW h \in Threads, Finish(h) PROVE IInv'
<1>t. PICK t : t = Top(h).who
  OBVIOUS
<1>1. /\ TypeOK /\ Shape /\ Once /\ Below /\ Calls /\ Queued /\ Begun /\ Holding /\ Boxes
      /\ AwaitAbandonsOnlyOthers
  BY DEF IInv
<1>2. /\ queue' = queue /\ running' = running /\ life' = life /\ refs' = refs /\ slot' = slot
      /\ \/ /\ box' = [box EXCEPT ![t] = "handle"]
            /\ state' = [state EXCEPT ![t] = "Ready"]
         \/ state' = [state EXCEPT ![t] = "Error"] /\ box' = box
      /\ Goto(h, "release") /\ Top(h).at = "code" /\ Depth(h) > 1
  BY <1>t DEF Finish, At
<1>3. /\ Top(h) \in Active /\ t \in Tasks /\ life[t] = "live" /\ state[t] = "Pending"
      /\ t \notin Range(queue)
      /\ \A x \in Active : x.who = t => x = Top(h)
      /\ \A x \in Active : x.at = "schedule" => x.want # t
  BY <1>2, <1>t, RunningFacts
<1>4. /\ state' \in [Tasks -> {"Pending", "Ready", "Consumed", "Error"}]
      /\ box' \in [Tasks -> {"none", "handle", "program", "freed"}]
      /\ \A u \in Tasks \ {t} : state'[u] = state[u] /\ box'[u] = box[u]
      /\ \/ state'[t] = "Ready" /\ box'[t] = "handle"
         \/ state'[t] = "Error" /\ box'[t] = box[t]
  BY <1>1, <1>2, <1>3 DEF TypeOK
<1>5. PICK f \in Frames : /\ Replaces(h, f) /\ f.who = Top(h).who
                          /\ f.want = Top(h).want /\ f.at = "release"
  BY <1>1, <1>2, Going DEF Labels
<1>6. /\ stack' \in [Threads -> Seq(Frames)]
      /\ Shape' /\ Once' /\ Below'
      /\ Active' = (Active \ {Top(h)}) \union {f}
      /\ \A u : Executing(u)' <=> Executing(u)
  BY <1>1, <1>2, <1>5, Replaced DEF HostLabels
<1>7. \A u : InCustody(u)' <=> InCustody(u)
  BY <1>2, <1>3, <1>5, <1>6, ExecutingActive
<1>8. TypeOK'
  BY <1>1, <1>2, <1>4, <1>6 DEF TypeOK
<1>9. Calls'
  <2> SUFFICES ASSUME NEW x \in Active' PROVE CallOK(x)'
    BY DEF Calls
  <2>1. CASE x = f
    <3>1. CallOK(Top(h))
      BY <1>1, <1>3 DEF Calls
    <3> QED BY <1>2, <1>3, <1>4, <1>5, <1>t, <2>1, <3>1 DEF CallOK, AwaitLabels
  <2>2. CASE x # f
    <3>1. /\ x \in Active /\ CallOK(x) /\ x.who # t
          /\ x.at = "schedule" => x.want # t /\ x.want \in Tasks
      BY <1>1, <1>3, <1>6, <2>2, WantFacts DEF Calls
    <3> QED BY <1>2, <1>4, <1>6, <3>1 DEF CallOK
  <2> QED BY <2>1, <2>2
<1>10. Queued'
  <2>1. Range(queue) \subseteq Tasks
    BY <1>1 DEF TypeOK, Range
  <2> QED BY <1>1, <1>2, <1>3, <1>4, <1>6, <2>1 DEF Queued
<1>11. Begun'
  <2>1. \A p \in Tasks : state[p] # "Pending" => state'[p] # "Pending"
    BY <1>3, <1>4
  <2> QED BY <1>1, <1>2, <1>6, <2>1, BegunKept
<1>12. Holding'
  <2>1. \A u \in Tasks : state'[u] = "Pending" => state[u] = "Pending"
    BY <1>3, <1>4
  <2> QED BY <1>1, <1>2, <1>7, <2>1, HoldingKept
<1>13. Boxes'
  <2> SUFFICES ASSUME NEW u \in Tasks
               PROVE  /\ life'[u] \in {"none", "absent"} => state'[u] = "Pending"
                      /\ state'[u] = "Pending" => box'[u] = "none" /\ life'[u] # "freed"
                      /\ state'[u] = "Ready" => box'[u] = IF life'[u] = "live" THEN "handle" ELSE "freed"
                      /\ state'[u] = "Consumed" => box'[u] = "program"
                      /\ state'[u] = "Error" => box'[u] = "none"
    BY DEF Boxes
  <2>1. CASE u = t
    <3>1. box[t] = "none"
      BY <1>1, <1>3 DEF Boxes
    <3> QED BY <1>2, <1>3, <1>4, <2>1, <3>1
  <2>2. CASE u # t
    <3>1. state'[u] = state[u] /\ box'[u] = box[u]
      BY <1>4, <2>2
    <3> QED BY <1>1, <1>2, <3>1 DEF Boxes
  <2> QED BY <2>1, <2>2
<1>14. AwaitAbandonsOnlyOthers'
  <2>1. \A u \in Tasks : state'[u] = "Pending" => state[u] = "Pending"
    BY <1>3, <1>4
  <2> QED BY <1>2, <1>5, <2>1, AbandonsReplaced DEF HostLabels
<1> QED BY <1>6, <1>8, <1>9, <1>10, <1>11, <1>12, <1>13, <1>14 DEF IInv

\* The frame of an ended task leaves, with the loop's reference.
LEMMA LeaveInv ==
  ASSUME IInv, NEW h \in Threads, Leave(h) PROVE IInv'
<1>t. PICK t : t = Top(h).who
  OBVIOUS
<1>1. /\ TypeOK /\ Shape /\ Once /\ Below /\ Calls /\ Queued /\ Begun /\ Holding /\ Boxes
      /\ AwaitAbandonsOnlyOthers
  BY DEF IInv
<1>2. /\ queue' = queue /\ running' = running /\ state' = state /\ slot' = slot
      /\ stack' = [stack EXCEPT ![h] = SubSeq(stack[h], 1, Depth(h) - 1)]
      /\ Release(t, state[t]) /\ Top(h).at = "release"
  BY <1>t DEF Leave, At, Release
<1>3. Depth(h) > 1
  BY <1>1, <1>2, HostDepth
<1>4. /\ Top(h) \in Active /\ t \in Tasks /\ life[t] = "live" /\ state[t] # "Pending"
      /\ InCustody(t) /\ t \notin Range(queue)
      /\ \A x \in Active : x.who = t => x = Top(h)
      /\ \A x \in Active : x.at = "schedule" => x.want # t
  BY <1>2, <1>3, <1>t, RunningFacts
<1>5. /\ stack' \in [Threads -> Seq(Frames)]
      /\ \A g \in Threads : Depth(g)' = IF g = h THEN Depth(h) - 1 ELSE Depth(g)
      /\ \A g \in Threads : \A d \in 1 .. Depth(g)' : stack'[g][d] = stack[g][d]
      /\ Shape' /\ Once' /\ Below'
      /\ Active' = Active \ {Top(h)}
      /\ \A u : Executing(u)' <=> Executing(u) /\ u # t
  BY <1>1, <1>2, <1>3, <1>t, Popped
<1>6. \A u : InCustody(u)' <=> InCustody(u) /\ u # t
  <2> SUFFICES ASSUME NEW u PROVE InCustody(u)' <=> InCustody(u) /\ u # t
    OBVIOUS
  <2>1. CASE u = t
    BY <1>2, <1>4, <1>5, <2>1, ExecutingActive
  <2>2. CASE u # t
    BY <1>2, <1>4, <1>5, <2>2, ExecutingActive
  <2> QED BY <2>1, <2>2
<1>7. refs[t] > 0
  BY <1>1, <1>4 DEF Holding, RefsExact
<1>8. /\ refs' \in [Tasks -> 0 .. 2]
      /\ life' \in [Tasks -> {"none", "absent", "live", "freed"}]
      /\ box' \in [Tasks -> {"none", "handle", "program", "freed"}]
      /\ \A u \in Tasks \ {t} : life'[u] = life[u]
  BY <1>1, <1>2, <1>4, <1>7, Released
<1>9. TypeOK'
  BY <1>1, <1>2, <1>5, <1>8 DEF TypeOK
<1>10. Calls'
  <2> SUFFICES ASSUME NEW x \in Active' PROVE CallOK(x)'
    BY DEF Calls
  <2>1. x \in Active /\ CallOK(x)
    BY <1>1, <1>5 DEF Calls
  <2> QED BY <1>2, <1>5, <2>1 DEF CallOK
<1>11. Queued'
  BY <1>1, <1>2, <1>5 DEF Queued
<1>12. Begun'
  <2>1. \A u \in Tasks : life'[u] # "none" => life[u] # "none"
    BY <1>4, <1>8
  <2>2. \A p \in Tasks : Executing(p) => Executing(p)' \/ state'[p] # "Pending"
    BY <1>2, <1>4, <1>5
  <2> QED BY <1>1, <1>2, <2>1, <2>2, BegunKept
<1>13. Holding'
  BY <1>1, <1>2, <1>4, <1>6, ReleaseHolding
<1>14. Boxes'
  <2>1. state' \in [Tasks -> {"Pending", "Ready", "Consumed", "Error"}]
    BY <1>1, <1>2 DEF TypeOK
  <2>2. Release(t, state'[t])
    BY <1>2
  <2> QED BY <1>1, <1>2, <1>4, <2>1, <2>2, ReleaseBoxes
<1>15. AwaitAbandonsOnlyOthers'
  <2>1. \A g \in Threads \ {h} : stack'[g] = stack[g]
    BY <1>1, <1>2 DEF TypeOK
  <2>2. Depth(h) \in Nat /\ Depth(h)' = Depth(h) - 1 /\ Top(h) = stack[h][Depth(h)]
    BY <1>1, <1>5, FrameFacts DEF Top
  <2>3. Top(h)'.at # "take"
    <3>1. Top(h)' = stack'[h][Depth(h) - 1] /\ Depth(h) - 1 \in 1 .. Depth(h)'
          /\ Depth(h) - 1 \in 1 .. Depth(h)
      BY <1>3, <2>2 DEF Top
    <3>2. Top(h)' = stack[h][Depth(h) - 1]
      BY <1>5, <3>1
    <3>3. stack[h][Depth(h) - 1].at \in {"poll", "pump"}
      BY <1>1, <2>2, <3>1 DEF Shape
    <3> QED BY <3>2, <3>3
  <2>4. ASSUME NEW u \in Tasks, state'[u] = "Pending",
               \E d \in 1 .. Depth(h) : stack[h][d].who = u
        PROVE  \E d \in 1 .. Depth(h)' : stack'[h][d].who = u
    <3>1. PICK d \in 1 .. Depth(h) : stack[h][d].who = u
      BY <2>4
    <3>2. d # Depth(h)
      BY <1>2, <1>4, <1>t, <2>2, <2>4, <3>1
    <3>3. d \in 1 .. Depth(h)' /\ stack'[h][d].who = u
      BY <1>5, <2>2, <3>1, <3>2
    <3> QED BY <3>3
  <2> QED BY <1>2, <2>1, <2>3, <2>4, AbandonsKept
<1> QED BY <1>5, <1>9, <1>10, <1>11, <1>12, <1>13, <1>14, <1>15 DEF IInv

\* The shutdown fails and releases the head of the queue.
LEMMA DrainInv ==
  ASSUME IInv, NEW h \in Threads, Drain(h) PROVE IInv'
<1>t. PICK t : t = Head(queue)
  OBVIOUS
<1>1. /\ TypeOK /\ Shape /\ Once /\ Below /\ Calls /\ Queued /\ Begun /\ Holding /\ Boxes
      /\ AwaitAbandonsOnlyOthers
  BY DEF IInv
<1>2. /\ stack' = stack /\ running' = running /\ slot' = slot /\ queue' = Tail(queue)
      /\ queue # <<>> /\ Top(h).at = "drain"
      /\ state' = [state EXCEPT ![t] = "Error"] /\ Release(t, "Error")
  BY <1>t DEF Drain, At, Release
<1>3. /\ t \in Range(queue) /\ t \in Tasks /\ queue' \in Seq(Tasks) /\ IsInjective(queue')
      /\ Range(queue') = Range(queue) \ {t}
  BY <1>1, <1>2, <1>t, TailRange DEF Queued, TypeOK
<1>4. state[t] = "Pending" /\ ~Executing(t) /\ InCustody(t) /\ life[t] = "live"
  BY <1>1, <1>3 DEF Queued, InCustody, Holding
<1>5. /\ state' \in [Tasks -> {"Pending", "Ready", "Consumed", "Error"}] /\ state'[t] = "Error"
      /\ \A u \in Tasks \ {t} : state'[u] = state[u]
  BY <1>1, <1>2, <1>3 DEF TypeOK
<1>6. (\A u : Executing(u)' <=> Executing(u)) /\ Active' = Active
  BY <1>2 DEF Executing, Active, Depth
<1>7. \A x \in Active : CallOK(x) /\ x.who # t /\ (x.at = "schedule" => x.want # t /\ x.want \in Tasks)
  BY <1>1, <1>3, <1>4, ExecutingActive, WantFacts DEF Calls, CallOK
<1>8. \A u : InCustody(u)' <=> InCustody(u) /\ u # t
  BY <1>3, <1>4, <1>6, <1>7, ExecutingActive
<1>9. TypeOK'
  <2>1. refs[t] > 0
    BY <1>1, <1>3, <1>4 DEF Holding, RefsExact
  <2>2. /\ refs' \in [Tasks -> 0 .. 2]
        /\ life' \in [Tasks -> {"none", "absent", "live", "freed"}]
        /\ box' \in [Tasks -> {"none", "handle", "program", "freed"}]
    BY <1>1, <1>2, <1>3, <2>1, Released
  <2> QED BY <1>1, <1>2, <1>3, <1>5, <2>2 DEF TypeOK
<1>10. Shape' /\ Once' /\ Below'
  BY <1>1, <1>2 DEF Shape, Once, Below, Depth
<1>11. Calls'
  <2> SUFFICES ASSUME NEW x \in Active PROVE CallOK(x)'
    BY <1>6 DEF Calls
  <2> QED BY <1>2, <1>3, <1>5, <1>6, <1>7 DEF CallOK
<1>12. Queued'
  <2>1. Range(queue) \subseteq Tasks
    BY <1>1 DEF TypeOK, Range
  <2> QED BY <1>1, <1>3, <1>5, <1>6, <2>1 DEF Queued
<1>13. Begun'
  <2>1. \A u \in Tasks : life'[u] # "none" => life[u] # "none"
    <3>1. refs[t] > 0
      BY <1>1, <1>3, <1>4 DEF Holding, RefsExact
    <3>2. \A u \in Tasks \ {t} : life'[u] = life[u]
      BY <1>1, <1>2, <1>3, <3>1, Released
    <3> QED BY <1>4, <3>2
  <2>2. \A p \in Tasks : state[p] # "Pending" => state'[p] # "Pending"
    BY <1>5
  <2> QED BY <1>1, <1>6, <2>1, <2>2, BegunKept
<1>14. Holding'
  BY <1>1, <1>2, <1>3, <1>4, <1>5, <1>8, ReleaseHolding
<1>15. Boxes'
  <2>1. Release(t, state'[t])
    BY <1>2, <1>5 DEF Release
  <2> QED BY <1>1, <1>3, <1>4, <1>5, <2>1, ReleaseBoxes
<1>16. AwaitAbandonsOnlyOthers'
  <2>1. Top(h)' = Top(h) /\ Depth(h)' = Depth(h)
    BY <1>2 DEF Top, Depth
  <2>2. \A u \in Tasks : state'[u] = "Pending" => state[u] = "Pending"
    BY <1>4, <1>5
  <2> QED BY <1>2, <2>1, <2>2, AbandonsKept
<1> QED BY <1>9, <1>10, <1>11, <1>12, <1>13, <1>14, <1>15, <1>16 DEF IInv

-----------------------------------------------------------------------------
(* The invariant                                                           *)

\* A stutter keeps the invariant.
LEMMA StutterInv ==
  ASSUME IInv, UNCHANGED vars PROVE IInv'
<1>1. /\ stack' = stack /\ queue' = queue /\ running' = running /\ life' = life
      /\ refs' = refs /\ state' = state /\ box' = box /\ slot' = slot
  BY DEF vars
<1>2. /\ \A u : Executing(u)' <=> Executing(u)
      /\ \A u : InCustody(u)' <=> InCustody(u)
      /\ Active' = Active
  BY <1>1 DEF Executing, InCustody, Inside, Active, Depth
<1>3. TypeOK' /\ Shape' /\ Once' /\ Below' /\ Queued' /\ Boxes' /\ AwaitAbandonsOnlyOthers'
  BY <1>1, <1>2
     DEF IInv, TypeOK, Shape, Once, Below, Queued, Boxes, AwaitAbandonsOnlyOthers, At, Top, Depth
<1>4. Calls'
  <2> SUFFICES ASSUME NEW x \in Active PROVE CallOK(x)'
    BY <1>2 DEF Calls
  <2> QED BY <1>1, <1>2 DEF IInv, Calls, CallOK
<1>5. Begun' /\ Holding'
  BY <1>1, <1>2, BegunKept, HoldingKept DEF IInv
<1> QED BY <1>3, <1>4, <1>5 DEF IInv

\* Only the threads' own code runs at first: nothing is held.
LEMMA InitInv == Init => IInv
<1> SUFFICES ASSUME Init PROVE IInv
  OBVIOUS
<1>1. \A h \in Threads : Frame(h) \in Frames /\ Frame(h).who = h /\ Frame(h).at = "code"
                         /\ Frame(h).want = None
  BY DEF Frame, Frames, Labels, Codes
<1>2. \A h \in Threads : stack[h] = <<Frame(h)>> /\ Depth(h) = 1 /\ stack[h][1] = Frame(h)
                         /\ Top(h) = Frame(h)
  BY DEF Init, Depth, Top
<1>3. \A x \in Active : \E h \in Threads : x = Frame(h)
  BY <1>2 DEF Active
<1>4. \A t \in Tasks : ~Executing(t)
  BY <1>1, <1>2, LoopAssumption DEF Executing
<1>5. TypeOK
  <2>1. stack \in [Threads -> Seq(Frames)]
    BY <1>1 DEF Init
  <2> QED BY <2>1 DEF Init, TypeOK
<1>6. Shape /\ Once /\ Below /\ AwaitAbandonsOnlyOthers
  BY <1>1, <1>2 DEF Shape, Once, Below, AwaitAbandonsOnlyOthers, At, HostLabels
<1>7. Calls
  <2> SUFFICES ASSUME NEW h \in Threads PROVE CallOK(Frame(h))
    BY <1>3 DEF Calls
  <2> QED BY <1>1, LoopAssumption DEF CallOK, AwaitLabels
<1>8. Range(queue) = {} /\ IsInjective(queue)
  BY DEF Init, Range, IsInjective
<1>9. Queued
  BY <1>8 DEF Queued
<1>10. Begun
  BY DEF Begun, Init
<1>11. \A t \in Tasks : ~InCustody(t)
  BY <1>1, <1>3, <1>4, <1>8, ExecutingActive
<1>12. Holding
  BY <1>11 DEF Init, Holding, RefsExact
<1>13. Boxes
  BY DEF Init, Boxes
<1> QED BY <1>5, <1>6, <1>7, <1>9, <1>10, <1>12, <1>13 DEF IInv

\* Every step keeps the invariant.
LEMMA NextInv ==
  ASSUME IInv, [Next]_vars PROVE IInv'
<1>1. CASE UNCHANGED vars
  BY <1>1, StutterInv
<1>2. ASSUME NEW h \in Threads, CodeStep(h) PROVE IInv'
  BY <1>2, AsyncInv, AsyncFailsInv, AwaitInv DEF CodeStep
<1>3. ASSUME NEW h \in Threads, LoopStep(h) PROVE IInv'
  <2>1. CASE Schedule(h) \/ ScheduleRefused(h) \/ PollState(h) \/ PollCount(h) \/ RunOnce(h)
    BY <2>1, ScheduleInv, ScheduleRefusedInv, PollStateInv, PollCountInv, RunOnceInv
  <2>2. CASE Take(h) \/ Drop(h) \/ Finish(h) \/ Leave(h) \/ PumpCheck(h) \/ PumpPop(h)
    BY <2>2, TakeInv, DropInv, FinishInv, LeaveInv, PumpCheckInv, PumpPopInv
  <2>3. CASE HaltLock(h) \/ Drain(h) \/ HaltReturns(h)
    BY <2>3, HaltLockInv, DrainInv, HaltReturnsInv
  <2> QED BY <1>3, <2>1, <2>2, <2>3 DEF LoopStep
<1>4. ASSUME NEW h \in Threads, HostStep(h) PROVE IInv'
  BY <1>4, PumpInv, HaltInv DEF HostStep
<1> QED BY <1>1, <1>2, <1>3, <1>4 DEF Next

\* The ten parts are inductive, for any threads and tasks.
LEMMA Invariance == Spec => []IInv
BY InitInv, NextInv, PTL DEF Spec

\* HandlesSound: the reference count of a live future is its holders', no
\* await, queue or running frame touches a freed one, and a future that dies
\* frees its box exactly when the program has not taken it, however the
\* threads interleave and however deep the awaits nest.
THEOREM HandlesAlwaysSound == Spec => []HandlesSound
<1>1. ASSUME IInv PROVE HandlesSound
  <2>1. TypeOK /\ RefsExact
    BY <1>1 DEF IInv, Holding
  <2>2. ASSUME NEW t \in Tasks, InCustody(t) \/ Awaited(t) PROVE life[t] = "live"
    <3>1. CASE InCustody(t)
      BY <1>1, <3>1 DEF IInv, Holding
    <3>2. CASE Awaited(t)
      <4>1. PICK f \in Active : f.want = t /\ f.at \in AwaitLabels
        BY <3>2 DEF Awaited, Inside, Active, AwaitLabels
      <4>2. slot[t]
        BY <1>1, <4>1 DEF IInv, Calls, CallOK
      <4> QED BY <1>1, <4>2 DEF IInv, Holding
    <3> QED BY <2>2, <3>1, <3>2
  <2>3. BoxFollowsHandle
    <3> SUFFICES ASSUME NEW t \in Tasks
                 PROVE  /\ life[t] = "freed" => box[t] # "handle"
                        /\ state[t] = "Consumed" <=> box[t] = "program"
      BY DEF BoxFollowsHandle
    <3>1. /\ state[t] = "Pending" => box[t] = "none"
          /\ state[t] = "Ready" => box[t] = IF life[t] = "live" THEN "handle" ELSE "freed"
          /\ state[t] = "Consumed" => box[t] = "program"
          /\ state[t] = "Error" => box[t] = "none"
      BY <1>1 DEF IInv, Boxes
    <3>2. state[t] \in {"Pending", "Ready", "Consumed", "Error"}
      BY <2>1 DEF TypeOK
    <3> QED BY <3>1, <3>2
  <2> QED BY <2>1, <2>2, <2>3 DEF HandlesSound, NoUseAfterFree
<1> QED BY <1>1, Invariance, PTL

\* AwaitAbandonsOnlyOthers: __lucid_await returns null for a pending future
\* only while another thread runs its task; a loop with one thread never does.
THEOREM AwaitsAbandonOnlyOthers == Spec => []AwaitAbandonsOnlyOthers
<1>1. IInv => AwaitAbandonsOnlyOthers
  BY DEF IInv
<1> QED BY <1>1, Invariance, PTL

-----------------------------------------------------------------------------
(* EventLoop implements TaskLifecycle                                      *)

\* What TaskLifecycle sees of the tasks does not change.
LEMMA PhasesFrame ==
  ASSUME \A u \in Tasks : Phase(u)' = Phase(u)
  PROVE  [u \in Tasks |-> Phase(u)]' = [u \in Tasks |-> Phase(u)]
OBVIOUS

\* Nor do the owners of the boxes.
LEMMA OwnerFrame ==
  ASSUME \A u \in Tasks : Owner(u)' = Owner(u)
  PROVE  [u \in Tasks |-> Owner(u)]' = [u \in Tasks |-> Owner(u)]
OBVIOUS

\* A step that moves the phase of t alone.
LEMMA PhaseStep ==
  ASSUME NEW t \in Tasks, NEW from, NEW to, Phase(t) = from, Phase(t)' = to,
         \A u \in Tasks : u # t => Phase(u)' = Phase(u)
  PROVE  Lifecycle!Become(t, from, to)
BY DEF Lifecycle!Become

\* A step within a frame that touches no future is a stutter, or the close.
LEMMA FrameMaps ==
  ASSUME IInv, NEW h \in Threads, NEW f \in Frames, Replaces(h, f), f.who = Top(h).who,
         f.at \in HostLabels => Depth(h) = 1, f.at # "release",
         UNCHANGED handles, running' = running \/ running' = FALSE
  PROVE  [Lifecycle!Next]_(Lifecycle!vars)
<1>1. TypeOK /\ Shape /\ Once
  BY DEF IInv
<1>2. \A u \in Tasks : Phase(u)' = Phase(u) /\ Owner(u)' = Owner(u)
  <2>1. \A u : Executing(u)' <=> Executing(u)
    BY <1>1, Replaced
  <2> QED BY <2>1 DEF Phase, Owner, handles
<1>3. CASE running' = running
  BY <1>2, <1>3, PhasesFrame, OwnerFrame DEF Lifecycle!vars
<1>4. CASE running' = FALSE
  <2>1. Lifecycle!Close
    BY <1>2, <1>4, PhasesFrame, OwnerFrame DEF Lifecycle!Close
  <2> QED BY <2>1 DEF Lifecycle!Next
<1> QED BY <1>3, <1>4

\* Likewise for a step written with Goto.
LEMMA GotoMaps ==
  ASSUME IInv, NEW h \in Threads, NEW label \in Labels \ {"release"}, Goto(h, label),
         label \in HostLabels => Depth(h) = 1,
         UNCHANGED handles, running' = running \/ running' = FALSE
  PROVE  [Lifecycle!Next]_(Lifecycle!vars)
<1>1. PICK f \in Frames : Replaces(h, f) /\ f.who = Top(h).who /\ f.at = label
  BY Going DEF IInv
<1> QED BY <1>1, FrameMaps

\* Async submits the task.
LEMMA AsyncMaps ==
  ASSUME IInv, NEW h \in Threads, NEW t \in Tasks, Async(h, t)
  PROVE  Lifecycle!Next
<1>1. TypeOK /\ Shape /\ Once
  BY DEF IInv
<1>2. /\ life[t] = "none" /\ state[t] = "Pending" /\ ~Executing(t)
      /\ life' = [life EXCEPT ![t] = "live"] /\ state' = state /\ box' = box
      /\ running' = running /\ Enter(h, "schedule", t)
  BY AsyncFacts DEF Async, InCustody
<1>3. PICK f \in Frames : /\ Replaces(h, f) /\ f.who = Top(h).who /\ f.at = "schedule"
  BY <1>1, <1>2, Entering DEF Labels
<1>4. \A u : Executing(u)' <=> Executing(u)
  BY <1>1, <1>3, Replaced DEF HostLabels
<1>5. Phase(t) = "new" /\ Phase(t)' = "queued" /\ \A u \in Tasks : u # t => Phase(u)' = Phase(u)
  BY <1>1, <1>2, <1>4 DEF Phase, TypeOK
<1>6. \A u \in Tasks : Owner(u)' = Owner(u)
  BY <1>2 DEF Owner
<1>7. Lifecycle!Submit(t)
  BY <1>2, <1>5, <1>6, PhaseStep, OwnerFrame DEF Lifecycle!Submit
<1> QED BY <1>7 DEF Lifecycle!Next

\* A future that was not allocated is a task that is not submitted.
LEMMA AsyncFailsMaps ==
  ASSUME IInv, NEW h \in Threads, NEW t \in Tasks, AsyncFails(h, t)
  PROVE  UNCHANGED Lifecycle!vars
<1>1. /\ stack' = stack /\ state' = state /\ box' = box /\ running' = running
      /\ life' = [life EXCEPT ![t] = "absent"] /\ life[t] = "none"
  BY DEF AsyncFails, MayAsync
<1>2. \A u \in Tasks : Phase(u)' = Phase(u) /\ Owner(u)' = Owner(u)
  BY <1>1 DEF Phase, Owner, Executing, Depth, IInv, TypeOK
<1> QED BY <1>1, <1>2, PhasesFrame, OwnerFrame DEF Lifecycle!vars

\* A future that is failed before it ran: the loop has been shut down.
LEMMA CancelMaps ==
  ASSUME IInv, NEW t \in Tasks, Release(t, "Error"), state' = [state EXCEPT ![t] = "Error"],
         state[t] = "Pending", life[t] = "live", ~Executing(t),
         \A u : Executing(u)' <=> Executing(u), ~running, running' = running
  PROVE  Lifecycle!Next
<1>1. refs[t] > 0 /\ box[t] = "none"
  BY DEF IInv, Holding, RefsExact, Boxes
<1>2. /\ \A u \in Tasks \ {t} : life'[u] = life[u] /\ box'[u] = box[u] /\ state'[u] = state[u]
      /\ life'[t] \in {"live", "freed"} /\ box'[t] = box[t] /\ state'[t] = "Error"
  BY <1>1, Released DEF IInv, TypeOK
<1>3. Phase(t) = "queued" /\ Phase(t)' = "failed" /\ \A u \in Tasks : u # t => Phase(u)' = Phase(u)
  BY <1>2 DEF Phase
<1>4. \A u \in Tasks : Owner(u)' = Owner(u)
  BY <1>2 DEF Owner
<1>5. Lifecycle!Cancel(t)
  BY <1>3, <1>4, PhaseStep, OwnerFrame DEF Lifecycle!Cancel
<1> QED BY <1>5 DEF Lifecycle!Next

\* A refused task is cancelled.
LEMMA ScheduleRefusedMaps ==
  ASSUME IInv, NEW h \in Threads, ScheduleRefused(h)
  PROVE  Lifecycle!Next
<1>t. PICK t : t = Top(h).want
  OBVIOUS
<1>1. TypeOK /\ Shape /\ Once
  BY DEF IInv
<1>2. /\ running' = running /\ ~running /\ At(h, "schedule")
      /\ state' = [state EXCEPT ![t] = "Error"] /\ Release(t, "Error") /\ Enter(h, "code", None)
  BY <1>t DEF ScheduleRefused, Release
<1>3. t \in Tasks /\ state[t] = "Pending" /\ life[t] = "live" /\ ~Executing(t)
  BY <1>2, <1>t, SchedulingFacts
<1>4. PICK f \in Frames : /\ Replaces(h, f) /\ f.who = Top(h).who /\ f.at = "code"
  BY <1>1, <1>2, Entering DEF Labels
<1>5. \A u : Executing(u)' <=> Executing(u)
  BY <1>1, <1>4, Replaced DEF HostLabels
<1> QED BY <1>2, <1>3, <1>5, CancelMaps

\* A drained task is cancelled.
LEMMA DrainMaps ==
  ASSUME IInv, NEW h \in Threads, Drain(h)
  PROVE  Lifecycle!Next
<1>t. PICK t : t = Head(queue)
  OBVIOUS
<1>1. /\ stack' = stack /\ running' = running /\ queue # <<>> /\ Top(h).at = "drain"
      /\ state' = [state EXCEPT ![t] = "Error"] /\ Release(t, "Error")
  BY <1>t DEF Drain, At, Release
<1>2. t \in Range(queue) /\ t \in Tasks
  BY <1>1, <1>t, TailRange DEF IInv, Queued, TypeOK
<1>3. state[t] = "Pending" /\ ~Executing(t) /\ life[t] = "live"
  BY <1>2 DEF IInv, Queued, InCustody, Holding
<1>4. \A u : Executing(u)' <=> Executing(u)
  BY <1>1 DEF Executing, Depth
<1>5. ~running
  BY <1>1, FrameFacts DEF IInv, Calls, CallOK
<1> QED BY <1>1, <1>2, <1>3, <1>4, <1>5, CancelMaps

\* A task taken off the queue starts.
LEMMA CallMaps ==
  ASSUME IInv, NEW h \in Threads, NEW back \in {"poll", "pump"}, Call(h, back),
         Top(h).at = IF back = "poll" THEN "once" ELSE "pop"
  PROVE  Lifecycle!Next
<1>q. PICK q : q = Head(queue)
  OBVIOUS
<1>0. TypeOK /\ Shape /\ Once /\ Below
  BY DEF IInv
<1>1. /\ life' = life /\ state' = state /\ box' = box /\ running' = running
      /\ Pushes(h, back, q) /\ queue # <<>>
  BY <1>q DEF Call, Pushes, handles
<1>2. q \in Range(queue) /\ q \in Tasks
  BY <1>1, <1>q, TailRange DEF IInv, Queued, TypeOK
<1>3. /\ state[q] = "Pending" /\ ~Executing(q) /\ life[q] = "live"
      /\ Parent[q] # q /\ \A u \in Tasks : Executing(u) => Parent[u] # q
  BY <1>2, QueuedApart
<1>4. \A u : Executing(u)' <=> Executing(u) \/ u = q
  <2>1. back = "pump" => Depth(h) = 1
    BY <1>0, HostDepth DEF HostLabels
  <2> QED BY <1>0, <1>1, <1>2, <1>3, <2>1, Pushed
<1>5. Phase(q) = "queued" /\ Phase(q)' = "running" /\ \A u \in Tasks : u # q => Phase(u)' = Phase(u)
  BY <1>1, <1>3, <1>4 DEF Phase
<1>6. \A u \in Tasks : Owner(u)' = Owner(u)
  BY <1>1 DEF Owner
<1>7. Lifecycle!Start(q)
  BY <1>1, <1>2, <1>5, <1>6, PhaseStep, OwnerFrame DEF Lifecycle!Start
<1> QED BY <1>2, <1>7 DEF Lifecycle!Next

\* A result handed to the program, or freed with its future.
LEMMA SettleMaps ==
  ASSUME NEW t \in Tasks, NEW owner \in {"program", "freed"},
         \A u \in Tasks : Phase(u)' = Phase(u), running' = running,
         box[t] = "handle", box'[t] = owner,
         \A u \in Tasks \ {t} : box'[u] = box[u]
  PROVE  Lifecycle!Next
<1>1. Owner(t) = "runtime" /\ Owner(t)' = owner /\ \A u \in Tasks : u # t => Owner(u)' = Owner(u)
  BY DEF Owner
<1>2. Lifecycle!Settle(t, owner)
  BY <1>1, PhasesFrame DEF Lifecycle!Settle
<1> QED BY <1>2 DEF Lifecycle!Next

\* A reference goes: its future and box go with the last one.
LEMMA ReleaseMaps ==
  ASSUME IInv, NEW t \in Tasks, Release(t, state[t]), life[t] = "live",
         state' = state, running' = running,
         state[t] = "Pending" => refs[t] # 1,
         \A u \in Tasks : (Executing(u)' <=> Executing(u)) \/ (u = t /\ state[t] # "Pending")
  PROVE  [Lifecycle!Next]_(Lifecycle!vars)
<1>1. refs[t] > 0
  BY DEF IInv, Holding, RefsExact
<1>2. /\ \A u \in Tasks \ {t} : life'[u] = life[u] /\ box'[u] = box[u]
      /\ life'[t] = IF refs[t] = 1 THEN "freed" ELSE life[t]
      /\ box'[t] = IF refs[t] = 1 /\ state[t] # "Consumed" /\ box[t] = "handle"
                   THEN "freed" ELSE box[t]
  BY <1>1, Released DEF IInv
<1>3. state[t] \in {"Pending", "Ready", "Consumed", "Error"}
  BY DEF IInv, TypeOK
<1>4. \A u \in Tasks : Phase(u)' = Phase(u)
  <2> SUFFICES ASSUME NEW u \in Tasks PROVE Phase(u)' = Phase(u)
    OBVIOUS
  <2>1. CASE u = t /\ state[t] = "Pending"
    BY <1>2, <2>1 DEF Phase
  <2>2. CASE u = t /\ state[t] # "Pending"
    BY <1>2, <1>3, <2>2 DEF Phase
  <2>3. CASE u # t
    BY <1>2, <2>3 DEF Phase
  <2> QED BY <2>1, <2>2, <2>3
<1>5. CASE box'[t] = box[t]
  <2>1. \A u \in Tasks : Owner(u)' = Owner(u)
    BY <1>2, <1>5 DEF Owner
  <2> QED BY <1>4, <2>1, PhasesFrame, OwnerFrame DEF Lifecycle!vars
<1>6. CASE box'[t] # box[t]
  <2>1. box[t] = "handle" /\ box'[t] = "freed"
    BY <1>2, <1>6
  <2> QED BY <1>2, <1>4, <2>1, SettleMaps
<1> QED BY <1>5, <1>6

\* Taking a ready future settles its box for the program.
LEMMA TakeMaps ==
  ASSUME IInv, NEW h \in Threads, Take(h)
  PROVE  [Lifecycle!Next]_(Lifecycle!vars)
<1>t. PICK t : t = Top(h).want
  OBVIOUS
<1>1. TypeOK /\ Shape /\ Once /\ Boxes
  BY DEF IInv
<1>2. /\ running' = running /\ life' = life
      /\ IF state[t] = "Ready"
         THEN /\ box' = [box EXCEPT ![t] = "program"]
              /\ state' = [state EXCEPT ![t] = "Consumed"]
         ELSE box' = box /\ state' = state
      /\ Goto(h, "drop") /\ Top(h).at = "take"
  BY <1>t DEF Take, At
<1>3. t \in Tasks /\ life[t] = "live"
  BY <1>2, <1>t, AwaitingFacts DEF AwaitLabels
<1>4. PICK f \in Frames : Replaces(h, f) /\ f.who = Top(h).who /\ f.at = "drop"
  BY <1>1, <1>2, Going DEF Labels
<1>5. \A u : Executing(u)' <=> Executing(u)
  BY <1>1, <1>4, Replaced DEF HostLabels
<1>6. CASE state[t] = "Ready"
  <2>1. box[t] = "handle"
    BY <1>1, <1>3, <1>6 DEF Boxes
  <2>2. /\ box'[t] = "program" /\ state'[t] = "Consumed"
        /\ \A u \in Tasks \ {t} : box'[u] = box[u] /\ state'[u] = state[u]
    BY <1>1, <1>2, <1>3, <1>6 DEF TypeOK
  <2>3. \A u \in Tasks : Phase(u)' = Phase(u)
    BY <1>2, <1>5, <1>6, <2>2 DEF Phase
  <2> QED BY <1>2, <1>3, <2>1, <2>2, <2>3, SettleMaps
<1>7. CASE state[t] # "Ready"
  <2>1. \A u \in Tasks : Phase(u)' = Phase(u) /\ Owner(u)' = Owner(u)
    BY <1>2, <1>5, <1>7 DEF Phase, Owner
  <2> QED BY <1>2, <2>1, PhasesFrame, OwnerFrame DEF Lifecycle!vars
<1> QED BY <1>6, <1>7

\* The await's release settles a box only if nobody took it.
LEMMA DropMaps ==
  ASSUME IInv, NEW h \in Threads, Drop(h)
  PROVE  [Lifecycle!Next]_(Lifecycle!vars)
<1>t. PICK t : t = Top(h).want
  OBVIOUS
<1>1. TypeOK /\ Shape /\ Once /\ Holding
  BY DEF IInv
<1>2. /\ running' = running /\ state' = state /\ Release(t, state[t])
      /\ Enter(h, "code", None) /\ Top(h).at = "drop"
  BY <1>t DEF Drop, At, Release
<1>3. t \in Tasks /\ life[t] = "live" /\ slot[t]
  BY <1>2, <1>t, AwaitingFacts DEF AwaitLabels
<1>4. PICK f \in Frames : Replaces(h, f) /\ f.who = Top(h).who /\ f.at = "code"
  BY <1>1, <1>2, Entering DEF Labels
<1>5. \A u : Executing(u)' <=> Executing(u)
  BY <1>1, <1>4, Replaced DEF HostLabels
<1>6. state[t] = "Pending" => refs[t] # 1
  BY <1>1, <1>3 DEF Holding, RefsExact
<1> QED BY <1>2, <1>3, <1>5, <1>6, ReleaseMaps

\* So does the release at the end of the task.
LEMMA LeaveMaps ==
  ASSUME IInv, NEW h \in Threads, Leave(h)
  PROVE  [Lifecycle!Next]_(Lifecycle!vars)
<1>t. PICK t : t = Top(h).who
  OBVIOUS
<1>1. TypeOK /\ Shape /\ Once /\ Below
  BY DEF IInv
<1>2. /\ running' = running /\ state' = state /\ Release(t, state[t]) /\ Top(h).at = "release"
      /\ stack' = [stack EXCEPT ![h] = SubSeq(stack[h], 1, Depth(h) - 1)]
  BY <1>t DEF Leave, At, Release
<1>3. Depth(h) > 1
  BY <1>1, <1>2, HostDepth
<1>4. t \in Tasks /\ life[t] = "live" /\ state[t] # "Pending"
  BY <1>2, <1>3, <1>t, RunningFacts
<1>5. \A u : Executing(u)' <=> Executing(u) /\ u # t
  BY <1>1, <1>2, <1>3, <1>t, Popped
<1> QED BY <1>2, <1>4, <1>5, ReleaseMaps

\* A task succeeds with a box, or fails.
LEMMA FinishMaps ==
  ASSUME IInv, NEW h \in Threads, Finish(h)
  PROVE  Lifecycle!Next
<1>t. PICK t : t = Top(h).who
  OBVIOUS
<1>1. TypeOK /\ Shape /\ Once /\ Boxes
  BY DEF IInv
<1>2. /\ running' = running /\ life' = life
      /\ \/ /\ box' = [box EXCEPT ![t] = "handle"]
            /\ state' = [state EXCEPT ![t] = "Ready"]
         \/ state' = [state EXCEPT ![t] = "Error"] /\ box' = box
      /\ Goto(h, "release") /\ Top(h).at = "code" /\ Depth(h) > 1
  BY <1>t DEF Finish, At
<1>3. t \in Tasks /\ life[t] = "live" /\ state[t] = "Pending" /\ Executing(t)
  BY <1>2, <1>t, RunningFacts
<1>4. box[t] = "none"
  BY <1>1, <1>3 DEF Boxes
<1>5. PICK f \in Frames : Replaces(h, f) /\ f.who = Top(h).who /\ f.at = "release"
  BY <1>1, <1>2, Going DEF Labels
<1>6. \A u : Executing(u)' <=> Executing(u)
  BY <1>1, <1>2, <1>5, Replaced DEF HostLabels
<1>7. Phase(t) = "running"
  BY <1>3 DEF Phase
<1>8. CASE box' = [box EXCEPT ![t] = "handle"] /\ state' = [state EXCEPT ![t] = "Ready"]
  <2>1. /\ box'[t] = "handle" /\ state'[t] = "Ready"
        /\ \A u \in Tasks \ {t} : box'[u] = box[u] /\ state'[u] = state[u]
    BY <1>1, <1>3, <1>8 DEF TypeOK
  <2>2. Phase(t)' = "succeeded" /\ \A u \in Tasks : u # t => Phase(u)' = Phase(u)
    BY <1>2, <1>3, <1>6, <2>1 DEF Phase
  <2>3. Owner(t)' = "runtime" /\ \A u \in Tasks : u # t => Owner(u)' = Owner(u)
    BY <2>1 DEF Owner
  <2>4. Lifecycle!Succeed(t)
    BY <1>2, <1>3, <1>7, <2>2, <2>3, PhaseStep DEF Lifecycle!Succeed
  <2> QED BY <1>3, <2>4 DEF Lifecycle!Next
<1>9. CASE state' = [state EXCEPT ![t] = "Error"] /\ box' = box
  <2>1. state'[t] = "Error" /\ \A u \in Tasks \ {t} : state'[u] = state[u]
    BY <1>1, <1>3, <1>9 DEF TypeOK
  <2>2. Phase(t)' = "failed" /\ \A u \in Tasks : u # t => Phase(u)' = Phase(u)
    BY <1>2, <1>3, <1>6, <2>1 DEF Phase
  <2>3. \A u \in Tasks : Owner(u)' = Owner(u)
    BY <1>9 DEF Owner
  <2>4. Lifecycle!Fail(t)
    BY <1>2, <1>3, <1>7, <2>2, <2>3, PhaseStep, OwnerFrame DEF Lifecycle!Fail
  <2> QED BY <1>3, <2>4 DEF Lifecycle!Next
<1> QED BY <1>2, <1>8, <1>9

\* Every step is a step or a stutter of TaskLifecycle.
LEMMA StepMaps == IInv /\ [Next]_vars => [Lifecycle!Next]_(Lifecycle!vars)
<1> SUFFICES ASSUME IInv, [Next]_vars PROVE [Lifecycle!Next]_(Lifecycle!vars)
  OBVIOUS
<1>0. TypeOK /\ Shape
  BY DEF IInv
<1>1. CASE UNCHANGED vars
  <2>1. \A u \in Tasks : Phase(u)' = Phase(u) /\ Owner(u)' = Owner(u)
    BY <1>1 DEF vars, Phase, Owner, Executing, Depth
  <2> QED BY <1>1, <2>1, PhasesFrame, OwnerFrame DEF vars, Lifecycle!vars
<1>2. ASSUME NEW h \in Threads, CodeStep(h) PROVE [Lifecycle!Next]_(Lifecycle!vars)
  <2>t. PICK t \in Tasks : Async(h, t) \/ AsyncFails(h, t) \/ Await(h, t)
    BY <1>2 DEF CodeStep
  <2>1. CASE Await(h, t)
    <3>1. PICK f \in Frames : Replaces(h, f) /\ f.who = Top(h).who /\ f.at = "poll"
      BY <1>0, <2>1, Entering DEF Await, Labels
    <3>2. running' = running /\ UNCHANGED handles
      BY <2>1 DEF Await
    <3> QED BY <3>1, <3>2, FrameMaps DEF HostLabels
  <2> QED BY <2>t, <2>1, AsyncMaps, AsyncFailsMaps
<1>3. ASSUME NEW h \in Threads, LoopStep(h) PROVE [Lifecycle!Next]_(Lifecycle!vars)
  <2>1. CASE Schedule(h)
    <3>1. PICK f \in Frames : Replaces(h, f) /\ f.who = Top(h).who /\ f.at = "code"
      BY <1>0, <2>1, Entering DEF Schedule, Labels
    <3>2. running' = running /\ UNCHANGED handles
      BY <2>1 DEF Schedule
    <3> QED BY <3>1, <3>2, FrameMaps DEF HostLabels
  <2>2. CASE PollState(h)
    <3>1. PICK label \in {"count", "take"} : Goto(h, label)
      <4>1. CASE state[Top(h).want] = "Pending"
        BY <2>2, <4>1 DEF PollState
      <4>2. CASE state[Top(h).want] # "Pending"
        BY <2>2, <4>2 DEF PollState
      <4> QED BY <4>1, <4>2
    <3>2. running' = running /\ UNCHANGED handles
      BY <2>2 DEF PollState
    <3> QED BY <3>1, <3>2, GotoMaps DEF HostLabels, Labels
  <2>3. CASE PollCount(h)
    <3>1. PICK label \in {"once", "take"} : Goto(h, label)
      <4>1. CASE queue = <<>>
        BY <2>3, <4>1 DEF PollCount
      <4>2. CASE queue # <<>>
        BY <2>3, <4>2 DEF PollCount
      <4> QED BY <4>1, <4>2
    <3>2. running' = running /\ UNCHANGED handles
      BY <2>3 DEF PollCount
    <3> QED BY <3>1, <3>2, GotoMaps DEF HostLabels, Labels
  <2>4. CASE RunOnce(h)
    <3>1. Top(h).at = "once"
      BY <2>4 DEF RunOnce, At
    <3>2. CASE Call(h, "poll")
      BY <3>1, <3>2, CallMaps
    <3>3. CASE Goto(h, "poll") /\ UNCHANGED <<queue, running, handles>>
      BY <3>3, GotoMaps DEF HostLabels, Labels
    <3> QED BY <2>4, <3>2, <3>3 DEF RunOnce
  <2>5. CASE PumpCheck(h)
    <3>1. Depth(h) = 1
      BY <1>0, <2>5, HostDepth DEF PumpCheck, At, HostLabels
    <3>2. PICK label \in {"pop", "code"} : Goto(h, label)
      <4>1. CASE running
        BY <2>5, <4>1 DEF PumpCheck
      <4>2. CASE ~running
        BY <2>5, <4>2 DEF PumpCheck
      <4> QED BY <4>1, <4>2
    <3>3. running' = running /\ UNCHANGED handles
      BY <2>5 DEF PumpCheck
    <3> QED BY <3>1, <3>2, <3>3, GotoMaps DEF Labels
  <2>6. CASE PumpPop(h)
    <3>1. Top(h).at = "pop"
      BY <2>6 DEF PumpPop, At
    <3>2. CASE Call(h, "pump")
      BY <3>1, <3>2, CallMaps
    <3>3. CASE Goto(h, "code") /\ UNCHANGED <<queue, running, handles>>
      BY <3>3, GotoMaps DEF HostLabels, Labels
    <3> QED BY <2>6, <3>2, <3>3 DEF PumpPop
  <2>7. CASE HaltLock(h)
    <3>1. Depth(h) = 1
      BY <1>0, <2>7, HostDepth DEF HaltLock, At, HostLabels
    <3>2. Goto(h, "drain") /\ running' = running /\ UNCHANGED handles
      BY <2>7 DEF HaltLock
    <3> QED BY <3>1, <3>2, GotoMaps DEF Labels
  <2>8. CASE HaltReturns(h)
    <3>1. Goto(h, "code") /\ running' = running /\ UNCHANGED handles
      BY <2>8 DEF HaltReturns
    <3> QED BY <3>1, GotoMaps DEF HostLabels, Labels
  <2>9. CASE ScheduleRefused(h) \/ Finish(h) \/ Drain(h)
    BY <2>9, ScheduleRefusedMaps, FinishMaps, DrainMaps
  <2>10. CASE Take(h) \/ Drop(h) \/ Leave(h)
    BY <2>10, TakeMaps, DropMaps, LeaveMaps
  <2> QED BY <1>3, <2>1, <2>2, <2>3, <2>4, <2>5, <2>6, <2>7, <2>8, <2>9, <2>10 DEF LoopStep
<1>4. ASSUME NEW h \in Threads, HostStep(h) PROVE [Lifecycle!Next]_(Lifecycle!vars)
  <2>1. CASE Pump(h)
    <3>1. Depth(h) = 1 /\ Goto(h, "pump") /\ running' = running /\ UNCHANGED handles
      BY <2>1 DEF Pump
    <3> QED BY <3>1, GotoMaps DEF Labels
  <2>2. CASE Halt(h)
    <3>1. Depth(h) = 1 /\ Goto(h, "halt") /\ running' = FALSE /\ UNCHANGED handles
      BY <2>2 DEF Halt
    <3> QED BY <3>1, GotoMaps DEF Labels
  <2> QED BY <1>4, <2>1, <2>2 DEF HostStep
<1> QED BY <1>1, <1>2, <1>3, <1>4 DEF Next

\* The event loop implements TaskLifecycle: a task runs at most once and only
\* after it was scheduled, is cancelled only by a shutdown, and its result is
\* given to the program or freed once.
THEOREM Refinement == Spec => ImplementsLifecycle
<1>1. Init => Lifecycle!Init
  <2> SUFFICES ASSUME Init PROVE Lifecycle!Init
    OBVIOUS
  <2>1. \A t \in Tasks : Phase(t) = "new" /\ Owner(t) = "none"
    BY DEF Init, Phase, Owner
  <2> QED BY <2>1 DEF Init, Lifecycle!Init
<1> QED BY <1>1, StepMaps, Invariance, PTL DEF Spec, ImplementsLifecycle, Lifecycle!Spec
=============================================================================
