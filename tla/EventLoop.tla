------------------------------ MODULE EventLoop ------------------------------
(***************************************************************************)
(* `async` and `await`: __lucid_async and __lucid_await (ConcurrencyEntry) *)
(* over FutureHandle and EventLoop (ConcurrencyRuntime).                   *)
(*                                                                         *)
(* The loop has no thread of its own: an await runs queued tasks on the    *)
(* awaiting thread's stack until its future settles, and the code of such  *)
(* a task may await in turn.  stack[h] is thread h's chain of calls: the   *)
(* bottom frame is the thread's own code, every other frame a task that    *)
(* the frame below it is running inside an await or a pump.  Lucid means   *)
(* the loop for one thread; nothing in the code enforces it, so Threads is *)
(* a set.                                                                  *)
(***************************************************************************)
EXTENDS Naturals, Sequences, Functions

CONSTANTS
  Threads,    \* threads that use the event loop
  Tasks,      \* one per execution of an async statement
  Parent,     \* Parent[t]: the thread or the task whose code starts t
  Kept,       \* tasks whose future is kept; the others are `async _ =`
  Halters,    \* threads that may call shutdownConcurrency
  None

Codes == Threads \union Tasks

ASSUME LoopAssumption ==
  /\ Threads \intersect Tasks = {}
  /\ None \notin Codes
  /\ Parent \in [Tasks -> Codes]
  /\ Kept \subseteq Tasks
  /\ Halters \subseteq Threads

VARIABLES
  stack,     \* stack[h]: the frames of thread h, the running one last
  queue,     \* m_tasks
  running,   \* m_running
  life,      \* life[t]: the FutureHandle object of t
  refs,      \* its refcount
  state,     \* its state
  box,       \* box[t]: where the result box of t is
  slot       \* slot[t]: the program's variable holds the handle

vars == <<stack, queue, running, life, refs, state, box, slot>>
handles == <<life, refs, state, box, slot>>

\* Who runs, at which label, and the future its call is about.
Labels == {"code", "schedule", "poll", "count", "once", "take", "drop",
           "pump", "pop", "release", "halt", "drain"}
Frames == [who : Codes, at : Labels, want : Tasks \union {None}]
Frame(who) == [who |-> who, at |-> "code", want |-> None]

TypeOK ==
  /\ stack \in [Threads -> Seq(Frames)]
  /\ queue \in Seq(Tasks)
  /\ running \in BOOLEAN
  /\ life \in [Tasks -> {"none", "absent", "live", "freed"}]
  /\ refs \in [Tasks -> 0 .. 2]
  /\ state \in [Tasks -> {"Pending", "Ready", "Consumed", "Error"}]
  /\ box \in [Tasks -> {"none", "handle", "program", "freed"}]
  /\ slot \in [Tasks -> BOOLEAN]

Init ==
  /\ stack = [h \in Threads |-> <<Frame(h)>>]
  /\ queue = <<>>
  /\ running = TRUE
  /\ life = [t \in Tasks |-> "none"]
  /\ refs = [t \in Tasks |-> 0]
  /\ state = [t \in Tasks |-> "Pending"]
  /\ box = [t \in Tasks |-> "none"]
  /\ slot = [t \in Tasks |-> FALSE]

Depth(h) == Len(stack[h])
Top(h) == stack[h][Depth(h)]
At(h, label) == Top(h).at = label
Goto(h, label) == stack' = [stack EXCEPT ![h][Depth(h)].at = label]

\* m_mutex is held from one step to the next only while shutdown drains.
LoopUnlocked == \A h \in Threads : ~At(h, "drain")

\* FutureHandle::release of a future whose state is st.
Release(t, st) ==
  /\ refs' = [refs EXCEPT ![t] = @ - 1]
  /\ life' = [life EXCEPT ![t] = IF refs[t] = 1 THEN "freed" ELSE @]
  /\ box' = [box EXCEPT ![t] =
       IF refs[t] = 1 /\ st # "Consumed" /\ @ = "handle" THEN "freed" ELSE @]

-----------------------------------------------------------------------------
(* __lucid_async                                                           *)

MayAsync(h, t) == At(h, "code") /\ Parent[t] = Top(h).who /\ life[t] = "none"

\* The running frame enters or leaves a call about the future t.
Enter(h, label, t) ==
  stack' = [stack EXCEPT ![h][Depth(h)] = [@ EXCEPT !.at = label, !.want = t]]

\* The handle is born with the loop's reference; a kept one gets the caller's
\* reference "BEFORE scheduling".
Async(h, t) ==
  /\ MayAsync(h, t)
  /\ life' = [life EXCEPT ![t] = "live"]
  /\ refs' = [refs EXCEPT ![t] = IF t \in Kept THEN 2 ELSE 1]
  /\ slot' = [slot EXCEPT ![t] = t \in Kept]
  /\ Enter(h, "schedule", t)
  /\ UNCHANGED <<queue, running, state, box>>

\* No thunk, or the allocation failed: the slot stays null.
AsyncFails(h, t) ==
  /\ MayAsync(h, t)
  /\ life' = [life EXCEPT ![t] = "absent"]
  /\ UNCHANGED <<stack, queue, running, refs, state, box, slot>>

\* EventLoop::schedule.
Schedule(h) ==
  /\ At(h, "schedule")
  /\ LoopUnlocked
  /\ running
  /\ queue' = Append(queue, Top(h).want)
  /\ Enter(h, "code", None)
  /\ UNCHANGED <<running, handles>>

\* The loop was shut down: the future is failed, the loop's reference dropped.
ScheduleRefused(h) ==
  /\ At(h, "schedule")
  /\ LoopUnlocked
  /\ ~running
  /\ LET t == Top(h).want IN
       /\ state' = [state EXCEPT ![t] = "Error"]
       /\ Release(t, "Error")
  /\ Enter(h, "code", None)
  /\ UNCHANGED <<queue, running, slot>>

-----------------------------------------------------------------------------
(* __lucid_await                                                           *)

\* Future<T> is linear: only the code that started t awaits it, and once.
Await(h, t) ==
  /\ At(h, "code") /\ Parent[t] = Top(h).who /\ slot[t]
  /\ Enter(h, "poll", t)
  /\ UNCHANGED <<queue, running, handles>>

PollState(h) ==
  /\ At(h, "poll")
  /\ Goto(h, IF state[Top(h).want] = "Pending" THEN "count" ELSE "take")
  /\ UNCHANGED <<queue, running, handles>>

\* An empty queue ends the wait: "nothing can complete it".
PollCount(h) ==
  /\ At(h, "count")
  /\ LoopUnlocked
  /\ Goto(h, IF queue = <<>> THEN "take" ELSE "once")
  /\ UNCHANGED <<queue, running, handles>>

\* Pop the head of the queue and call it: the callee is a new frame.  The
\* caller goes on at `back` when the callee returns.
Call(h, back) ==
  /\ LoopUnlocked
  /\ queue # <<>>
  /\ queue' = Tail(queue)
  /\ stack' = [stack EXCEPT ![h] =
                 Append([@ EXCEPT ![Depth(h)].at = back], Frame(Head(queue)))]
  /\ UNCHANGED <<running, handles>>

\* Mutant of RunOnce: off by one, a lone task is never run.
RunOnceButLast(h) ==
  /\ At(h, "once")
  /\ \/ Len(queue) > 1 /\ Call(h, "poll")
     \/ Len(queue) <= 1 /\ Goto(h, "poll") /\ UNCHANGED <<queue, running, handles>>

\* EventLoop::runOnce.
RunOnce(h) ==
  /\ At(h, "once")
  /\ \/ Call(h, "poll")
     \/ LoopUnlocked /\ queue = <<>> /\ Goto(h, "poll") /\ UNCHANGED <<queue, running, handles>>

\* Mutant of Take: the future is not marked Consumed.
TakeUnmarked(h) ==
  /\ At(h, "take")
  /\ LET t == Top(h).want IN
       IF state[t] = "Ready"
       THEN box' = [box EXCEPT ![t] = "program"]
       ELSE UNCHANGED box
  /\ Goto(h, "drop")
  /\ UNCHANGED <<queue, running, life, refs, state, slot>>

Take(h) ==
  /\ At(h, "take")
  /\ LET t == Top(h).want IN
       IF state[t] = "Ready"
       THEN /\ box' = [box EXCEPT ![t] = "program"]
            /\ state' = [state EXCEPT ![t] = "Consumed"]
       ELSE UNCHANGED <<box, state>>
  /\ Goto(h, "drop")
  /\ UNCHANGED <<queue, running, life, refs, slot>>

Drop(h) ==
  /\ At(h, "drop")
  /\ LET t == Top(h).want IN
       /\ Release(t, state[t])
       /\ slot' = [slot EXCEPT ![t] = FALSE]
  /\ Enter(h, "code", None)
  /\ UNCHANGED <<queue, running, state>>

-----------------------------------------------------------------------------
(* The end of a task, in runOnce and runUntilEmpty alike                   *)

\* Mutant of Finish: a null result is taken for a ready one.
FinishUntyped(h) ==
  /\ At(h, "code") /\ Depth(h) > 1
  /\ LET t == Top(h).who IN
       /\ \A u \in Tasks : Parent[u] = t => ~slot[u]
       /\ box' \in {box, [box EXCEPT ![t] = "handle"]}
       /\ state' = [state EXCEPT ![t] = "Ready"]
  /\ Goto(h, "release")
  /\ UNCHANGED <<queue, running, life, refs, slot>>

\* The thunk returns a box, or null for a failure.  Its own futures have all
\* been awaited: Sema rejects any other program.
Finish(h) ==
  /\ At(h, "code") /\ Depth(h) > 1
  /\ LET t == Top(h).who IN
       /\ \A u \in Tasks : Parent[u] = t => ~slot[u]
       /\ \/ /\ box' = [box EXCEPT ![t] = "handle"]
             /\ state' = [state EXCEPT ![t] = "Ready"]
          \/ /\ state' = [state EXCEPT ![t] = "Error"]
             /\ UNCHANGED box
  /\ Goto(h, "release")
  /\ UNCHANGED <<queue, running, life, refs, slot>>

\* Mutant of Leave: a failed task's reference is kept.
LeaveReady(h) ==
  /\ At(h, "release")
  /\ LET t == Top(h).who IN
       IF state[t] = "Error" THEN UNCHANGED <<refs, life, box>> ELSE Release(t, state[t])
  /\ stack' = [stack EXCEPT ![h] = SubSeq(@, 1, Depth(h) - 1)]
  /\ UNCHANGED <<queue, running, state, slot>>

Leave(h) ==
  /\ At(h, "release")
  /\ LET t == Top(h).who IN Release(t, state[t])
  /\ stack' = [stack EXCEPT ![h] = SubSeq(@, 1, Depth(h) - 1)]
  /\ UNCHANGED <<queue, running, state, slot>>

-----------------------------------------------------------------------------
(* The host: runUntilEmpty and shutdown, called from the bottom frame      *)

Pump(h) ==
  /\ At(h, "code") /\ Depth(h) = 1
  /\ Goto(h, "pump")
  /\ UNCHANGED <<queue, running, handles>>

\* m_running is read before m_mutex is taken.
PumpCheck(h) ==
  /\ At(h, "pump")
  /\ Goto(h, IF running THEN "pop" ELSE "code")
  /\ UNCHANGED <<queue, running, handles>>

PumpPop(h) ==
  /\ At(h, "pop")
  /\ \/ Call(h, "pump")
     \/ LoopUnlocked /\ queue = <<>> /\ Goto(h, "code") /\ UNCHANGED <<queue, running, handles>>

Halt(h) ==
  /\ At(h, "code") /\ Depth(h) = 1 /\ h \in Halters /\ running
  /\ running' = FALSE
  /\ Goto(h, "halt")
  /\ UNCHANGED <<queue, handles>>

HaltLock(h) ==
  /\ At(h, "halt")
  /\ LoopUnlocked
  /\ Goto(h, "drain")
  /\ UNCHANGED <<queue, running, handles>>

\* Mutant of Drain: the cancelled future is released but stays pending.
DrainSilently(h) ==
  /\ At(h, "drain")
  /\ queue # <<>>
  /\ Release(Head(queue), "Pending")
  /\ queue' = Tail(queue)
  /\ UNCHANGED <<stack, running, state, slot>>

\* Every queued task is failed and released, under m_mutex.
Drain(h) ==
  /\ At(h, "drain")
  /\ queue # <<>>
  /\ state' = [state EXCEPT ![Head(queue)] = "Error"]
  /\ Release(Head(queue), "Error")
  /\ queue' = Tail(queue)
  /\ UNCHANGED <<stack, running, slot>>

HaltReturns(h) ==
  /\ At(h, "drain")
  /\ queue = <<>>
  /\ Goto(h, "code")
  /\ UNCHANGED <<queue, running, handles>>

-----------------------------------------------------------------------------
\* What a thread's own code may choose to do.
CodeStep(h) == \E t \in Tasks : Async(h, t) \/ AsyncFails(h, t) \/ Await(h, t)

\* Steps inside the runtime, and the return of a task.
LoopStep(h) ==
  \/ Schedule(h) \/ ScheduleRefused(h)
  \/ PollState(h) \/ PollCount(h) \/ RunOnce(h) \/ Take(h) \/ Drop(h)
  \/ Finish(h) \/ Leave(h) \/ PumpCheck(h) \/ PumpPop(h)
  \/ HaltLock(h) \/ Drain(h) \/ HaltReturns(h)

HostStep(h) == Pump(h) \/ Halt(h)

Next == \E h \in Threads : CodeStep(h) \/ LoopStep(h) \/ HostStep(h)

Spec == Init /\ [][Next]_vars

\* A thread inside the runtime goes on; the code of a task comes to its end
\* (it has finitely many statements, and must await what it started).  The
\* bottom frame is never forced to call anything.
Fairness ==
  \A h \in Threads : WF_vars(LoopStep(h) \/ (Depth(h) > 1 /\ CodeStep(h)))

FairSpec == Spec /\ Fairness

-----------------------------------------------------------------------------
(* Safety                                                                  *)

\* t is being run by some frame.
Executing(t) == \E h \in Threads : \E d \in 1 .. Depth(h) : stack[h][d].who = t

\* Some frame, possibly far below the running one, is at one of the labels in
\* a call about t.
Inside(t, labels) ==
  \E h \in Threads : \E d \in 1 .. Depth(h) :
    stack[h][d].want = t /\ stack[h][d].at \in labels

Awaited(t) == Inside(t, {"poll", "count", "once", "take", "drop"})

InCustody(t) == t \in Range(queue) \/ Executing(t) \/ Inside(t, {"schedule"})

\* No frame ever touches a FutureHandle that a release has deleted, however
\* deep the awaits nest: a future that is queued, run or awaited is live.
NoUseAfterFree ==
  \A t \in Tasks : InCustody(t) \/ Awaited(t) => life[t] = "live"

\* The refcount of a live future counts its holders exactly: the loop, and
\* the program's variable.
RefsExact ==
  \A t \in Tasks : life[t] = "live" =>
    /\ refs[t] = (IF InCustody(t) THEN 1 ELSE 0) + (IF slot[t] THEN 1 ELSE 0)
    /\ refs[t] > 0

\* A future that dies takes an unclaimed result box with it, and only that.
BoxFollowsHandle ==
  \A t \in Tasks :
    /\ life[t] = "freed" => box[t] # "handle"
    /\ state[t] = "Consumed" <=> box[t] = "program"

\* An await gives up on a pending future only while another thread is in the
\* middle of running its task: with one thread in the loop it never does.
AwaitAbandonsOnlyOthers ==
  \A h \in Threads : At(h, "take") /\ state[Top(h).want] = "Pending" =>
    \E g \in Threads \ {h} : \E d \in 1 .. Depth(g) : stack[g][d].who = Top(h).want

\* __lucid_await returns "the boxed result, or null if the task failed"
\* (entry:105): it never gives up on a future that may still become ready.
AwaitGetsOutcome ==
  \A h \in Threads : At(h, "take") => state[Top(h).want] # "Pending"

-----------------------------------------------------------------------------
(* The abstract specification                                              *)

Phase(t) ==
  IF life[t] \in {"none", "absent"} THEN "new"
  ELSE IF state[t] \in {"Ready", "Consumed"} THEN "succeeded"
  ELSE IF state[t] = "Error" THEN "failed"
  ELSE IF Executing(t) THEN "running"
  ELSE "queued"

Owner(t) == IF box[t] = "handle" THEN "runtime" ELSE box[t]

Lifecycle == INSTANCE TaskLifecycle WITH
  phase  <- [t \in Tasks |-> Phase(t)],
  result <- [t \in Tasks |-> Owner(t)],
  closed <- ~running

\* Every behaviour of the loop is one TaskLifecycle allows: each task runs at
\* most once, is cancelled only by a shutdown, and its box is handed over or
\* freed once.
ImplementsLifecycle == Lifecycle!Spec

-----------------------------------------------------------------------------
(* Liveness                                                                *)

\* An await returns, after all the tasks it ran on the way.
AwaitReturns == \A t \in Tasks : Awaited(t) ~> ~Awaited(t)

\* Handles are typed, counted and freed exactly, and their boxes with them.
HandlesSound == TypeOK /\ NoUseAfterFree /\ RefsExact /\ BoxFollowsHandle
=============================================================================
