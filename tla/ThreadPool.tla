----------------------------- MODULE ThreadPool -----------------------------
(***************************************************************************)
(* `spawn` and `join`: __lucid_spawn and __lucid_join (ConcurrencyEntry),  *)
(* ThreadHandle and ThreadPool (ConcurrencyRuntime), step by step.         *)
(*                                                                         *)
(* An actor is an OS thread.  A client runs host or Lucid code; a worker   *)
(* runs ThreadPool::workerLoop and, inside it, the code of the task it     *)
(* popped, which may itself spawn and join.  `pc[a]` is where thread a is. *)
(*                                                                         *)
(* The pool mutex and a handle's mutex are held across a step boundary in  *)
(* one place only: between evaluating a condition variable's predicate     *)
(* and going to sleep.  So a mutex is not a variable: it is held exactly   *)
(* while some actor is at such a "doze" label.                             *)
(***************************************************************************)
EXTENDS Naturals, Sequences, FiniteSets, Functions

CONSTANTS
  Clients,    \* threads that are not workers of the pool
  Workers,    \* m_workers
  Tasks,      \* one per execution of a spawn statement
  Parent,     \* Parent[t]: the client or the task whose code spawns t
  Kept,       \* tasks spawned into a variable; the others are `spawn _ =`
  Waiters,    \* clients that may call ThreadPool::waitAll
  Halters,    \* clients that may call shutdownConcurrency
  Spurious,   \* actors that may wake from a condition variable unasked
  None

Actors == Clients \union Workers
Codes  == Clients \union Tasks

ASSUME PoolAssumption ==
  /\ Clients \intersect Workers = {}
  /\ Codes \intersect Workers = {}
  /\ Clients \intersect Tasks = {}
  /\ IsFiniteSet(Workers) /\ Workers # {}
  /\ None \notin Actors \union Tasks
  /\ Parent \in [Tasks -> Codes]
  /\ Kept \subseteq Tasks
  /\ Waiters \subseteq Clients
  /\ Halters \subseteq Clients
  /\ Spurious \subseteq Actors

VARIABLES
  pc,        \* pc[a]: the label of thread a
  arg,       \* arg[a]: the handle of the spawn or join a is executing
  cur,       \* cur[w]: the handle worker w popped and has not released
  queue,     \* m_tasks
  stop,      \* m_stop
  active,    \* m_activeCount
  life,      \* life[t]: the ThreadHandle object of t
  refs,      \* life of t: its refcount
  state,     \* its state
  box,       \* box[t]: where the result box of t is
  slot       \* slot[t]: the program's variable holds the handle

vars == <<pc, arg, cur, queue, stop, active, life, refs, state, box, slot>>
handles == <<life, refs, state, box, slot>>
pool == <<queue, stop, active>>

JoinLabels   == {"check", "doze", "sleep", "take", "drop"}
CodeLabels   == {"code", "submit", "notify"} \union JoinLabels
ClientLabels == {"waitCheck", "waitDoze", "waitSleep", "halt", "reap", "drain"}
WorkerLabels == {"idle", "idleDoze", "idleSleep", "popped", "set", "wake", "count",
                 "release", "notifyAll", "exited"}

TypeOK ==
  /\ pc \in [Actors -> CodeLabels \union ClientLabels \union WorkerLabels]
  /\ arg \in [Actors -> Tasks \union {None}]
  /\ cur \in [Workers -> Tasks \union {None}]
  /\ queue \in Seq(Tasks)
  /\ stop \in BOOLEAN
  /\ active \in Nat
  /\ life \in [Tasks -> {"none", "absent", "live", "freed"}]
  /\ refs \in [Tasks -> 0 .. 2]
  /\ state \in [Tasks -> {"Running", "Done", "Consumed", "Error"}]
  /\ box \in [Tasks -> {"none", "returned", "handle", "program", "freed"}]
  /\ slot \in [Tasks -> BOOLEAN]

Init ==
  /\ pc = [a \in Actors |-> IF a \in Clients THEN "code" ELSE "idle"]
  /\ arg = [a \in Actors |-> None]
  /\ cur = [w \in Workers |-> None]
  /\ queue = <<>>
  /\ stop = FALSE
  /\ active = 0
  /\ life = [t \in Tasks |-> "none"]
  /\ refs = [t \in Tasks |-> 0]
  /\ state = [t \in Tasks |-> "Running"]
  /\ box = [t \in Tasks |-> "none"]
  /\ slot = [t \in Tasks |-> FALSE]

-----------------------------------------------------------------------------
(* Helpers                                                                 *)

Goto(a, label) == pc' = [pc EXCEPT ![a] = label]

\* The code thread a executes when it is at a CodeLabels label.
Self(a) == IF a \in Workers THEN cur[a] ELSE a

PoolUnlocked == \A a \in Actors : pc[a] \notin {"idleDoze", "waitDoze", "drain"}

HandleUnlocked(t) == \A a \in Actors : pc[a] = "doze" => arg[a] # t

\* The threads blocked on the pool's m_cv: idle workers and waitAll callers.
PoolSleepers == {a \in Actors : pc[a] \in {"idleSleep", "waitSleep"}}

\* The threads blocked on the condition variable of the handle t.
Joiners(t) == {a \in Actors : pc[a] = "sleep" /\ arg[a] = t}

\* Mutant of Awake: join waits with an `if` instead of a predicate loop.
AwakeUnchecked(label) == CASE label = "idleSleep" -> "idle"
                           [] label = "waitSleep" -> "waitCheck"
                           [] OTHER -> "take"

\* A woken thread evaluates its predicate again.
Awake(label) == CASE label = "idleSleep" -> "idle"
                  [] label = "waitSleep" -> "waitCheck"
                  [] OTHER -> "check"

\* Thread a goes to `label` and wakes the threads in S.
WakeAndGoto(S, a, label) ==
  pc' = [b \in Actors |-> IF b = a THEN label ELSE IF b \in S THEN Awake(pc[b]) ELSE pc[b]]

\* Mutant of Release: the last reference frees a consumed box as well.
ReleaseFreesConsumed(t) ==
  /\ refs' = [refs EXCEPT ![t] = @ - 1]
  /\ life' = [life EXCEPT ![t] = IF refs[t] = 1 THEN "freed" ELSE @]
  /\ box' = [box EXCEPT ![t] =
       IF refs[t] = 1 /\ @ \in {"handle", "program"} THEN "freed" ELSE @]

\* ThreadHandle::release.
Release(t) ==
  /\ refs' = [refs EXCEPT ![t] = @ - 1]
  /\ life' = [life EXCEPT ![t] = IF refs[t] = 1 THEN "freed" ELSE @]
  /\ box' = [box EXCEPT ![t] =
       IF refs[t] = 1 /\ state[t] # "Consumed" /\ @ = "handle" THEN "freed" ELSE @]

-----------------------------------------------------------------------------
(* __lucid_spawn                                                           *)

\* hpp:234-236: a client does not spawn once shutdown was called; a task that
\* is still running may.
MaySpawn(a, t) ==
  /\ pc[a] = "code"
  /\ Parent[t] = Self(a)
  /\ life[t] = "none"
  /\ a \in Clients => ~stop

\* Mutant of Spawn: the program's reference is never counted.
SpawnUnretained(a, t) ==
  /\ MaySpawn(a, t)
  /\ life' = [life EXCEPT ![t] = "live"]
  /\ refs' = [refs EXCEPT ![t] = 1]
  /\ slot' = [slot EXCEPT ![t] = t \in Kept]
  /\ arg' = [arg EXCEPT ![a] = t]
  /\ Goto(a, "submit")
  /\ UNCHANGED <<cur, pool, state, box>>

\* The handle is born with the pool's reference; a kept handle gets the
\* program's reference before anybody else can see it.
Spawn(a, t) ==
  /\ MaySpawn(a, t)
  /\ life' = [life EXCEPT ![t] = "live"]
  /\ refs' = [refs EXCEPT ![t] = IF t \in Kept THEN 2 ELSE 1]
  /\ slot' = [slot EXCEPT ![t] = t \in Kept]
  /\ arg' = [arg EXCEPT ![a] = t]
  /\ Goto(a, "submit")
  /\ UNCHANGED <<cur, pool, state, box>>

\* No thunk, or the allocation failed: the slot stays null.
SpawnFails(a, t) ==
  /\ MaySpawn(a, t)
  /\ life' = [life EXCEPT ![t] = "absent"]
  /\ UNCHANGED <<pc, arg, cur, pool, refs, state, box, slot>>

\* ThreadPool::submit, the part under m_mutex.
Submit(a) ==
  /\ pc[a] = "submit"
  /\ PoolUnlocked
  /\ ~stop
  /\ queue' = Append(queue, arg[a])
  /\ Goto(a, "notify")
  /\ UNCHANGED <<arg, cur, stop, active, handles>>

SubmitRefused(a) ==
  /\ pc[a] = "submit"
  /\ PoolUnlocked
  /\ stop
  /\ state' = [state EXCEPT ![arg[a]] = "Error"]
  /\ Release(arg[a])
  /\ arg' = [arg EXCEPT ![a] = None]
  /\ Goto(a, "code")
  /\ UNCHANGED <<cur, pool, slot>>

\* Mutant of Notify: submit wakes nobody.
NotifyNobody(a) ==
  /\ pc[a] = "notify"
  /\ Goto(a, "code")
  /\ arg' = [arg EXCEPT ![a] = None]
  /\ UNCHANGED <<cur, pool, handles>>

\* m_cv.notify_one wakes one sleeper of m_cv, whichever it is.
Notify(a) ==
  /\ pc[a] = "notify"
  /\ \/ PoolSleepers = {} /\ Goto(a, "code")
     \/ \E s \in PoolSleepers : WakeAndGoto({s}, a, "code")
  /\ arg' = [arg EXCEPT ![a] = None]
  /\ UNCHANGED <<cur, pool, handles>>

-----------------------------------------------------------------------------
(* __lucid_join                                                            *)

\* Thread<T> is linear: only the code that spawned t joins it, and once.
Join(a, t) ==
  /\ pc[a] = "code"
  /\ Parent[t] = Self(a)
  /\ slot[t]
  /\ arg' = [arg EXCEPT ![a] = t]
  /\ Goto(a, "check")
  /\ UNCHANGED <<cur, pool, handles>>

JoinCheck(a) ==
  /\ pc[a] = "check"
  /\ HandleUnlocked(arg[a])
  /\ Goto(a, IF state[arg[a]] # "Running" THEN "take" ELSE "doze")
  /\ UNCHANGED <<arg, cur, pool, handles>>

JoinSleep(a) ==
  /\ pc[a] = "doze"
  /\ Goto(a, "sleep")
  /\ UNCHANGED <<arg, cur, pool, handles>>

\* Mutant of Take: the handle is not marked Consumed.
TakeUnmarked(a) ==
  /\ pc[a] = "take"
  /\ IF state[arg[a]] = "Done"
     THEN box' = [box EXCEPT ![arg[a]] = "program"]
     ELSE UNCHANGED box
  /\ Goto(a, "drop")
  /\ UNCHANGED <<arg, cur, pool, life, refs, state, slot>>

\* Consumed tells the last release that the box is no longer the handle's.
Take(a) ==
  /\ pc[a] = "take"
  /\ IF state[arg[a]] = "Done"
     THEN /\ box' = [box EXCEPT ![arg[a]] = "program"]
          /\ state' = [state EXCEPT ![arg[a]] = "Consumed"]
     ELSE UNCHANGED <<box, state>>
  /\ Goto(a, "drop")
  /\ UNCHANGED <<arg, cur, pool, life, refs, slot>>

Drop(a) ==
  /\ pc[a] = "drop"
  /\ Release(arg[a])
  /\ slot' = [slot EXCEPT ![arg[a]] = FALSE]
  /\ arg' = [arg EXCEPT ![a] = None]
  /\ Goto(a, "code")
  /\ UNCHANGED <<cur, pool, state>>

-----------------------------------------------------------------------------
(* ThreadPool::workerLoop                                                  *)

Pop(w) ==
  /\ pc[w] = "idle"
  /\ PoolUnlocked
  /\ queue # <<>>
  /\ cur' = [cur EXCEPT ![w] = Head(queue)]
  /\ queue' = Tail(queue)
  /\ Goto(w, "popped")
  /\ UNCHANGED <<arg, stop, active, handles>>

\* Mutant of Exit: a worker leaves as soon as the pool is stopped.
ExitAtOnce(w) ==
  /\ pc[w] = "idle"
  /\ PoolUnlocked
  /\ stop
  /\ Goto(w, "exited")
  /\ UNCHANGED <<arg, cur, pool, handles>>

Exit(w) ==
  /\ pc[w] = "idle"
  /\ PoolUnlocked
  /\ queue = <<>>
  /\ stop
  /\ Goto(w, "exited")
  /\ UNCHANGED <<arg, cur, pool, handles>>

\* The predicate was false; the worker still holds m_mutex.
IdleDoze(w) ==
  /\ pc[w] = "idle"
  /\ PoolUnlocked
  /\ queue = <<>>
  /\ ~stop
  /\ Goto(w, "idleDoze")
  /\ UNCHANGED <<arg, cur, pool, handles>>

IdleSleep(w) ==
  /\ pc[w] = "idleDoze"
  /\ Goto(w, "idleSleep")
  /\ UNCHANGED <<arg, cur, pool, handles>>

\* Mutant of Run: the active count is not raised.
RunUncounted(w) ==
  /\ pc[w] = "popped"
  /\ Goto(w, "code")
  /\ UNCHANGED <<arg, cur, pool, handles>>

\* m_activeCount goes up only here, after the pop released m_mutex.
Run(w) ==
  /\ pc[w] = "popped"
  /\ active' = active + 1
  /\ Goto(w, "code")
  /\ UNCHANGED <<arg, cur, queue, stop, handles>>

\* The thunk returns a box, or null for a failure.  Its own Thread<T>
\* variables have all been joined: Sema rejects any other program.
Return(w) ==
  /\ pc[w] = "code"
  /\ \A t \in Tasks : Parent[t] = cur[w] => ~slot[t]
  /\ \/ box' = [box EXCEPT ![cur[w]] = "returned"]
     \/ UNCHANGED box
  /\ Goto(w, "set")
  /\ UNCHANGED <<arg, cur, pool, life, refs, state, slot>>

\* Mutant of Set: the state is stored without the handle's mutex.
SetUnlocked(w) ==
  /\ pc[w] = "set"
  /\ IF box[cur[w]] = "returned"
     THEN /\ box' = [box EXCEPT ![cur[w]] = "handle"]
          /\ state' = [state EXCEPT ![cur[w]] = "Done"]
     ELSE /\ state' = [state EXCEPT ![cur[w]] = "Error"]
          /\ UNCHANGED box
  /\ Goto(w, "wake")
  /\ UNCHANGED <<arg, cur, pool, life, refs, slot>>

\* setDone or setError, the part under the handle's mutex.
Set(w) ==
  /\ pc[w] = "set"
  /\ HandleUnlocked(cur[w])
  /\ IF box[cur[w]] = "returned"
     THEN /\ box' = [box EXCEPT ![cur[w]] = "handle"]
          /\ state' = [state EXCEPT ![cur[w]] = "Done"]
     ELSE /\ state' = [state EXCEPT ![cur[w]] = "Error"]
          /\ UNCHANGED box
  /\ Goto(w, "wake")
  /\ UNCHANGED <<arg, cur, pool, life, refs, slot>>

\* cv.notify_all of the handle, after its mutex was released.
Wake(w) ==
  /\ pc[w] = "wake"
  /\ WakeAndGoto(Joiners(cur[w]), w, "count")
  /\ UNCHANGED <<arg, cur, pool, handles>>

Count(w) ==
  /\ pc[w] = "count"
  /\ active' = active - 1
  /\ Goto(w, "release")
  /\ UNCHANGED <<arg, cur, queue, stop, handles>>

\* Mutant of ReleaseTask: a failed task's reference is kept.
ReleaseDoneTask(w) ==
  /\ pc[w] = "release"
  /\ IF state[cur[w]] = "Error" THEN UNCHANGED <<refs, life, box>> ELSE Release(cur[w])
  /\ cur' = [cur EXCEPT ![w] = None]
  /\ Goto(w, "notifyAll")
  /\ UNCHANGED <<arg, pool, state, slot>>

ReleaseTask(w) ==
  /\ pc[w] = "release"
  /\ Release(cur[w])
  /\ cur' = [cur EXCEPT ![w] = None]
  /\ Goto(w, "notifyAll")
  /\ UNCHANGED <<arg, pool, state, slot>>

\* m_cv.notify_all, without m_mutex.
NotifyAll(w) ==
  /\ pc[w] = "notifyAll"
  /\ WakeAndGoto(PoolSleepers, w, "idle")
  /\ UNCHANGED <<arg, cur, pool, handles>>

-----------------------------------------------------------------------------
(* ThreadPool::waitAll                                                     *)

WaitAll(a) ==
  /\ pc[a] = "code" /\ a \in Waiters
  /\ Goto(a, "waitCheck")
  /\ UNCHANGED <<arg, cur, pool, handles>>

Quiet == queue = <<>> /\ active = 0

WaitCheck(a) ==
  /\ pc[a] = "waitCheck"
  /\ PoolUnlocked
  /\ Goto(a, IF Quiet THEN "code" ELSE "waitDoze")
  /\ UNCHANGED <<arg, cur, pool, handles>>

WaitSleep(a) ==
  /\ pc[a] = "waitDoze"
  /\ Goto(a, "waitSleep")
  /\ UNCHANGED <<arg, cur, pool, handles>>

-----------------------------------------------------------------------------
(* ThreadPool::shutdown, called once                                       *)

Halt(a) ==
  /\ pc[a] = "code" /\ a \in Halters
  /\ ~stop
  /\ stop' = TRUE
  /\ Goto(a, "halt")
  /\ UNCHANGED <<arg, cur, queue, active, handles>>

\* Mutant of HaltNotify: only one sleeper is woken.
HaltNotifyOne(a) ==
  /\ pc[a] = "halt"
  /\ \/ PoolSleepers = {} /\ Goto(a, "reap")
     \/ \E s \in PoolSleepers : WakeAndGoto({s}, a, "reap")
  /\ UNCHANGED <<arg, cur, pool, handles>>

\* m_cv.notify_all, again without m_mutex.
HaltNotify(a) ==
  /\ pc[a] = "halt"
  /\ WakeAndGoto(PoolSleepers, a, "reap")
  /\ UNCHANGED <<arg, cur, pool, handles>>

\* Every worker has been joined; m_mutex is taken for the drain.
Reap(a) ==
  /\ pc[a] = "reap"
  /\ \A w \in Workers : pc[w] = "exited"
  /\ PoolUnlocked
  /\ Goto(a, "drain")
  /\ UNCHANGED <<arg, cur, pool, handles>>

\* Under m_mutex: every task nobody popped is cancelled and released.
Drain(a) ==
  /\ pc[a] = "drain"
  /\ LET cancelled == Range(queue) IN
       /\ \A t \in cancelled : HandleUnlocked(t)
       /\ state' = [t \in Tasks |-> IF t \in cancelled THEN "Error" ELSE state[t]]
       /\ refs' = [t \in Tasks |-> IF t \in cancelled THEN refs[t] - 1 ELSE refs[t]]
       /\ life' = [t \in Tasks |->
                    IF t \in cancelled /\ refs[t] = 1 THEN "freed" ELSE life[t]]
       /\ WakeAndGoto(UNION {Joiners(t) : t \in cancelled}, a, "code")
  /\ queue' = <<>>
  /\ UNCHANGED <<arg, cur, stop, active, box, slot>>

-----------------------------------------------------------------------------
\* A condition variable may wake a thread for no reason.
SpuriousWake(a) ==
  /\ a \in Spurious
  /\ pc[a] \in {"idleSleep", "waitSleep", "sleep"}
  /\ Goto(a, Awake(pc[a]))
  /\ UNCHANGED <<arg, cur, pool, handles>>

\* Steps inside spawn and join, once the code has called them.
CallStep(a) ==
  \/ Submit(a) \/ SubmitRefused(a) \/ Notify(a)
  \/ JoinCheck(a) \/ JoinSleep(a) \/ Take(a) \/ Drop(a)

\* Steps of a thread's own code: it is free to take any of them, or none.
CodeStep(a) == \E t \in Tasks : Spawn(a, t) \/ SpawnFails(a, t) \/ Join(a, t)

WorkerStep(w) ==
  \/ Pop(w) \/ Exit(w) \/ IdleDoze(w) \/ IdleSleep(w) \/ Run(w) \/ Return(w)
  \/ Set(w) \/ Wake(w) \/ Count(w) \/ ReleaseTask(w) \/ NotifyAll(w)

ClientCall(a) == WaitAll(a) \/ Halt(a)

ClientStep(a) ==
  \/ WaitCheck(a) \/ WaitSleep(a)
  \/ HaltNotify(a) \/ Reap(a) \/ Drain(a)

Next ==
  \/ \E a \in Actors : CallStep(a) \/ CodeStep(a) \/ SpuriousWake(a)
  \/ \E w \in Workers : WorkerStep(w)
  \/ \E a \in Clients : ClientCall(a) \/ ClientStep(a)

Spec == Init /\ [][Next]_vars

\* The operating system runs every thread that can run, and a task's code
\* does not loop for ever.  A client is never forced to call anything.
Fairness ==
  /\ \A w \in Workers : WF_vars(WorkerStep(w) \/ CallStep(w) \/ CodeStep(w))
  /\ \A a \in Clients : WF_vars(CallStep(a) \/ ClientStep(a))

FairSpec == Spec /\ Fairness

-----------------------------------------------------------------------------
(* Safety                                                                  *)

\* The pool's reference to t: its queue, the worker running it or the thread
\* submitting it holds it.
InCustody(t) ==
  \/ t \in Range(queue)
  \/ \E w \in Workers : cur[w] = t
  \/ \E a \in Actors : pc[a] = "submit" /\ arg[a] = t

\* No thread ever touches a ThreadHandle that a release has deleted: a handle
\* that is queued, being run, being submitted or being joined is live, however
\* the joiner's release and the worker's notify_all and release interleave.
NoUseAfterFree ==
  /\ \A t \in Tasks : InCustody(t) => life[t] = "live"
  /\ \A a \in Actors : pc[a] \in JoinLabels => life[arg[a]] = "live"

\* The refcount of a live handle counts its holders exactly: the scheduler,
\* and the program's variable; a handle nobody holds has been deleted.
RefsExact ==
  \A t \in Tasks : life[t] = "live" =>
    /\ refs[t] = (IF InCustody(t) THEN 1 ELSE 0) + (IF slot[t] THEN 1 ELSE 0)
    /\ refs[t] > 0

\* A handle that dies takes an unclaimed result box with it and leaves a
\* claimed one alone: a deleted handle never leaks the box it owned, and a
\* live one that still says Consumed no longer owns it.
BoxFollowsHandle ==
  \A t \in Tasks :
    /\ life[t] = "freed" => box[t] \notin {"returned", "handle"}
    /\ state[t] = "Consumed" <=> box[t] = "program"

\* __lucid_join goes on to look at the result only after the task settled,
\* whatever woke it, and then never finds a result that was already taken.
JoinSeesOutcome ==
  \A a \in Actors : pc[a] = "take" =>
    \/ state[arg[a]] = "Done" /\ box[arg[a]] = "handle"
    \/ state[arg[a]] = "Error" /\ box[arg[a]] = "none"

\* ThreadPool::shutdown ("wait for all tasks, then join threads", hpp:202)
\* cancels nothing: when the workers are gone, every task that submit
\* accepted, the ones spawned by tasks during the shutdown too, has been run.
ShutdownRunsAccepted ==
  (\E a \in Actors : pc[a] = "drain") =>
    /\ queue = <<>>
    /\ \A t \in Tasks : life[t] # "none" /\ state[t] = "Running" =>
         \/ life[t] = "absent"
         \/ \E a \in Actors : pc[a] = "submit" /\ arg[a] = t

\* "Wait for all tasks to complete" (hpp:199): when waitAll returns, no task
\* that was accepted is still to be finished.
WaitAllWaits ==
  [][\A a \in Clients : pc[a] = "waitCheck" /\ pc'[a] = "code" =>
       \A t \in Tasks :
         t \in Range(queue) \/ (\E w \in Workers : cur[w] = t) => state[t] # "Running"]_vars

-----------------------------------------------------------------------------
(* The abstract specification                                              *)

Phase(t) ==
  IF life[t] \in {"none", "absent"} THEN "new"
  ELSE IF state[t] \in {"Done", "Consumed"} THEN "succeeded"
  ELSE IF state[t] = "Error" THEN "failed"
  ELSE IF \E w \in Workers : cur[w] = t THEN "running"
  ELSE "queued"

Owner(t) == CASE box[t] \in {"none", "returned"} -> "none"
              [] box[t] = "handle"               -> "runtime"
              [] OTHER                           -> box[t]

Lifecycle == INSTANCE TaskLifecycle WITH
  phase  <- [t \in Tasks |-> Phase(t)],
  result <- [t \in Tasks |-> Owner(t)],
  closed <- stop

\* Every behaviour of the pool is one TaskLifecycle allows: each task runs at
\* most once, is cancelled only by a shutdown, and its box is handed over or
\* freed once.
ImplementsLifecycle == Lifecycle!Spec

-----------------------------------------------------------------------------
(* Liveness                                                                *)

\* A task the pool accepted is run to its end.
EveryTaskSettles ==
  \A t \in Tasks : t \in Range(queue) ~> state[t] # "Running"

\* A thread that calls __lucid_join gets out of it (entry:194-195: it "blocks
\* until the worker has finished the task").
JoinReturns ==
  \A a \in Actors : pc[a] = "check" ~> pc[a] \notin JoinLabels

\* Shutdown does return if no worker was between its predicate and its sleep
\* when m_stop was stored: that window is the only one it can hang in.
ShutdownReturnsUnlessDozing ==
  \A a \in Clients :
    pc[a] = "halt" /\ (\A w \in Workers : pc[w] # "idleDoze") ~> pc[a] = "code"

\* ThreadPool::waitAll returns: the client that calls it is not left asleep
\* when every task is done.
WaitAllReturns ==
  \A a \in Clients : pc[a] = "waitCheck" ~> pc[a] = "code"

\* shutdownConcurrency "joins all thread-pool workers" (hpp:227) and returns.
ShutdownReturns ==
  \A a \in Clients : pc[a] = "halt" ~> pc[a] = "code"
=============================================================================
