--------------------------- MODULE TaskLifecycle ---------------------------
(***************************************************************************)
(* What `spawn`/`join` and `async`/`await` promise about a task, whatever  *)
(* schedules it: its code is run at most once, a result box is born when   *)
(* the code returns one, and that box then has one owner at a time, until  *)
(* the program takes it or the runtime frees it, never both.               *)
(* ThreadPool and EventLoop are shown to implement this specification.     *)
(***************************************************************************)

CONSTANT Tasks

VARIABLES phase,    \* phase[t]: how far the task is
          result,   \* result[t]: who owns the box the task returned
          closed    \* the scheduler has been told to stop

vars == <<phase, result, closed>>

Phases  == {"new", "queued", "running", "succeeded", "failed"}
Owners  == {"none", "runtime", "program", "freed"}
Settled == {"succeeded", "failed"}

Init ==
  /\ phase  = [t \in Tasks |-> "new"]
  /\ result = [t \in Tasks |-> "none"]
  /\ closed = FALSE

Become(t, from, to) == phase[t] = from /\ phase' = [phase EXCEPT ![t] = to]

Submit(t) == Become(t, "new", "queued") /\ UNCHANGED <<result, closed>>

Start(t) == Become(t, "queued", "running") /\ UNCHANGED <<result, closed>>

\* The code returned a box: the runtime owns it until somebody takes it.
Succeed(t) ==
  /\ Become(t, "running", "succeeded")
  /\ result' = [result EXCEPT ![t] = "runtime"]
  /\ UNCHANGED closed

Fail(t) == Become(t, "running", "failed") /\ UNCHANGED <<result, closed>>

\* A task that never ran may fail only because the scheduler is stopping.
Cancel(t) == closed /\ Become(t, "queued", "failed") /\ UNCHANGED <<result, closed>>

\* `join`/`await` hands the box to the program; an unclaimed box is freed.
Settle(t, owner) ==
  /\ result[t] = "runtime"
  /\ result' = [result EXCEPT ![t] = owner]
  /\ UNCHANGED <<phase, closed>>

Close == closed' = TRUE /\ UNCHANGED <<phase, result>>

Next ==
  \/ \E t \in Tasks : Submit(t) \/ Start(t) \/ Succeed(t) \/ Fail(t) \/ Cancel(t)
  \/ \E t \in Tasks, owner \in {"program", "freed"} : Settle(t, owner)
  \/ Close

Spec == Init /\ [][Next]_vars
=============================================================================
