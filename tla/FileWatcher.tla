----------------------------- MODULE FileWatcher -----------------------------
(* The polling watcher (FileWatcher) and what it is for: a change of a file *)
(* reaches the modules that depend on it.  The main thread parses, orders   *)
(* and starts the watcher; the watcher's thread polls; an editor writes,    *)
(* removes and recreates the files.  The callback (handleHotReloadChange)   *)
(* is declared in the repository and defined nowhere: it parses again what  *)
(* getAffected names.                                                       *)
EXTENDS ModuleResolver, Integers

CONSTANTS Edited,      \* the files that are watched, and change
          MaxTime,     \* seconds
          MaxStarts    \* how often the watcher is started

ASSUME WatcherAssumption == Edited \subseteq Files /\ MaxTime \in Nat \ {0} /\ MaxStarts \in Nat

VARIABLES clock, epoch,     \* the second; where file_clock counts from
          disk,             \* the second of each file's last write, Missing
          watchedFiles,     \* file -> lastTime
          running, thread,  \* running_; the watcher's thread
          todo, changed,    \* the files left of this pass; the one reported
          main, starts,     \* the main thread
          outdated          \* the modules not parsed since a change that concerns them

watcher == <<clock, epoch, disk, watchedFiles, running, thread, todo, changed, main, starts, outdated>>
vars == <<resolver, watcher>>

Missing == 0
NoFile == ""

WatcherInit == /\ clock = 1 /\ epoch \in {0, MaxTime + 1}
               /\ disk = [f \in Edited |-> 1]
               /\ watchedFiles = << >> /\ running = FALSE /\ thread = "none"
               /\ todo = {} /\ changed = NoFile
               /\ main = "load" /\ starts = 0 /\ outdated = {}
Init == ResolverInit /\ WatcherInit

\* getLastWriteTime: seconds since the epoch of file_clock, which libstdc++
\* puts in the future; 0 for a file that is not there.
getLastWriteTime(f) == IF disk[f] = Missing THEN 0 ELSE disk[f] - epoch

----------------------------------------------------------------------------
(* The main thread.  The watcher's mutex is held by its thread during a     *)
(* pass; what the main thread does under it is one step.                    *)

InPass == thread \in {"pass", "callback"}

Loading == main = "load" /\ (\E m \in Files : pushParsing(m)) /\ UNCHANGED watcher
Caching == main = "load" /\ cacheModule /\ UNCHANGED watcher
Ordering == main = "load" /\ (getModulesInOrder \/ computeTopologicalOrder) /\ UNCHANGED watcher

\* watchFiles, start.
start == /\ main \in {"load", "stopped"} /\ ordering = "done" /\ starts < MaxStarts
         /\ ~running
         /\ running' = TRUE /\ thread' = "sleep" /\ main' = "run" /\ starts' = starts + 1
         /\ watchedFiles' = [f \in parsed \cap Edited |-> getLastWriteTime(f)]
         /\ UNCHANGED <<resolver, clock, epoch, disk, todo, changed, outdated>>

watchFile(f) == /\ main = "run" /\ f \in (parsed \cap Edited) \ DOMAIN watchedFiles /\ ~InPass
                /\ watchedFiles' = (f :> getLastWriteTime(f)) @@ watchedFiles
                /\ UNCHANGED <<resolver, clock, epoch, disk, running, thread, todo, changed, main, starts, outdated>>

unwatchFile(f) == /\ main = "run" /\ f \in DOMAIN watchedFiles /\ ~InPass
                  /\ watchedFiles' = [g \in DOMAIN watchedFiles \ {f} |-> watchedFiles[g]]
                  /\ UNCHANGED <<resolver, clock, epoch, disk, running, thread, todo, changed, main, starts, outdated>>

stop == /\ main = "run" /\ running
        /\ running' = FALSE /\ main' = "join"
        /\ UNCHANGED <<resolver, clock, epoch, disk, watchedFiles, thread, todo, changed, starts, outdated>>

joined == /\ main = "join" /\ thread = "done"
          /\ main' = "stopped" /\ thread' = "none"
          /\ UNCHANGED <<resolver, clock, epoch, disk, watchedFiles, running, todo, changed, starts, outdated>>

----------------------------------------------------------------------------
(* The watcher's thread: run.  *)

\* The mutex is taken after the sleep, whatever running_ has become.
wake == /\ thread = "sleep"
        /\ thread' = "pass" /\ todo' = DOMAIN watchedFiles
        /\ UNCHANGED <<resolver, clock, epoch, disk, watchedFiles, running, changed, main, starts, outdated>>

Newer(f) == getLastWriteTime(f) > watchedFiles[f]

visit(f) == /\ thread = "pass" /\ f \in todo
            /\ todo' = todo \ {f}
            /\ IF Newer(f)
               THEN /\ watchedFiles' = [watchedFiles EXCEPT ![f] = getLastWriteTime(f)]
                    /\ thread' = "callback" /\ changed' = f
               ELSE UNCHANGED <<watchedFiles, thread, changed>>
            /\ UNCHANGED <<resolver, clock, epoch, disk, running, main, starts, outdated>>

handleHotReloadChange == /\ thread = "callback"
                         /\ outdated' = outdated \ getAffected(changed)
                         /\ thread' = "pass" /\ changed' = NoFile
                         /\ UNCHANGED <<resolver, clock, epoch, disk, watchedFiles, running, todo, main, starts>>

\* The thread sleeps first and looks at running_ once a round: stays is the
\* bug of looking at it never.
stays == /\ thread = "pass" /\ todo = {}
         /\ thread' = "sleep"
         /\ UNCHANGED <<resolver, clock, epoch, disk, watchedFiles, running, todo, changed, main, starts, outdated>>

endOfPass == /\ thread = "pass" /\ todo = {}
             /\ thread' = IF running THEN "sleep" ELSE "done"
             /\ UNCHANGED <<resolver, clock, epoch, disk, watchedFiles, running, todo, changed, main, starts, outdated>>

----------------------------------------------------------------------------
(* The file system.  *)

Watching == main \in {"run", "join"}
Tick == /\ Watching /\ clock < MaxTime /\ clock' = clock + 1
        /\ UNCHANGED <<resolver, epoch, disk, watchedFiles, running, thread, todo, changed, main, starts, outdated>>
Write(f) == /\ Watching
            /\ disk' = [disk EXCEPT ![f] = clock]
            /\ outdated' = outdated \union Importers(f)
            /\ UNCHANGED <<resolver, clock, epoch, watchedFiles, running, thread, todo, changed, main, starts>>
Delete(f) == /\ Watching /\ disk[f] # Missing
             /\ disk' = [disk EXCEPT ![f] = Missing]
             /\ UNCHANGED <<resolver, clock, epoch, watchedFiles, running, thread, todo, changed, main, starts, outdated>>

Thread == wake \/ endOfPass \/ handleHotReloadChange \/ \E f \in Edited : visit(f)
Main == Loading \/ Caching \/ Ordering \/ start \/ stop \/ joined \/ \E f \in Edited : watchFile(f) \/ unwatchFile(f)
Editor == Tick \/ \E f \in Edited : Write(f) \/ Delete(f)
Next == Thread \/ Main \/ Editor

\* The scheduler runs the two threads; a join waits for the thread.
Fairness == WF_vars(Thread) /\ WF_vars(joined)
Spec == Init /\ [][Next]_vars /\ Fairness

----------------------------------------------------------------------------
(* Properties *)

(* A write of a later second than the one the watcher knows reaches every   *)
(* module that imports the file, directly or not, while the watcher runs    *)
(* and the file stays (run, getAffected; cycles and aliases declared twice  *)
(* lose an edge of the graph).                                              *)
Pending(f) == running /\ f \in DOMAIN watchedFiles /\ disk[f] # Missing /\ Newer(f)
ChangeReachesImporters ==
  \A f \in Edited :
     (Plain /\ Pending(f))
     ~> (Importers(f) \cap outdated = {} \/ ~running \/ f \notin DOMAIN watchedFiles \/ disk[f] = Missing)

(* stop returns: the thread sees running_ between two passes (stop, run).   *)
StopReturns == main = "join" ~> main = "stopped"
=============================================================================
