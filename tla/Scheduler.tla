------------------------------ MODULE Scheduler ------------------------------
(***************************************************************************)
(* The background job scheduler of one server process:                      *)
(*   internal/scheduler/scheduler.go                                        *)
(*                                                                          *)
(* A job is executed by two kinds of goroutine: its own loop, which runJob  *)
(* starts and Stop waits for, and the one RunJobNow starts, which nobody    *)
(* waits for.  What a run of a job does is the business of the module that  *)
(* composes this one: it acts while runner[j][x] is "running".              *)
(***************************************************************************)
EXTENDS FiniteSets

CONSTANT Jobs

VARIABLES
    running,    \* Scheduler.running
    cancelled,  \* Scheduler.ctx is done
    isRunning,  \* JobStatus.IsRunning
    runner,     \* runner[j][x]: where executor x of job j is
    ticked      \* the ticker's channel holds a tick: its capacity is one

schedVars == <<running, cancelled, isRunning, runner, ticked>>

Executors == {"loop", "manual"}
Places == {"off", "ready", "running", "waiting"}

Put(j, x, place) == runner' = [runner EXCEPT ![j][x] = place]

(* A process that is not there: no goroutine. *)
SchedInit ==
    /\ running = FALSE
    /\ cancelled = FALSE
    /\ isRunning = [j \in Jobs |-> FALSE]
    /\ runner = [j \in Jobs |-> [x \in Executors |-> "off"]]
    /\ ticked = [j \in Jobs |-> FALSE]

Start ==
    /\ ~running
    /\ running' = TRUE
    /\ cancelled' = FALSE
    /\ runner' = [j \in Jobs |-> [runner[j] EXCEPT !["loop"] = "ready"]]
    /\ UNCHANGED <<isRunning, ticked>>

(* The first half of Stop; its caller then waits until Stopped. *)
Stop ==
    /\ running
    /\ running' = FALSE
    /\ cancelled' = TRUE
    /\ UNCHANGED <<isRunning, runner, ticked>>

Stopped == ~running /\ \A j \in Jobs : runner[j]["loop"] = "off"

(* The ticker drops ticks its reader is too slow for. *)
Tick(j) ==
    /\ runner[j]["loop"] # "off" /\ ~ticked[j]
    /\ ticked' = [ticked EXCEPT ![j] = TRUE]
    /\ UNCHANGED <<running, cancelled, isRunning, runner>>

(* With the context done and a tick waiting, select takes either.           *)
TakeTick(j) ==
    /\ runner[j]["loop"] = "waiting" /\ ticked[j]
    /\ ticked' = [ticked EXCEPT ![j] = FALSE]
    /\ Put(j, "loop", "ready")
    /\ UNCHANGED <<running, cancelled, isRunning>>

Leave(j) ==
    /\ runner[j]["loop"] = "waiting" /\ cancelled
    /\ Put(j, "loop", "off")
    /\ ticked' = [ticked EXCEPT ![j] = FALSE]
    /\ UNCHANGED <<running, cancelled, isRunning>>

RunJobNow(j) ==
    /\ runner[j]["manual"] = "off"
    /\ Put(j, "manual", "ready")
    /\ UNCHANGED <<running, cancelled, isRunning, ticked>>

(* executeJob returned: the loop selects again, the other goroutine ends.   *)
Rest(x) == IF x = "loop" THEN "waiting" ELSE "off"

MutantExecuteJob(j, x) == \* whether it runs or not
    /\ runner[j][x] = "ready"
    /\ isRunning' = [isRunning EXCEPT ![j] = TRUE]
    /\ Put(j, x, "running")
    /\ UNCHANGED <<running, cancelled, ticked>>
ExecuteJob(j, x) ==
    /\ runner[j][x] = "ready" /\ ~isRunning[j]
    /\ isRunning' = [isRunning EXCEPT ![j] = TRUE]
    /\ Put(j, x, "running")
    /\ UNCHANGED <<running, cancelled, ticked>>

SkipJob(j, x) ==
    /\ runner[j][x] = "ready" /\ isRunning[j]
    /\ Put(j, x, Rest(x))
    /\ UNCHANGED <<running, cancelled, isRunning, ticked>>

MutantFinishJob(j, x) == \* IsRunning is not reset
    /\ runner[j][x] = "running"
    /\ Put(j, x, Rest(x))
    /\ UNCHANGED <<running, cancelled, isRunning, ticked>>
FinishJob(j, x) ==
    /\ runner[j][x] = "running"
    /\ isRunning' = [isRunning EXCEPT ![j] = FALSE]
    /\ Put(j, x, Rest(x))
    /\ UNCHANGED <<running, cancelled, ticked>>

(* The process ends, on purpose or not. *)
Die ==
    /\ running' = FALSE
    /\ cancelled' = FALSE
    /\ isRunning' = [j \in Jobs |-> FALSE]
    /\ runner' = [j \in Jobs |-> [x \in Executors |-> "off"]]
    /\ ticked' = [j \in Jobs |-> FALSE]

SchedTypeOK ==
    /\ running \in BOOLEAN /\ cancelled \in BOOLEAN
    /\ isRunning \in [Jobs -> BOOLEAN]
    /\ runner \in [Jobs -> [Executors -> Places]]
    /\ ticked \in [Jobs -> BOOLEAN]

(* A job is running exactly when one of its executors is in Run, and then   *)
(* only one is: executeJob.                                                 *)
RunsDoNotOverlap ==
    \A j \in Jobs :
      /\ isRunning[j] = (\E x \in Executors : runner[j][x] = "running")
      /\ \A x, y \in Executors :
           runner[j][x] = "running" /\ runner[j][y] = "running" => x = y
==============================================================================
