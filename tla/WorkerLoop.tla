----------------------------- MODULE WorkerLoop -----------------------------
(***************************************************************************)
(* run_forever and stop of a background worker.  DispatchWorker,            *)
(* RetryWorker and RetentionCompactor share this loop word for word: clear  *)
(* the stop flag, then run_once and wait for the poll interval until the    *)
(* flag is up.  What run_once does is the business of the module that       *)
(* composes the loop with it (DispatchLoop).                                *)
(***************************************************************************)

VARIABLES
    loop,       \* where the task that runs run_forever is
    stopped     \* the asyncio.Event of stop()

loopVars == <<loop, stopped>>

\* "created" is a task whose first step has not run, "round" is inside run_once,
\* "wait" inside wait_for; run_forever has returned ("ended") or raised
\* ("failed").
Running == loop \in {"created", "round", "wait"}

LoopTypeOK ==
    /\ loop \in {"off", "created", "round", "wait", "ended", "failed"}
    /\ stopped \in BOOLEAN

LoopInit ==
    /\ loop = "off"
    /\ stopped = FALSE

\* The host creates the task, for the first time or again after its end.
StartLoop ==
    /\ ~Running
    /\ loop' = "created"
    /\ UNCHANGED stopped

\* run_forever begins: the flag is cleared, so a stop() that came ahead of this
\* step is lost, and the first round starts without another look at the flag.
EnterLoop ==
    /\ loop = "created"
    /\ stopped' = FALSE
    /\ loop' = "round"

\* Mutant: the wait is left without a look at the flag.
WakeUnchecked ==
    /\ loop = "wait"
    /\ loop' = "round"
    /\ UNCHANGED stopped

\* Mutant: the wait has no timeout.
WakeOnStop ==
    /\ loop = "wait"
    /\ stopped
    /\ loop' = "ended"
    /\ UNCHANGED stopped

\* The wait ends, by its timeout or by stop(), and the loop looks at the flag.
Wake ==
    /\ loop = "wait"
    /\ loop' = IF stopped THEN "ended" ELSE "round"
    /\ UNCHANGED stopped

\* run_once returns.
EndRound ==
    /\ loop = "round"
    /\ loop' = "wait"
    /\ UNCHANGED stopped

\* run_once raises: nothing catches it, and run_forever is over.
RaiseLoop ==
    /\ loop = "round"
    /\ loop' = "failed"
    /\ UNCHANGED stopped

\* stop(), from any task and at any time.
StopLoop ==
    /\ ~stopped
    /\ stopped' = TRUE
    /\ UNCHANGED loop
=============================================================================
