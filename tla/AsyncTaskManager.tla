-------------------------- MODULE AsyncTaskManager --------------------------
(***************************************************************************)
(* AsyncTaskManager: promises are added while others run; awaitTasks waits *)
(* for those added so far, then for those added meanwhile, until none is   *)
(* left.  The module has the manager's own state; the module that uses it  *)
(* knows which promises run and says when one fails.                       *)
(***************************************************************************)
EXTENDS FiniteSets

VARIABLES
    tasks,   \* the promises added and not awaited yet
    list,    \* those a call of awaitTasks waits for
    errors,  \* did a task that was added fail?
    await    \* awaitTasks: "none", "waiting", "returned" or "threw"

managerVars == <<tasks, list, errors, await>>

ManagerInit == tasks = {} /\ list = {} /\ errors = FALSE /\ await = "none"

\* Not added once the token is cancelled; the promise runs all the same.
AddTasks(ts, cancelled) ==
    /\ tasks' = IF cancelled THEN tasks ELSE tasks \union ts
    /\ UNCHANGED <<list, errors, await>>

\* A task fails that was added (its error is caught and kept).
TaskFails == errors' = TRUE /\ UNCHANGED <<tasks, list, await>>

\* cancelTasks forgets the promises; nothing stops what they do.
CancelTasks == tasks' = {} /\ UNCHANGED <<list, errors, await>>

TakeCopy(ts) == list' = ts /\ tasks' = ts /\ await' = "waiting"        \* mutant

\* All that are there are awaited, and the list of the manager is emptied.
Take(ts) == list' = ts /\ tasks' = {} /\ await' = "waiting"
Give(how) == tasks' = {} /\ list' = {} /\ await' = how

\* addTask(ts), then awaitTasks up to its first await.
StartAwait(ts, cancelled) ==
    /\ CASE cancelled -> Give("returned")
         [] ~cancelled /\ errors -> Give("threw")
         [] ~cancelled /\ ~errors /\ tasks \union ts = {} -> Give("returned")
         [] OTHER -> Take(tasks \union ts)
    /\ UNCHANGED errors

StopsAfterOneRound(cancelled) ==
    IF errors THEN Give("threw") ELSE Give("returned")               \* mutant

\* The loop of awaitTasks, when every promise of list has ended.
NextRound(cancelled) ==
    CASE errors -> Give("threw")
      [] ~errors /\ (tasks = {} \/ cancelled) -> Give("returned")
      [] OTHER -> Take(tasks)

ContinueAwait(running, cancelled) ==
    /\ await = "waiting" /\ list \cap running = {}
    /\ NextRound(cancelled)
    /\ UNCHANGED errors
=============================================================================
