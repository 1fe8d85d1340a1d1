--------------------------- MODULE ProcessManager ---------------------------
(***************************************************************************)
(* The cooperative kernel task manager of kernel/process.c and the code    *)
(* that drives it: the main shell loop, the two permanent system tasks     *)
(* (network-poll and remote-console) and the manual kernel tasks started   *)
(* by the shell command `run`.                                             *)
(*                                                                         *)
(* There is one CPU and no kernel preemption, so exactly one stack is      *)
(* executing: the main stack or the stack of one table slot.  What can go  *)
(* wrong is the bookkeeping between stacks.  run_ready_kind keeps a local  *)
(* scheduler context, publishes its address in manager->scheduler_context, *)
(* and a task that runs a nested dispatch (remote-console executing `run`) *)
(* overwrites both manager->current and manager->scheduler_context and has *)
(* to put them back.                                                       *)
(***************************************************************************)
EXTENDS Integers, FiniteSets

CONSTANTS
    Capacity,       \* arwill_process_table_capacity
    PidLimit,       \* pids are 1 .. PidLimit - 1; next_pid wraps to 1
    Main,           \* the stack of arwill_shell_run
    None            \* a null pointer

Slots == 0 .. Capacity - 1
Stacks == Slots \cup {Main}

\* start_shell_system_tasks spawns the two system tasks into the empty table.
NetworkPoll == 0
RemoteConsole == 1
SystemTasks == {NetworkPoll, RemoteConsole}

ASSUME ConstantsAssumption ==
    /\ Capacity \in Nat /\ Capacity > 2
    /\ PidLimit \in Nat /\ PidLimit > 3
    /\ Main \notin Slots
    /\ None \notin Slots \cup {Main}

States == {"empty", "ready", "running", "finished"}
Kinds == {"kernel", "system"}
Pids == 0 .. PidLimit - 1

VARIABLES
    state,          \* process->state, per slot
    kind,           \* process->kind
    pid,            \* process->pid
    runtimePid,     \* runtime.pid captured by process_trampoline on the slot's stack
    fresh,          \* slots whose saved context is still the bootstrap frame
    nextPid,        \* manager->next_pid
    current,        \* manager->current
    scheduler,      \* the stack that owns *manager->scheduler_context
    dispatching,    \* the kind a stack's run_ready_kind invocation runs, or "none"
    index,          \* its local index
    previousProcess,    \* its local previous_process
    previousScheduler,  \* the stack that owns its local previous_scheduler
    executing,      \* the stack the CPU is on
    served,         \* what the executing code of each stack did in this pass
    visited         \* system slots the running main-loop pass has dispatched

vars == <<state, kind, pid, runtimePid, fresh, nextPid, current, scheduler,
          dispatching, index, previousProcess, previousScheduler, executing,
          served, visited>>

table == <<state, kind, pid, fresh>>
locals == <<dispatching, index, previousProcess, previousScheduler>>

InDispatch(c) == dispatching[c] # "none"

\* The serial shell runs on the main stack, the remote shell on its system task's.
ShellStacks == {Main, RemoteConsole}

\* The code of stack c itself is executing, not a dispatch loop it called.
RunsCode(c) == executing = c /\ ~InDispatch(c)

-----------------------------------------------------------------------------

\* The slots find_spawn_slot prefers: the first empty one, else the first finished one.
FirstWith(s, st) == state[s] = st /\ \A r \in Slots : r < s => state[r] # st

\* Wrong variant, for the mutation runs: a ready task's slot is taken too.
find_spawn_slot_ready(s) ==
    \/ FirstWith(s, "empty")
    \/ FirstWith(s, "ready") /\ \A r \in Slots : state[r] # "empty"

find_spawn_slot(s) ==
    \/ FirstWith(s, "empty")
    \/ FirstWith(s, "finished") /\ \A r \in Slots : state[r] # "empty"

WrapPid(p) == IF p + 1 = PidLimit THEN 1 ELSE p + 1

\* spawn_process: the chosen slot gets the next pid and a fresh context on its stack.
spawn_process(k, s) ==
    /\ find_spawn_slot(s)
    /\ state' = [state EXCEPT ![s] = "ready"]
    /\ kind' = [kind EXCEPT ![s] = k]
    /\ pid' = [pid EXCEPT ![s] = nextPid]
    /\ fresh' = fresh \cup {s}
    /\ nextPid' = WrapPid(nextPid)

\* Entry of run_ready_kind on stack c: remember what the caller had published.
EnterDispatch(c, k) ==
    /\ dispatching' = [dispatching EXCEPT ![c] = k]
    /\ index' = [index EXCEPT ![c] = 0]
    /\ previousProcess' = [previousProcess EXCEPT ![c] = current]
    /\ previousScheduler' = [previousScheduler EXCEPT ![c] = scheduler]

\* The dispatch loop of stack c stops at slot s next.
NextReady(c, s) ==
    /\ s >= index[c]
    /\ state[s] = "ready" /\ kind[s] = dispatching[c]
    /\ \A r \in Slots : (r >= index[c] /\ r < s) =>
            ~(state[r] = "ready" /\ kind[r] = dispatching[c])

\* Wrong variant, for the mutation runs: manager->current is not put back.
BackInDispatch_current(c) ==
    /\ executing' = c
    /\ scheduler' = previousScheduler[c]
    /\ index' = [index EXCEPT ![c] = @ + 1]
    /\ UNCHANGED <<current, dispatching, previousProcess, previousScheduler>>

\* Wrong variant, for the mutation runs: manager->scheduler_context is not put back.
BackInDispatch_scheduler(c) ==
    /\ executing' = c
    /\ current' = previousProcess[c]
    /\ index' = [index EXCEPT ![c] = @ + 1]
    /\ UNCHANGED <<scheduler, dispatching, previousProcess, previousScheduler>>

\* What run_ready_kind does when the switch to the task returns to it.
BackInDispatch(c) ==
    /\ executing' = c
    /\ current' = previousProcess[c]
    /\ scheduler' = previousScheduler[c]
    /\ index' = [index EXCEPT ![c] = @ + 1]
    /\ UNCHANGED <<dispatching, previousProcess, previousScheduler>>

-----------------------------------------------------------------------------

Init ==
    /\ state = [s \in Slots |-> IF s \in SystemTasks THEN "ready" ELSE "empty"]
    /\ kind = [s \in Slots |-> IF s \in SystemTasks THEN "system" ELSE "kernel"]
    /\ pid = [s \in Slots |-> IF s \in SystemTasks THEN s + 1 ELSE 0]
    /\ runtimePid = [s \in Slots |-> 0]
    /\ fresh = SystemTasks
    /\ nextPid = 3
    /\ current = None
    /\ scheduler = None
    /\ dispatching = [c \in Stacks |-> "none"]
    /\ index = [c \in Stacks |-> 0]
    /\ previousProcess = [c \in Stacks |-> None]
    /\ previousScheduler = [c \in Stacks |-> None]
    /\ executing = Main
    /\ served = [c \in Stacks |-> FALSE]
    /\ visited = {}

\* A shell byte that completes `run <name>`: spawn, then one pass over kernel tasks.
RunCommand(c) ==
    /\ c \in ShellStacks /\ RunsCode(c) /\ ~served[c]
    /\ \E s \in Slots : spawn_process("kernel", s)
    /\ EnterDispatch(c, "kernel")
    /\ served' = [served EXCEPT ![c] = TRUE]
    /\ UNCHANGED <<runtimePid, current, scheduler, executing, visited>>

\* `run` with a full table reports it and does nothing; so does an ordinary byte.
OtherCommand(c) ==
    /\ c \in ShellStacks /\ RunsCode(c) /\ ~served[c]
    /\ served' = [served EXCEPT ![c] = TRUE]
    /\ UNCHANGED <<table, runtimePid, nextPid, current, scheduler, locals,
                   executing, visited>>

\* The hidden command `step`: one pass over kernel tasks.
StepCommand(c) ==
    /\ c \in ShellStacks /\ RunsCode(c) /\ ~served[c]
    /\ EnterDispatch(c, "kernel")
    /\ served' = [served EXCEPT ![c] = TRUE]
    /\ UNCHANGED <<table, runtimePid, nextPid, current, scheduler, executing, visited>>

\* The main loop reaches arwill_process_run_system.
RunSystem ==
    /\ RunsCode(Main) /\ served[Main]
    /\ EnterDispatch(Main, "system")
    /\ served' = [served EXCEPT ![Main] = FALSE]
    /\ visited' = {}
    /\ UNCHANGED <<table, runtimePid, nextPid, current, scheduler, executing>>

\* Wrong variant, for the mutation runs: the dispatched task stays ready.
Dispatch_ready(c, s) ==
    /\ executing = c /\ InDispatch(c)
    /\ NextReady(c, s)
    /\ fresh' = fresh \ {s}
    /\ runtimePid' = IF s \in fresh THEN [runtimePid EXCEPT ![s] = pid[s]] ELSE runtimePid
    /\ index' = [index EXCEPT ![c] = s]
    /\ current' = s
    /\ scheduler' = c
    /\ executing' = s
    /\ served' = [served EXCEPT ![s] = FALSE]
    /\ visited' = IF kind[s] = "system" THEN visited \cup {s} ELSE visited
    /\ UNCHANGED <<state, kind, pid, nextPid, dispatching, previousProcess, previousScheduler>>

\* run_ready_kind switches to the next ready task of its kind.  A fresh context
\* starts in process_trampoline, which captures the pid for the task's runtime.
Dispatch(c, s) ==
    /\ executing = c /\ InDispatch(c)
    /\ NextReady(c, s)
    /\ state' = [state EXCEPT ![s] = "running"]
    /\ fresh' = fresh \ {s}
    /\ runtimePid' = IF s \in fresh THEN [runtimePid EXCEPT ![s] = pid[s]] ELSE runtimePid
    /\ index' = [index EXCEPT ![c] = s]
    /\ current' = s
    /\ scheduler' = c
    /\ executing' = s
    /\ served' = [served EXCEPT ![s] = FALSE]
    /\ visited' = IF kind[s] = "system" THEN visited \cup {s} ELSE visited
    /\ UNCHANGED <<kind, pid, nextPid, dispatching, previousProcess, previousScheduler>>

\* The loop of run_ready_kind ends; the caller continues on the same stack.
ReturnFromDispatch(c) ==
    /\ executing = c /\ InDispatch(c)
    /\ ~ \E s \in Slots : NextReady(c, s)
    /\ dispatching' = [dispatching EXCEPT ![c] = "none"]
    /\ index' = [index EXCEPT ![c] = 0]
    /\ previousProcess' = [previousProcess EXCEPT ![c] = None]
    /\ previousScheduler' = [previousScheduler EXCEPT ![c] = None]
    /\ UNCHANGED <<table, runtimePid, nextPid, current, scheduler, executing,
                   served, visited>>

\* The early return of arwill_process_yield is not taken.
YieldAllowed(s) ==
    /\ current # None
    /\ pid[current] = runtimePid[s]
    /\ scheduler # None

\* Wrong variant, for the mutation runs: a yielding task is marked finished.
Yield_finishes(s) ==
    /\ RunsCode(s)
    /\ s = RemoteConsole => served[s]
    /\ YieldAllowed(s)
    /\ state' = [state EXCEPT ![current] = "finished"]
    /\ BackInDispatch(scheduler)
    /\ UNCHANGED <<kind, pid, fresh, runtimePid, nextPid, served, visited>>

\* arwill_process_yield, called by the code on stack s.
Yield(s) ==
    /\ RunsCode(s)
    /\ s = RemoteConsole => served[s]
    /\ YieldAllowed(s)
    /\ state' = [state EXCEPT ![current] = "ready"]
    /\ BackInDispatch(scheduler)
    /\ UNCHANGED <<kind, pid, fresh, runtimePid, nextPid, served, visited>>

\* process_trampoline after the entry returned.  System task entries loop for ever.
Finish(s) ==
    /\ RunsCode(s) /\ kind[s] = "kernel"
    /\ scheduler # None
    /\ state' = [state EXCEPT ![s] = "finished"]
    /\ BackInDispatch(scheduler)
    /\ UNCHANGED <<kind, pid, fresh, runtimePid, nextPid, served, visited>>

Next ==
    \/ \E c \in Stacks :
          \/ RunCommand(c)
          \/ OtherCommand(c)
          \/ StepCommand(c)
          \/ ReturnFromDispatch(c)
          \/ \E s \in Slots : Dispatch(c, s)
    \/ RunSystem
    \/ \E s \in Slots : Yield(s) \/ Finish(s)

Spec == Init /\ [][Next]_vars

\* The CPU never stops: some enabled step is eventually taken.
FairSpec == Spec /\ WF_vars(Next)

-----------------------------------------------------------------------------

\* The type invariant of the task table and of the dispatch loops' locals: next_pid skips
\* 0 when it wraps and an index never passes the end of the table.
TypeOK ==
    /\ state \in [Slots -> States]
    /\ kind \in [Slots -> Kinds]
    /\ pid \in [Slots -> Pids]
    /\ runtimePid \in [Slots -> Pids]
    /\ fresh \in SUBSET Slots
    /\ nextPid \in 1 .. PidLimit - 1
    /\ current \in Slots \cup {None}
    /\ scheduler \in Stacks \cup {None}
    /\ dispatching \in [Stacks -> Kinds \cup {"none"}]
    /\ index \in [Stacks -> 0 .. Capacity]
    /\ previousProcess \in [Stacks -> Slots \cup {None}]
    /\ previousScheduler \in [Stacks -> Stacks \cup {None}]
    /\ executing \in Stacks
    /\ served \in [Stacks -> BOOLEAN]
    /\ visited \in SUBSET Slots

\* A yield always takes effect.  Whenever a task's own code runs, also after a
\* nested dispatch came back to it, arwill_process_yield finds manager->current
\* with the task's pid and a scheduler context; otherwise the call would return
\* at once and the polling loops of the system tasks would never give up the CPU.
YieldTakesEffect == \A s \in Slots : RunsCode(s) => YieldAllowed(s)

\* A yielding or finishing task switches to the dispatch loop that selected it:
\* the published scheduler context belongs to a stack that is inside
\* run_ready_kind and stopped at exactly this slot.
YieldReachesDispatcher ==
    executing \in Slots =>
        /\ current = executing
        /\ scheduler \in Stacks \ {executing}
        /\ InDispatch(scheduler) /\ index[scheduler] = executing

\* No stack is entered twice: a slot is running exactly when it is executing or
\* is itself suspended inside a nested dispatch, and two suspended dispatch loops
\* never wait for the same task.
StacksNotShared ==
    /\ \A s \in Slots : state[s] = "running" <=> (executing = s \/ InDispatch(s))
    /\ \A c, d \in Stacks :
          (InDispatch(c) /\ InDispatch(d) /\ c # executing /\ d # executing
             /\ index[c] = index[d]) => c = d

\* spawn_process reinitialises a slot's stack only when no suspended or running
\* code lives on it.
SpawnKeepsLiveStacks ==
    [][\A s \in fresh' \ fresh :
          (state[s] \in {"empty", "finished"} /\ executing # s /\ ~InDispatch(s))]_vars

\* One pass of the main loop over the system kind dispatches every system task.
EveryPassServesSystemTasks ==
    [][(dispatching[Main] = "system" /\ dispatching'[Main] = "none")
          => \A s \in Slots : kind[s] = "system" => s \in visited]_vars

\* Network polling and the remote console are served again and again, whatever
\* the two shells and the manual kernel tasks do.
SystemTasksKeepRunning ==
    \A s \in SystemTasks : []<>(executing = s)

=============================================================================
