---------------------------- MODULE UserRuntime -----------------------------
(***************************************************************************)
(* The AWP task table of arch/x86_64/cpu/user_mode.c: slots, pids, round   *)
(* robin, input delivery and the ways a program ends.  The operators take  *)
(* the runtime as a record                                                 *)
(*                                                                         *)
(*   task   per slot: state, pid, console (the session that launched it),  *)
(*          input (bytes delivered and not read), owns (it holds network   *)
(*          endpoints; AwpNetwork has the detail)                          *)
(*   slot   next_slot                                                      *)
(*   pid    next_pid                                                       *)
(*                                                                         *)
(* and return the runtime afterwards.  active_task is the running task.    *)
(***************************************************************************)
EXTENDS Integers, FiniteSets

CONSTANTS
    TaskCapacity,       \* arwill_user_task_capacity
    InputCapacity,      \* user_input_capacity
    Consoles,           \* the sessions that launch programs
    MaxPid              \* how many programs an instance launches

ASSUME RuntimeAssumption ==
    /\ TaskCapacity \in Nat \ {0}
    /\ InputCapacity \in Nat \ {0}
    /\ MaxPid \in Nat

Slots == 0 .. TaskCapacity - 1
NoPid == 0
NoConsole == "none"
Live == {"ready", "running", "blocked_input"}
Over == {"finished", "faulted"}

\* reset_task_runtime
EmptyTask == [state |-> "empty", pid |-> NoPid, console |-> NoConsole, input |-> 0,
              owns |-> FALSE]

\* arwill_x86_64_user_mode_init
user_mode_init == [task |-> [i \in Slots |-> EmptyTask], slot |-> 0, pid |-> 1]

Runtimes ==
    [task: [Slots -> [state: {"empty"} \cup Live \cup Over, pid: 0 .. MaxPid,
                      console: Consoles \cup {NoConsole}, input: 0 .. InputCapacity,
                      owns: BOOLEAN]],
     slot: Slots, pid: 1 .. MaxPid + 1]

InState(rt, states) == {i \in Slots : rt.task[i].state \in states}

\* The first of the slots, round robin from next_slot.
FirstOf(rt, slots) ==
    CHOOSE i \in slots :
        \A j \in slots : (i - rt.slot) % TaskCapacity <= (j - rt.slot) % TaskCapacity
After(i) == (i + 1) % TaskCapacity

\* find_reusable_task: an empty slot, or else one whose program has ended.
Reusable(rt) ==
    IF InState(rt, {"empty"}) # {} THEN InState(rt, {"empty"}) ELSE InState(rt, Over)

\* prepare_task in the slot find_reusable_task picks.
prepare_task(rt, console) ==
    LET i == FirstOf(rt, Reusable(rt))
    IN  [task |-> [rt.task EXCEPT ![i] = [EmptyTask EXCEPT !.state = "ready", !.pid = rt.pid,
                                                           !.console = console]],
         slot |-> After(i), pid |-> rt.pid + 1]

\* What x86_64_user_spawn_image leaves when a name or an argument is too long, or the
\* image is not a program.
spawn_fails(rt) ==
    LET i == FirstOf(rt, Reusable(rt))
    IN  {[task |-> [rt.task EXCEPT ![i] = EmptyTask], slot |-> After(i), pid |-> p] :
            p \in {rt.pid, rt.pid + 1}}

\* find_task
find_task(rt, pid) == {i \in InState(rt, Live \cup Over) : rt.task[i].pid = pid}
TheTask(rt, pid) == CHOOSE i \in find_task(rt, pid) : TRUE

Set(rt, i, t) == [rt EXCEPT !.task[i] = t]

\* Wrong variant, for the mutation runs: the byte is queued and the reader sleeps on.
deliver_input_asleep(rt, pid) ==
    IF find_task(rt, pid) = {} THEN rt
    ELSE LET i == TheTask(rt, pid)
             t == rt.task[i]
         IN  IF t.state \in {"ready", "blocked_input"} /\ t.input < InputCapacity
             THEN Set(rt, i, [t EXCEPT !.input = @ + 1]) ELSE rt

\* x86_64_user_deliver_input: one byte more, and complete_pending_read for a reader.
deliver_input(rt, pid) ==
    IF find_task(rt, pid) = {} THEN rt
    ELSE LET i == TheTask(rt, pid)
             t == rt.task[i]
         IN  CASE t.state = "blocked_input" -> Set(rt, i, [t EXCEPT !.state = "ready"])
               [] t.state = "ready" /\ t.input < InputCapacity ->
                     Set(rt, i, [t EXCEPT !.input = @ + 1])
               [] OTHER -> rt

\* A program ends: cleanup_task_network and the new state.
EndsIn(t, state) == [t EXCEPT !.state = state, !.owns = FALSE]

\* x86_64_user_cancel
cancel(rt, pid) ==
    IF find_task(rt, pid) = {} THEN rt
    ELSE LET i == TheTask(rt, pid)
         IN  IF rt.task[i].state \in Over \cup {"running"} THEN rt
             ELSE Set(rt, i, EndsIn(rt.task[i], "finished"))

\* x86_64_user_poll resumes the next ready task, if there is one.
Resumed(rt) ==
    LET i == FirstOf(rt, InState(rt, {"ready"}))
    IN  [rt EXCEPT !.task[i].state = "running", !.slot = After(i)]

\* Wrong variant, for the mutation runs: a fault keeps the endpoints.
Leaves_fault(t) ==
    {[t EXCEPT !.state = "ready"], EndsIn(t, "finished"), [t EXCEPT !.state = "faulted"]}
    \cup (IF t.input = 0 THEN {[t EXCEPT !.state = "blocked_input"]} ELSE {})

\* How the running task gives the processor back: the timer or a network call to be
\* retried, exit or an unknown system call, a fault or a bad pointer, a read with no
\* input there.
Leaves(t) ==
    {[t EXCEPT !.state = "ready"], EndsIn(t, "finished"), EndsIn(t, "faulted")}
    \cup (IF t.input = 0 THEN {[t EXCEPT !.state = "blocked_input"]} ELSE {})

\* System calls that return at once: a read of input that is there, and endpoints
\* opened or closed.
Continues(t) ==
    {[t EXCEPT !.input = n] : n \in 0 .. t.input - 1} \cup {[t EXCEPT !.owns = o] : o \in BOOLEAN}
=============================================================================
