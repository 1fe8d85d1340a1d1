------------------------ MODULE ProcessManagerProofs ------------------------
(***************************************************************************)
(* The task manager's stack discipline, for every table size and pid range.*)
(***************************************************************************)
EXTENDS ProcessManager, TLAPS

\* The main stack runs with no task and no scheduler context published.
MainPublishesNothing == executing = Main => current = None /\ scheduler = None

\* A dispatch loop remembers its own caller: the task it runs on, and the
\* dispatch loop that is waiting for that task.
LocalsRestoreCaller ==
    /\ InDispatch(Main) => previousProcess[Main] = None /\ previousScheduler[Main] = None
    /\ \A s \in Slots : InDispatch(s) =>
          /\ previousProcess[s] = s
          /\ previousScheduler[s] \in Stacks \ {s, executing}
          /\ InDispatch(previousScheduler[s])
          /\ index[previousScheduler[s]] = s

\* A suspended dispatch loop waits for a task that is running.
WaitsForRunning ==
    \A c \in Stacks : (InDispatch(c) /\ c # executing) =>
        index[c] \in Slots \ {c} /\ state[index[c]] = "running"

\* A task that has started knows its own pid.
RuntimeKnowsPid ==
    \A s \in Slots :
        (state[s] = "running" \/ (state[s] = "ready" /\ s \notin fresh))
            => pid[s] = runtimePid[s]

\* The inductive invariant.
IInv ==
    /\ TypeOK
    /\ MainPublishesNothing
    /\ YieldReachesDispatcher
    /\ LocalsRestoreCaller
    /\ StacksNotShared
    /\ WaitsForRunning
    /\ RuntimeKnowsPid

USE DEF Slots, Stacks, SystemTasks, NetworkPoll, RemoteConsole, InDispatch

\* The table start_shell_system_tasks leaves behind satisfies the invariant.
LEMMA InitIInv == Init => IInv
<1> SUFFICES ASSUME Init PROVE IInv
  OBVIOUS
<1> USE ConstantsAssumption DEF Init
<1>1. TypeOK
  BY DEF TypeOK, States, Kinds, Pids
<1>2. QED
  BY <1>1 DEF IInv, MainPublishesNothing, YieldReachesDispatcher, LocalsRestoreCaller,
     StacksNotShared, WaitsForRunning, RuntimeKnowsPid

\* Spawning into a slot that find_spawn_slot chose keeps every table type.
LEMMA SpawnType ==
    ASSUME TypeOK, NEW k \in Kinds, NEW s \in Slots, spawn_process(k, s)
    PROVE  /\ state' \in [Slots -> States]
           /\ kind' \in [Slots -> Kinds]
           /\ pid' \in [Slots -> Pids]
           /\ fresh' \in SUBSET Slots
           /\ nextPid' \in 1 .. PidLimit - 1
           /\ state[s] \in {"empty", "finished"}
           /\ state'[s] = "ready" /\ fresh' = fresh \cup {s}
           /\ \A r \in Slots \ {s} : state'[r] = state[r] /\ pid'[r] = pid[r]
  BY ConstantsAssumption
     DEF TypeOK, spawn_process, find_spawn_slot, FirstWith, WrapPid, States, Kinds, Pids

\* What a task's code finds published: itself, and the loop stopped at its slot.
LEMMA CallerOfRunning ==
    ASSUME IInv, NEW s \in Slots, RunsCode(s)
    PROVE  /\ current = s
           /\ scheduler \in Stacks \ {s}
           /\ InDispatch(scheduler) /\ index[scheduler] = s
  BY DEF IInv, YieldReachesDispatcher, RunsCode

\* Returning to that loop keeps the types of what run_ready_kind restores.
LEMMA BackType ==
    ASSUME IInv, NEW s \in Slots, RunsCode(s), BackInDispatch(scheduler)
    PROVE  /\ executing' \in Stacks
           /\ current' \in Slots \cup {None}
           /\ scheduler' \in Stacks \cup {None}
           /\ index' \in [Stacks -> 0 .. Capacity]
           /\ dispatching' = dispatching
           /\ previousProcess' = previousProcess
           /\ previousScheduler' = previousScheduler
<1>1. scheduler \in Stacks /\ index[scheduler] = s /\ s + 1 \in 0 .. Capacity
  BY CallerOfRunning, ConstantsAssumption
<1>2. index' = [index EXCEPT ![scheduler] = s + 1]
  BY <1>1 DEF BackInDispatch
<1>3. index' \in [Stacks -> 0 .. Capacity]
  BY <1>1, <1>2 DEF IInv, TypeOK
<1>4. QED
  BY <1>1, <1>3 DEF IInv, TypeOK, BackInDispatch

\* Every step keeps the types.
LEMMA TypeStep == IInv /\ [Next]_vars => TypeOK'
<1> SUFFICES ASSUME IInv, [Next]_vars PROVE TypeOK'
  OBVIOUS
<1> USE ConstantsAssumption
<1>a. TypeOK
  BY DEF IInv
<1>1. ASSUME NEW c \in Stacks, RunCommand(c) PROVE TypeOK'
  <2>1. PICK s \in Slots : spawn_process("kernel", s)
    BY <1>1 DEF RunCommand
  <2>2. "kernel" \in Kinds
    BY DEF Kinds
  <2>3. /\ state' \in [Slots -> States] /\ kind' \in [Slots -> Kinds]
        /\ pid' \in [Slots -> Pids] /\ fresh' \in SUBSET Slots
        /\ nextPid' \in 1 .. PidLimit - 1
    BY <1>a, <2>1, <2>2, SpawnType
  <2>4. QED
    BY <1>a, <1>1, <2>2, <2>3 DEF RunCommand, EnterDispatch, TypeOK
<1>2. ASSUME NEW c \in Stacks, OtherCommand(c) PROVE TypeOK'
  BY <1>a, <1>2 DEF OtherCommand, TypeOK, table, locals
<1>3. ASSUME NEW c \in Stacks, StepCommand(c) PROVE TypeOK'
  <2>1. "kernel" \in Kinds
    BY DEF Kinds
  <2>2. QED
    BY <1>a, <1>3, <2>1 DEF StepCommand, EnterDispatch, TypeOK, table
<1>4. ASSUME NEW c \in Stacks, ReturnFromDispatch(c) PROVE TypeOK'
  BY <1>a, <1>4 DEF ReturnFromDispatch, TypeOK, table
<1>5. ASSUME NEW c \in Stacks, NEW s \in Slots, Dispatch(c, s) PROVE TypeOK'
  BY <1>a, <1>5 DEF Dispatch, TypeOK, States
<1>6. CASE RunSystem
  <2>1. "system" \in Kinds
    BY DEF Kinds
  <2>2. QED
    BY <1>a, <1>6, <2>1 DEF RunSystem, EnterDispatch, TypeOK, table
<1>7. ASSUME NEW s \in Slots, Yield(s) PROVE TypeOK'
  <2>1. current = s /\ BackInDispatch(scheduler) /\ RunsCode(s)
    BY <1>7, CallerOfRunning DEF Yield
  <2>2. state' \in [Slots -> States]
    BY <1>a, <1>7, <2>1 DEF Yield, TypeOK, States
  <2>3. QED
    BY <1>a, <1>7, <2>1, <2>2, BackType DEF Yield, TypeOK
<1>8. ASSUME NEW s \in Slots, Finish(s) PROVE TypeOK'
  <2>1. BackInDispatch(scheduler) /\ RunsCode(s)
    BY <1>8 DEF Finish
  <2>2. state' \in [Slots -> States]
    BY <1>a, <1>8 DEF Finish, TypeOK, States
  <2>3. QED
    BY <1>a, <1>8, <2>1, <2>2, BackType DEF Finish, TypeOK
<1>9. CASE UNCHANGED vars
  BY <1>a, <1>9 DEF TypeOK, vars
<1> QED
  BY <1>1, <1>2, <1>3, <1>4, <1>5, <1>6, <1>7, <1>8, <1>9 DEF Next

\* Everything but the types and the pids.
Discipline ==
    /\ MainPublishesNothing
    /\ YieldReachesDispatcher
    /\ LocalsRestoreCaller
    /\ StacksNotShared
    /\ WaitsForRunning

\* Entering run_ready_kind from a stack's own code.
LEMMA EnterStep ==
    ASSUME IInv, NEW c \in Stacks, NEW k \in Kinds,
           RunsCode(c), EnterDispatch(c, k),
           UNCHANGED <<current, scheduler, executing>>,
           \A r \in Slots : (state[r] = "running") <=> (state'[r] = "running")
    PROVE  Discipline'
<1> USE ConstantsAssumption
<1>1. /\ executing = c /\ ~InDispatch(c) /\ k # "none"
      /\ executing' = c /\ current' = current /\ scheduler' = scheduler
  BY DEF RunsCode, Kinds
<1>2. /\ dispatching'[c] = k
      /\ previousProcess'[c] = current /\ previousScheduler'[c] = scheduler
      /\ \A d \in Stacks \ {c} :
            /\ dispatching'[d] = dispatching[d] /\ index'[d] = index[d]
            /\ previousProcess'[d] = previousProcess[d]
            /\ previousScheduler'[d] = previousScheduler[d]
  BY DEF EnterDispatch, IInv, TypeOK
<1>3. MainPublishesNothing'
  BY <1>1 DEF IInv, MainPublishesNothing
<1>4. YieldReachesDispatcher'
  BY <1>1, <1>2 DEF IInv, YieldReachesDispatcher
<1>5. LocalsRestoreCaller'
  <2>1. InDispatch(Main)' => previousProcess'[Main] = None /\ previousScheduler'[Main] = None
    BY <1>1, <1>2 DEF IInv, LocalsRestoreCaller, MainPublishesNothing
  <2>2. ASSUME NEW s \in Slots, InDispatch(s)'
        PROVE  /\ previousProcess'[s] = s
               /\ previousScheduler'[s] \in Stacks \ {s, executing'}
               /\ InDispatch(previousScheduler[s])'
               /\ index'[previousScheduler'[s]] = s
    <3>1. CASE s = c
      <4>1. current = s /\ scheduler \in Stacks \ {s} /\ InDispatch(scheduler)
            /\ index[scheduler] = s
        BY <3>1, CallerOfRunning
      <4>2. dispatching'[scheduler] = dispatching[scheduler] /\ index'[scheduler] = s
        BY <1>2, <3>1, <4>1
      <4>3. QED
        BY <1>1, <1>2, <3>1, <4>1, <4>2
    <3>2. CASE s # c
      <4>1. /\ previousProcess'[s] = s /\ previousScheduler'[s] = previousScheduler[s]
            /\ previousScheduler[s] \in Stacks \ {s, c}
            /\ InDispatch(previousScheduler[s]) /\ index[previousScheduler[s]] = s
        BY <1>1, <1>2, <2>2, <3>2 DEF IInv, LocalsRestoreCaller
      <4>2. QED
        BY <1>1, <1>2, <4>1
    <3>3. QED
      BY <3>1, <3>2
  <2>3. QED
    BY <2>1, <2>2 DEF LocalsRestoreCaller
<1>6. StacksNotShared'
  BY <1>1, <1>2 DEF IInv, StacksNotShared
<1>7. WaitsForRunning'
  BY <1>1, <1>2 DEF IInv, WaitsForRunning
<1>8. QED
  BY <1>3, <1>4, <1>5, <1>6, <1>7 DEF Discipline

\* Switching from a dispatch loop to a ready task.
LEMMA DispatchStep ==
    ASSUME IInv, NEW c \in Stacks, NEW s \in Slots, Dispatch(c, s)
    PROVE  Discipline' /\ RuntimeKnowsPid'
<1> USE ConstantsAssumption
<1>1. /\ executing = c /\ InDispatch(c) /\ state[s] = "ready"
      /\ executing' = s /\ current' = s /\ scheduler' = c
      /\ dispatching' = dispatching
      /\ previousProcess' = previousProcess /\ previousScheduler' = previousScheduler
  BY DEF Dispatch, NextReady
<1>2. s # c /\ ~InDispatch(s)
  BY <1>1 DEF IInv, StacksNotShared
<1>3. /\ state'[s] = "running" /\ \A r \in Slots \ {s} : state'[r] = state[r]
      /\ index'[c] = s /\ \A d \in Stacks \ {c} : index'[d] = index[d]
  BY DEF Dispatch, IInv, TypeOK
<1>4. MainPublishesNothing'
  BY <1>1 DEF MainPublishesNothing
<1>5. YieldReachesDispatcher'
  BY <1>1, <1>2, <1>3 DEF YieldReachesDispatcher
<1>6. LocalsRestoreCaller'
  <2>1. InDispatch(Main)' => previousProcess'[Main] = None /\ previousScheduler'[Main] = None
    BY <1>1 DEF IInv, LocalsRestoreCaller
  <2>2. ASSUME NEW r \in Slots, InDispatch(r)'
        PROVE  /\ previousProcess'[r] = r
               /\ previousScheduler'[r] \in Stacks \ {r, executing'}
               /\ InDispatch(previousScheduler[r])'
               /\ index'[previousScheduler'[r]] = r
    <3>1. /\ previousProcess[r] = r
          /\ previousScheduler[r] \in Stacks \ {r, c}
          /\ InDispatch(previousScheduler[r]) /\ index[previousScheduler[r]] = r
      BY <1>1, <2>2 DEF IInv, LocalsRestoreCaller
    <3>2. QED
      BY <1>1, <1>2, <1>3, <3>1
  <2>3. QED
    BY <2>1, <2>2 DEF LocalsRestoreCaller
<1>7. StacksNotShared'
  <2>1. \A r \in Slots : (state[r] = "running" <=> (executing = r \/ InDispatch(r)))'
    BY <1>1, <1>2, <1>3 DEF IInv, StacksNotShared
  <2>2. ASSUME NEW d \in Stacks, NEW e \in Stacks,
               (InDispatch(d) /\ InDispatch(e) /\ d # executing /\ e # executing
                  /\ index[d] = index[e])'
        PROVE  d = e
    <3>1. ASSUME NEW f \in Stacks \ {c}, InDispatch(f) PROVE index[f] # s
      BY <1>1, <3>1 DEF IInv, WaitsForRunning
    <3>2. CASE d # c /\ e # c
      BY <1>1, <1>3, <2>2, <3>2 DEF IInv, StacksNotShared
    <3>3. QED
      BY <1>1, <1>3, <2>2, <3>1, <3>2
  <2>3. QED
    BY <2>1, <2>2 DEF StacksNotShared
<1>8. WaitsForRunning'
  BY <1>1, <1>2, <1>3 DEF IInv, WaitsForRunning
<1>9. RuntimeKnowsPid'
  <2>1. /\ pid' = pid /\ fresh' = fresh \ {s}
        /\ runtimePid' = IF s \in fresh THEN [runtimePid EXCEPT ![s] = pid[s]]
                                        ELSE runtimePid
    BY DEF Dispatch, IInv, TypeOK
  <2>2. runtimePid'[s] = pid[s] /\ \A r \in Slots \ {s} : runtimePid'[r] = runtimePid[r]
    BY <1>1, <2>1 DEF IInv, TypeOK, RuntimeKnowsPid
  <2>3. QED
    BY <1>3, <2>1, <2>2 DEF IInv, RuntimeKnowsPid
<1>10. QED
  BY <1>4, <1>5, <1>6, <1>7, <1>8, <1>9 DEF Discipline

\* A task gives the CPU back to the loop that selected it.
LEMMA BackStep ==
    ASSUME IInv, NEW s \in Slots, RunsCode(s), BackInDispatch(scheduler),
           state'[s] # "running", \A r \in Slots \ {s} : state'[r] = state[r]
    PROVE  Discipline'
<1> USE ConstantsAssumption
<1> DEFINE c == scheduler
<1>1. /\ executing = s /\ ~InDispatch(s)
      /\ c \in Stacks \ {s} /\ InDispatch(c) /\ index[c] = s
  BY CallerOfRunning DEF RunsCode
<1>2. /\ executing' = c /\ current' = previousProcess[c] /\ scheduler' = previousScheduler[c]
      /\ \A d \in Stacks \ {c} : index'[d] = index[d]
      /\ dispatching' = dispatching
      /\ previousProcess' = previousProcess /\ previousScheduler' = previousScheduler
  BY <1>1 DEF BackInDispatch, IInv, TypeOK
<1>3. ASSUME NEW r \in Slots, InDispatch(r)
      PROVE  /\ previousProcess[r] = r
             /\ previousScheduler[r] \in Stacks \ {r, c}
             /\ InDispatch(previousScheduler[r]) /\ index[previousScheduler[r]] = r
  BY <1>1, <1>3 DEF IInv, LocalsRestoreCaller
<1>4. MainPublishesNothing'
  BY <1>1, <1>2 DEF IInv, MainPublishesNothing, LocalsRestoreCaller
<1>5. YieldReachesDispatcher'
  <2>1. CASE c \in Slots
    <3>1. /\ previousProcess[c] = c /\ previousScheduler[c] \in Stacks \ {c}
          /\ InDispatch(previousScheduler[c]) /\ index[previousScheduler[c]] = c
      BY <1>1, <1>3, <2>1
    <3>2. QED
      BY <1>2, <3>1 DEF YieldReachesDispatcher
  <2>2. QED
    BY <1>2, <2>1 DEF YieldReachesDispatcher
<1>6. LocalsRestoreCaller'
  <2>1. InDispatch(Main)' => previousProcess'[Main] = None /\ previousScheduler'[Main] = None
    BY <1>2 DEF IInv, LocalsRestoreCaller
  <2>2. ASSUME NEW r \in Slots, InDispatch(r)'
        PROVE  /\ previousProcess'[r] = r
               /\ previousScheduler'[r] \in Stacks \ {r, executing'}
               /\ InDispatch(previousScheduler[r])'
               /\ index'[previousScheduler'[r]] = r
    BY <1>2, <1>3, <2>2
  <2>3. QED
    BY <2>1, <2>2 DEF LocalsRestoreCaller
<1>7. StacksNotShared'
  BY <1>1, <1>2 DEF IInv, StacksNotShared
<1>8. WaitsForRunning'
  <2>1. ASSUME NEW d \in Stacks, InDispatch(d), d # c
        PROVE  index[d] \in Slots \ {d, s} /\ state[index[d]] = "running"
    BY <1>1, <2>1 DEF IInv, StacksNotShared, WaitsForRunning
  <2>2. QED
    BY <1>2, <2>1 DEF WaitsForRunning
<1>9. QED
  BY <1>4, <1>5, <1>6, <1>7, <1>8 DEF Discipline

\* The loop ends and its caller continues.
LEMMA ReturnStep ==
    ASSUME IInv, NEW c \in Stacks, ReturnFromDispatch(c)
    PROVE  Discipline'
<1> USE ConstantsAssumption
<1>1. /\ executing = c /\ InDispatch(c) /\ executing' = c
      /\ state' = state /\ current' = current /\ scheduler' = scheduler
      /\ dispatching'[c] = "none"
      /\ \A d \in Stacks \ {c} :
            /\ dispatching'[d] = dispatching[d] /\ index'[d] = index[d]
            /\ previousProcess'[d] = previousProcess[d]
            /\ previousScheduler'[d] = previousScheduler[d]
  BY DEF ReturnFromDispatch, IInv, TypeOK, table
<1>2. MainPublishesNothing' /\ YieldReachesDispatcher'
  BY <1>1 DEF IInv, MainPublishesNothing, YieldReachesDispatcher
<1>3. LocalsRestoreCaller'
  <2>1. InDispatch(Main)' => previousProcess'[Main] = None /\ previousScheduler'[Main] = None
    BY <1>1 DEF IInv, LocalsRestoreCaller
  <2>2. ASSUME NEW r \in Slots, InDispatch(r)'
        PROVE  /\ previousProcess'[r] = r
               /\ previousScheduler'[r] \in Stacks \ {r, executing'}
               /\ InDispatch(previousScheduler[r])'
               /\ index'[previousScheduler'[r]] = r
    <3>1. /\ r # c /\ previousProcess[r] = r
          /\ previousScheduler[r] \in Stacks \ {r, c}
          /\ InDispatch(previousScheduler[r]) /\ index[previousScheduler[r]] = r
      BY <1>1, <2>2 DEF IInv, LocalsRestoreCaller
    <3>2. QED
      BY <1>1, <3>1
  <2>3. QED
    BY <2>1, <2>2 DEF LocalsRestoreCaller
<1>4. StacksNotShared' /\ WaitsForRunning'
  BY <1>1 DEF IInv, StacksNotShared, WaitsForRunning
<1>5. QED
  BY <1>2, <1>3, <1>4 DEF Discipline

\* Every step keeps the invariant.
LEMMA NextIInv == IInv /\ [Next]_vars => IInv'
<1> SUFFICES ASSUME IInv, [Next]_vars PROVE Discipline' /\ RuntimeKnowsPid'
  BY TypeStep DEF IInv, Discipline
<1> USE ConstantsAssumption
<1>a. TypeOK /\ Discipline /\ RuntimeKnowsPid
  BY DEF IInv, Discipline
<1>1. ASSUME NEW c \in Stacks, RunCommand(c) PROVE Discipline' /\ RuntimeKnowsPid'
  <2>1. PICK s \in Slots : spawn_process("kernel", s)
    BY <1>1 DEF RunCommand
  <2>2. "kernel" \in Kinds
    BY DEF Kinds
  <2>3. /\ state[s] \in {"empty", "finished"}
        /\ state'[s] = "ready" /\ fresh' = fresh \cup {s}
        /\ \A r \in Slots \ {s} : state'[r] = state[r] /\ pid'[r] = pid[r]
    BY <1>a, <2>1, <2>2, SpawnType
  <2>4. /\ RunsCode(c) /\ EnterDispatch(c, "kernel")
        /\ UNCHANGED <<runtimePid, current, scheduler, executing>>
    BY <1>1 DEF RunCommand
  <2>5. Discipline'
    BY <2>2, <2>3, <2>4, EnterStep
  <2>6. RuntimeKnowsPid'
    BY <1>a, <2>3, <2>4 DEF RuntimeKnowsPid
  <2>7. QED
    BY <2>5, <2>6
<1>2. ASSUME NEW c \in Stacks, OtherCommand(c) PROVE Discipline' /\ RuntimeKnowsPid'
  BY <1>a, <1>2 DEF OtherCommand, table, locals, Discipline, MainPublishesNothing,
     YieldReachesDispatcher, LocalsRestoreCaller, StacksNotShared, WaitsForRunning,
     RuntimeKnowsPid
<1>3. ASSUME NEW c \in Stacks, StepCommand(c) PROVE Discipline' /\ RuntimeKnowsPid'
  <2>1. "kernel" \in Kinds
    BY DEF Kinds
  <2>2. Discipline'
    BY <1>3, <2>1, EnterStep DEF StepCommand, table
  <2>3. QED
    BY <1>a, <1>3, <2>2 DEF StepCommand, table, RuntimeKnowsPid
<1>4. ASSUME NEW c \in Stacks, ReturnFromDispatch(c) PROVE Discipline' /\ RuntimeKnowsPid'
  BY <1>a, <1>4, ReturnStep DEF ReturnFromDispatch, table, RuntimeKnowsPid
<1>5. ASSUME NEW c \in Stacks, NEW s \in Slots, Dispatch(c, s)
      PROVE  Discipline' /\ RuntimeKnowsPid'
  BY <1>5, DispatchStep
<1>6. CASE RunSystem
  <2>1. "system" \in Kinds
    BY DEF Kinds
  <2>2. Discipline'
    BY <1>6, <2>1, EnterStep DEF RunSystem, table
  <2>3. QED
    BY <1>a, <1>6, <2>2 DEF RunSystem, table, RuntimeKnowsPid
<1>7. ASSUME NEW s \in Slots, Yield(s) PROVE Discipline' /\ RuntimeKnowsPid'
  <2>1. RunsCode(s) /\ current = s
    BY <1>7, CallerOfRunning DEF Yield
  <2>2. state'[s] = "ready" /\ \A r \in Slots \ {s} : state'[r] = state[r]
    BY <1>a, <1>7, <2>1 DEF Yield, TypeOK
  <2>3. Discipline'
    BY <1>7, <2>1, <2>2, BackStep DEF Yield
  <2>4. state[s] = "running"
    BY <1>a, <2>1 DEF RunsCode, Discipline, StacksNotShared
  <2>5. RuntimeKnowsPid'
    BY <1>a, <1>7, <2>2, <2>4 DEF Yield, RuntimeKnowsPid
  <2>6. QED
    BY <2>3, <2>5
<1>8. ASSUME NEW s \in Slots, Finish(s) PROVE Discipline' /\ RuntimeKnowsPid'
  <2>1. state'[s] = "finished" /\ \A r \in Slots \ {s} : state'[r] = state[r]
    BY <1>a, <1>8 DEF Finish, TypeOK
  <2>2. Discipline'
    BY <1>8, <2>1, BackStep DEF Finish
  <2>3. RuntimeKnowsPid'
    BY <1>a, <1>8, <2>1 DEF Finish, RuntimeKnowsPid
  <2>4. QED
    BY <2>2, <2>3
<1>9. CASE UNCHANGED vars
  BY <1>a, <1>9 DEF vars, Discipline, MainPublishesNothing, YieldReachesDispatcher,
     LocalsRestoreCaller, StacksNotShared, WaitsForRunning, RuntimeKnowsPid
<1> QED
  BY <1>1, <1>2, <1>3, <1>4, <1>5, <1>6, <1>7, <1>8, <1>9 DEF Next

\* The invariant holds in every reachable state.
THEOREM Invariance == Spec => []IInv
  BY InitIInv, NextIInv, PTL DEF Spec

\* The task table keeps its types: next_pid never reaches zero, a dispatch index
\* never passes the end of the table.
THEOREM TypeCorrect == Spec => []TypeOK
<1>1. IInv => TypeOK
  BY DEF IInv
<1>2. QED
  BY <1>1, Invariance, PTL

\* arwill_process_yield never takes its early return: the code of a task always
\* finds its own pid in manager->current and a scheduler context to switch to.
THEOREM YieldAlwaysTakesEffect == Spec => []YieldTakesEffect
<1>1. IInv => YieldTakesEffect
  <2> SUFFICES ASSUME IInv, NEW s \in Slots, RunsCode(s) PROVE YieldAllowed(s)
    BY DEF YieldTakesEffect
  <2>1. current = s /\ scheduler \in Stacks
    BY CallerOfRunning
  <2>2. pid[s] = runtimePid[s]
    BY DEF IInv, RunsCode, StacksNotShared, RuntimeKnowsPid
  <2>3. QED
    BY <2>1, <2>2, ConstantsAssumption DEF YieldAllowed
<1>2. QED
  BY <1>1, Invariance, PTL

\* A yielding or finishing task switches to the dispatch loop that selected it,
\* however deeply run_ready_kind is nested.
THEOREM YieldAlwaysReachesDispatcher == Spec => []YieldReachesDispatcher
<1>1. IInv => YieldReachesDispatcher
  BY DEF IInv
<1>2. QED
  BY <1>1, Invariance, PTL

\* No task stack is entered twice at the same time.
THEOREM StacksNeverShared == Spec => []StacksNotShared
<1>1. IInv => StacksNotShared
  BY DEF IInv
<1>2. QED
  BY <1>1, Invariance, PTL

\* spawn_process never rebuilds the context of a stack that holds live code.
THEOREM SpawnNeverClobbers == Spec => SpawnKeepsLiveStacks
<1> DEFINE Safe == \A s \in fresh' \ fresh :
                      state[s] \in {"empty", "finished"} /\ executing # s /\ ~InDispatch(s)
<1>1. IInv /\ [Next]_vars => [Safe]_vars
  <2> SUFFICES ASSUME IInv, Next PROVE Safe
    OBVIOUS
  <2>1. ASSUME NEW c \in Stacks, RunCommand(c) PROVE Safe
    <3>1. PICK s \in Slots : find_spawn_slot(s) /\ fresh' = fresh \cup {s}
      BY <2>1 DEF RunCommand, spawn_process
    <3>2. state[s] \in {"empty", "finished"}
      BY <3>1 DEF find_spawn_slot, FirstWith
    <3>3. QED
      BY <3>1, <3>2 DEF IInv, StacksNotShared
  <2>2. ASSUME fresh' \subseteq fresh PROVE Safe
    BY <2>2
  <2>3. QED
    BY <2>1, <2>2 DEF Next, OtherCommand, StepCommand, ReturnFromDispatch, Dispatch,
       RunSystem, Yield, Finish, table
<1>2. QED
  BY <1>1, Invariance, PTL DEF Spec, SpawnKeepsLiveStacks

=============================================================================
