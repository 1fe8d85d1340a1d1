----------------------------- MODULE MCKernel -----------------------------
(***************************************************************************)
(* Kernel components that share no state with one another: the task        *)
(* manager, the memory, the two rings of the network driver and the        *)
(* real-time clock.  One run checks them side by side, each by itself.     *)
(***************************************************************************)
EXTENDS ProcessManager, KernelMemory, E1000, Rtc

VARIABLE part

MCRegion(type, base, length) == [type |-> type, base |-> base, length |-> length]

\* Unaligned ends, a hole that breaks the heap's run of pages, more usable regions
\* than ranges, and a region that ends at the top of the address space.
MCMemoryMaps ==
    {<<MCRegion("usable", 3, 42)>>,
     <<MCRegion("usable", 0, 17), MCRegion("reserved", 17, 7), MCRegion("usable", 24, 16)>>,
     <<MCRegion("usable", 2, 3), MCRegion("usable", 8, 24), MCRegion("usable", 32, 9),
       MCRegion("usable", 48, 15)>>,
     <<MCRegion("usable", 48, 16), MCRegion("usable", 5, 27)>>}

\* The last seconds of 28 February 2024 and 2100, of 31 December 2023, and of a morning.
MCMoment(day, second) == [day |-> day, second |-> second]
MCStarts ==
    {MCMoment(19781, 86399), MCMoment(47540, 86340), MCMoment(19722, 86399),
     MCMoment(19000, 43199)}
MCMode(binary, hours24, century) ==
    [binary |-> binary, hours24 |-> hours24, century |-> century]
MCModes == {MCMode(FALSE, TRUE, TRUE), MCMode(TRUE, FALSE, FALSE), MCMode(FALSE, FALSE, TRUE)}

\* The clock where it is not the part that moves.
MCIdleRtc ==
    /\ cmos = [mode |-> "none", now |-> 0, next |-> 0, updating |-> FALSE, updates |-> 0]
    /\ reader = [phase |-> "wait", result |-> NoTime]

MCInit ==
    /\ part \in {"process", "memory", "transmit", "receive", "clock"}
    /\ Init
    /\ MemoryInit
    /\ part # "memory" => map = CHOOSE m \in MemoryMaps : TRUE
    /\ RingsInit
    /\ IF part = "clock" THEN RtcInit ELSE MCIdleRtc

\* What stands still while a part moves.
processRest == <<part, memoryVars, ringVars, rtcVars>>
memoryRest == <<part, vars, ringVars, rtcVars>>
ringRest == <<part, vars, memoryVars, rtcVars>>
clockRest == <<part, vars, memoryVars, ringVars>>

MCNext ==
    \/ \E c \in Stacks : part = "process" /\ RunCommand(c) /\ UNCHANGED processRest
    \/ \E c \in Stacks : part = "process" /\ OtherCommand(c) /\ UNCHANGED processRest
    \/ \E c \in Stacks : part = "process" /\ StepCommand(c) /\ UNCHANGED processRest
    \/ \E c \in Stacks : part = "process" /\ ReturnFromDispatch(c) /\ UNCHANGED processRest
    \/ \E c \in Stacks, s \in Slots :
          part = "process" /\ Dispatch(c, s) /\ UNCHANGED processRest
    \/ part = "process" /\ RunSystem /\ UNCHANGED processRest
    \/ \E s \in Slots : part = "process" /\ Yield(s) /\ UNCHANGED processRest
    \/ \E s \in Slots : part = "process" /\ Finish(s) /\ UNCHANGED processRest
    \/ part = "memory" /\ KernelHeapInit /\ UNCHANGED memoryRest
    \/ part = "memory" /\ AllocatePage /\ UNCHANGED memoryRest
    \/ \E size \in Sizes : part = "memory" /\ Kmalloc(size) /\ UNCHANGED memoryRest
    \/ \E pointer \in DOMAIN live \cup freed :
          part = "memory" /\ Kfree(pointer) /\ UNCHANGED memoryRest
    \/ part = "transmit" /\ sent < MaxFrames /\ send_frame(sent + 1) /\ UNCHANGED ringRest
    \/ part = "transmit" /\ poll_transmit /\ UNCHANGED ringRest
    \/ part = "transmit" /\ poll_transmit_timeout /\ UNCHANGED ringRest
    \/ part = "transmit" /\ DeviceTransmit /\ UNCHANGED ringRest
    \/ \E k \in FrameKinds : part = "receive" /\ DeviceReceive(k) /\ UNCHANGED ringRest
    \/ part = "receive" /\ poll_frame /\ UNCHANGED ringRest
    \/ part = "clock" /\ WaitOver /\ UNCHANGED clockRest
    \/ part = "clock" /\ ReadRegister /\ UNCHANGED clockRest
    \/ \E delay \in Delays :
          part = "clock" /\ UpdateBegins(delay) /\ UNCHANGED clockRest
    \/ part = "clock" /\ UpdateEnds /\ UNCHANGED clockRest

\* The fairness of FairSpec and of RingsFairSpec, each for its part.
MCSpec ==
    /\ MCInit /\ [][MCNext]_<<part, vars, memoryVars, ringVars, rtcVars>>
    /\ WF_vars(part = "process" /\ Next)
    /\ RingsFairness

\* No pass of the main loop leaves a system task out and, where the task manager is the
\* part that moves, network polling and the remote console are served again and again,
\* whatever the two shells and the manual kernel tasks do (run_ready_kind in
\* kernel/process.c).
ProcessSystemTasksKeepRunning ==
    /\ EveryPassServesSystemTasks
    /\ part = "process" => SystemTasksKeepRunning
=============================================================================
