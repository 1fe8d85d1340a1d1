----------------------------- MODULE UserMemory -----------------------------
(***************************************************************************)
(* The memory of AWP programs (arch/x86_64/cpu/user_mode.c): the pages of  *)
(* a task slot, which one program after another uses; loading an image;    *)
(* and the system calls that take a pointer.  Slots, pids and the round    *)
(* robin are UserRuntime's.                                                *)
(*                                                                         *)
(* A byte of memory is the pid of the program it belongs to (its image,    *)
(* what it stored, what the kernel copied for it), or Zero after           *)
(* clear_page.  Addresses are AddressCount many and wrap around, as the    *)
(* code's 64-bit ones do.                                                  *)
(***************************************************************************)
EXTENDS Integers, FiniteSetsExt

CONSTANTS
    TaskCapacity, InputCapacity, MaxPid,   \* as in UserRuntime
    AddressCount,               \* 2^64
    UserPage,                   \* ARWILL_MEMORY_PAGE_SIZE
    CodeBase, CodePages,        \* user_code_virtual, user_code_page_count
    StackBase, StackPages,      \* user_stack_virtual, user_stack_page_count
    WriteLimit,                 \* user_write_limit
    FileLimit,                  \* user_file_limit, the size of filesystem_buffer
    IoLimit,                    \* arwill_awp_network_io_capacity
    PathLimit,                  \* user_path_limit
    AwpHeader,                  \* awp_header_size
    Images,                     \* files given to exec: [size, magic, header, entry, code]
    Ranges,                     \* the pointers and lengths programs pass: [pointer, length]
    MaxCallsMade                \* bound on the system calls and stores

ASSUME UserMemoryAssumption ==
    /\ CodeBase + CodePages * UserPage <= StackBase
    /\ StackBase + StackPages * UserPage <= AddressCount
    /\ WriteLimit <= FileLimit /\ IoLimit <= FileLimit

RT == INSTANCE UserRuntime WITH Consoles <- {"shell"}

VARIABLES
    runtime,   \* the task table
    space,     \* per slot: code and stack bytes, and the saved registers
    pending,   \* per slot: pending_read_pointer and pending_read_length
    buffer,    \* filesystem_buffer, one for all programs
    astray,    \* the kernel followed a pointer out of its caller's pages
    made       \* system calls and stores with an effect so far

userVars == <<runtime, space, pending, buffer, astray, made>>

Zero == 0
CodeBytes == CodePages * UserPage
StackBytes == StackPages * UserPage
NoRead == [pointer |-> 0, length |-> 0]

\* What clear_page and clear_saved_context leave.
ClearedSpace ==
    [code |-> [k \in 0 .. CodeBytes - 1 |-> Zero], stack |-> [k \in 0 .. StackBytes - 1 |-> Zero],
     saved |-> Zero]

\* arwill_x86_64_user_mode_init: every slot gets pages of its own, cleared.
UserInit ==
    /\ runtime = RT!user_mode_init
    /\ space = [i \in RT!Slots |-> ClearedSpace]
    /\ pending = [i \in RT!Slots |-> NoRead]
    /\ buffer = [k \in 0 .. FileLimit - 1 |-> Zero]
    /\ astray = FALSE /\ made = 0

Running == RT!InState(runtime, {"running"})
Active == CHOOSE i \in Running : TRUE

-----------------------------------------------------------------------------
(***************************************************************************)
(* Addresses.                                                              *)
(***************************************************************************)
\* Wrong variant, for the mutation runs: the end of the range is computed and wraps.
range_in_region_sum(start, length, base, size) ==
    length = 0 \/ (start >= base /\ (start + length) % AddressCount <= base + size)

range_in_region(start, length, base, size) ==
    length = 0 \/ (start >= base /\ length <= size /\ start - base <= size - length)

user_range_readable(start, length) ==
    \/ range_in_region(start, length, CodeBase, CodeBytes)
    \/ range_in_region(start, length, StackBase, StackBytes)

user_range_writable(start, length) == range_in_region(start, length, StackBase, StackBytes)

\* The addresses start, start + 1, ... of a copy.
Addresses(start, length) == {(start + k) % AddressCount : k \in 0 .. length - 1}

\* The page tables of initialize_address_space: the code pages are mapped read-only, the
\* stack pages writable, and nothing else is there for a program.
Mapped(address) ==
    \/ address \in CodeBase .. CodeBase + CodeBytes - 1
    \/ address \in StackBase .. StackBase + StackBytes - 1
MappedWritable(address) == address \in StackBase .. StackBase + StackBytes - 1

-----------------------------------------------------------------------------
(***************************************************************************)
(* Programs come and go.                                                   *)
(***************************************************************************)
\* Wrong variant, for the mutation runs: only the pages of the code are cleared.
reset_task_runtime_code(old) == [ClearedSpace EXCEPT !.stack = old.stack]

\* reset_task_runtime: whatever the slot's last program left is cleared.
reset_task_runtime(old) == ClearedSpace

\* copy_image_to_task accepts the image.
ImageSound(image) ==
    /\ image.size >= AwpHeader /\ image.magic
    /\ image.header >= AwpHeader /\ image.header <= image.size
    /\ image.code # 0 /\ image.code <= CodeBytes
    /\ image.entry < image.code
    /\ image.size - image.header >= image.code

\* The code of the image, whose bytes are the new program's own.
copy_image_to_task(fresh, image) ==
    [fresh EXCEPT !.code = [k \in DOMAIN @ |-> IF k < image.code THEN runtime.pid ELSE @[k]]]

\* x86_64_user_spawn_image: the pages are cleared, then the code is copied.
SpawnImage(image) ==
    /\ RT!Reusable(runtime) # {} /\ runtime.pid <= MaxPid
    /\ LET i == RT!FirstOf(runtime, RT!Reusable(runtime))
           fresh == reset_task_runtime(space[i])
       IN  /\ pending' = [pending EXCEPT ![i] = NoRead]
           /\ IF ImageSound(image)
              THEN /\ runtime' = RT!prepare_task(runtime, "shell")
                   /\ space' = [space EXCEPT ![i] = copy_image_to_task(fresh, image)]
                   /\ astray' = (astray \/ image.header + image.code > image.size)
              ELSE /\ runtime' \in RT!spawn_fails(runtime)
                   /\ space' = [space EXCEPT ![i] = fresh]
                   /\ UNCHANGED astray
    /\ UNCHANGED <<buffer, made>>

\* x86_64_user_poll
Poll ==
    /\ Running = {} /\ RT!InState(runtime, {"ready"}) # {}
    /\ runtime' = RT!Resumed(runtime)
    /\ UNCHANGED <<space, pending, buffer, astray, made>>

\* The running task gives the processor back in some state; copy_active_context saves
\* its registers.
Stops(task) ==
    /\ runtime' = RT!Set(runtime, Active, task)
    /\ space' = [space EXCEPT ![Active].saved = runtime.task[Active].pid]

\* The timer, exit, an unknown system call, a fault.
LeaveProcessor ==
    /\ Running # {}
    /\ LET t == runtime.task[Active]
       IN  \E task \in {[t EXCEPT !.state = "ready"], RT!EndsIn(t, "finished"),
                        RT!EndsIn(t, "faulted")} : Stops(task)
    /\ UNCHANGED <<pending, buffer, astray, made>>

\* x86_64_user_cancel, by a shell.
Cancel(pid) ==
    /\ Running = {}
    /\ RT!cancel(runtime, pid) # runtime
    /\ runtime' = RT!cancel(runtime, pid)
    /\ UNCHANGED <<space, pending, buffer, astray, made>>

-----------------------------------------------------------------------------
(***************************************************************************)
(* What a running program does.                                            *)
(***************************************************************************)
CanCall == Running # {} /\ made < MaxCallsMade
Pid == runtime.task[Active].pid

\* A call that is refused without a trace does not count towards the bound.
Counted ==
    made' = IF UNCHANGED <<runtime, space, pending, buffer, astray>> THEN made ELSE made + 1

\* The kernel reads a program's bytes through the active page tables.
Reads(start, length) ==
    astray' = (astray \/ \E a \in Addresses(start, length) : ~Mapped(a))

\* The stack of a slot after bytes were written at start, start + 1, ...; bytes[k] is
\* what lands at start + k.
Stored(stack, start, bytes) ==
    [k \in DOMAIN stack |->
        LET at == (StackBase + k - start) % AddressCount
        IN  IF at \in DOMAIN bytes THEN bytes[at] ELSE stack[k]]

\* copy_to_task, complete_pending_read: bytes go to a task's own pages by way of
\* task_writable_pointer, or not at all.
copy_to_task(i, start, bytes) ==
    IF user_range_writable(start, Cardinality(DOMAIN bytes))
    THEN /\ space' = [space EXCEPT ![i].stack = Stored(@, start, bytes)]
         /\ astray' = (astray \/ \E k \in DOMAIN bytes :
                                    ~MappedWritable((start + k) % AddressCount))
    ELSE UNCHANGED <<space, astray>>

OwnBytes(length) == [k \in 0 .. length - 1 |-> Pid]

\* A store by the program itself: it lands in its stack, or the processor faults.
UserStore(address) ==
    /\ CanCall
    /\ IF MappedWritable(address)
       THEN /\ space' = [space EXCEPT ![Active].stack = Stored(@, address, OwnBytes(1))]
            /\ UNCHANGED runtime
       ELSE Stops(RT!EndsIn(runtime.task[Active], "faulted"))
    /\ UNCHANGED <<pending, buffer, astray>>
    /\ Counted

BadPointer == Stops(RT!EndsIn(runtime.task[Active], "faulted"))

\* syscall_write
SyscallWrite(pointer, asked) ==
    /\ CanCall
    /\ LET length == Min({asked, WriteLimit})
       IN  IF user_range_readable(pointer, length)
           THEN Reads(pointer, length) /\ UNCHANGED <<runtime, space>>
           ELSE BadPointer /\ UNCHANGED astray
    /\ UNCHANGED <<pending, buffer>>
    /\ Counted

\* syscall_read: input that is there is copied at once; otherwise the task sleeps with
\* its pointer remembered.
SyscallRead(pointer, asked) ==
    /\ CanCall
    /\ UNCHANGED buffer
    /\ LET length == Min({asked, WriteLimit})
           t      == runtime.task[Active]
           count  == Min({t.input, length})
       IN  \/ /\ ~user_range_writable(pointer, length)
              /\ BadPointer
              /\ UNCHANGED <<pending, astray>>
           \/ /\ user_range_writable(pointer, length)
              /\ length = 0
              /\ UNCHANGED <<runtime, space, pending, astray>>
           \/ /\ user_range_writable(pointer, length)
              /\ length # 0 /\ t.input # 0
              /\ runtime' = RT!Set(runtime, Active, [t EXCEPT !.input = @ - count])
              /\ copy_to_task(Active, pointer, OwnBytes(count))
              /\ pending' = [pending EXCEPT ![Active] = NoRead]
           \/ /\ user_range_writable(pointer, length)
              /\ length # 0 /\ t.input = 0
              /\ Stops([t EXCEPT !.state = "blocked_input"])
              /\ pending' = [pending EXCEPT ![Active] = [pointer |-> pointer, length |-> length]]
              /\ UNCHANGED astray
    /\ Counted

\* x86_64_user_deliver_input: the byte joins the queue, and complete_pending_read hands
\* it to a task asleep in syscall_read, whose page tables are not the active ones.
DeliverInput(pid) ==
    /\ Running = {}
    /\ RT!deliver_input(runtime, pid) # runtime
    /\ runtime' = RT!deliver_input(runtime, pid)
    /\ LET i == RT!TheTask(runtime, pid)
       IN  IF runtime.task[i].state = "blocked_input"
           THEN /\ copy_to_task(i, pending[i].pointer, [k \in {0} |-> pid])
                /\ pending' = [pending EXCEPT ![i] = NoRead]
           ELSE UNCHANGED <<space, pending, astray>>
    /\ UNCHANGED <<buffer, made>>

\* syscall_net_write, syscall_udp_send: up to IoLimit bytes of the program leave, or the
\* call is to be retried, with the processor handed back.
SyscallSend(pointer, length) ==
    /\ CanCall
    /\ IF length = 0 \/ length > IoLimit \/ ~user_range_readable(pointer, length)
       THEN UNCHANGED <<runtime, space, astray>>
       ELSE /\ Reads(pointer, length)
            /\ \/ UNCHANGED <<runtime, space>>
               \/ Stops([runtime.task[Active] EXCEPT !.state = "ready"])
    /\ UNCHANGED <<pending, buffer>>
    /\ Counted

\* The first count bytes of filesystem_buffer are now the running program's.
Filled(count) == [k \in DOMAIN buffer |-> IF k < count THEN Pid ELSE buffer[k]]

\* The kernel puts count bytes meant for the program into filesystem_buffer, and copies
\* them to it.
FillAndCopy(pointer, count) ==
    /\ buffer' = Filled(count)
    /\ copy_to_task(Active, pointer, [k \in 0 .. count - 1 |-> buffer'[k]])

\* syscall_net_read, syscall_udp_receive: count bytes are there, or the call fails or is
\* to be retried.
SyscallReceive(pointer, capacity, count) ==
    /\ CanCall
    /\ count <= capacity
    /\ UNCHANGED pending
    /\ IF capacity = 0 \/ capacity > IoLimit \/ ~user_range_writable(pointer, capacity)
       THEN count = 0 /\ UNCHANGED <<runtime, space, buffer, astray>>
       ELSE \/ /\ count > 0
               /\ FillAndCopy(pointer, count)
               /\ UNCHANGED runtime
            \/ /\ count = 0
               /\ \/ Stops([runtime.task[Active] EXCEPT !.state = "ready"])
                  \/ UNCHANGED <<runtime, space>>
               /\ UNCHANGED <<buffer, astray>>
    /\ Counted

\* syscall_random_fill.  The source of randomness may fail, after some bytes or at once.
SyscallRandomFill(pointer, asked) ==
    /\ CanCall
    /\ LET length == Min({asked, WriteLimit})
       IN  IF length = 0 \/ ~user_range_writable(pointer, length)
           THEN UNCHANGED <<space, buffer, astray>>
           ELSE \/ FillAndCopy(pointer, length)
                \/ /\ buffer' \in {Filled(count) : count \in 0 .. length - 1}
                   /\ UNCHANGED <<space, astray>>
    /\ UNCHANGED <<runtime, pending>>
    /\ Counted

\* copy_user_path
copy_user_path(pointer, length) ==
    length # 0 /\ length <= PathLimit /\ user_range_readable(pointer, length)

\* syscall_read_file.  The bytes come straight from the filesystem's copy of the file; a
\* path may name no text file.
SyscallReadFile(path, pathLength, pointer, asked, size) ==
    /\ CanCall
    /\ LET capacity == Min({asked, FileLimit})
       IN  \/ /\ copy_user_path(path, pathLength)
              /\ user_range_writable(pointer, capacity)
              /\ size <= capacity
              /\ space' = [space EXCEPT ![Active].stack = Stored(@, pointer, OwnBytes(size))]
              /\ astray' = (\/ astray
                            \/ \E a \in Addresses(path, pathLength) : ~Mapped(a)
                            \/ \E a \in Addresses(pointer, size) : ~MappedWritable(a))
           \/ UNCHANGED <<space, astray>>
    /\ UNCHANGED <<runtime, pending, buffer>>
    /\ Counted

\* syscall_argument, with an argument of some length.
SyscallArgument(pointer, asked, argumentLength) ==
    /\ CanCall
    /\ IF asked < argumentLength
       THEN UNCHANGED <<space, astray>>
       ELSE copy_to_task(Active, pointer, OwnBytes(argumentLength))
    /\ UNCHANGED <<runtime, pending, buffer>>
    /\ Counted

\* syscall_write_file: the bytes pass through filesystem_buffer and stay there, whether
\* or not the file could be written.
SyscallWriteFile(path, pathLength, pointer, length) ==
    /\ CanCall
    /\ \/ /\ length <= FileLimit
          /\ copy_user_path(path, pathLength)
          /\ user_range_readable(pointer, length)
          /\ buffer' = Filled(length)
          /\ astray' = (\/ astray
                        \/ \E a \in Addresses(path, pathLength)
                                    \cup Addresses(pointer, length) : ~Mapped(a))
       \/ UNCHANGED <<buffer, astray>>
    /\ UNCHANGED <<runtime, space, pending>>
    /\ Counted

-----------------------------------------------------------------------------
\* The path and the buffer of a file call vary one at a time.
UserNext ==
    \/ \E image \in Images : SpawnImage(image)
    \/ Poll
    \/ LeaveProcessor
    \/ \E pid \in 1 .. MaxPid : Cancel(pid) \/ DeliverInput(pid)
    \/ \E r \in Ranges :
          \/ UserStore(r.pointer)
          \/ SyscallWrite(r.pointer, r.length)
          \/ SyscallRead(r.pointer, r.length)
          \/ SyscallSend(r.pointer, r.length)
          \/ SyscallRandomFill(r.pointer, r.length)
          \/ \E count \in 0 .. IoLimit :
                \/ SyscallReceive(r.pointer, r.length, count)
                \/ SyscallArgument(r.pointer, r.length, count)
          \/ \E size \in {1, FileLimit} :
                \/ SyscallReadFile(r.pointer, r.length, StackBase, FileLimit, size)
                \/ SyscallReadFile(CodeBase, 1, r.pointer, r.length, size)
          \/ SyscallWriteFile(r.pointer, r.length, CodeBase, FileLimit)
          \/ SyscallWriteFile(StackBase, 1, r.pointer, r.length)

UserSpec == UserInit /\ [][UserNext]_userVars

-----------------------------------------------------------------------------
\* The kernel follows a pointer of a program only to bytes that are mapped for that
\* program, and writes only to its stack, whatever pointer and length a system call is
\* given: at the ends of the two regions, across them and where their sum wraps
\* (range_in_region).  Nor does loading read past the end of an image.
KernelStaysInside == ~astray

\* A program finds nothing in its memory and registers that belongs to another: neither
\* to the one that had the slot before, nor to one whose data passed through
\* filesystem_buffer (reset_task_runtime, copy_to_task, complete_pending_read).
OwnBytesOnly ==
    \A i \in RT!Slots :
        LET own == {Zero, runtime.task[i].pid}
        IN  /\ space[i].saved \in own
            /\ \A k \in DOMAIN space[i].code : space[i].code[k] \in own
            /\ \A k \in DOMAIN space[i].stack : space[i].stack[k] \in own
=============================================================================
