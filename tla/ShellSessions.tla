--------------------------- MODULE ShellSessions ----------------------------
(***************************************************************************)
(* The main loop of kernel/shell.c: the serial shell, the remote shell,    *)
(* the user programs both launch, and the remote-console service.          *)
(* arwill_shell_run repeats one pass for ever; pc names its next part:     *)
(*                                                                         *)
(*   serial   a byte of the serial line, if there is one                   *)
(*   network  the network-poll system task                                 *)
(*   remote   the remote-console system task                               *)
(*   poll     arwill_user_poll resumes a program                           *)
(*   user     that program runs until it gives the processor back          *)
(*   reap     finish_foreground_program for both sessions                  *)
(*                                                                         *)
(* Two commands loop inside the pass: `run` of a built-in user program     *)
(* (x86_64_user_run, at "run") and `tcplisten` (arwill_ipv4_service_tcp,   *)
(* at "listen").  command says which part of the pass follows them and the *)
(* slot of the built-in program.                                           *)
(*                                                                         *)
(* The stream of the remote console is the contract TcpStream; a session's *)
(* line, history and directory are left out.  What a byte means to the     *)
(* line editor is a choice: it edits, or it ends a line that holds one of  *)
(* the commands.                                                           *)
(***************************************************************************)
EXTENDS UserRuntime, TcpStream

CONSTANTS
    MaxAttempts,        \* remote_authentication_max_attempts
    Commands,           \* the commands an instance types
    Garbage             \* what the uninitialised foreground_pid of remote_session may hold

VARIABLES
    rt,                 \* user_context
    stream,             \* the stream of endpoint 0
    service,            \* remote_console_state
    session,            \* serial_session and remote_session
    pc,
    command             \* [slot, next] of a command that loops

vars == <<rt, stream, service, session, pc, command>>

AllCommands == {"edit", "exec", "run", "tcplisten", "top", "key", "service", "exit"}

ASSUME ShellAssumption ==
    /\ Consoles = {"serial", "remote"}
    /\ MaxAttempts \in Nat \ {0}
    /\ Commands \subseteq AllCommands
    /\ Garbage \subseteq 0 .. MaxPid

NoSlot == TaskCapacity
Idle == [slot |-> NoSlot, next |-> "none"]

\* initialize_shell_session.  mode: what takes the next byte before any program does,
\* config_key_pending ("key") or top_active ("top").
NewSession(x) == [active |-> TRUE, authenticated |-> x = "serial", attempts |-> 0,
                  foreground |-> NoPid, mode |-> "line"]

\* The parts of the state a byte or a command works on.  open: the value the handlers
\* return; loop: the command that goes on looping.
World == [rt |-> rt, stream |-> stream, service |-> service, session |-> session,
          open |-> TRUE, loop |-> "none", slot |-> NoSlot]

\* Endpoint 0 is never opened actively and nobody here counts its connections.
Poll(s) == {[p EXCEPT !.connections = 0] : p \in Polled(s)}

-----------------------------------------------------------------------------
\* Commands.  Each operator is the set of worlds a command may leave.

\* exec_program_image: refused before the spawn, no slot, a spawn that fails or succeeds.
exec_program_image(w, x) ==
    {w} \cup
    When(Reusable(w.rt) # {} /\ w.rt.pid <= MaxPid,
         {[w EXCEPT !.rt = r] : r \in spawn_fails(w.rt)}
         \cup {[w EXCEPT !.rt = prepare_task(w.rt, x),
                         !.session[x].foreground = w.rt.pid]})

\* run_process and shell_user_program_process, up to the loop of run_until_stable.
run_process(w, x) ==
    {w} \cup
    When(Reusable(w.rt) # {} /\ w.rt.pid <= MaxPid,
         {[w EXCEPT !.rt = prepare_task(w.rt, x), !.loop = "run",
                    !.slot = FirstOf(w.rt, Reusable(w.rt))]})

\* start_remote_console, with a port and a configuration that serve or not.
start_remote_console(w) ==
    {[w EXCEPT !.service = "running", !.stream = Listen(@)], [w EXCEPT !.service = "failed"]}

\* arwill_service_remote_console_start, _stop and _restart
control_service(w) ==
    LET stopped == [w EXCEPT !.service = "stopped", !.stream = Stop(@)]
    IN  (IF w.service = "running" THEN {w} ELSE start_remote_console(w))
        \cup {IF w.service = "stopped" THEN w ELSE stopped}
        \cup {[stopped EXCEPT !.service = "failed"]}
        \cup start_remote_console(stopped)

\* run_command.  The serial shell's exit and halt end everything and are left out.
run_command(w, x, c) ==
    CASE c = "edit"      -> {w}
      [] c = "exec"      -> exec_program_image(w, x)
      [] c = "run"       -> run_process(w, x)
      [] c = "tcplisten" -> {[w EXCEPT !.loop = "listen"]}
      [] c \in {"top", "key"} -> {[w EXCEPT !.session[x].mode = c]}
      [] c = "service"   -> control_service(w)
      [] c = "exit"      -> {[w EXCEPT !.open = (x = "serial")]}

\* handle_shell_byte: the key prompt, then top, then the foreground program, then the
\* line.
handle_shell_byte(w, x) ==
    LET s == w.session[x]
    IN  IF s.mode # "line" THEN {w, [w EXCEPT !.session[x].mode = "line"]}
        ELSE IF s.foreground # NoPid
        THEN {[w EXCEPT !.rt = cancel(@, s.foreground)],
              [w EXCEPT !.rt = deliver_input(@, s.foreground)]}
        ELSE UNION {run_command(w, x, c) : c \in Commands}

-----------------------------------------------------------------------------
\* The remote console.

\* handle_authentication_byte: part of a key, the right key, a wrong one.
handle_authentication_byte(w) ==
    LET tries == w.session["remote"].attempts + 1
    IN  {w, [w EXCEPT !.session["remote"].authenticated = TRUE],
         [w EXCEPT !.session["remote"].attempts = tries, !.open = tries < MaxAttempts]}

\* Wrong variant, for the mutation runs: the session forgets its program.
cancel_remote_program_forgets(w) == [w EXCEPT !.session["remote"].foreground = NoPid]

\* cancel_remote_program
cancel_remote_program(w) ==
    LET pid == w.session["remote"].foreground
    IN  IF pid = NoPid THEN w
        ELSE [w EXCEPT !.rt = cancel(@, pid), !.session["remote"].foreground = NoPid]

\* close_remote_session
close_remote_session(w) ==
    [cancel_remote_program(w) EXCEPT
        !.session["remote"].mode = IF @ = "top" THEN "line" ELSE @,
        !.session["remote"].active = FALSE,
        !.stream = Close(@)]

CloseUnlessOpen(w) == IF w.open THEN w ELSE close_remote_session(w)

\* The rest of service_remote_shell, for a session that is active on a connection.
ServeSession(w) ==
    LET s    == w.session["remote"]
        read == [w EXCEPT !.stream = Read(@, 1)]
    IN  When(~s.authenticated, {close_remote_session(w)})
        \cup (IF w.stream.rx > 0
              THEN {CloseUnlessOpen(v) : v \in IF s.authenticated
                                               THEN handle_shell_byte(read, "remote")
                                               ELSE handle_authentication_byte(read)}
              ELSE {IF w.stream.peerClosed THEN close_remote_session(w) ELSE w})

\* Wrong variant, for the mutation runs: a lost connection is not noticed.
service_remote_shell_deaf(w) ==
    LET s == w.session["remote"]
    IN  IF w.stream.closeRequested \/ ~Connected(w.stream) THEN {w}
        ELSE ServeSession(IF s.active THEN w
                          ELSE [w EXCEPT !.session["remote"] = NewSession("remote")])

\* service_remote_shell
service_remote_shell(w) ==
    LET s == w.session["remote"]
    IN  IF w.stream.closeRequested THEN {w}
        ELSE IF ~Connected(w.stream)
        THEN {IF s.active THEN [cancel_remote_program(w) EXCEPT
                                   !.session["remote"].active = FALSE]
                          ELSE w}
        ELSE ServeSession(IF s.active THEN w
                          ELSE [w EXCEPT !.session["remote"] = NewSession("remote")])

-----------------------------------------------------------------------------
\* The pass of arwill_shell_run.

Init ==
    /\ rt = user_mode_init
    /\ \/ service = "running" /\ stream = Listen(Unused)
       \/ service \in {"stopped", "failed"} /\ stream = Unused
    \* remote_session is on the stack of arwill_shell_run; only its active is set.
    /\ \E pid \in Garbage :
          session = [x \in Consoles |->
                        IF x = "serial" THEN NewSession(x)
                        ELSE [NewSession(x) EXCEPT !.active = FALSE, !.foreground = pid]]
    /\ pc = "serial"
    /\ command = Idle

\* The handlers leave w, and the pass goes on at next, by way of a command's loop.
Becomes(w, next) ==
    /\ rt' = w.rt /\ stream' = w.stream /\ service' = w.service /\ session' = w.session
    /\ IF w.loop = "none" THEN pc' = next /\ UNCHANGED command
       ELSE pc' = w.loop /\ command' = [slot |-> w.slot, next |-> next]

SerialByte ==
    /\ pc = "serial"
    /\ \E w \in {World} \cup handle_shell_byte(World, "serial") : Becomes(w, "network")

\* network_poll_system_task
NetworkPoll ==
    /\ pc = "network"
    /\ stream' \in Poll(stream)
    /\ pc' = "remote"
    /\ UNCHANGED <<rt, service, session, command>>

\* remote_console_system_task
RemoteConsole ==
    /\ pc = "remote"
    /\ \E w \in service_remote_shell(World) : Becomes(w, "poll")

\* arwill_ipv4_service_tcp: polls, up to its count, and then the command is over.
TcpListenPoll ==
    /\ pc = "listen"
    /\ stream' \in Poll(stream)
    /\ UNCHANGED <<rt, service, session, pc, command>>

Return == pc' = command.next /\ command' = Idle

TcpListenReturns ==
    /\ pc = "listen"
    /\ Return
    /\ UNCHANGED <<rt, stream, service, session>>

\* arwill_user_poll
UserPoll ==
    /\ pc = "poll"
    /\ IF InState(rt, {"ready"}) = {} THEN pc' = "reap" /\ UNCHANGED rt
       ELSE pc' = "user" /\ rt' = Resumed(rt)
    /\ UNCHANGED <<stream, service, session, command>>

\* run_until_stable polls while the built-in program is ready, and x86_64_user_run then
\* frees its slot.
RunPoll ==
    /\ pc = "run" /\ rt.task[command.slot].state = "ready"
    /\ rt' = Resumed(rt)
    /\ pc' = "user"
    /\ UNCHANGED <<stream, service, session, command>>

RunReturns ==
    /\ pc = "run" /\ rt.task[command.slot].state # "ready"
    /\ rt' = Set(rt, command.slot, EmptyTask)
    /\ Return
    /\ UNCHANGED <<stream, service, session>>

Running == CHOOSE i \in Slots : rt.task[i].state = "running"

\* A built-in program writes and exits, or makes an unknown call; the timer may cut in.
BuiltinLeaves(t) == {[t EXCEPT !.state = "ready"], EndsIn(t, "finished")}

UserContinues ==
    /\ pc = "user" /\ Running # command.slot
    /\ \E t \in Continues(rt.task[Running]) : rt' = Set(rt, Running, t)
    /\ UNCHANGED <<stream, service, session, pc, command>>

UserLeaves ==
    /\ pc = "user"
    /\ \E t \in IF Running = command.slot THEN BuiltinLeaves(rt.task[Running])
                                          ELSE Leaves(rt.task[Running]) :
          rt' = Set(rt, Running, t)
    /\ pc' = IF command.slot = NoSlot THEN "reap" ELSE "run"
    /\ UNCHANGED <<stream, service, session, command>>

\* finish_foreground_program for one session
finish_foreground_program(s) ==
    IF \E i \in find_task(rt, s.foreground) : rt.task[i].state \in Over
    THEN [s EXCEPT !.foreground = NoPid] ELSE s

Reap ==
    /\ pc = "reap"
    /\ session' = [x \in Consoles |-> finish_foreground_program(session[x])]
    /\ pc' = "serial"
    /\ UNCHANGED <<rt, stream, service, command>>

Next ==
    \/ SerialByte \/ NetworkPoll \/ RemoteConsole \/ TcpListenPoll \/ TcpListenReturns
    \/ UserPoll \/ RunPoll \/ RunReturns \/ UserContinues \/ UserLeaves \/ Reap

Spec == Init /\ [][Next]_vars

\* The loop never stops; a program is preempted, a built-in program has a handful of
\* instructions, and arwill_ipv4_service_tcp counts its polls.
BuiltinEnds == UserLeaves /\ Running = command.slot /\ rt'.task[Running].state = "finished"

FairSpec == Spec /\ WF_vars(Next) /\ SF_vars(BuiltinEnds) /\ WF_vars(TcpListenReturns)

-----------------------------------------------------------------------------
\* Properties.

\* The type invariant: the runtime, the stream and the sessions keep their types, and
\* a program runs exactly while the pass is at "user".
TypeOK ==
    /\ rt \in Runtimes
    /\ stream \in Streams
    /\ service \in {"running", "stopped", "failed"}
    /\ session \in [Consoles -> [active: BOOLEAN, authenticated: BOOLEAN,
                                 attempts: 0 .. MaxAttempts, foreground: 0 .. MaxPid,
                                 mode: {"line", "top", "key"}]]
    /\ pc \in {"serial", "network", "remote", "listen", "run", "poll", "user", "reap"}
    /\ command \in [slot: Slots \cup {NoSlot}, next: {"none", "network", "poll"}]
    /\ Cardinality(InState(rt, {"running"})) = IF pc = "user" THEN 1 ELSE 0

\* No program outlives the session that launched it: whatever ends a session (a lost
\* connection, the service stopped, exit, failed authentication, the peer's FIN), every
\* program still alive is the foreground program of an active session, which is the
\* only place from which it gets input or is cancelled.  Built-in programs are run by
\* their command and have no session entry.
LiveIsForeground ==
    \A i \in InState(rt, Live) :
        \/ i = command.slot
        \/ LET s == session[rt.task[i].console]
           IN  s.active /\ s.foreground = rt.task[i].pid

\* A program sleeps in read only while no byte waits for it: deliver_input completes the
\* read at once, so no wakeup is lost.
BlockedMeansEmpty ==
    \A i \in InState(rt, {"blocked_input"}) : rt.task[i].input = 0

\* The input queues of arch/x86_64/cpu/user_mode.c after every step of the pass: never
\* more than they hold, no sleeper beside a byte, and one program on the CPU.
InputQueuesSound == TypeOK /\ BlockedMeansEmpty

\* Endpoints belong to live programs: every way a program ends (exit, unknown call,
\* fault, cancellation, disconnection of its session) has released them before its slot
\* can be reused.
EndedOwnsNothing == \A i \in Slots : rt.task[i].owns => rt.task[i].state \in Live

\* When the remote stream stays down, the programs of the remote session are gone for
\* good: service_remote_shell notices in the next pass, whatever the serial shell is
\* doing.
DisconnectEndsPrograms ==
    <>[]~Connected(stream)
        => <>[](\A i \in InState(rt, Live) : rt.task[i].console = "serial" \/ i = command.slot)

\* A session that waits for a program waits for one the runtime still knows: otherwise
\* neither an exit nor Ctrl+C can give the shell back.  The design record of user
\* multitasking promises that Ctrl+C cancels a session's program and that both shells
\* survive; find_reusable_task may hand out the slot of a program that ended and has
\* not been reaped by finish_foreground_program.
ForegroundKnown ==
    \A x \in Consoles :
        session[x].active /\ session[x].foreground # NoPid
            => find_task(rt, session[x].foreground) # {}
=============================================================================
