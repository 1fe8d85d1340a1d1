----------------------------- MODULE LineEditor -----------------------------
(***************************************************************************)
(* The command line of one shell session (handle_shell_byte and its        *)
(* helpers in kernel/shell.c): editing, history, completion, the layout    *)
(* normaliser, the hidden key prompt, and what the terminal shows.         *)
(*                                                                         *)
(* The terminal is the row that holds the prompt: cells is what stands     *)
(* right of the prompt and at is the cursor's column.  What a command does *)
(* is left to the other modules; here it ends in one of the ways that      *)
(* matter to the line: back at the prompt, at the key prompt, in top, with *)
(* a program in the foreground, or with the session closed.                *)
(***************************************************************************)
EXTENDS ShellPaths

CONSTANTS
    HistoryCapacity,   \* shell_history_capacity
    KeyCapacity,       \* arwill_config_remote_key_capacity
    Leads,             \* utf8_cyrillic_lead_0 and _1
    Continuations,     \* bytes 10xxxxxx
    RussianLayout,     \* <<lead, continuation>> -> the character on that key
    Scenarios,         \* what is explored: the first lines, the bytes typed, how commands
                       \* end, and bounds on the commands and on the length typed to
    CurrentDirectory

VARIABLES scenario, session, terminal, ran, submitted, previous

vars == <<scenario, session, terminal, ran, submitted, previous>>

ControlBytes == {"CR", "LF", "BS", "TAB", "ESC", "INT"}
is_printable_ascii(byte) == byte \notin ControlBytes \cup Leads \cup Continuations

(***************************************************************************)
(* The terminal.                                                           *)
(***************************************************************************)
Prompt == [prompt |-> TRUE, cells |-> <<>>, at |-> 0]
NoPrompt == [prompt |-> FALSE, cells |-> <<>>, at |-> 0]

Echo(t, text) ==
    LET width == Max({Len(t.cells), t.at + Len(text)})
    IN  [t EXCEPT !.at = @ + Len(text),
                  !.cells = [i \in 1 .. width |->
                                IF i \in t.at + 1 .. t.at + Len(text) THEN text[i - t.at]
                                ELSE IF i <= Len(t.cells) THEN t.cells[i] ELSE " "]]

move_console_cursor_left(t, count) == [t EXCEPT !.at = @ - count]
move_console_cursor_right(t, count) == [t EXCEPT !.at = @ + count]

\* "\b \b", count times.
erase_line_contents(t, count) ==
    LET Erase(u, i) == move_console_cursor_left(Echo(move_console_cursor_left(u, 1), <<" ">>), 1)
    IN  FoldLeft(Erase, t, [i \in 1 .. count |-> i])

redraw_line(line) == Echo(Prompt, line)

(***************************************************************************)
(* Line, history and normaliser, as functions of the session.              *)
(***************************************************************************)
NewSession(remote, line) ==
    [remote |-> remote, active |-> TRUE, line |-> line, cursor |-> Len(line),
     history |-> <<>>, position |-> 0, escape |-> "none", lead |-> "none",
     russian |-> FALSE, ignore_line_feed |-> FALSE, foreground |-> FALSE,
     key_pending |-> FALSE, key |-> <<>>, top |-> FALSE]

reset_shell_input(s) ==
    [s EXCEPT !.line = <<>>, !.cursor = 0, !.escape = "none", !.lead = "none", !.russian = FALSE]

\* Wrong variant, for the mutation runs: a full history takes no more lines.
history_add_stops(history, line) ==
    IF line = <<>> \/ (history # <<>> /\ Last(history) = line) THEN history
    ELSE IF Len(history) >= HistoryCapacity THEN history
    ELSE Append(history, line)

history_add(history, line) ==
    IF line = <<>> \/ (history # <<>> /\ Last(history) = line) THEN history
    ELSE Append(IF Len(history) >= HistoryCapacity THEN Tail(history) ELSE history, line)

\* Wrong variant, for the mutation runs: the cursor is not moved to the end
\* of the old line before it is erased.
replace_line_from_cursor(s, t, text) ==
    LET kept == Cut(text, LineCapacity - 1)
    IN  [session  |-> [s EXCEPT !.line = kept, !.cursor = Len(kept)],
         terminal |-> Echo(erase_line_contents(t, Len(s.line)), kept)]

replace_line(s, t, text) ==
    LET end  == move_console_cursor_right(t, Len(s.line) - s.cursor)
        kept == Cut(text, LineCapacity - 1)
    IN  [session  |-> [s EXCEPT !.line = kept, !.cursor = Len(kept)],
         terminal |-> Echo(erase_line_contents(end, Len(s.line)), kept)]

history_previous(s, t) ==
    LET position == Min({s.position, Len(s.history)})
    IN  IF position = 0 THEN [session |-> [s EXCEPT !.position = position], terminal |-> t]
        ELSE replace_line([s EXCEPT !.position = position - 1], t, s.history[position])

history_next(s, t) ==
    IF s.position >= Len(s.history) THEN [session |-> s, terminal |-> t]
    ELSE replace_line([s EXCEPT !.position = @ + 1], t,
                      IF s.position + 1 = Len(s.history) THEN <<>>
                      ELSE s.history[s.position + 2])

\* normalize_text_input_byte: the session after the byte, and the character it
\* stands for, if any.
normalize_text_input_byte(s, byte) ==
    IF s.lead # "none"
    THEN IF byte \in Continuations /\ <<s.lead, byte>> \in DOMAIN RussianLayout
         THEN [session |-> [s EXCEPT !.lead = "none", !.russian = TRUE],
               text    |-> <<RussianLayout[<<s.lead, byte>>]>>]
         ELSE [session |-> [s EXCEPT !.lead = "none"], text |-> <<>>]
    ELSE IF byte \in Leads THEN [session |-> [s EXCEPT !.lead = byte], text |-> <<>>]
    ELSE IF ~is_printable_ascii(byte) THEN [session |-> s, text |-> <<>>]
    ELSE [session |-> s, text |-> IF s.russian /\ byte = "." THEN <<"/">> ELSE <<byte>>]

\* The tail from the insertion on is written again and the cursor moved back.
insert_char_into_line(s, t, char) ==
    IF Len(s.line) >= LineCapacity - 1 THEN [session |-> s, terminal |-> t]
    ELSE LET line == InsertAt(s.line, s.cursor + 1, char)
         IN  [session  |-> [s EXCEPT !.line = line, !.cursor = @ + 1],
              terminal |-> move_console_cursor_left(Echo(t, From(line, s.cursor + 1)),
                                                    Len(s.line) - s.cursor)]

remove_before_cursor(s, t) ==
    LET line == RemoveAt(s.line, s.cursor)
        tail == From(line, s.cursor) \o <<" ">>
    IN  [session  |-> [s EXCEPT !.line = line, !.cursor = @ - 1,
                                !.russian = @ /\ line # <<>>],
         terminal |-> move_console_cursor_left(
                          Echo(move_console_cursor_left(t, 1), tail), Len(tail))]

-----------------------------------------------------------------------------
(***************************************************************************)
(* handle_shell_byte.  Its early returns are the guards of the actions.  A *)
(* remote terminal ends its lines with CR or with CR LF.                   *)
(***************************************************************************)
Init ==
    /\ scenario \in Scenarios
    /\ \E line \in scenario.lines :
          /\ session = NewSession(scenario.remote, line)
          /\ terminal = redraw_line(line)
    /\ ran = <<>>
    /\ submitted = <<>>
    /\ previous = "other"

Receive(byte) ==
    /\ session.active
    /\ byte \in scenario.bytes
    /\ byte = "LF" => previous = "CR" \/ ~session.remote
    /\ previous' = IF byte \in {"CR", "LF"} THEN byte ELSE "other"

AtPrompt == ~session.key_pending /\ ~session.top /\ ~session.foreground

KeyByte(byte) ==
    /\ Receive(byte)
    /\ session.key_pending
    /\ LET done == [session EXCEPT !.key_pending = FALSE, !.key = <<>>]
       IN  CASE byte = "INT" -> session' = done /\ terminal' = Prompt /\ UNCHANGED submitted
             [] byte \in {"CR", "LF"} ->
                    /\ session' = done
                    /\ terminal' = Prompt
                    /\ submitted' = Append(submitted, session.key)
             [] byte = "BS" ->
                    /\ session' = [session EXCEPT !.key = Cut(@, Len(@) - 1)]
                    /\ UNCHANGED <<terminal, submitted>>
             [] OTHER ->
                    /\ session' = IF /\ is_printable_ascii(byte) /\ byte # "="
                                     /\ Len(session.key) + 1 < KeyCapacity
                                  THEN [session EXCEPT !.key = Append(@, byte)] ELSE session
                    /\ UNCHANGED <<terminal, submitted>>
    /\ UNCHANGED <<scenario, ran>>

TopByte(byte) ==
    /\ Receive(byte)
    /\ ~session.key_pending /\ session.top
    /\ IF byte \in {"INT", "q"}
       THEN /\ session' = reset_shell_input([session EXCEPT !.top = FALSE])
            /\ terminal' = Prompt
       ELSE UNCHANGED <<session, terminal>>
    /\ UNCHANGED <<scenario, ran, submitted>>

\* The byte goes to the program, or ^C cancels it; see ShellSessions.
ForegroundByte(byte) ==
    /\ Receive(byte)
    /\ ~session.key_pending /\ ~session.top /\ session.foreground
    /\ UNCHANGED <<scenario, session, terminal, ran, submitted>>

\* The program has ended and the shell loop writes the prompt again.
ForegroundEnds ==
    /\ session.active /\ session.foreground
    /\ session' = [session EXCEPT !.foreground = FALSE]
    /\ terminal' = Prompt
    /\ UNCHANGED <<scenario, ran, submitted, previous>>

IgnoredLineFeed ==
    /\ Receive("LF")
    /\ AtPrompt /\ session.ignore_line_feed
    /\ session' = [session EXCEPT !.ignore_line_feed = FALSE]
    /\ UNCHANGED <<scenario, terminal, ran, submitted>>

Heard(byte) ==
    /\ Receive(byte)
    /\ AtPrompt
    /\ ~(byte = "LF" /\ session.ignore_line_feed)

Current == [session EXCEPT !.ignore_line_feed = FALSE]

Interrupt ==
    /\ Heard("INT")
    /\ session' = reset_shell_input([Current EXCEPT !.position = Len(session.history)])
    /\ terminal' = Prompt
    /\ UNCHANGED <<scenario, ran, submitted>>

EscapeByte(byte) ==
    /\ Heard(byte) /\ byte # "INT"
    /\ \/ /\ session.escape = "none" /\ byte = "ESC"
          /\ session' = [Current EXCEPT !.escape = "started"]
          /\ UNCHANGED terminal
       \/ /\ session.escape = "started"
          /\ session' = [Current EXCEPT !.escape = IF byte \in {"[", "O"} THEN "bracket" ELSE "none"]
          /\ UNCHANGED terminal
       \/ /\ session.escape = "bracket"
          /\ LET s   == [Current EXCEPT !.escape = "none"]
                 got == CASE byte = "A" -> history_previous(s, terminal)
                          [] byte = "B" -> history_next(s, terminal)
                          [] byte = "C" /\ s.cursor < Len(s.line) ->
                                 [session  |-> [s EXCEPT !.cursor = @ + 1],
                                  terminal |-> move_console_cursor_right(terminal, 1)]
                          [] byte = "D" /\ s.cursor # 0 ->
                                 [session  |-> [s EXCEPT !.cursor = @ - 1],
                                  terminal |-> move_console_cursor_left(terminal, 1)]
                          [] OTHER -> [session |-> s, terminal |-> terminal]
             IN  session' = got.session /\ terminal' = got.terminal
    /\ UNCHANGED <<scenario, ran, submitted>>

Plain(byte) == Heard(byte) /\ session.escape = "none" /\ byte \notin {"INT", "ESC"}


after_command_session(s, byte) ==
    LET history == history_add(s.history, s.line)
    IN  reset_shell_input([s EXCEPT !.ignore_line_feed = s.remote /\ byte = "CR",
                                    !.history = history, !.position = Len(history)])

\* Enter runs the line; an empty line or an unknown command comes straight back.
Enter(byte, outcome) ==
    /\ byte \in {"CR", "LF"} /\ Plain(byte)
    /\ scenario.commands > 0
    /\ scenario' = [scenario EXCEPT !.commands = @ - 1]
    /\ outcome \in (IF session.line = <<>> THEN {"done"} ELSE scenario.outcomes)
    /\ outcome = "close" => session.remote
    /\ ran' = Append(ran, session.line)
    /\ LET s == after_command_session(Current, byte)
       IN  session' = [s EXCEPT !.active = outcome # "close", !.key_pending = outcome = "key",
                                !.top = outcome = "top", !.foreground = outcome = "foreground"]
    /\ terminal' = IF outcome = "done" THEN Prompt ELSE NoPrompt
    /\ UNCHANGED submitted

Backspace ==
    /\ Plain("BS")
    /\ IF session.cursor = 0 THEN session' = Current /\ UNCHANGED terminal
       ELSE LET got == remove_before_cursor(Current, terminal)
            IN  session' = got.session /\ terminal' = got.terminal
    /\ UNCHANGED <<scenario, ran, submitted>>

Tab ==
    /\ Plain("TAB")
    /\ IF session.cursor # Len(session.line) THEN session' = Current /\ UNCHANGED terminal
       ELSE LET got == complete_line(session.line, CurrentDirectory)
            IN  /\ session' = [Current EXCEPT !.line = got.line, !.cursor = Len(got.line)]
                /\ terminal' = IF got.listed THEN redraw_line(got.line)
                               ELSE Echo(terminal, From(got.line, Len(session.line) + 1))
    /\ UNCHANGED <<scenario, ran, submitted>>

Text(byte) ==
    /\ byte \notin ControlBytes /\ Plain(byte)
    /\ Len(session.line) < scenario.length \/ Len(session.line) = LineCapacity - 1
    /\ LET read == normalize_text_input_byte(Current, byte)
           s    == [read.session EXCEPT !.position = Len(session.history)]
           got  == insert_char_into_line(s, terminal, read.text[1])
       IN  IF read.text = <<>> THEN session' = read.session /\ UNCHANGED terminal
           ELSE session' = got.session /\ terminal' = got.terminal
    /\ UNCHANGED <<scenario, ran, submitted>>

\* The peer connects again: initialize_shell_session.
NewConnection ==
    /\ ~session.active
    /\ session' = NewSession(session.remote, <<>>)
    /\ terminal' = Prompt
    /\ ran' = <<>>
    /\ previous' = "other"
    /\ UNCHANGED <<scenario, submitted>>

\* The characters of the arrow codes are typed only after ESC.
Typed(byte) == byte \in {"[", "A", "B", "C", "D"} => session.escape # "none"

Next ==
    \/ \E byte \in scenario.bytes :
          /\ Typed(byte)
          /\ \/ KeyByte(byte)
             \/ TopByte(byte)
             \/ ForegroundByte(byte)
             \/ EscapeByte(byte)
             \/ \E outcome \in scenario.outcomes : Enter(byte, outcome)
             \/ Text(byte)
    \/ IgnoredLineFeed
    \/ Interrupt
    \/ Backspace
    \/ Tab
    \/ ForegroundEnds
    \/ NewConnection

Spec == Init /\ [][Next]_vars
-----------------------------------------------------------------------------
\* The session's buffers keep within their capacities and its indices within them.
TypeOK ==
    /\ Len(session.line) < LineCapacity /\ session.cursor \in 0 .. Len(session.line)
    /\ Len(session.key) < KeyCapacity
    /\ session.position \in 0 .. Len(session.history)
    /\ session.escape \in {"none", "started", "bracket"}
    /\ session.lead \in Leads \cup {"none"}
    /\ \A flag \in {"remote", "active", "russian", "ignore_line_feed", "foreground",
                     "key_pending", "top"} : session[flag] \in BOOLEAN

\* After every byte handle_shell_byte has handled at the prompt, through insertion and
\* removal in mid-line, recall, completion and interrupts, the terminal's row shows
\* exactly the line that Enter would run, with its cursor where the next character
\* would go; the key prompt and top leave none of their text behind.
ScreenShowsLine ==
    session.active /\ AtPrompt =>
        /\ terminal.prompt
        /\ terminal.at = session.cursor
        /\ Len(terminal.cells) >= Len(session.line)
        /\ \A i \in DOMAIN terminal.cells :
              terminal.cells[i] = IF i <= Len(session.line) THEN session.line[i] ELSE " "

\* The commands of a connection without empty lines and immediate repetitions.
Distinct(commands) ==
    LET kept == {i \in DOMAIN commands : commands[i] # <<>>}
        new  == {i \in kept : \A j \in kept : j < i =>
                    commands[j] # commands[i] \/ \E k \in kept : j < k /\ k < i}
    IN  [n \in 1 .. Cardinality(new) |->
            commands[CHOOSE i \in new : Cardinality({j \in new : j <= i}) = n]]

\* Up and Down reach the most recent HistoryCapacity commands of this connection, in
\* order and without immediate repetitions (history_add with its shift when full), and
\* the line, the key and the history never outgrow their buffers in struct
\* shell_session.
HistoryKeepsLatest ==
    LET all == Distinct(ran)
    IN  /\ TypeOK
        /\ session.active =>
            session.history = SubSeq(all, Max({1, Len(all) - HistoryCapacity + 1}), Len(all))

CommandCandidates(line) == {i \in DOMAIN Commands : IsPrefix(line, Commands[i].name)}

\* Tab only appends; as long as the command word is being completed it rules out no
\* command that matched, so a further character can still select any of them
\* (shared_length in complete_text_candidates).
TabKeepsCandidates ==
    [][Tab => /\ IsPrefix(session.line, session'.line)
              /\ LET before == CommandCandidates(session.line)
                 IN  Cardinality(before) > 1 => CommandCandidates(session'.line) = before]_vars


\* README.md: "config remote.key reads a replacement without echo": the key saved is
\* one that was entered at the key prompt.  The line feed that completes the CR LF of
\* the command itself is not an entry.
KeyPromptReadsKey ==
    [][previous = "CR" /\ previous' = "LF" => submitted' = submitted]_vars
=============================================================================
