---------------------------- MODULE MCPrograms ----------------------------
(***************************************************************************)
(* The shell's command line, the text editor, the web client and the       *)
(* memory of programs share no state; one run checks them side by side,    *)
(* each by itself.                                                         *)
(***************************************************************************)
EXTENDS LineEditor, TextEditor, Curl, UserMemory

VARIABLE part

MCCommand(name, completion) == [name |-> name, completion |-> completion]
MCEntry(name, directory) == [name |-> name, directory |-> directory]

MCCommands ==
    <<MCCommand(<<"c", "d">>, "directory"), MCCommand(<<"c">>, "path"),
      MCCommand(<<"c", "c", "d">>, "none"), MCCommand(<<"c", "d", "d">>, "fixed"),
      MCCommand(<<"d">>, "exec"), MCCommand(<<"/">>, "fixed")>>

MCFixedArguments == [fixed |-> <<<<"c", "d", "c">>, <<"c", "d", "d">>>>]

MCApps == <<<<"d">>>>

MCListing ==
    << >> :> <<MCEntry(<<"d">>, TRUE), MCEntry(<<"c", "d">>, FALSE), MCEntry(<<"c", "c">>, TRUE)>>
    @@ MCApps :> <<MCEntry(<<"c", "c", ".">>, FALSE), MCEntry(<<"c", "c", "d", ".">>, FALSE),
                   MCEntry(<<"d">>, FALSE), MCEntry(<<"d", "d", "d", "d", "d", ".">>, FALSE)>>

MCSuffix == <<".">>
MCDirectory == <<>>

MCLayout == <<"d0", "b0">> :> "f" @@ <<"d0", "8e">> :> "."

MCFull == <<"x", "y", "x", "y", "x">>

MCScenarios ==
    {[lines |-> {<<>>}, bytes |-> {"x", "y", "[", "ESC", "A", "B", "C", "D", "CR", "BS"},
      outcomes |-> {"done"}, commands |-> 3, length |-> 2, remote |-> FALSE],
     [lines |-> {MCFull}, bytes |-> {"y", "[", "ESC", "A", "B", "C", "D", "CR", "BS", "INT"},
      outcomes |-> {"done"}, commands |-> 1, length |-> 1, remote |-> FALSE],
     [lines |-> BoundedSeq({"c", "d", " ", "/", "."}, 5), bytes |-> {"TAB"},
      outcomes |-> {}, commands |-> 0, length |-> 0, remote |-> FALSE],
     [lines |-> {<<>>}, bytes |-> {"d0", "b0", "8e", ".", "BS", "LF", "TAB", "ESC", "[", "A", "D"},
      outcomes |-> {"done"}, commands |-> 1, length |-> 2, remote |-> FALSE],
     [lines |-> {<<>>}, bytes |-> {"x", "q", "=", "CR", "LF", "BS", "INT", "TAB"},
      outcomes |-> {"done", "key", "top", "foreground", "close"},
      commands |-> 2, length |-> 1, remote |-> TRUE]}

MCFiles == {Missing, TextFile(<<"x", "NL", "x">>), TextFile(<<"x", "x", "x", "x", "x">>),
            [type |-> "binary", text |-> <<"x">>]}

\* Every header of up to three bytes with every body of up to two, and longer ones: more
\* body than declared, a length beyond SizeMax, a header that does not fit.
MCResponses ==
    {head \o Ending \o body : head \in BoundedSeq({"CR", "LF", Name, "1", "x"}, 3),
                             body \in BoundedSeq({"CR", "x"}, 2)}
    \cup {<<"x", "CR", "LF", Name, "blank", "2">> \o Ending \o <<"x", "CR", "LF", "x">>,
          <<Name, "0">> \o Ending \o <<"x">>,
          <<"x", "LF", Name, "1", "9">> \o Ending \o <<"x", "x">>,
          <<"x", "x", "x", "x", "x", "x", "x", "LF", Name, "1", "2">> \o Ending \o <<"x", "x">>}

MCImage(header, code) ==
    [size |-> 3, magic |-> TRUE, header |-> header, entry |-> 1, code |-> code]
\* Inside the code and the stack, across their ends, too long, and where a sum wraps.
MCRange(pointer, length) == [pointer |-> pointer, length |-> length]
MCRanges ==
    {MCRange(3, 1), MCRange(3, 2), MCRange(8, 1), MCRange(8, 2), MCRange(9, 2), MCRange(8, 15),
     MCRange(15, 2), MCRange(0, 0)}
MCImages == {MCImage(1, 2), MCImage(2, 2)}

\* The parts that do not move are the same in every state.
MCIdleLine ==
    /\ scenario = [lines |-> {}, bytes |-> {}, outcomes |-> {}, commands |-> 0, length |-> 0,
                   remote |-> FALSE]
    /\ session = NewSession(FALSE, <<>>) /\ terminal = Prompt
    /\ ran = <<>> /\ submitted = <<>> /\ previous = "other"
MCIdleEditor == file = Missing /\ editor = Opened(<<>>) /\ escape = NoEscape /\ writes = 0
MCIdleCurl ==
    /\ curl = NewCurl /\ response = NoResponse /\ printed = <<>>
    /\ served = [text |-> <<>>, read |-> 0]

MCInit ==
    /\ part \in {"line", "editor", "curl", "memory"}
    /\ IF part = "line" THEN Init ELSE MCIdleLine
    /\ IF part = "editor" THEN EditorInit ELSE MCIdleEditor
    /\ IF part = "curl" THEN CurlInit ELSE MCIdleCurl
    /\ UserInit

\* What stands still while a part moves.
lineRest == <<part, editorVars, curlVars, userVars>>
editorRest == <<part, vars, curlVars, userVars>>
curlRest == <<part, vars, editorVars, userVars>>
memoryRest == <<part, vars, editorVars, curlVars>>

MCNext ==
    \/ \E byte \in scenario.bytes :
          part = "line" /\ Typed(byte) /\ KeyByte(byte) /\ UNCHANGED lineRest
    \/ \E byte \in scenario.bytes :
          part = "line" /\ Typed(byte) /\ TopByte(byte) /\ UNCHANGED lineRest
    \/ \E byte \in scenario.bytes :
          part = "line" /\ Typed(byte) /\ ForegroundByte(byte) /\ UNCHANGED lineRest
    \/ \E byte \in scenario.bytes :
          part = "line" /\ Typed(byte) /\ EscapeByte(byte) /\ UNCHANGED lineRest
    \/ \E byte \in scenario.bytes, outcome \in scenario.outcomes :
          part = "line" /\ Enter(byte, outcome) /\ UNCHANGED lineRest
    \/ \E byte \in scenario.bytes :
          part = "line" /\ Typed(byte) /\ Text(byte) /\ UNCHANGED lineRest
    \/ part = "line" /\ IgnoredLineFeed /\ UNCHANGED lineRest
    \/ part = "line" /\ Interrupt /\ UNCHANGED lineRest
    \/ part = "line" /\ Backspace /\ UNCHANGED lineRest
    \/ part = "line" /\ Tab /\ UNCHANGED lineRest
    \/ part = "line" /\ ForegroundEnds /\ UNCHANGED lineRest
    \/ part = "line" /\ NewConnection /\ UNCHANGED lineRest
    \/ part = "editor" /\ Save /\ UNCHANGED editorRest
    \/ part = "editor" /\ Quit /\ UNCHANGED editorRest
    \/ \E status \in {1, 130} : part = "editor" /\ Leave(status) /\ UNCHANGED editorRest
    \/ \E char \in Characters \cup {"NL"} :
          part = "editor" /\ Type(char) /\ UNCHANGED editorRest
    \/ part = "editor" /\ EditorBackspace /\ UNCHANGED editorRest
    \/ part = "editor" /\ Escape /\ UNCHANGED editorRest
    \/ \E byte \in EscapeCharacters :
          part = "editor" /\ EditorEscapeByte(byte) /\ UNCHANGED editorRest
    \/ \E f \in Files :
          part = "editor" /\ f.type = "text" /\ OtherWrites(f.text) /\ UNCHANGED editorRest
    \/ part = "editor" /\ Restart /\ UNCHANGED editorRest
    \/ part = "curl" /\ AskMethod /\ UNCHANGED curlRest
    \/ part = "curl" /\ AskUrl /\ UNCHANGED curlRest
    \/ part = "curl" /\ BuildRequest /\ UNCHANGED curlRest
    \/ part = "curl" /\ ResolveOpen /\ UNCHANGED curlRest
    \/ part = "curl" /\ ResolveQuery /\ UNCHANGED curlRest
    \/ part = "curl" /\ OpenConnection /\ UNCHANGED curlRest
    \/ part = "curl" /\ WritePlain /\ UNCHANGED curlRest
    \/ part = "curl" /\ Handshake /\ UNCHANGED curlRest
    \/ \E n \in 1 .. PieceCapacity :
          part = "curl" /\ ReadPiece(n) /\ UNCHANGED curlRest
    \/ part = "curl" /\ ReadEnds /\ UNCHANGED curlRest
    \/ part = "curl" /\ ReadFails /\ UNCHANGED curlRest
    \/ \E image \in Images :
          part = "memory" /\ SpawnImage(image) /\ UNCHANGED memoryRest
    \/ part = "memory" /\ Poll /\ UNCHANGED memoryRest
    \/ part = "memory" /\ LeaveProcessor /\ UNCHANGED memoryRest
    \/ \E p \in 1 .. MaxPid :
          part = "memory" /\ Cancel(p) /\ UNCHANGED memoryRest
    \/ \E p \in 1 .. MaxPid :
          part = "memory" /\ DeliverInput(p) /\ UNCHANGED memoryRest
    \/ \E r \in Ranges :
          part = "memory" /\ UserStore(r.pointer) /\ UNCHANGED memoryRest
    \/ \E r \in Ranges :
          part = "memory" /\ SyscallWrite(r.pointer, r.length) /\ UNCHANGED memoryRest
    \/ \E r \in Ranges :
          part = "memory" /\ SyscallRead(r.pointer, r.length) /\ UNCHANGED memoryRest
    \/ \E r \in Ranges :
          part = "memory" /\ SyscallSend(r.pointer, r.length) /\ UNCHANGED memoryRest
    \/ \E r \in Ranges :
          part = "memory" /\ SyscallRandomFill(r.pointer, r.length) /\ UNCHANGED memoryRest
    \/ \E r \in Ranges, count \in 0 .. IoLimit :
          part = "memory" /\ SyscallReceive(r.pointer, r.length, count) /\ UNCHANGED memoryRest
    \/ \E r \in Ranges, count \in 0 .. IoLimit :
          part = "memory" /\ SyscallArgument(r.pointer, r.length, count) /\ UNCHANGED memoryRest
    \/ \E r \in Ranges, size \in {1, FileLimit} :
          part = "memory" /\ SyscallReadFile(r.pointer, r.length, StackBase, FileLimit, size)
          /\ UNCHANGED memoryRest
    \/ \E r \in Ranges, size \in {1, FileLimit} :
          part = "memory" /\ SyscallReadFile(CodeBase, 1, r.pointer, r.length, size)
          /\ UNCHANGED memoryRest
    \/ \E r \in Ranges :
          part = "memory" /\ SyscallWriteFile(r.pointer, r.length, CodeBase, FileLimit)
          /\ UNCHANGED memoryRest
    \/ \E r \in Ranges :
          part = "memory" /\ SyscallWriteFile(StackBase, 1, r.pointer, r.length)
          /\ UNCHANGED memoryRest

MCSpec ==
    MCInit /\ [][MCNext]_<<part, vars, editorVars, curlVars, userVars>>
=============================================================================
