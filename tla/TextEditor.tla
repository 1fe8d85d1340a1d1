----------------------------- MODULE TextEditor -----------------------------
(***************************************************************************)
(* The text editor (apps/edit/edit.c) and the two file system calls it     *)
(* makes (arch/x86_64/cpu/user_mode.c).                                    *)
(*                                                                         *)
(* The document is a sequence of characters in which "NL" ends a line; the *)
(* cursor is the number of characters before it.  The file it edits may be *)
(* missing, hold text, or be unreadable as text (another type, or longer   *)
(* than the document may be), and other programs may write it meanwhile.   *)
(***************************************************************************)
EXTENDS Integers, FiniteSetsExt, SequencesExt

CONSTANTS
    DocumentCapacity,   \* document_capacity
    Columns, Rows,      \* screen_columns, screen_rows
    EscapeLimit,        \* digits accepted in an escape sequence
    Characters,         \* printable characters typed into the document
    EscapeCharacters,   \* characters typed after ESC
    Files,              \* contents of the file before the editor starts
    MaxWrites           \* bound on the writes of other programs

VARIABLES file, editor, escape, writes

editorVars == <<file, editor, escape, writes>>

Missing == [type |-> "missing", text |-> <<>>]
TextFile(text) == [type |-> "text", text |-> text]

(***************************************************************************)
(* System calls.                                                           *)
(***************************************************************************)
\* What syscall_read_file may answer: the contents, or -1 for a file that is missing,
\* not text or too long, or that the disk fails to deliver.
syscall_read_file(f) ==
    {[ok |-> FALSE, text |-> <<>>]} \cup
    (IF f.type = "text" /\ Len(f.text) <= DocumentCapacity
     THEN {[ok |-> TRUE, text |-> f.text]} ELSE {})

\* The file after syscall_write_file, which replaces the whole file or fails.
syscall_write_file(f, text) == {[ok |-> TRUE, file |-> TextFile(text)], [ok |-> FALSE, file |-> f]}

(***************************************************************************)
(* The document.                                                           *)
(***************************************************************************)
line_start(document, cursor) ==
    Max({0} \cup {i \in 1 .. cursor : document[i] = "NL"})

line_end(document, cursor) ==
    Min({Len(document)} \cup {i \in cursor .. Len(document) - 1 : document[i + 1] = "NL"})

move_up(document, cursor) ==
    LET start    == line_start(document, cursor)
        above    == line_start(document, start - 1)
        column   == cursor - start
        previous == start - 1 - above
    IN  IF start = 0 THEN cursor ELSE above + Min({column, previous})

move_down(document, cursor) ==
    LET end    == line_end(document, cursor)
        column == cursor - line_start(document, cursor)
        next   == end + 1
    IN  IF end >= Len(document) THEN cursor
        ELSE next + Min({column, line_end(document, next) - next})

\* Where a character goes on an endless screen Columns wide.
visual_step(place, char) ==
    IF char = "NL" \/ place.column + 1 >= Columns
    THEN [row |-> place.row + 1, column |-> 0]
    ELSE [place EXCEPT !.column = @ + 1]

\* Wrong variant, for the mutation runs: rows are not wrapped at the width.
visual_position_unwrapped(document, cursor) ==
    LET Step(place, char) == IF char = "NL" THEN [row |-> place.row + 1, column |-> 0]
                             ELSE [place EXCEPT !.column = @ + 1]
    IN  FoldLeft(Step, [row |-> 0, column |-> 0], SubSeq(document, 1, cursor))

visual_position(document, cursor) ==
    FoldLeft(visual_step, [row |-> 0, column |-> 0], SubSeq(document, 1, cursor))

\* render: which character of the document stands at each row and column of the
\* screen, and the place of the cursor.
render(document, cursor) ==
    LET at     == visual_position(document, cursor)
        scroll == IF at.row >= Rows THEN at.row - Rows + 1 ELSE 0
        Draw(screen, i) ==
            [place |-> visual_step(screen.place, document[i]),
             cells |-> IF \/ document[i] = "NL"
                          \/ screen.place.row \notin scroll .. scroll + Rows - 1
                       THEN screen.cells
                       ELSE (<<screen.place.row - scroll, screen.place.column>> :> i)
                            @@ screen.cells]
    IN  [cells  |-> FoldLeft(Draw, [place |-> [row |-> 0, column |-> 0], cells |-> <<>>],
                             [i \in DOMAIN document |-> i]).cells,
         cursor |-> <<at.row - scroll, at.column>>]

remove_byte(document, index) == RemoveAt(document, index + 1)

Edited(e, document, cursor) == [e EXCEPT !.document = document, !.cursor = cursor, !.dirty = TRUE]


insert_byte(e, char) ==
    IF Len(e.document) >= DocumentCapacity THEN e
    ELSE Edited(e, InsertAt(e.document, e.cursor + 1, char), e.cursor + 1)

\* The effect of a complete escape sequence.
escape_command(e, code, parameter) ==
    LET document == e.document
    IN  CASE code = "A" -> [e EXCEPT !.cursor = move_up(document, @)]
          [] code = "B" -> [e EXCEPT !.cursor = move_down(document, @)]
          [] code = "C" -> [e EXCEPT !.cursor = Min({@ + 1, Len(document)})]
          [] code = "D" -> [e EXCEPT !.cursor = Max({@ - 1, 0})]
          [] code = "H" \/ (code = "~" /\ parameter = "1") ->
                 [e EXCEPT !.cursor = line_start(document, @)]
          [] code = "F" \/ (code = "~" /\ parameter = "4") ->
                 [e EXCEPT !.cursor = line_end(document, @)]
          [] code = "~" /\ parameter = "3" /\ e.cursor < Len(document) ->
                 Edited(e, remove_byte(document, e.cursor), e.cursor)
          [] OTHER -> e

-----------------------------------------------------------------------------
(***************************************************************************)
(* editor_main, one action per key.  escape is the progress of             *)
(* read_escape_code: bytes read since ESC, with the first digit seen.      *)
(***************************************************************************)
NoEscape == [stage |-> "none", parameter |-> "none", digits |-> 0]

\* stored is what the document was last known to equal: what was loaded or saved.
Opened(text) ==
    [running |-> TRUE, status |-> -1, document |-> text, cursor |-> 0, dirty |-> FALSE,
     quit_armed |-> FALSE, stored |-> text]

Closed(status) == [Opened(<<>>) EXCEPT !.running = FALSE, !.status = status]

EditorInit ==
    /\ file \in Files
    /\ \E got \in syscall_read_file(file) : editor = Opened(got.text)
    /\ escape = NoEscape
    /\ writes = 0

Reading == editor.running /\ escape.stage = "none"

Save ==
    /\ Reading
    /\ \E got \in syscall_write_file(file, editor.document) :
          /\ file' = got.file
          /\ editor' = IF got.ok THEN [editor EXCEPT !.dirty = FALSE, !.quit_armed = FALSE,
                                                     !.stored = editor.document]
                                 ELSE editor
    /\ UNCHANGED <<escape, writes>>

Quit ==
    /\ Reading
    /\ editor' = IF editor.dirty /\ ~editor.quit_armed THEN [editor EXCEPT !.quit_armed = TRUE]
                                                       ELSE Closed(0)
    /\ UNCHANGED <<file, escape, writes>>

\* ^C, or a read that fails.
Leave(status) ==
    /\ editor.running /\ (status = 130 => escape.stage = "none")
    /\ editor' = Closed(status)
    /\ escape' = NoEscape
    /\ UNCHANGED <<file, writes>>

Disarmed == [editor EXCEPT !.quit_armed = FALSE]

Type(char) ==
    /\ Reading
    /\ editor' = insert_byte(Disarmed, char)
    /\ UNCHANGED <<file, escape, writes>>

EditorBackspace ==
    /\ Reading
    /\ editor' = IF editor.cursor = 0 THEN Disarmed
                 ELSE Edited(Disarmed, remove_byte(editor.document, editor.cursor - 1),
                             editor.cursor - 1)
    /\ UNCHANGED <<file, escape, writes>>

Escape ==
    /\ Reading
    /\ editor' = Disarmed
    /\ escape' = [NoEscape EXCEPT !.stage = "prefix"]
    /\ UNCHANGED <<file, writes>>

Digits == {"1", "3", "4", ";"}

EditorEscapeByte(byte) ==
    /\ editor.running /\ escape.stage # "none"
    /\ CASE escape.stage = "prefix" ->
              /\ escape' = IF byte \in {"[", "O"} THEN [escape EXCEPT !.stage = byte] ELSE NoEscape
              /\ UNCHANGED editor
         [] escape.stage = "[" /\ escape.digits = EscapeLimit ->
              /\ escape' = NoEscape
              /\ UNCHANGED editor
         [] escape.stage = "[" /\ escape.digits < EscapeLimit /\ byte \in Digits ->
              /\ escape' = [escape EXCEPT !.digits = @ + 1,
                               !.parameter = IF @ = "none" /\ byte # ";" THEN byte ELSE @]
              /\ UNCHANGED editor
         [] OTHER ->
              /\ escape' = NoEscape
              /\ editor' = escape_command(editor, byte, escape.parameter)
    /\ UNCHANGED <<file, writes>>

\* Another program writes the file; the editor is started again.
OtherWrites(text) ==
    /\ writes < MaxWrites
    /\ writes' = writes + 1
    /\ file' = TextFile(text)
    /\ UNCHANGED <<editor, escape>>

Restart ==
    /\ ~editor.running
    /\ \E got \in syscall_read_file(file) : editor' = Opened(got.text)
    /\ UNCHANGED <<file, escape, writes>>

EditorNext ==
    \/ Save
    \/ Quit
    \/ \E status \in {1, 130} : Leave(status)
    \/ \E char \in Characters \cup {"NL"} : Type(char)
    \/ EditorBackspace
    \/ Escape
    \/ \E byte \in EscapeCharacters : EditorEscapeByte(byte)
    \/ \E f \in Files : f.type = "text" /\ OtherWrites(f.text)
    \/ Restart

EditorSpec == EditorInit /\ [][EditorNext]_editorVars
-----------------------------------------------------------------------------
\* The document keeps within its buffer and the cursor within the document.
EditorTypeOK ==
    /\ Len(editor.document) \in 0 .. DocumentCapacity
    /\ editor.cursor \in 0 .. Len(editor.document)
    /\ {editor.running, editor.dirty, editor.quit_armed} \subseteq BOOLEAN
    /\ escape.digits \in 0 .. EscapeLimit


\* The cursor on the screen is inside the viewport and stands on the character before
\* which the next one would be inserted (visual_position and the drawing loop of
\* render agree about wrapping and scrolling).
CursorOnItsCharacter ==
    LET shown == render(editor.document, editor.cursor)
        under == editor.cursor + 1
    IN  /\ shown.cursor[1] \in 0 .. Rows - 1 /\ shown.cursor[2] \in 0 .. Columns - 1
        /\ IF under > Len(editor.document) \/ editor.document[under] = "NL"
           THEN shown.cursor \notin DOMAIN shown.cells
           ELSE shown.cursor \in DOMAIN shown.cells /\ shown.cells[shown.cursor] = under

\* Number of the line and column of a cursor position, by counting line ends.
LineOf(cursor) == Cardinality({i \in 1 .. cursor : editor.document[i] = "NL"})
ColumnOf(cursor) == Cardinality({c \in 0 .. cursor - 1 : LineOf(c) = LineOf(cursor)})
LengthOf(line) == Max({ColumnOf(c) : c \in {c \in 0 .. Len(editor.document) : LineOf(c) = line}})

\* Up and Down go to the neighbouring line, to the same column or to the end of a
\* shorter line, and stay put on the first and the last line.
VerticalMoves ==
    LET c     == editor.cursor
        Lands(there, line) ==
            /\ LineOf(there) = line
            /\ ColumnOf(there) = Min({ColumnOf(c), LengthOf(line)})
        last  == LineOf(Len(editor.document))
    IN  /\ Lands(move_up(editor.document, c), Max({0, LineOf(c) - 1}))
        /\ Lands(move_down(editor.document, c), Min({last, LineOf(c) + 1}))

\* The cursor of apps/edit/edit.c after every key: inside the document, drawn where it
\* is, and moved by lines.
CursorFollowsText == EditorTypeOK /\ CursorOnItsCharacter /\ VerticalMoves
=============================================================================
