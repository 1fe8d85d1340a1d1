----------------------------- MODULE ShellPaths -----------------------------
(***************************************************************************)
(* How the shell reads paths and completes command lines (kernel/shell.c): *)
(* pure functions of the line, the current directory and the filesystem.   *)
(*                                                                         *)
(* Text is a sequence of characters.  A resolved path is the sequence of   *)
(* its names: <<>> is "/", << <<"a">>, <<"b">> >> is "/a/b".               *)
(***************************************************************************)
EXTENDS Integers, FiniteSetsExt, SequencesExt

CONSTANTS
    LineCapacity,     \* shell_line_capacity
    PathCapacity,     \* shell_path_capacity
    Commands,         \* shell_commands: [name, completion]
    FixedArguments,   \* the fixed arguments of the grouped commands, by completion
    Listing,          \* arwill_filesystem_list: directory path -> [name, directory]
    AppsDirectory,    \* "/apps"
    ProgramSuffix     \* ".awp"

Cut(text, count) == SubSeq(text, 1, IF count < Len(text) THEN count ELSE Len(text))
From(text, first) == SubSeq(text, first, Len(text))

\* The text between separators; one part more than there are separators.
Split(text, separator) ==
    LET parts[n \in 0 .. Len(text)] ==
            IF n = 0 THEN << <<>> >>
            ELSE LET before == parts[n - 1]
                 IN  IF text[n] = separator THEN Append(before, <<>>)
                     ELSE [before EXCEPT ![Len(before)] = Append(@, text[n])]
    IN  parts[Len(text)]

(***************************************************************************)
(* Paths.                                                                  *)
(***************************************************************************)
PathLength(path) ==
    IF path = <<>> THEN 1 ELSE FoldLeft(LAMBDA sum, name : sum + 1 + Len(name), 0, path)

path_pop_segment(path) == IF path = <<>> THEN path ELSE Front(path)

path_append_segment(path, segment) ==
    LET slash == IF path = <<>> THEN 0 ELSE 1
    IN  IF segment \in {<<>>, <<".">>} THEN [ok |-> TRUE, path |-> path]
        ELSE IF segment = <<".", ".">> THEN [ok |-> TRUE, path |-> path_pop_segment(path)]
        ELSE [ok |-> PathLength(path) + slash + Len(segment) < PathCapacity,
              path |-> Append(path, segment)]

resolve_path(current_directory, input) ==
    LET absolute == input # <<>> /\ Head(input) = "/"
        Step(got, segment) == IF got.ok THEN path_append_segment(got.path, segment) ELSE got
    IN  FoldLeft(Step, [ok |-> TRUE, path |-> IF absolute THEN <<>> ELSE current_directory],
                 Split(input, "/"))

(***************************************************************************)
(* Tab completion.  Candidates come with what a single match is followed   *)
(* by: nothing, a space, or the slash of a directory.                      *)
(***************************************************************************)
Candidate(name, tail) == [name |-> name, tail |-> tail]
Matching(prefix, candidates) == SelectSeq(candidates, LAMBDA c : IsPrefix(prefix, c.name))

common_prefix_length(left, right, limit) ==
    Max({n \in 0 .. limit : n <= Len(left) /\ n <= Len(right) /\ Cut(left, n) = Cut(right, n)})

\* Wrong variant, for the mutation runs: only the first and the last candidate
\* are compared.
shared_length_last(found) ==
    common_prefix_length(found[1].name, found[Len(found)].name, Len(found[1].name))

shared_length(found) ==
    FoldLeft(LAMBDA limit, c : common_prefix_length(found[1].name, c.name, limit),
             Len(found[1].name), found)

\* append_char_to_line, for as many characters as the line has room.
append_to_line(line, text) == Cut(line \o text, LineCapacity - 1)

\* The end of complete_text_candidates, complete_path and complete_program_name: the
\* line, and whether the candidates are listed under it.
complete_candidates(line, prefix, found) ==
    LET shared == shared_length(found)
        added  == From(Cut(found[1].name, shared), Len(prefix) + 1)
    IN  IF found = <<>> THEN [line |-> line, listed |-> FALSE]
        ELSE IF Len(found) = 1
        THEN [line |-> append_to_line(line, added \o found[1].tail), listed |-> FALSE]
        ELSE [line |-> append_to_line(line, added), listed |-> added = <<>>]

complete_text_candidates(line, prefix, candidates) ==
    complete_candidates(line, prefix, Matching(prefix, candidates))

split_path_for_completion(argument) ==
    LET parts == Split(argument, "/")
        parent == Cut(argument, Len(argument) - Len(Last(parts)) - 1)
    IN  [prefix |-> Last(parts),
         parent |-> IF Len(parts) = 1 THEN <<".">> ELSE IF parent = <<>> THEN <<"/">> ELSE parent]

path_candidates(current_directory, argument, directories_only) ==
    LET cut    == split_path_for_completion(argument)
        parent == resolve_path(current_directory, cut.parent)
        shown  == IF parent.ok /\ parent.path \in DOMAIN Listing
                  THEN SelectSeq(Listing[parent.path],
                                 LAMBDA e : directories_only => e.directory)
                  ELSE <<>>
    IN  [prefix |-> cut.prefix,
         found  |-> Matching(cut.prefix,
                        [i \in DOMAIN shown |->
                            Candidate(shown[i].name, IF shown[i].directory THEN <<"/">> ELSE <<" ">>)])]

complete_path(line, current_directory, argument, directories_only) ==
    LET c == path_candidates(current_directory, argument, directories_only)
    IN  IF Len(argument) >= PathCapacity THEN [line |-> line, listed |-> FALSE]
        ELSE complete_candidates(line, c.prefix, c.found)

program_candidates(prefix) ==
    LET programs == SelectSeq(Listing[AppsDirectory],
                        LAMBDA e : /\ ~e.directory
                                   /\ IsSuffix(ProgramSuffix, e.name)
                                   /\ Len(e.name) > Len(ProgramSuffix)
                                   /\ IsPrefix(prefix, e.name))
    IN  [i \in DOMAIN programs |->
            Candidate(Cut(programs[i].name, Len(programs[i].name) - Len(ProgramSuffix)), <<" ">>)]

complete_program_name(line, current_directory, prefix) ==
    IF {"/", "."} \cap Range(prefix) # {}
    THEN complete_path(line, current_directory, prefix, FALSE)
    ELSE IF AppsDirectory \notin DOMAIN Listing THEN [line |-> line, listed |-> FALSE]
    ELSE complete_candidates(line, prefix, program_candidates(prefix))

\* Everything after the first word and the spaces that follow it.
argument_after_command(line) ==
    LET ends == {i \in DOMAIN line : line[i] = " "}
        rest == {i \in DOMAIN line : line[i] # " " /\ \E j \in ends : j < i}
    IN  IF rest = {} THEN <<>> ELSE From(line, Min(rest))

command_word(line) == Split(line, " ")[1]

command_completion(word) ==
    LET named == SelectSeq(Commands, LAMBDA c : c.name = word)
    IN  IF named = <<>> THEN "none" ELSE named[1].completion

complete_line(line, current_directory) ==
    LET word     == command_word(line)
        argument == argument_after_command(line)
        second   == argument_after_command(argument)
        kind     == command_completion(word)
        one_word == \A i \in DOMAIN argument : argument[i] # " "
        Same     == [line |-> line, listed |-> FALSE]
    IN  IF word = line
        THEN complete_text_candidates(line, word,
                 [i \in DOMAIN Commands |->
                     Candidate(Commands[i].name,
                               IF Commands[i].completion = "none" THEN <<>> ELSE <<" ">>)])
        ELSE IF kind = "none" THEN Same
        ELSE IF kind \in DOMAIN FixedArguments
        THEN complete_text_candidates(line, argument,
                 [i \in DOMAIN FixedArguments[kind] |-> Candidate(FixedArguments[kind][i], <<" ">>)])
        ELSE IF kind = "exec" /\ one_word
        THEN complete_program_name(line, current_directory, argument)
        ELSE IF kind = "exec" /\ " " \in Range(second) THEN Same
        ELSE complete_path(line, current_directory,
                           IF kind = "exec" THEN second ELSE argument, kind = "directory")
=============================================================================
