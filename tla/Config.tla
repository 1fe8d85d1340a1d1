------------------------------ MODULE Config ------------------------------
(***************************************************************************)
(* The persistent configuration of kernel/config.c, kept as a text file in *)
(* ARFS.                                                                   *)
(*                                                                         *)
(* The text is a sequence of units: key names, words and line ends are one *)
(* unit each, but values keep different lengths ("true" and "false" differ *)
(* by one, a port has as many digits and a key as many characters as it    *)
(* has), because the length of the file is what a failed save gets wrong.  *)
(***************************************************************************)
EXTENDS ArfsCore

CONSTANTS
    ConfigPath,       \* /owner/arwill.conf
    PortTexts,        \* valid ports, as sequences of digits
    DefaultPort,
    KeyCharacters,    \* characters copy_remote_key accepts
    KeyCapacity,      \* arwill_config_remote_key_capacity
    ConfigCapacity    \* config_file_capacity

NewLine == "\n"

\* What the file sets; log.level and config.version have one value only.
Settings(enabled, port, key) == [enabled |-> enabled, port |-> port, key |-> key]

set_defaults ==
    [settings |-> Settings(TRUE, DefaultPort, <<>>), loaded |-> FALSE, valid |-> TRUE]

\* Defaults with the remote service off: what a malformed file leads to.
Malformed ==
    [settings |-> Settings(FALSE, DefaultPort, <<>>), loaded |-> TRUE, valid |-> FALSE]

Configured(settings) == [settings |-> settings, loaded |-> TRUE, valid |-> TRUE]

(***************************************************************************)
(* Saving.                                                                 *)
(***************************************************************************)
BooleanText(b) == IF b THEN <<"true">> ELSE <<"fals", "e">>

ConfigText(s) ==
    <<"config.version=1", NewLine, "remote.enabled=">> \o BooleanText(s.enabled)
    \o <<NewLine, "remote.port=">> \o s.port
    \o <<NewLine, "remote.key=">> \o s.key
    \o <<NewLine, "log.level=info", NewLine>>

persist_config(fs, disk, settings) ==
    IF fs.mounted
        THEN arfs_write_bytes(disk, fs.entries, ConfigPath, "text", ConfigText(settings))
        ELSE {Fail(disk, fs.entries)}

(***************************************************************************)
(* Loading: exactly one line per field, in any order, nothing else.        *)
(***************************************************************************)
Fields == {"config.version=1", "remote.enabled=", "remote.port=", "remote.key=",
           "log.level=info"}

copy_remote_key(value) == Len(value) < KeyCapacity /\ Range(value) \subseteq KeyCharacters

parse_config_line(line) ==
    /\ line # <<>> /\ line[1] \in Fields
    /\ LET value == Tail(line)
       IN  CASE line[1] = "remote.enabled=" -> \E b \in BOOLEAN : value = BooleanText(b)
             [] line[1] = "remote.port=" -> value \in PortTexts
             [] line[1] = "remote.key=" -> copy_remote_key(value)
             [] OTHER -> value = <<>>

\* The lines of a text; a line end at its very end starts no further line.
ConfigLines(text) ==
    LET lines[i \in 0..Len(text)] ==
            IF i = 0 THEN <<>>
            ELSE LET read == lines[i - 1]
                     starts == i = 1 \/ text[IF i = 1 THEN 1 ELSE i - 1] = NewLine
                     unit == IF text[i] = NewLine THEN <<>> ELSE <<text[i]>>
                 IN  IF starts THEN Append(read, unit)
                     ELSE [read EXCEPT ![Len(read)] = @ \o unit]
    IN  lines[Len(text)]

FieldValue(lines, field) ==
    Tail(lines[SelectInSeq(lines, LAMBDA line : line[1] = field)])


parse_config(text) ==
    LET lines == ConfigLines(text)
    IN  IF /\ \A i \in DOMAIN lines : parse_config_line(lines[i])
           /\ Len(lines) = Cardinality(Fields)
           /\ \A field \in Fields : \E i \in DOMAIN lines : lines[i][1] = field
            THEN Configured(Settings(FieldValue(lines, "remote.enabled=") = BooleanText(TRUE),
                                     FieldValue(lines, "remote.port="),
                                     FieldValue(lines, "remote.key=")))
            ELSE Malformed

\* A file that cannot be read counts as missing.  The result says whether the
\* load succeeded and whether a device error was behind it.
arwill_config_load(fs, disk) ==
    LET result(config, ok, fault) == [config |-> config, ok |-> ok, fault |-> fault]
    IN  {IF ~file.ok THEN result(set_defaults, TRUE, file.fault)
         ELSE IF file.type # "text" \/ Len(file.contents) \notin 1..ConfigCapacity
            THEN result(Malformed, FALSE, FALSE)
         ELSE LET parsed == parse_config(file.contents)
              IN  result(parsed, parsed.valid, FALSE) :
         file \in arfs_read_file(disk, fs.entries, ConfigPath)}

(***************************************************************************)
(* Changing a setting: saved first, then taken over; refused while the     *)
(* file is malformed.                                                      *)
(***************************************************************************)
config_change(config, fs, disk, settings) ==
    IF config.valid
        THEN {[o |-> o, config |-> IF o.ok THEN Configured(settings) ELSE config] :
                o \in persist_config(fs, disk, settings)}
        ELSE {[o |-> Fail(disk, fs.entries), config |-> config]}

\* `config <key> <value>': a value that does not parse changes nothing.
arwill_config_set(config, fs, disk, key, value) ==
    LET s == config.settings
        refused == {[o |-> Fail(disk, fs.entries), config |-> config]}
    IN  CASE key = "remote.enabled" ->
                config_change(config, fs, disk, [s EXCEPT !.enabled = value])
          [] key = "remote.port" ->
                IF value \in PortTexts
                    THEN config_change(config, fs, disk, [s EXCEPT !.port = value])
                    ELSE refused
          [] key = "log.level" ->
                IF value = "info" THEN config_change(config, fs, disk, s) ELSE refused
          [] OTHER -> refused

arwill_config_set_remote_key(config, fs, disk, key) ==
    IF copy_remote_key(key)
        THEN config_change(config, fs, disk, [config.settings EXCEPT !.key = key])
        ELSE {[o |-> Fail(disk, fs.entries), config |-> config]}
=============================================================================
