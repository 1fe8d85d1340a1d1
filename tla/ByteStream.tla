----------------------------- MODULE ByteStream -----------------------------
(***************************************************************************)
(* What one direction of a connection promises to its two ends: the sink   *)
(* takes the source's bytes, each once and in order.  It may stop short    *)
(* when the connection breaks, but never skips, repeats or invents.        *)
(***************************************************************************)
EXTENDS SequencesExt

VARIABLES
    source,     \* what the sending application has handed over
    sink        \* what the receiving application has taken

Init == source = <<>> /\ sink = <<>>

Send == IsStrictPrefix(source, source') /\ UNCHANGED sink

Take == IsStrictPrefix(sink, sink') /\ IsPrefix(sink', source) /\ UNCHANGED source

Next == Send \/ Take

Spec == Init /\ [][Next]_<<source, sink>>
=============================================================================
