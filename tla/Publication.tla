---------------------------- MODULE Publication ----------------------------
(***************************************************************************)
(* What a generator of files promises, whatever it generates: a run takes  *)
(* one snapshot of its source, then replaces files one at a time, each by  *)
(* truncating it and completing it from that snapshot.  It may stop at any *)
(* moment, and the source may change at any moment.  scripts/autogen.py    *)
(* and toolchains/gen_toolchains.py are shown to implement it.             *)
(***************************************************************************)
CONSTANTS
    Sources,   \* the contents the source may have
    Names,     \* the files generated
    None       \* no snapshot

VARIABLES
    source,    \* the input, as it is now
    files,     \* the outputs, each with the source it was made from
    run,       \* the snapshot of the run in progress, None between runs
    writing    \* the file the run has truncated and not completed

vars == <<source, files, run, writing>>

Absent == [state |-> "absent", src |-> None]
Torn == [state |-> "torn", src |-> None]
Whole(s) == [state |-> "whole", src |-> s]

Init ==
    /\ source \in Sources
    /\ files = [f \in Names |-> Absent]
    /\ run = None /\ writing = {}

Edit ==
    /\ source' \in Sources
    /\ UNCHANGED <<files, run, writing>>

Begin ==
    /\ run = None /\ run' = source
    /\ UNCHANGED <<source, files, writing>>

Truncate(f) ==
    /\ run # None /\ writing = {}
    /\ files' = [files EXCEPT ![f] = Torn]
    /\ writing' = {f}
    /\ UNCHANGED <<source, run>>

Complete(f) ==
    /\ writing = {f}
    /\ files' = [files EXCEPT ![f] = Whole(run)]
    /\ writing' = {}
    /\ UNCHANGED <<source, run>>

Stop ==
    /\ run # None /\ run' = None /\ writing' = {}
    /\ UNCHANGED <<source, files>>

Next ==
    \/ Edit \/ Begin \/ Stop
    \/ \E f \in Names : Truncate(f) \/ Complete(f)

Spec == Init /\ [][Next]_vars
=============================================================================
