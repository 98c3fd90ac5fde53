---------------------------- MODULE RustcConfig ----------------------------
(***************************************************************************)
(* scripts/rustc_config.py: four read-modify-write passes over TOML files, *)
(* three in a Rust source tree and one, ~/.cargo/config.toml, shared by    *)
(* every tree of the user.  Each pass loads a file, updates some slots of  *)
(* two-level tables, truncates the file and dumps the result.  Runs may    *)
(* fail, be killed, be repeated and run side by side.                      *)
(*                                                                         *)
(* A dictionary is a function from slots <<table, key>> to values.  A      *)
(* sub-table such as [target.<triple>] is the value of one slot:           *)
(* dict.update is shallow and replaces it whole.                           *)
(***************************************************************************)
EXTENDS Integers, FiniteSets, TLC

CONSTANTS
    Scripts,     \* invocations of the script, each with its arguments
    TreeOf,      \* -r: script |-> source tree
    TargetOf,    \* -t: script |-> target triple
    LlvmOf,      \* -l: script |-> llvm bin directory
    Host,        \* external: what llvm-config --host-target prints
    Before,      \* file |-> its state and contents before any run
    MaxKills     \* bound: killed runs

Home == <<"home", "~">>
FileOf(s, n) ==
    CASE n = 1 -> <<"config", TreeOf[s]>>
      [] n = 2 -> <<"cargo", TreeOf[s]>>
      [] n = 3 -> <<"bootstrap", TreeOf[s]>>
      [] n = 4 -> Home
Files == {FileOf(s, n) : s \in Scripts, n \in 1 .. 4}

(* The slots each pass writes.                                             *)
ConfigSlots(s) ==
    (<<"build", "target">> :> <<Host, TargetOf[s]>>)
    @@ (<<"target", TargetOf[s]>> :> <<"wali", TreeOf[s], LlvmOf[s]>>)
    @@ (<<"target", Host>> :> <<"llvm-config", LlvmOf[s]>>)
LibcSlots == <<"patch.crates-io", "libc">> :> <<"git", "branch">>
CcSlots == <<"patch.crates-io", "cc">> :> <<"git">>
LinkerSlots(s) == [slot \in {<<"target", TargetOf[s]>>} |-> <<"linker", LlvmOf[s]>>]

Ours(s, n) ==
    CASE n = 1 -> ConfigSlots(s)
      [] n = 2 -> LibcSlots
      [] n = 3 -> CcSlots
      [] n = 4 -> LinkerSlots(s)

(* dict.update on the slots' tables.                                       *)
ReplacedTables(old, ours) ==    \* mutant: config[table] = ... instead of update
    [slot \in {x \in DOMAIN old : \A y \in DOMAIN ours : x[1] # y[1]} \cup DOMAIN ours |->
        IF slot \in DOMAIN ours THEN ours[slot] ELSE old[slot]]

KeptOld(old, ours) ==           \* mutant: setdefault instead of update
    [slot \in DOMAIN old \cup DOMAIN ours |->
        IF slot \in DOMAIN old THEN old[slot] ELSE ours[slot]]

Updated(old, ours) ==
    [slot \in DOMAIN old \cup DOMAIN ours |->
        IF slot \in DOMAIN ours THEN ours[slot] ELSE old[slot]]

Empty == [slot \in {} |-> 0]

File(dict) == [state |-> "file", dict |-> dict]
Absent == [state |-> "absent", dict |-> Empty]
Garbled == [state |-> "garbled", dict |-> Empty]

ASSUME ConfigAssumption ==
    /\ MaxKills \in Nat
    /\ DOMAIN Before = Files
    /\ \A f \in Files : Before[f] = Absent \/ Before[f].state = "file"

-----------------------------------------------------------------------------
VARIABLES
    disk,   \* the files
    pass,   \* script |-> which of its four files it is at
    phase,  \* script |-> "off", "load", "open", "dump", "done", "failed", "killed"
    mem,    \* script |-> the dictionary it holds
    torn,   \* <<f, s>>: s was killed with f truncated (history)
    kills,
    overlapped  \* a run began while another was running (history)

vars == <<disk, pass, phase, mem, torn, kills, overlapped>>

At(s) == FileOf(s, pass[s])
Running(s) == phase[s] \in {"load", "open", "dump"}

Init ==
    /\ disk = Before
    /\ pass = [s \in Scripts |-> 1]
    /\ phase = [s \in Scripts |-> "off"]
    /\ mem = [s \in Scripts |-> Empty]
    /\ torn = {} /\ kills = 0 /\ overlapped = FALSE

(* A first run, or a repeated one.                                         *)
Begin(s) ==
    /\ ~Running(s)
    /\ overlapped' = (overlapped \/ \E t \in Scripts : Running(t))
    /\ phase' = [phase EXCEPT ![s] = "load"]
    /\ pass' = [pass EXCEPT ![s] = 1]
    /\ UNCHANGED <<disk, mem, torn, kills>>

(* toml.load and the updates; only the Cargo configuration may be missing. *)
CanLoad(s) ==
    /\ disk[At(s)].state # "garbled"
    /\ disk[At(s)].state = "absent" => pass[s] = 4

LoadOpenedForWriting(s) ==      \* mutant: open(..., 'w+') for the load
    /\ phase[s] = "load" /\ CanLoad(s)
    /\ mem' = [mem EXCEPT ![s] = Ours(s, pass[s])]
    /\ phase' = [phase EXCEPT ![s] = "open"]
    /\ UNCHANGED <<disk, pass, torn, kills, overlapped>>

Load(s) ==
    /\ phase[s] = "load" /\ CanLoad(s)
    /\ mem' = [mem EXCEPT ![s] =
                 IF disk[At(s)].state = "absent" THEN Ours(s, pass[s])
                 ELSE Updated(disk[At(s)].dict, Ours(s, pass[s]))]
    /\ phase' = [phase EXCEPT ![s] = "open"]
    /\ UNCHANGED <<disk, pass, torn, kills, overlapped>>

(* The first pass also fails if the llvm-config it runs does.              *)
LoadFails(s) ==
    /\ phase[s] = "load"
    /\ CanLoad(s) => pass[s] = 1
    /\ phase' = [phase EXCEPT ![s] = "failed"]
    /\ UNCHANGED <<disk, pass, mem, torn, kills, overlapped>>

(* open(..., 'w') truncates, or raises: a file that is read-only, no        *)
(* ~/.cargo to put the configuration in.                                   *)
Open(s) ==
    /\ phase[s] = "open"
    /\ disk' = [disk EXCEPT ![At(s)] = File(Empty)]
    /\ phase' = [phase EXCEPT ![s] = "dump"]
    /\ UNCHANGED <<pass, mem, torn, kills, overlapped>>

OpenFails(s) ==
    /\ phase[s] = "open"
    /\ phase' = [phase EXCEPT ![s] = "failed"]
    /\ UNCHANGED <<disk, pass, mem, torn, kills, overlapped>>

DumpPastTheEnd(s) ==            \* mutant: a fifth pass
    /\ phase[s] = "dump"
    /\ disk' = [disk EXCEPT ![At(s)] = File(mem[s])]
    /\ phase' = [phase EXCEPT ![s] = IF pass[s] = 5 THEN "done" ELSE "load"]
    /\ pass' = [pass EXCEPT ![s] = @ + 1]
    /\ UNCHANGED <<mem, torn, kills, overlapped>>

(* toml.dump, at offset 0: over the text of another run that dumped since  *)
(* the truncation, whose tail may stay.                                    *)
Dump(s) ==
    /\ phase[s] = "dump"
    /\ \E text \in {File(mem[s])} \cup (IF disk[At(s)] = File(Empty) THEN {} ELSE {Garbled}) :
          disk' = [disk EXCEPT ![At(s)] = text]
    /\ IF pass[s] = 4
       THEN phase' = [phase EXCEPT ![s] = "done"] /\ UNCHANGED pass
       ELSE /\ phase' = [phase EXCEPT ![s] = "load"]
            /\ pass' = [pass EXCEPT ![s] = @ + 1]
    /\ UNCHANGED <<mem, torn, kills, overlapped>>

(* A kill between truncation and close loses all of the text, or leaves    *)
(* the part of it that was flushed.                                        *)
Kill(s) ==
    /\ Running(s)
    /\ kills < MaxKills /\ kills' = kills + 1
    /\ phase' = [phase EXCEPT ![s] = "killed"]
    /\ IF phase[s] = "dump"
       THEN /\ \E text \in {disk[At(s)], Garbled} : disk' = [disk EXCEPT ![At(s)] = text]
            /\ torn' = torn \cup {<<At(s), s>>}
       ELSE UNCHANGED <<disk, torn>>
    /\ UNCHANGED <<pass, mem, overlapped>>

Next == \E s \in Scripts :
    \/ Begin(s) \/ Load(s) \/ LoadFails(s) \/ Open(s) \/ OpenFails(s)
    \/ Dump(s) \/ Kill(s)

Spec == Init /\ [][Next]_vars

-----------------------------------------------------------------------------
Writing(f) == \E s \in Scripts : phase[s] = "dump" /\ At(s) = f
TornBy(f) == {s \in Scripts : <<f, s>> \in torn}

(* The type invariant.                                                     *)
TypeOK ==
    /\ DOMAIN disk = Files
    /\ pass \in [Scripts -> 1 .. 4]
    /\ phase \in [Scripts -> {"off", "load", "open", "dump", "done", "failed", "killed"}]
    /\ DOMAIN mem = Scripts
    /\ torn \subseteq Files \X Scripts
    /\ kills \in 0 .. MaxKills
    /\ overlapped \in BOOLEAN

(* The slots of f no invocation writes.                                    *)
UserSlots(f) ==
    {slot \in DOMAIN Before[f].dict :
        \A s \in Scripts, n \in 1 .. 4 : FileOf(s, n) = f => slot \notin DOMAIN Ours(s, n)}

Carries(dict, f) ==
    \A slot \in UserSlots(f) : slot \in DOMAIN dict /\ dict[slot] = Before[f].dict[slot]

Configures(s, f) == \E n \in 1 .. 4 : FileOf(s, n) = f

SettingsSurviveIn(fs) ==
    \A f \in fs : Before[f].state = "file" /\ ~Writing(f) /\ TornBy(f) = {} =>
        disk[f].state = "file" /\ Carries(disk[f].dict, f)

(* What the user had in a file before the first run is still there, with   *)
(* its value, in every slot the script does not write, unless a run was    *)
(* killed with that file truncated: no failing run and no repetition loses *)
(* it as long as runs do not overlap.                                      *)
UserSettingsSurvive == ~overlapped => SettingsSurviveIn(Files)

(* Side by side, the same holds of the files of a tree only one invocation *)
(* configures; ~/.cargo/config.toml is the one that may be read while      *)
(* another invocation has it truncated.                                    *)
PrivateSettingsSurvive ==
    SettingsSurviveIn({f \in Files :
        \A s, t \in Scripts : Configures(s, f) /\ Configures(t, f) => s = t})

(* The slots of pass n of s that every invocation that writes them gives   *)
(* the same value: all of them when no two share a tree or a target.       *)
Undisputed(s, n) ==
    {slot \in DOMAIN Ours(s, n) : \A t \in Scripts, m \in 1 .. 4 :
        FileOf(t, m) = FileOf(s, n) /\ slot \in DOMAIN Ours(t, m)
            => Ours(t, m)[slot] = Ours(s, n)[slot]}

Configured(dict, s, n) ==
    \A slot \in Undisputed(s, n) : slot \in DOMAIN dict /\ dict[slot] = Ours(s, n)[slot]

(* A run that got to its end left its own settings in all four files, also *)
(* when earlier runs were killed half-way, and they stay there while other *)
(* trees and targets are configured, unless one of those runs is killed    *)
(* with the file truncated or overlaps it.                                 *)
DoneMeansConfigured ==
    ~overlapped => \A s \in Scripts : phase[s] = "done" =>
        \A n \in 1 .. 4 : LET f == FileOf(s, n) IN
            ~Writing(f) /\ TornBy(f) \subseteq {s} =>
                disk[f].state = "file" /\ Configured(disk[f].dict, s, n)
=============================================================================
