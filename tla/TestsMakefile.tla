--------------------------- MODULE TestsMakefile ---------------------------
(***************************************************************************)
(* tests/Makefile: every test program is compiled to wasm/x.wasm and       *)
(* disassembled to wasm/x.wat, up to jobs recipes at a time.  The targets  *)
(* x.wasm never come to exist in tests/, so every run builds all of them;  *)
(* the directory they go to is a target of its own that none of them       *)
(* depends on.  Here each line of a recipe has a shell, and a failing line *)
(* ends the recipe.                                                        *)
(***************************************************************************)
EXTENDS Integers, FiniteSets, Sequences, SequencesExt

CONSTANTS
    SRC_C,       \* the test programs, in the order of the wildcard
    MaxJobs,     \* bound: -j
    Linux,       \* external: uname -s says Linux
    MaxVersion   \* bound: edits of the sources

ASSUME TestsAssumption ==
    /\ SRC_C \in Seq(STRING)
    /\ MaxJobs \in Nat \ {0} /\ MaxVersion \in Nat \ {0} /\ Linux \in BOOLEAN

UNAME_S == ""   \* set in the Makefile above, which exports it to no sub-make

(* A target is a pair: dir, or what is made of a program.                  *)
Dir == <<"dir", "">>
Targeting(kind) == [n \in DOMAIN SRC_C |-> <<kind, SRC_C[n]>>]
SRC_WASM == Targeting("wasm")
SRC_O == IF UNAME_S = "Linux" THEN Targeting("o") ELSE <<>>

(* The prerequisites of all, in the order make reaches them.               *)
All == <<Dir>> \o SRC_WASM \o SRC_O
Targets == ToSet(All)
Programs == ToSet(SRC_C)

VARIABLES
    src,    \* the version of the programs
    dirs,   \* wasm/ and elf/ exist
    wasm,   \* program |-> version of wasm/x.wasm, 0 if absent
    wat,    \* program |-> version of wasm/x.wat
    elf,    \* the programs in elf/
    make,   \* "off", "running", "done", "failed"
    jobs,   \* -j
    state,  \* target |-> "idle", "compile", "wat", "mkdir", "done", "failed"
    broke,  \* a tool failed on its own account in this run (history)
    found   \* the directories were there when this run began (history)

vars == <<src, dirs, wasm, wat, elf, make, jobs, state, broke, found>>

Init ==
    /\ src = 1 /\ dirs = FALSE
    /\ wasm = [x \in Programs |-> 0] /\ wat = [x \in Programs |-> 0]
    /\ elf = {}
    /\ make = "off" /\ jobs = 1
    /\ state = [t \in Targets |-> "idle"]
    /\ broke = FALSE /\ found = FALSE

Active == {t \in Targets : state[t] \in {"compile", "wat", "mkdir"}}

Edit ==
    /\ make # "running" /\ src < MaxVersion
    /\ src' = src + 1 /\ make' = "off"
    /\ UNCHANGED <<jobs, dirs, wasm, wat, elf, state, broke, found>>

Invoke ==
    /\ make # "running" /\ make' = "running"
    /\ jobs' \in 1 .. MaxJobs
    /\ state' = [t \in Targets |-> "idle"]
    /\ broke' = FALSE /\ found' = dirs
    /\ UNCHANGED <<src, dirs, wasm, wat, elf>>

StartUnbounded(n) ==            \* mutant: -j without its number
    /\ make = "running"
    /\ state[All[n]] = "idle" /\ \A k \in 1 .. n - 1 : state[All[k]] # "idle"
    /\ \A t \in Targets : state[t] # "failed"
    /\ state' = [state EXCEPT ![All[n]] = IF All[n] = Dir THEN "mkdir" ELSE "compile"]
    /\ UNCHANGED <<jobs, src, dirs, wasm, wat, elf, make, broke, found>>

StartRemoving(n) ==             \* mutant: dir empties the directories first
    /\ make = "running"
    /\ Cardinality(Active) < jobs
    /\ state[All[n]] = "idle" /\ \A k \in 1 .. n - 1 : state[All[k]] # "idle"
    /\ \A t \in Targets : state[t] # "failed"
    /\ state' = [state EXCEPT ![All[n]] = IF All[n] = Dir THEN "mkdir" ELSE "compile"]
    /\ dirs' = (dirs /\ All[n] # Dir)
    /\ UNCHANGED <<jobs, src, wasm, wat, elf, make, broke, found>>

(* Recipes start in order, without waiting for each other.                 *)
Start(n) ==
    /\ make = "running"
    /\ Cardinality(Active) < jobs
    /\ state[All[n]] = "idle" /\ \A k \in 1 .. n - 1 : state[All[k]] # "idle"
    /\ \A t \in Targets : state[t] # "failed"
    /\ state' = [state EXCEPT ![All[n]] = IF All[n] = Dir THEN "mkdir" ELSE "compile"]
    /\ UNCHANGED <<jobs, src, dirs, wasm, wat, elf, make, broke, found>>

Mkdir ==
    /\ state[Dir] = "mkdir"
    /\ dirs' = TRUE
    /\ state' = [state EXCEPT ![Dir] = "done"]
    /\ UNCHANGED <<jobs, src, wasm, wat, elf, make, broke, found>>

Compile(t) ==
    /\ state[t] = "compile" /\ dirs
    /\ wasm' = IF t[1] = "wasm" THEN [wasm EXCEPT ![t[2]] = src] ELSE wasm
    /\ elf' = IF t[1] = "o" THEN elf \cup {t[2]} ELSE elf
    /\ state' = [state EXCEPT ![t] = IF t[1] = "wasm" THEN "wat" ELSE "done"]
    /\ UNCHANGED <<jobs, src, dirs, wat, make, broke, found>>

CompileFailureGoesOn(t) ==      \* mutant: .ONESHELL, as in the Makefile above
    /\ state[t] = "compile"
    /\ broke' = (broke \/ dirs)
    /\ state' = [state EXCEPT ![t] = IF wasm[t[2]] = 0 THEN "failed" ELSE "wat"]
    /\ UNCHANGED <<jobs, src, dirs, wasm, wat, elf, make, found>>

(* clang cannot write into a directory that is not there.                  *)
CompileFails(t) ==
    /\ state[t] = "compile"
    /\ broke' = (broke \/ dirs)
    /\ state' = [state EXCEPT ![t] = "failed"]
    /\ UNCHANGED <<jobs, src, dirs, wasm, wat, elf, make, found>>

Wat(t) ==
    /\ state[t] = "wat"
    /\ wat' = [wat EXCEPT ![t[2]] = wasm[t[2]]]
    /\ state' = [state EXCEPT ![t] = "done"]
    /\ UNCHANGED <<jobs, src, dirs, wasm, elf, make, broke, found>>

WatFails(t) ==
    /\ state[t] = "wat"
    /\ broke' = TRUE
    /\ state' = [state EXCEPT ![t] = "failed"]
    /\ UNCHANGED <<jobs, src, dirs, wasm, wat, elf, make, found>>

Exits ==
    /\ make = "running" /\ Active = {}
    /\ \/ (\A t \in Targets : state[t] = "done") /\ make' = "done"
       \/ (\E t \in Targets : state[t] = "failed") /\ make' = "failed"
    /\ UNCHANGED <<jobs, src, dirs, wasm, wat, elf, state, broke, found>>

Clean ==
    /\ make # "running"
    /\ dirs' = FALSE /\ elf' = {}
    /\ wasm' = [x \in Programs |-> 0] /\ wat' = [x \in Programs |-> 0]
    /\ make' = "off"
    /\ UNCHANGED <<jobs, src, state, broke, found>>

Next ==
    \/ Edit \/ Invoke \/ Mkdir \/ Exits \/ Clean
    \/ \E n \in DOMAIN All : Start(n)
    \/ \E t \in Targets : Compile(t) \/ CompileFails(t) \/ Wat(t) \/ WatFails(t)

Spec == Init /\ [][Next]_vars

-----------------------------------------------------------------------------
(* The type invariant.                                                     *)
TypeOK ==
    /\ src \in 1 .. MaxVersion /\ dirs \in BOOLEAN
    /\ wasm \in [Programs -> 0 .. MaxVersion] /\ wat \in [Programs -> 0 .. MaxVersion]
    /\ elf \subseteq Programs
    /\ make \in {"off", "running", "done", "failed"} /\ jobs \in 1 .. MaxJobs
    /\ state \in [Targets -> {"idle", "compile", "wat", "mkdir", "done", "failed"}]
    /\ broke \in BOOLEAN /\ found \in BOOLEAN
    /\ Cardinality(Active) <= jobs

(* A make that succeeds built every program and its text from the sources  *)
(* it was given, whatever earlier runs left behind.                        *)
SuccessMeansAllBuilt ==
    make = "done" => \A x \in Programs : wasm[x] = src /\ wat[x] = src

(* Only a first build, and only with -j, can fail when no tool does: the   *)
(* compilers then race mkdir.  The same command works after such a         *)
(* failure: dir is always started, and make waits for it.                  *)
OnlyFirstParallelBuildRaces ==
    make = "failed" /\ ~broke => ~found /\ jobs > 1 /\ dirs

(* "Generate ELF files only on linux platforms" (tests/Makefile:12).       *)
ElfOnLinux == make = "done" /\ Linux => elf = Programs
=============================================================================
