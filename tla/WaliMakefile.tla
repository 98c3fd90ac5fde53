---------------------------- MODULE WaliMakefile ----------------------------
(***************************************************************************)
(* Makefile: the build of compiler, libraries, runtime and tests, run by   *)
(* GNU make with up to jobs recipes at a time.  All targets are phony, so  *)
(* each runs once per invocation.  .ONESHELL gives a recipe to one shell   *)
(* without -e: every line runs, and the last one alone decides.            *)
(*                                                                         *)
(* A product on disk is the source version it was built from, 0 if absent. *)
(***************************************************************************)
EXTENDS Integers, FiniteSets, Sequences, SequencesExt

CONSTANTS
    MaxJobs,     \* bound: -j
    Goals,       \* the goals make is asked for, one per invocation
    RtVersions,  \* the source versions misc/libclang_rt has a library for
    MaxVersion   \* bound: updates of the sources

ASSUME MakeAssumption ==
    MaxJobs \in Nat \ {0} /\ MaxVersion \in Nat \ {0} /\ RtVersions \subseteq Nat \ {0}

(* In the order make reaches them.                                         *)
Order ==
    <<"build_dir", "musl_config", "libc", "iwasm_build_dir", "iwasm", "llvm-base",
      "wali-compiler", "libcxx", "tests", "wamrc_build_dir", "wamrc", "rustc", "all",
      "clean-runtime", "clean-libs", "clean", "clean-llvm", "clean-all">>
Targets == ToSet(Order)

(* Normal and order-only prerequisites: of phony targets they mean the same. *)
LibcAfterCompiler ==            \* mutant: the order all would need
    {"build_dir", "musl_config", "wali-compiler"}
LibcPrereqs == {"build_dir", "musl_config"}
TestsAlone == {}                \* mutant: tests without its libc
TestsPrereqs == {"libc"}
CleanAllPrereqs == {"clean", "clean-llvm"}

Prereqs(t) ==
    CASE t = "libc" -> LibcPrereqs
      [] t = "libcxx" -> {"libc"}
      [] t = "tests" -> TestsPrereqs
      [] t = "iwasm" -> {"iwasm_build_dir"}
      [] t = "wamrc" -> {"wamrc_build_dir"}
      [] t = "llvm-base" -> {"build_dir"}
      [] t = "wali-compiler" -> {"llvm-base"}
      [] t = "all" -> {"libc", "iwasm", "wali-compiler", "libcxx", "tests"}
      [] t = "clean" -> {"clean-runtime", "clean-libs"}
      [] t = "clean-all" -> CleanAllPrereqs
      [] OTHER -> {}

(* What make has to do for a goal: prerequisite chains are four long.      *)
Needed(g) ==
    LET Close(ts) == ts \cup UNION {Prereqs(t) : t \in ts}
    IN  Close(Close(Close(Close({g}))))

CrtFirst ==                     \* mutant: the crt files are copied before the install
    <<"mkdir", "cp crt", "make musl">>
LibcRecipe == <<"make musl", "mkdir", "cp crt">>

Recipe(t) ==
    CASE t \in {"build_dir", "iwasm_build_dir", "wamrc_build_dir"} -> <<"mkdir">>
      [] t = "musl_config" -> <<"config">>
      [] t = "libc" -> LibcRecipe
      [] t = "libcxx" -> <<"cmake libcxx", "make libcxx">>
      [] t = "iwasm" -> <<"cmake iwasm", "ninja iwasm", "ln">>
      [] t = "wamrc" -> <<"build wamrc llvm", "cmake wamrc", "ninja wamrc", "ln">>
      [] t = "llvm-base" -> <<"cmake llvm", "ninja llvm">>
      [] t = "wali-compiler" -> <<"mkdir", "cp rt">>
      [] t = "rustc" -> <<"x setup", "rustc_config", "x build", "toolchain link">>
      [] t = "tests" -> <<"make tests">>
      [] t \in {"clean-runtime", "clean-llvm", "clean"} -> <<t>>
      [] t = "clean-libs" -> <<"clean musl", "rm sysroot", "rm libcxx">>
      [] OTHER -> <<>>

Products == {"config", "lib", "crt", "crtTarget", "libcxxConf", "libcxx", "iwasmConf",
             "iwasm", "wamrcLlvm", "wamrcConf", "wamrc", "llvmConf", "clang", "rt", "tests",
             "rustConf", "rustStage1"}

(* What a command must find.                                               *)
Reads(c) ==
    CASE c = "make musl" -> {"config", "clang"}
      [] c = "cp crt" -> {"crt"}
      [] c = "cmake libcxx" -> {"clang", "crt", "lib"}
      [] c = "make libcxx" -> {"libcxxConf", "clang", "crt", "lib"}
      [] c = "ninja iwasm" -> {"iwasmConf"}
      [] c = "cmake wamrc" -> {"wamrcLlvm"}
      [] c = "ninja wamrc" -> {"wamrcConf"}
      [] c = "ninja llvm" -> {"llvmConf"}
      [] c = "x build" -> {"rustConf", "clang", "crt", "lib"}
      [] c = "toolchain link" -> {"rustStage1"}
      [] c = "make tests" -> {"clang", "rt", "crt", "lib"}
      [] OTHER -> {}

(* What it produces.                                                       *)
Writes(c) ==
    CASE c = "config" -> {"config"}
      [] c = "make musl" -> {"lib", "crt"}
      [] c = "cp crt" -> {"crtTarget"}
      [] c = "cmake libcxx" -> {"libcxxConf"}
      [] c = "make libcxx" -> {"libcxx"}
      [] c = "cmake iwasm" -> {"iwasmConf"}
      [] c = "ninja iwasm" -> {"iwasm"}
      [] c = "build wamrc llvm" -> {"wamrcLlvm"}
      [] c = "cmake wamrc" -> {"wamrcConf"}
      [] c = "ninja wamrc" -> {"wamrc"}
      [] c = "cmake llvm" -> {"llvmConf"}
      [] c = "ninja llvm" -> {"clang"}
      [] c = "cp rt" -> {"rt"}
      [] c = "rustc_config" -> {"rustConf"}
      [] c = "x build" -> {"rustStage1"}
      [] c = "make tests" -> {"tests"}
      [] OTHER -> {}

(* What it removes; "clean musl" only touches the sources' directory.      *)
Removes(c) ==
    CASE c = "clean-runtime" -> {"iwasmConf", "iwasm", "wamrcConf", "wamrc"}
      [] c = "clean-llvm" -> {"llvmConf", "clang", "rt"}
      [] c = "rm sysroot" -> {"lib", "crt", "crtTarget"}
      [] c = "rm libcxx" -> {"libcxxConf", "libcxx"}
      [] c = "clean" -> {"tests"}
      [] OTHER -> {}

-----------------------------------------------------------------------------
VARIABLES
    src,      \* the version checked out
    disk,     \* product |-> version
    make,     \* "off", "running", "done", "failed"
    goal, jobs, \* what it was asked for, and -j
    state,    \* target |-> "idle", "running", "done", "failed"
    line,     \* target |-> the command its recipe is at
    version,  \* target |-> what $(WALI_LLVM_MAJOR_VERSION) expanded to
    before    \* the products when make was invoked (history)

vars == <<src, disk, make, goal, jobs, state, line, version, before>>

Running == {t \in Targets : state[t] = "running"}

Init ==
    /\ src = 1
    /\ disk = [p \in Products |-> 0]
    /\ make = "off" /\ goal \in Goals /\ jobs = 1
    /\ state = [t \in Targets |-> "idle"]
    /\ line = [t \in Targets |-> 1]
    /\ version = [t \in Targets |-> 0]
    /\ before = disk

(* The submodules move on between two invocations.                         *)
Update ==
    /\ make # "running" /\ src < MaxVersion
    /\ src' = src + 1
    /\ make' = "off"
    /\ UNCHANGED <<disk, goal, jobs, state, line, version, before>>

Invoke ==
    /\ make # "running"
    /\ goal' \in Goals /\ jobs' \in 1 .. MaxJobs
    /\ make' = "running"
    /\ before' = disk
    /\ UNCHANGED <<src, disk, state, line, version>>

Ready(t) ==
    /\ t \in Needed(goal) /\ state[t] = "idle"
    /\ \A p \in Prereqs(t) : state[p] = "done"

StartExpandingEarly(t) ==       \* mutant: := in wali.mk, expanded when make starts
    /\ make = "running"
    /\ \A u \in Targets : state[u] # "failed"
    /\ Cardinality(Running) < jobs
    /\ Ready(t)
    /\ \A n \in DOMAIN Order : Ready(Order[n]) => \E k \in 1 .. n : Order[k] = t
    /\ state' = [state EXCEPT ![t] = IF Recipe(t) = <<>> THEN "done" ELSE "running"]
    /\ version' = [version EXCEPT ![t] = before["clang"]]
    /\ UNCHANGED <<src, disk, make, goal, jobs, line, before>>

StartUnbounded(t) ==            \* mutant: -j without its number
    /\ make = "running"
    /\ \A u \in Targets : state[u] # "failed"
    /\ Ready(t)
    /\ \A n \in DOMAIN Order : Ready(Order[n]) => \E k \in 1 .. n : Order[k] = t
    /\ state' = [state EXCEPT ![t] = IF Recipe(t) = <<>> THEN "done" ELSE "running"]
    /\ version' = [version EXCEPT ![t] = disk["clang"]]
    /\ UNCHANGED <<src, disk, make, goal, jobs, line, before>>

(* make starts the first recipe that is ready, unless one has failed; it   *)
(* expands the recipe, and with it the shell call of wali.mk:93, then.     *)
Start(t) ==
    /\ make = "running"
    /\ \A u \in Targets : state[u] # "failed"
    /\ Cardinality(Running) < jobs
    /\ Ready(t)
    /\ \A n \in DOMAIN Order : Ready(Order[n]) => \E k \in 1 .. n : Order[k] = t
    /\ state' = [state EXCEPT ![t] = IF Recipe(t) = <<>> THEN "done" ELSE "running"]
    /\ version' = [version EXCEPT ![t] = disk["clang"]]
    /\ UNCHANGED <<src, disk, make, goal, jobs, line, before>>

Now(t) == Recipe(t)[line[t]]

AdvanceIgnoring(t, ok) ==       \* mutant: a status that is dropped
    IF line[t] < Len(Recipe(t))
    THEN line' = [line EXCEPT ![t] = @ + 1] /\ UNCHANGED state
    ELSE /\ state' = [state EXCEPT ![t] = "done"]
         /\ UNCHANGED line

(* The shell goes on to the next line; the status of the last is the       *)
(* recipe's.                                                               *)
Advance(t, ok) ==
    IF line[t] < Len(Recipe(t))
    THEN line' = [line EXCEPT ![t] = @ + 1] /\ UNCHANGED state
    ELSE /\ state' = [state EXCEPT ![t] = IF ok THEN "done" ELSE "failed"]
         /\ UNCHANGED line

Built(t, p) ==
    CASE p = "crtTarget" -> disk["crt"]
      [] p = "rt" -> version[t]
      [] OTHER -> src

CanSucceed(t) ==
    /\ \A p \in Reads(Now(t)) : disk[p] # 0
    /\ Now(t) = "cp rt" => version[t] \in RtVersions

Succeeds(t) ==
    /\ state[t] = "running"
    /\ CanSucceed(t)
    /\ disk' = [p \in Products |->
                  IF p \in Writes(Now(t)) THEN Built(t, p)
                  ELSE IF p \in Removes(Now(t)) THEN 0 ELSE disk[p]]
    /\ Advance(t, TRUE)
    /\ UNCHANGED <<src, make, goal, jobs, version, before>>

(* Any command may fail, a failed install having installed some files.     *)
Fails(t) ==
    /\ state[t] = "running"
    /\ \E some \in (SUBSET Writes(Now(t)) \ {Writes(Now(t))}) \cup {{}} :
          disk' = [p \in Products |->
                     IF CanSucceed(t) /\ p \in some THEN Built(t, p) ELSE disk[p]]
    /\ Advance(t, FALSE)
    /\ UNCHANGED <<src, make, goal, jobs, version, before>>

Exits ==
    /\ make = "running" /\ Running = {}
    /\ \/ state[goal] = "done" /\ make' = "done"
       \/ (\E t \in Targets : state[t] = "failed") /\ make' = "failed"
    /\ state' = [t \in Targets |-> "idle"]
    /\ line' = [t \in Targets |-> 1]
    /\ version' = [t \in Targets |-> 0]
    /\ UNCHANGED <<src, disk, goal, jobs, before>>

Next ==
    \/ Update \/ Invoke \/ Exits
    \/ \E t \in Targets : Start(t) \/ Succeeds(t) \/ Fails(t)

Spec == Init /\ [][Next]_vars

-----------------------------------------------------------------------------
(* The type invariant.                                                     *)
TypeOK ==
    /\ src \in 1 .. MaxVersion
    /\ disk \in [Products -> 0 .. MaxVersion]
    /\ make \in {"off", "running", "done", "failed"} /\ goal \in Goals /\ jobs \in 1 .. MaxJobs
    /\ state \in [Targets -> {"idle", "running", "done", "failed"}]
    /\ DOMAIN line = Targets
    /\ \A t \in Targets : line[t] \in 1 .. Len(Recipe(t)) + 1
    /\ version \in [Targets -> 0 .. MaxVersion]
    /\ before \in [Products -> 0 .. MaxVersion]
    /\ Cardinality(Running) <= jobs

(* Whatever earlier failures a recipe went on after, a make that succeeds  *)
(* on these goals built the sources it was given: their last command is    *)
(* the one that builds.  libc, iwasm and wamrc end in cp or ln instead.    *)
SuccessMeansCurrent ==
    make = "done" =>
        /\ goal = "llvm-base" => disk["clang"] = src
        /\ goal = "libcxx" => disk["libcxx"] = src
        /\ goal = "tests" => disk["tests"] = src

(* wali-compiler puts the builtins library where the clang it has just     *)
(* built looks for it: the version is asked for after llvm-base.           *)
RuntimeLibMatchesClang ==
    make = "done" /\ goal = "wali-compiler" => disk["rt"] = disk["clang"] /\ disk["clang"] = src

(* Under -j no recipe reads the sysroot or musl's configuration while      *)
(* another writes it.                                                      *)
SysrootReadersWait ==
    \A t, u \in Running : t # u =>
        Writes(Now(t)) \cap Reads(Now(u)) \cap {"config", "lib", "crt", "crtTarget"} = {}

(* make all, run serially, asks for libc before the compiler libc is       *)
(* compiled with (Makefile:33): it succeeds only where there is one, or    *)
(* where crt files are left that cp takes while musl's install fails.      *)
AllNeedsOldClang ==
    make = "done" /\ goal = "all" /\ jobs = 1 => before["clang"] # 0 \/ before["crt"] # 0

(* A goal whose last line would also take an old product can be trusted    *)
(* where there was none.  Without crt files a libc that succeeds has       *)
(* installed the current ones, though the status of musl's install is not  *)
(* looked at.  Without a linked stage1, rustc, which asks for nothing      *)
(* (Makefile:160), succeeds only where compiler and sysroot were built     *)
(* before, and has built the current sources, whichever line failed.       *)
FreshSuccessMeansCurrent ==
    make = "done" =>
        /\ goal = "libc" /\ before["crt"] = 0 => disk["crtTarget"] = src
        /\ goal = "rustc" /\ before["rustStage1"] = 0 =>
              disk["rustStage1"] = src /\ \A p \in {"clang", "crt", "lib"} : before[p] # 0
=============================================================================
