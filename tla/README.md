# A verification development for WALI-lib

WALI lets programs compiled to WebAssembly call Linux system calls. This
repository holds what surrounds the runtime: the generator of the syscall
interface, the build of compiler, C library, runtime and Rust port, the
configuration of a Rust source tree, a zlib header over host handles, and test
programs. The runtime, the C library and LLVM are submodules whose contents are
not here. Most of the programs are short. What is hard about them is what
happens *between* their steps: a run that raises, is killed or is repeated half
way, two runs side by side, recipes under `make -j`, a status that is dropped,
and, in the guest programs, the schedule of processes, threads and signals.

## 1. Inventory

| component | source | state it keeps | operations |
|---|---|---|---|
| syscall interface generator | `scripts/autogen.py`, `scripts/update_docs.sh`, type templates | the CSV, the generated `*.out`, `wali.wit`, `support.md`, the copies in `docs/` | read the CSV, five stub classes, compute/truncate/write per file, copy |
| Rust build configuration | `scripts/rustc_config.py` | `config.toml`, `Cargo.toml`, bootstrap `Cargo.toml` of a tree, and `~/.cargo/config.toml` | four load/update/truncate/dump passes |
| toolchain build | `Makefile` | everything under `build/`, `config.mak` of musl, the Rust port | eighteen targets under `.ONESHELL` |
| test-program build | `tests/Makefile` | `tests/wasm`, `tests/elf` | `dir`, one target per program, `clean` |
| gzip test suite | `tests/zlib_test/test_gzip.c` | the host's gzFile table, heap buffers, one file, two counters | nine tests, `main` |
| toolchain generator | `toolchains/gen_toolchains.py`, `wali.toml` | `wali.mk`, `wali.sh`, `wali.cmake` | check the configuration, compute three texts, write three files, chmod |
| runtime registration | `misc/gen_iwasm_wrapper.sh`, `misc/binfmt_register.sh` | wrapper, `.walienv`, `iwali.conf`, `/etc/binfmt.d`, the kernel's binfmt table | generate, register for now or (`-p`) for good |
| guest test programs | `tests/*.c` | files, pipes, locks, signals | fork, threads, locks, alarms, suspensions |
| the rest | statistics scripts, wrappers, images, data | none between runs | |

How they interact:

- `Makefile` includes the generated `wali.mk`, runs `make -C tests`, and runs
  `rustc_config.py` as one line of the recipe of `rustc`.
- The outputs of `autogen.py` are pasted into two submodules and a Rust crate:
  guest (`defs`, `case`), Rust (`rust/defs`, `rust/match`) and host (`declr`,
  `impl`, `symbols`) must describe the same imports.
- `gen_iwasm_wrapper.sh` and `binfmt_register.sh` source the generated `wali.sh`,
  which brings `set -euo pipefail` and the root directory with it: what these two
  scripts do after an error depends on a file another program rewrites. The
  second reads `iwali.conf`, which the first writes.
- `update_docs.sh` runs `autogen.py` and copies two of its files to `docs/`.
- Every Rust tree's configuration writes the same `~/.cargo/config.toml`.
- The gzip suite reaches the host through imports whose `gzFile` is a number
  (`wali_shims/zlib.h:130`).

What is hard, and what makes each component correct:

- *Generator.* Files are replaced one by one; rows may be malformed; a lookup
  loop may never end. Correct: a whole file renders one table exactly; a kill
  tears one file and an exception none; what a finished run leaves is complete;
  guest, Rust and host stubs of one table link.
- *Rust configuration.* Truncate-then-dump, repetition, a shared file. Correct:
  the user's settings survive; a finished run has configured all four files.
- *Builds.* Dropped statuses, missing or order-only edges, `-j`, stale products.
  Correct: what a successful goal may be taken to mean, and which readers never
  overlap their writer.
- *Toolchain generator.* Three files that are right only together; a configuration
  edited or refused. Correct: they agree unless the last writer was stopped.
- *Registration.* Two scripts and the generator side by side, reboots, repeated
  and half-done registrations. Correct: what an entry of the kernel's table runs
  can run; what status 0 and `-p` promise holds.
- *Guest programs.* Scheduling. Correct: what they print and leave behind is what
  their calls guarantee, and they end.
- *Gzip suite.* Failure paths with handles and buffers in hand, unchecked calls.
  Correct: nothing leaks; a pass means what it says.

`PROJECT.json` lists the hazards at their lines, each with the properties that
would catch it, or with the reason why none does.

## 2. Modules and the code

| module | models | EXTENDS |
|---|---|---|
| `Stubs` | the pure part of `autogen.py`: rows, types, the content of every file | |
| `Autogen` | a run of it over the working tree, `update_docs.sh` around it | `Stubs` |
| `RustcConfig` | any number of invocations of `rustc_config.py` | |
| `WaliMakefile` | `Makefile` as executed by GNU make | |
| `TestsMakefile` | `tests/Makefile` | |
| `GzipSuite` | `test_gzip.c` and the host's handle table | |
| `Publication` | what a generator of files promises: abstract, implemented by the next two | |
| `Toolchains` | `gen_toolchains.py` over its configuration and three files | |
| `Registration` | the two scripts in `misc/`, composed with `Toolchains` | (`INSTANCE Toolchains`) |
| `PipeGuest`, `ThreadGuest`, `FlockGuest`, `SignalGuests` | `pipe.c`; `safe_thread.c`; `flock.c`; `sigprocmask.c`, `alarm_signal.c` and `sigsuspend.c` | |
| `Guests` | one run of one of these programs, with the fairness | the four above |
| `AutogenProofs`, `RustcConfigProofs`, `WaliMakefileProofs`, `TestsMakefileProofs`, `GzipSuiteProofs`, `ToolchainsProofs`, `RegistrationProofs`, `GuestsProofs` | theorems about the module named | that module |
| `MC*` | instances for TLC: small tables, goals and files | the module named |

**Stubs, Autogen.** A table is a sequence of rows with number, name, argument
count, argument cells, alias, and the architectures without it. The type
templates are the functions `Basic` and `Complex`; a file's text is the *set* of
entries its generator emits, without layout. `GetScargs`, `PtrAnonymize`,
`RustifyArgs` and `GenNativeArgs` are the functions of those names. `Resolve` is
a constant bound by an assumption to the outcome of `rs_simplify`: itself on a
primitive, the outcome of the next lookup elsewhere, `Diverges` on `UNDEF`. The
loop itself runs step by step in `Autogen` (`RustArg`, `RustLookup`,
`RustResolved`, `RustRow`, `RustDone`) because it may not end and a kill may
fall into it; `WholeFilesFaithful` relates the two. `Compute`, `Open` and
`WriteClose` are the three steps of `gen_and_write`; `Raise` is the exception of
`get_scargs`, thrown while no file is open. `Start` reads the CSV once, as
`parse_csv` does. `Leave` takes a run inside `update_docs.sh` to its two `cp`
whatever the exit status. `ArgsColumnIsText` is the effect of pandas' column
typing: without a blank cell the column is numeric and a 0 is false. `cp` is one
step.

**RustcConfig.** A dictionary maps `<<table, key>>` to a value; a sub-table like
`[target.<triple>]` is one value, as `dict.update` is shallow. `Load`, `Open`,
`Dump` are the steps of each pass; `LoadFails` and `OpenFails` its exceptions.
`Dump` over a file another run has dumped to since the truncation may leave a
mixture (`Garbled`). A kill during `Dump` leaves the file empty or `Garbled`; a
flushed prefix that happens to parse is not distinguished from the latter. The
variables `torn` and `overlapped` are history.

**WaliMakefile.** `Prereqs`, `Recipe`, `Reads`, `Writes` and `Removes` are the
tables of the Makefile; make's engine is one set of actions over them (`Start`,
`Succeeds`, `Fails`, `Exits`), external and modelled from what the Makefile
relies on: recipes start in order, at most `-j` at a time, none after a failure,
and make waits for those that run. `Advance` is `.ONESHELL` without `-e`: every
line runs and the last one's status is the recipe's. A product is the source
version it was built from, so stale means less than `src`. A failing command may
leave some of its products behind. `Start` expands the recipe, and with it the
shell call `gen_toolchains.py` puts into `wali.mk`.

**TestsMakefile.** The same engine for a Makefile *without* `.ONESHELL`, where a
failing line ends the recipe. The targets `x.wasm` never come to exist under
`tests/`, so every run builds all of them.

**GzipSuite.** A test is a sequence of calls; each names the variable it is on,
whether its result is checked, and what is released before `return 0` when the
check fails. Any call may fail. A read-back of *all* the data (`compare`)
succeeds only if none was lost. `early` is the order in which the build
evaluates `tests_passed += test()`, unspecified in C.

**Publication.** Five actions: the source changes, a run takes a snapshot of it,
truncates a file, completes the file it truncated from the snapshot, stops. No
word of what the files hold. `Autogen!Published` and `Toolchains!Published` are
its instances under refinement mappings: a file's state and source without its
body; `run` is the table or configuration while a run is in progress; `writing`
is the head of `todo` between `Open` and the write. A run that hangs in the Rust
loop, raises, or is refused takes no step that `Publication` sees but `Stop`.

**Toolchains.** A path is the sequence of its directories below the checkout and
a text is the record of what its reader takes from it: directories, flags,
triple. `Settings` follows `main`; `extra_cxxflags` is left out of it as the
code reads it and drops it. `Refuse` stands for every way a run ends before the
first write: no `wali.toml`, a triple without four parts, a missing key, a brace
in a flag. `Open` and `Write` are the two effects of `write_text`; the text fits
in one buffer, so a torn file is empty. `Abort` is a kill or an exception there.

**Registration.** Each script is one command per action. `Sourced` is whether
`wali.sh` was whole when the script sourced it; only then is the run `strict`,
that is, under `set -euo pipefail` and with a root directory. (The user's shell
is taken not to export `WALI_ROOT_DIR` itself.) Otherwise the run goes on after
errors. `GenChmod` depends on the directory the user started the script in
(`gen_iwasm_wrapper.sh:39`), the only command that does: in `misc/` it finds the
wrapper; in another directory with a file `iwasm-wrapper`, such as the `misc/` of
another checkout, it succeeds on that file; elsewhere it fails. The history
variable `strayed` records the second case until a run from `misc/` makes the
wrapper executable. The kernel takes an entry whose name is free; boot
and a restart of `systemd-binfmt` register what `/etc/binfmt.d` holds (external).
Another checkout takes free names at any time (`ForeignEcho`); its `-p` is
modelled only before the first step, as an initial `/etc/binfmt.d` and table. Both
checkouts install a file of the same name there, so a later `-p` of one replaces
what the other registered, and what the properties say of `-p` holds until then.
A reboot comes
between processes: one in the middle of a script is its abort and then a reboot.

**Guests.** The kernel's share is external and small: a pipe is a queue with the
sets of processes that hold its ends; the mutex is its lock word; `flock` is an
owner and a file written where `fclose` flushes; signals are a pending and a
blocked set, handlers, and the seconds left of alarm and sleep. `DeliverDeadly`
and `Handle` precede the next step of the program, as a system call returns only
after delivery. A message of `pipe.c` changes length where the counted byte
wraps; with `NUM_ITS` 15 it does not.

## 3. Runs

| run | instance | asks |
|---|---|---|
| `autogen` | four tables (as shipped; no blank cell; a missing cell; a by-value Array and 64 bits not spelled "long"), three requests, one edit, one kill; `FairSpec` | faithful, complete, torn at most once per kill; guest, Rust and host link; docs agree; `Publication` implemented; a run over a resolvable table ends |
| `rustc_config` | two trees and targets, one shared file, one kill | settings survive; done means configured |
| `make_toolchain` | compiler, libc, libcxx, tests, rustc; `-j1` and `-j2`; sources updated once | what success means although statuses are dropped |
| `make_all` | compiler, all, clean-all; `-j1` and `-j2` | `all` needs an earlier build; sysroot readers wait |
| `tests` | three programs, `-j1` and `-j2`, edits and cleans | success means all current; the mkdir race, and that it heals |
| `tests_elf` | the same | **violated**: no ELF file on Linux |
| `gzip_suite` | two handles, either evaluation order | leaks, meaning of a pass |
| `gzip_suite_count` | the same | **violated**: the count printed is not the number of tests passed |
| `toolchains` | two usable configurations, one of each kind that is refused, two edits, two kills | the three files agree; `Publication` implemented |
| `toolchains_cmake` | the same | **violated**: `wali.cmake` takes `toolchains/` for the root |
| `registration` | one configuration, two aborts, reboots, three kinds of directory, another checkout | entries can run; what status 0 and `-p` mean |
| `guests` | six programs, three processes for `flock.c`; `FairSpec` | echo, lost updates, who wrote last, alarms, suspensions; they end |

Why the bounds suffice. The generator's hazards need one kill and one edit: a
second kill repeats the first on another file, and a table is read once per run.
There are rows of every kind the shipped CSV has and of the kinds that break the
generator. Two invocations are what overlap needs, and two trees with one shared
file are what "private" needs. The versions 1 and 2 tell stale from current.
`-j2` is the smallest parallel make, and every pair of recipes that can run
together does so in some behaviour. Three programs outnumber two jobs. A test
holds one handle at a time, so two slots show both reuse and no reuse. Two
kills and two edits of the toolchain generator give the two torn files of two
configurations beside a third. In `registration` the generator is not killed: one that
stands still between truncating `wali.sh` and writing it, for as long as the
scripts run, leaves them the same file as one that was killed there; with one
configuration its edits would be invisible. Two aborts put one in each script.
The guest programs run with their own constants (`NUM_ITS`, alarms, rounds), but
for the loops of 10000 rounds in `safe_thread.c`, which are 6 long, the
100000000 of `alarm_signal.c`, which are 9, more than its two alarms can let
pass, and five signals by the user of `sigsuspend.c`, which waits for three.

Deadlock is checked everywhere but in `GzipSuite` and `Guests`, whose processes
exit.

**Fairness.** `autogen` assumes `WF_vars(Step)`, where `Step` is what the one
Python process (and then the script) does when the interpreter runs its next
statement. The user's starts, the maintainer's edits and kills are not fair. Over
an unresolvable table the loop is fair and runs for ever, so `ResolvableRunEnds`
is claimed only for tables in which all types resolve. `guests` assumes weak
fairness of each process and thread, of delivery, and of the clock: they are
scheduled by one kernel. Failing calls, kills and the user's signals are not
fair, and `sigsuspend.c`, which waits for its user for ever, is left out of
`ProgramsEnd`.

**Findings.**

- `test_gzip.c` counts a passing test twice, in `PASS()` (line 21) and through
  `tests_passed += test()` (lines 483-491), wherever the left side is read after
  the call: it then prints 18/9 and exits with 1. `gzip_suite` shows that an exit
  status of 0 means that all passed in either order; `gzip_suite_count` shows
  that the printed number is not the number of passing tests.
- `tests/Makefile:12-15` builds ELF programs when `UNAME_S` is Linux, but only
  the top `Makefile` sets that variable, and does not export it.
- `gen_toolchains.py:149` gives `wali.cmake` its own directory as root, under a
  comment that says it resolves the project root; `wali.mk` and `wali.sh` go one
  directory up.

Other things the models made visible, which the properties state as they are: a
serial `make all` from nothing fails, as `libc` comes before the compiler
(`AllNeedsOldClang`). It succeeds without a compiler only where crt files of an
earlier libc are left: the failed install of musl is then masked by the `cp` of
the stale files. A successful `iwasm` or `wamrc` says nothing of ninja. The first
`make -j` of the tests may lose a race with `mkdir`, and the second cannot. The
gzip tests other than the four that read everything back pass on a truncated
file. A registration killed between its two `echo`s is not repaired by
running it again: the first name is taken and a strict run ends there
(`SuccessMeansRegistered`). Where the user's directory has no `iwasm-wrapper` the
generation ends at `chmod`, between wrapper and configuration. In another
checkout's `misc/` it makes that checkout's wrapper executable, writes
`iwali.conf` and ends with status 0; what is registered from it names a wrapper
that nobody can execute, until the script is run once from its own `misc/`
(the exception in `EntriesAreRunnable`). A generator that is writing `wali.sh`
makes the scripts that source it at that moment lax. `iwali.conf` is read once by
`tail` and once by `cp`; truncated in between, an empty file is installed with
status 0. A truncated `wali.mk` is an empty include, with which `make clean`
removes `/wamr`. A C++ flag in `extra_cxxflags` reaches no compiler. The lock of
`flock.c` protects nothing that reaches the file: truncation precedes it and the
flush follows it; the last to close wins. The mutex of `safe_thread.c` may be
initialised inside the other thread's critical section, and only that loses
updates. Two overlapping configurations can lose the settings in
`~/.cargo/config.toml`, and only there.

## 4. Proofs

For every value of the constants that meets the named assumptions:

| theorem | says |
|---|---|
| `AutogenProofs!TypeCorrect` | `Spec => []TypeOK` |
| `AutogenProofs!FilesAreFaithful` | `Spec => []WholeFilesFaithful` |
| `AutogenProofs!OnlyResolvedTypesReachRust` | `Spec => []UnresolvedNeverReachesRust` |
| `AutogenProofs!GuestLinksToHost` | `Spec => []GuestImportsLink` |
| `AutogenProofs!RustLinksToHost` | `Spec => []RustImportsLink` |
| `AutogenProofs!KillsTearOneFile` | `Spec => []OneTornFilePerKill` |
| `AutogenProofs!FinishedRunsAreComplete` | `Spec => []FinishedRunIsComplete` |
| `AutogenProofs!DocumentsAgree` | `Spec => []UpdatedDocsAgree` |
| `AutogenProofs!Refinement` | `Spec => PublishesFiles`, i.e. `Autogen` implements `Publication` |
| `ToolchainsProofs!TypeCorrect` | `Spec => []TypeOK` |
| `ToolchainsProofs!FilesAgree` | `Spec => []ToolchainsAgree` |
| `ToolchainsProofs!Refinement` | `Spec => PublishesFiles`, i.e. `Toolchains` implements `Publication` |
| `RustcConfigProofs!TypeCorrect` | `Spec => []TypeOK` |
| `RustcConfigProofs!SerialRunsKeepUserSettings` | `Spec => []UserSettingsSurvive` |
| `RustcConfigProofs!PrivateTreesSurvive` | `Spec => []PrivateSettingsSurvive` |
| `RustcConfigProofs!FinishedRunsStayConfigured` | `Spec => []DoneMeansConfigured` |
| `RustcConfigProofs!UpdateIdempotent`, `UpdatesCommute`, `DifferentTreesAgree` | laws of the dictionary update, and when runs dispute no slot |
| `WaliMakefileProofs!TypeCorrect` | `Spec => []TypeOK` |
| `WaliMakefileProofs!SuccessIsCurrent` | `Spec => []SuccessMeansCurrent` |
| `WaliMakefileProofs!RuntimeLibFits` | `Spec => []RuntimeLibMatchesClang` |
| `WaliMakefileProofs!RecipesKeepApart` | `Spec => []SysrootReadersWait` |
| `WaliMakefileProofs!AllNeedsEarlierBuild` | `Spec => []AllNeedsOldClang` |
| `WaliMakefileProofs!FreshSuccessIsCurrent` | `Spec => []FreshSuccessMeansCurrent` |
| `TestsMakefileProofs!TypeCorrect` | `Spec => []TypeOK` |
| `TestsMakefileProofs!SuccessIsComplete` | `Spec => []SuccessMeansAllBuilt` |
| `TestsMakefileProofs!RaceIsFirstParallelBuild` | `Spec => []OnlyFirstParallelBuildRaces` |
| `GzipSuiteProofs!TypeCorrect` | `Spec => []TypeOK` |
| `GzipSuiteProofs!TestsReleaseAll` | `Spec => []NothingLeaks` |
| `GzipSuiteProofs!ReadersSeeAll` | `Spec => []PassedMeansWhole` |
| `GzipSuiteProofs!ZeroMeansAll` | `Spec => []ExitZeroMeansAllPassed` |
| `RegistrationProofs!TypeCorrect` | `Spec => []TypeOK` |
| `RegistrationProofs!RegisteredWrapperRuns` | `Spec => []EntriesAreRunnable` |
| `RegistrationProofs!SuccessRegisters` | `Spec => []SuccessMeansRegistered` |
| `RegistrationProofs!PermanentStays` | `Spec => []PermanentIsPermanent` |
| `GuestsProofs!TypeCorrect` | `Spec => []TypeOK` |
| `GuestsProofs!PipeEchoes` | `Spec => []EchoesWhatWasSent` |
| `GuestsProofs!OnlyLateInitRisks` | `Spec => []LateInitOnlyRisk` |
| `GuestsProofs!LastCloseDecides` | `Spec => []LastCloserWins` |
| `GuestsProofs!AlarmsKill` | `Spec => []AlarmsKillOnTime` |
| `GuestsProofs!OnlyHangupsCount` | `Spec => []HangupsWake` |

*Generator.* The assumptions are `ResolveAssumption` (the equation of the lookup
loop, and that type names, pointers and primitives do not collide),
`ArgumentsAssumption` and `RunAssumption`. `WholeFilesFaithful` is not inductive:
the text of `rust/defs.out` is built row by row by the loop. `IInv` adds
`RustProgress` (the buffer holds exactly the entries of the rows passed, the
types collected are those of the arguments passed, and the type being looked up
resolves to what its argument resolves to), `TextComplete` (before a file is
opened the buffer is its content) and `MatchAfterDefs` (`rust/match.out` follows
`rust/defs.out`, so a table that hangs the one never reaches the other). The two
linking theorems follow from `TypeOK /\ WholeFilesFaithful` alone, by the
definitions of the contents: functions are unique, and the width the host reads
off a type's spelling is the width clang and Rust give it, which is what
`Linkable` demands of the table.

`OneTornFilePerKill` needs that the file being written is torn, so that
completing it pays for truncating it (`TornInv`); the set of torn files is shown
finite on the way, so nothing is asked of the number of architectures.
`FinishedRunIsComplete` needs what a run still owes: a file it was asked for is
done, in `todo`, or of a stub class still to come (`RunInv`); a class named twice
makes a done file undone, but it is then in `todo` again. `UpdatedDocsAgree`
adds what the script has copied so far (`DocsInv`); its equation of two numbers
is a bijection from the supported rows to the functions of the interface, and
one to the names of the page. That needs names without duplicates as well as
functions: two rows of one name and two aliases are two functions and one name.
No table of the instance has such rows; the attempt at the proof showed that the
property has to say it. The refinement needs
only `TypeOK`: that the snapshot of a run is a table and `todo` is not empty
where its head is written.

*Toolchain generator.* `ToolchainsAgree` speaks of idle states; `Progress` adds
that what is still to be written is an end of the list of three, and that the
files before it are whole and made from the configuration the run read, which
was usable. The only assumption is `TomlsAssumption`, the shape of a
configuration. `FilesAgree` holds for any number of edits and kills, where the
run has two.

*Rust configuration.* `UserSettingsSurvive` is strengthened to `KeptInv` over a
set of files no two running invocations are at: the dictionary a run holds carries
the user's slots of the file it is about to write, and every file it is not
writing keeps them. While no runs overlap that set is every file (`SerialInv`);
runs side by side leave the files only one invocation configures, which is
`PrivateSettingsSurvive`. `DoneMeansConfigured` needs the passes a run has behind
it (`OnDisk`) and the memory of whoever has one of their files open (`InMemory`).
It speaks of the slots that are *undisputed*: two invocations for one tree may
give a slot different values, and the last one has it. `DifferentTreesAgree` says
that invocations for different trees and targets dispute none. The theorems also
cover a `~/.cargo/config.toml` that does not exist before the first run, which
the instance for TLC does not have.

*Toolchain build.* `Shape` is the type invariant with what targets say of each
other: between invocations all are idle, within one only needed targets have
started, after their prerequisites, and a running recipe is at one of its lines.
With a table of who makes which product (`Maker`, `Owner`) and the fact that no
goal needs a clean target and another, or `rustc` and another (`GoalsApart`),
that is all `SysrootReadersWait` takes. `Current` adds that a finished target's
product is of this invocation's sources, for the four targets whose last line
builds it, and that `wali-compiler` was expanded after `llvm-base`. The recipes
that end in `cp` or `link` need where the products may have come from instead:
`Installed` (crt files are the old ones or the current ones), `Serial` (make asks
for `libc` before anything touches the compiler, an argument about the order of
targets and `-j1`) and `Alone` (nothing changes what `rustc` reads).

*Test programs.* `SuccessMeansAllBuilt` needs what each stage of a recipe has
made so far (`Recipes`); the race needs that the directories' target
starts first and that a make which found the directories keeps them (`Race`). The
assumption is that the sources are a sequence of names.

*Gzip suite.* At each call the invariant says which handles are open and which
buffers allocated: those the code would release if the next check failed
(`Held`). The nine tests are data, so the lemmas `Listed`, `Sequel` and
`EveryTest` derive from the lists of calls what is in hand where. `Counted` says
how many times each passed test has been counted, twice where the left side of
`+=` is read late; exit status 0 then leaves one possibility.

*Registration.* It is composed with the generator's invariant, by name from
`ToolchainsProofs`. `WrapperInv` says what a strict generation has behind it and
that nothing is registered before some generation wrote a configuration: past
`chmod` the wrapper is executable or `strayed` holds, and no later run undoes
that (only the mode, set once, clears `strayed`). `Serving`
(in `RegInv`) what the kernel's table owes to each command the registration has
behind it, undisturbed by a generation or not.

*Guests.* Each program has its own invariant, and a step of one leaves the
others' variables. `pipe.c`: bytes are printed, in the buffer, in the pipe or yet
to be written, in that order (`Echoed`, `NothingLost`). `safe_thread.c`: unless
the initialisation hit, the lock excludes and the counter is the sum of what each
loop has done (`CountIsRight`). `flock.c`: processes that had the file open
together are in `overlap`, and so is everyone whose bytes follow the last
writer's. The signal programs: seconds left and rounds begun add up. The
assumptions are about the programs' own constants: the counted byte of `pipe.c`
does not wrap (65 + `NUM_ITS` is below 256), and the alarms come while the loops
run, as they do with the values in the code.

Only model-checked: `ResolvableRunEnds` and `ProgramsEnd`, which are liveness
under fairness and out of the prover's reach; every invariant that a passing run
checks is also proved. That `Resolve` is what the loop computes is assumed
through its equation: it is a recursion over data, which is checked by TLC on the
tables of `MCAutogen` and by `WholeFilesFaithful` step by step.

## 5. Not modelled

- Layout of the generated text, record templates, logging.
- A non-numeric `# Args` cell (`int()` raises, like a missing cell), and missing
  template files (the script stops before it has written anything).
- Contents of the submodules: `make`, `cmake`, `ninja`, `x` succeed or fail.
- Concurrent runs of `autogen.py`, or of `gen_toolchains.py`, in one working tree.
- The two socket programs: they exchange one message and stop at the first
  error. (`socket_client.c` closes the status of `connect`, 0, instead of its
  socket, just before it ends.) The other guest programs are single calls whose outcome
  is printed, or threads that share nothing. The parent of `sigprocmask.c` counts
  six seconds and ends.
- What the handlers of the signal programs print from inside a handler: whether
  that disturbs stdio is decided in the C library, a submodule.
- An unknown option of `binfmt_register.sh` (exit 1 before anything is done), and
  the wrapper's own run.
- `parse_syscalls.py`, `convert_syscalls.py`, `process.ipynb`: one-shot scripts
  without state between runs, most of whose lines are a table of names and stored
  output.
- The other sequential demonstrations and scripts, generated data, images.
- The recipe of `wamrc` is modelled but no run asks for it; its success proves
  nothing (see the hazard at `Makefile:129`).

## 6. Plan

Done: every module of section 2, and the theorems of section 4.

Left to state: an abstract make ("a goal is done when its prerequisites were")
that the engines of the two Makefiles implement, and its refinement proofs, which
would be short after `Shape`; that a serial `make` without failures succeeds
wherever an earlier build left what it reads.
