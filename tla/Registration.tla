---------------------------- MODULE Registration ----------------------------
(***************************************************************************)
(* misc/gen_iwasm_wrapper.sh and misc/binfmt_register.sh, over the         *)
(* toolchain files of Toolchains, the kernel's binfmt_misc table and       *)
(* /etc/binfmt.d.  The two scripts and gen_toolchains.py run side by side, *)
(* one of each at a time.  Both scripts source wali.sh: a whole one brings *)
(* "set -euo pipefail" with it and makes the run strict; a missing or      *)
(* truncated one leaves it lax, with WALI_ROOT_DIR empty.                  *)
(***************************************************************************)
EXTENDS Naturals

CONSTANTS Tomls, None, MaxEdits, MaxKills,
    MaxAborts   \* bound: killed runs of the two scripts

VARIABLES
    toml, files, executable, pc, todo, cfg, status, interrupted, edits, kills,
    gen,      \* gen_iwasm_wrapper.sh: where it is, strict
    wrapper,  \* misc/iwasm-wrapper, with the directory its iwasm is in
    runnable, \* its mode
    envfile,  \* .walienv is in the checkout
    conf,     \* misc/iwali.conf
    strayed,  \* history: a chmod found another directory's file, none the wrapper
    tainted,  \* history: a lax or killed generation, no strict one finished since
    reg,      \* binfmt_register.sh: where it is, strict, -p, lines, overlap
    outcome,  \* how its last run ended; none since a reboot
    table,    \* the kernel's entries: whose wrapper they name
    free,     \* history: wali-interp was nobody's when its run began
    etc,      \* /etc/binfmt.d/iwali.conf
    promised, \* history: the last run with -p was strict, undisturbed and finished
    aborts

toolchain == <<toml, files, executable, pc, todo, cfg, status, interrupted, edits, kills>>
made == <<wrapper, runnable, envfile, conf, strayed, tainted>>
kernel == <<table, free, etc, promised>>
vars == <<toolchain, gen, made, reg, outcome, kernel, aborts>>

T == INSTANCE Toolchains

(* None is told from the two makers of an entry.                           *)
ASSUME RegistrationAssumption ==
    T!TomlsAssumption /\ None \notin {"ours", "foreign"} /\ MaxAborts \in Nat

Entries == {"wali-interp", "wali-aot"}
All(who) == [e \in Entries |-> who]

(* Where the user may be: misc/ of this checkout; a directory that holds a *)
(* file iwasm-wrapper of the user's too, like another checkout's misc/;    *)
(* any other.                                                              *)
Dirs == {"misc", "namesake", "elsewhere"}

Sourced == files["sh"].state = "whole"

NotRunning == [at |-> "idle", strict |-> FALSE]
GenAt(at) == gen' = IF at = "idle" THEN NotRunning ELSE [gen EXCEPT !.at = at]
RegAt(at) == reg' = [reg EXCEPT !.at = at]

(* Of a run that succeeded it is kept what kind of run it was.             *)
NotRegistering == [at |-> "idle", strict |-> FALSE, permanent |-> FALSE,
                   lines |-> FALSE, overlap |-> FALSE]
Leave(how) ==
    /\ outcome' = how
    /\ reg' = IF how = "ok" THEN [reg EXCEPT !.at = "idle", !.lines = FALSE]
              ELSE NotRegistering

-----------------------------------------------------------------------------
(* What boot, or a restart of systemd-binfmt, registers.                   *)
FromEtc ==
    CASE etc = "whole"   -> All("ours")
      [] etc = "foreign" -> All("foreign")
      [] OTHER           -> All(None)

(* Another checkout may have registered its wrapper before, for good or    *)
(* until the next reboot; for good it does so only before.                 *)
Init ==
    /\ T!Init
    /\ gen = NotRunning
    /\ wrapper = "absent" /\ runnable = FALSE /\ envfile = FALSE
    /\ conf = "absent" /\ strayed = FALSE /\ tainted = FALSE
    /\ reg = NotRegistering
    /\ outcome = "none"
    /\ etc \in {"absent", "foreign"}
    /\ table \in {FromEtc, All("foreign")} /\ free = FALSE
    /\ promised = FALSE /\ aborts = 0

-----------------------------------------------------------------------------
(* gen_iwasm_wrapper.sh.                                                   *)
GenSource ==
    /\ gen.at = "idle"
    /\ gen' = [at |-> "env", strict |-> Sourced]
    /\ tainted' = (tainted \/ ~Sourced)
    /\ reg' = [reg EXCEPT !.overlap = (@ \/ reg.at # "idle")]
    /\ UNCHANGED <<toolchain, wrapper, runnable, envfile, conf, strayed,
                   outcome, kernel, aborts>>

(* env &> $WALI_ROOT_DIR/.walienv: with no root it is for /.walienv.       *)
GenEnv ==
    /\ gen.at = "env" /\ GenAt("wrapper")
    /\ envfile' = (envfile \/ gen.strict)
    /\ UNCHANGED <<toolchain, wrapper, runnable, conf, strayed, tainted,
                   reg, outcome, kernel, aborts>>

(* cat > iwasm-wrapper: the shell truncates, cat writes the expanded text. *)
GenOpenWrapper ==
    /\ gen.at = "wrapper" /\ GenAt("fill")
    /\ wrapper' = "torn"
    /\ UNCHANGED <<toolchain, runnable, envfile, conf, strayed, tainted,
                   reg, outcome, kernel, aborts>>

GenWriteWrapper ==
    /\ gen.at = "fill" /\ GenAt("chmod")
    /\ wrapper' = IF gen.strict THEN "rooted" ELSE "rootless"
    /\ UNCHANGED <<toolchain, runnable, envfile, conf, strayed, tainted,
                   reg, outcome, kernel, aborts>>

(* chmod +x iwasm-wrapper names the file in the user's directory, dir, on  *)
(* which nothing else in the script depends.  In misc/ that is the         *)
(* wrapper; in another directory that has such a file chmod succeeds as    *)
(* well, on the wrong one.                                                 *)
MakeExecutable(dir) ==
    /\ runnable' = (runnable \/ dir = "misc")
    /\ strayed' = (~runnable' /\ (strayed \/ dir = "namesake"))

GenChmodUnchecked(dir) ==  \* mutant: chmod +x iwasm-wrapper || true
    /\ gen.at = "chmod" /\ GenAt("conf")
    /\ MakeExecutable(dir)
    /\ UNCHANGED <<toolchain, wrapper, envfile, conf, tainted,
                   reg, outcome, kernel, aborts>>

(* Where there is no such file chmod fails, which ends a strict run.       *)
GenChmod(dir) ==
    /\ gen.at = "chmod"
    /\ GenAt(IF dir = "elsewhere" /\ gen.strict THEN "idle" ELSE "conf")
    /\ MakeExecutable(dir)
    /\ UNCHANGED <<toolchain, wrapper, envfile, conf, tainted,
                   reg, outcome, kernel, aborts>>

GenOpenConf ==
    /\ gen.at = "conf" /\ GenAt("fillconf")
    /\ conf' = "torn"
    /\ UNCHANGED <<toolchain, wrapper, runnable, envfile, strayed, tainted,
                   reg, outcome, kernel, aborts>>

GenWriteConf ==
    /\ gen.at = "fillconf" /\ GenAt("idle")
    /\ conf' = "whole"
    /\ tainted' = ~gen.strict
    /\ UNCHANGED <<toolchain, wrapper, runnable, envfile, strayed,
                   reg, outcome, kernel, aborts>>

(* A signal, or a redirection or cat that fails: exit 1.                   *)
GenAbort ==
    /\ gen.at # "idle" /\ GenAt("idle")
    /\ aborts < MaxAborts /\ aborts' = aborts + 1
    /\ tainted' = TRUE
    /\ UNCHANGED <<toolchain, wrapper, runnable, envfile, conf, strayed,
                   reg, outcome, kernel>>

-----------------------------------------------------------------------------
(* binfmt_register.sh [-p], as root.                                       *)
RegSource(p) ==
    /\ reg.at = "idle"
    /\ reg' = [at |-> "read", strict |-> Sourced, permanent |-> p,
               lines |-> FALSE, overlap |-> gen.at # "idle"]
    /\ outcome' = "running" /\ free' = (table["wali-interp"] = None)
    /\ UNCHANGED <<toolchain, gen, made, table, etc, promised, aborts>>

RegReadWithDefaults ==     \* mutant: ${lines[0]:-}, which set -u lets pass
    /\ reg.at = "read"
    /\ reg' = [reg EXCEPT !.lines = (conf = "whole"),
                          !.at = IF reg.permanent THEN "cp" ELSE "interp"]
    /\ UNCHANGED <<toolchain, gen, made, outcome, kernel, aborts>>

(* mapfile takes what tail finds; "${lines[0]}" of an empty array ends a   *)
(* strict run and is empty in a lax one.                                   *)
RegRead ==
    /\ reg.at = "read"
    /\ IF conf # "whole" /\ reg.strict
       THEN Leave("failed")
       ELSE /\ reg' = [reg EXCEPT !.lines = (conf = "whole"),
                                  !.at = IF reg.permanent THEN "cp" ELSE "interp"]
            /\ UNCHANGED outcome
    /\ UNCHANGED <<toolchain, gen, made, kernel, aborts>>

(* External: the kernel takes an entry whose name is free.                 *)
Accepts(e) == reg.lines /\ table[e] = None

Register(e) == table' = IF Accepts(e) THEN [table EXCEPT ![e] = "ours"] ELSE table

RegInterpUnchecked ==      \* mutant: set +e after source
    /\ reg.at = "interp"
    /\ Register("wali-interp")
    /\ RegAt("aot")
    /\ UNCHANGED <<toolchain, gen, made, outcome, free, etc, promised, aborts>>

(* echo "$interp_conf" > register: its failure ends a strict run.          *)
RegInterp ==
    /\ reg.at = "interp"
    /\ Register("wali-interp")
    /\ IF reg.strict /\ ~Accepts("wali-interp")
       THEN Leave("failed")
       ELSE RegAt("aot") /\ UNCHANGED outcome
    /\ UNCHANGED <<toolchain, gen, made, free, etc, promised, aborts>>

RegAot ==
    /\ reg.at = "aot"
    /\ Register("wali-aot")
    /\ Leave(IF Accepts("wali-aot") THEN "ok" ELSE "failed")
    /\ UNCHANGED <<toolchain, gen, made, free, etc, promised, aborts>>

(* cp iwali.conf /etc/binfmt.d/ copies what is there, truncated or not.    *)
RegCopy ==
    /\ reg.at = "cp"
    /\ IF conf = "absent"
       THEN /\ IF reg.strict THEN Leave("failed") ELSE RegAt("restart") /\ UNCHANGED outcome
            /\ UNCHANGED <<etc, promised>>
       ELSE /\ RegAt("restart") /\ UNCHANGED outcome
            /\ etc' = conf /\ promised' = FALSE
    /\ UNCHANGED <<toolchain, gen, made, table, free, aborts>>

RegStart ==                \* mutant: systemctl start, of a service that is active
    /\ reg.at = "restart"
    /\ Leave("ok")
    /\ promised' = (reg.strict /\ ~reg.overlap)
    /\ UNCHANGED <<toolchain, gen, made, table, free, etc, aborts>>

(* systemctl restart systemd-binfmt: every entry goes, the files in        *)
(* /etc/binfmt.d are registered; an empty one is no error.                 *)
RegRestart ==
    /\ reg.at = "restart"
    /\ table' = FromEtc
    /\ Leave("ok")
    /\ promised' = (reg.strict /\ ~reg.overlap)
    /\ UNCHANGED <<toolchain, gen, made, free, etc, aborts>>

RegAbort ==
    /\ reg.at # "idle" /\ Leave("aborted")
    /\ aborts < MaxAborts /\ aborts' = aborts + 1
    /\ UNCHANGED <<toolchain, gen, made, kernel>>

(* External: another checkout's binfmt_register.sh, run without -p at any  *)
(* time, takes a name that is free.                                        *)
ForeignEcho(e) ==
    /\ table[e] = None
    /\ table' = [table EXCEPT ![e] = "foreign"]
    /\ UNCHANGED <<toolchain, gen, made, reg, outcome, free, etc, promised, aborts>>

(* A reboot in the middle of a script is its abort and then this.          *)
Reboot ==
    /\ gen.at = "idle" /\ reg.at = "idle" /\ pc = "idle"
    /\ table' = FromEtc
    /\ Leave("none")
    /\ UNCHANGED <<toolchain, gen, made, free, etc, promised, aborts>>

-----------------------------------------------------------------------------
Toolchain == T!Next /\ UNCHANGED <<gen, made, reg, outcome, kernel, aborts>>

Generate ==
    \/ GenSource \/ GenEnv \/ GenOpenWrapper \/ GenWriteWrapper
    \/ \E dir \in Dirs : GenChmod(dir)
    \/ GenOpenConf \/ GenWriteConf \/ GenAbort

RegisterRun ==
    \/ \E p \in BOOLEAN : RegSource(p)
    \/ RegRead \/ RegInterp \/ RegAot \/ RegCopy \/ RegRestart \/ RegAbort

Next ==
    \/ Toolchain \/ Generate \/ RegisterRun
    \/ \E e \in Entries : ForeignEcho(e)
    \/ Reboot

Spec == Init /\ [][Next]_vars

-----------------------------------------------------------------------------
(* The type invariant.                                                     *)
TypeOK ==
    /\ T!TypeOK
    /\ gen \in [at : {"idle", "env", "wrapper", "fill", "chmod", "conf", "fillconf"},
                strict : BOOLEAN]
    /\ {runnable, envfile, strayed, tainted, free, promised} \subseteq BOOLEAN
    /\ wrapper \in {"absent", "torn", "rooted", "rootless"}
    /\ conf \in {"absent", "torn", "whole"}
    /\ reg \in [at : {"idle", "read", "interp", "aot", "cp", "restart"},
                strict : BOOLEAN, permanent : BOOLEAN, lines : BOOLEAN, overlap : BOOLEAN]
    /\ reg.at \in {"interp", "aot"} /\ reg.strict => reg.lines
    /\ outcome \in {"none", "running", "ok", "failed", "aborted"}
    /\ table \in [Entries -> {None, "ours", "foreign"}]
    /\ etc \in {"absent", "foreign", "torn", "whole"}
    /\ aborts \in 0 .. MaxAborts

(* A wasm program that is executed meets a wrapper that can run it: if the *)
(* kernel names this checkout's wrapper, that file is whole, execs the     *)
(* iwasm of the checkout and hands it an environment file that exists,     *)
(* whatever registrations, reboots, regenerations from other directories   *)
(* and toolchain runs came before; only a generation that was lax, is      *)
(* running or was killed may break it.  It is executable as well, unless a *)
(* generation ran in another directory with a file iwasm-wrapper (and none *)
(* in misc/, which would have made it so for good): that one ends cleanly  *)
(* with a configuration that names a wrapper nobody can execute.           *)
EntriesAreRunnable ==
    (\E e \in Entries : table[e] = "ours") /\ gen.at = "idle" /\ ~tainted =>
        wrapper = "rooted" /\ envfile /\ (runnable \/ strayed)

(* What status 0 means, until the next reboot: without -p the compiled     *)
(* format is registered, and if wali.sh was whole so is the interpreted    *)
(* one, by this run: repeating is no repair of a registration that was     *)
(* killed half way or made by another checkout, for it fails at the first  *)
(* name.  With -p both are, if wali.sh was whole and no generation ran     *)
(* meanwhile.                                                              *)
SuccessMeansRegistered ==
    outcome = "ok" =>
        IF reg.permanent
        THEN reg.strict /\ ~reg.overlap => table = All("ours")
        ELSE /\ table["wali-aot"] = "ours"
             /\ reg.strict => table["wali-interp"] = "ours" /\ free

(* What -p registered stays registered over reboots, later registrations   *)
(* without -p and regenerated or half-written configurations, until        *)
(* another run with -p replaces the copy in /etc.                          *)
PermanentIsPermanent ==
    promised => table = All("ours") /\ etc = "whole"
=============================================================================
