------------------------- MODULE RegistrationProofs -------------------------
(***************************************************************************)
(* Proofs about the wrapper generator and the registration, for any        *)
(* configurations, any number of toolchain runs, regenerations,            *)
(* registrations, kills and reboots.                                       *)
(***************************************************************************)
EXTENDS Registration, TLAPS

TP == INSTANCE ToolchainsProofs

-----------------------------------------------------------------------------
(* The toolchain files are as ToolchainsProofs shows them to be: the two   *)
(* scripts read them and write none.                                       *)
LEMMA ToolchainStep ==
    ASSUME TP!IInv, T!Next \/ UNCHANGED toolchain PROVE TP!IInv'
<1>1. T!Next => TP!Next
  BY DEF T!Next, TP!Next, T!Start, TP!Start, T!Usable, TP!Usable, T!Refuse, TP!Refuse,
         T!Open, TP!Open, T!Torn, TP!Torn, T!Write, TP!Write, T!Whole, TP!Whole,
         T!Text, TP!Text, T!MakeText, TP!MakeText, T!BashText, TP!BashText,
         T!CMakeText, TP!CMakeText, T!Settings, TP!Settings, T!NoVendor, TP!NoVendor,
         T!LinkFlags, TP!LinkFlags, T!ProjectRoot, TP!ProjectRoot, T!DirKeys, TP!DirKeys,
         T!Chmod, TP!Chmod, T!Abort, TP!Abort, T!EditToml, TP!EditToml
<1>2. UNCHANGED toolchain => UNCHANGED TP!vars
  BY DEF toolchain, TP!vars
<1>3. TP!TomlsAssumption
  BY RegistrationAssumption
     DEF T!TomlsAssumption, TP!TomlsAssumption, T!DirKeys, TP!DirKeys, T!Flags, TP!Flags
<1>4. TP!TomlsAssumption /\ TP!IInv /\ [TP!Next]_(TP!vars) => TP!IInv'
  BY TP!NextIInv
<1> QED
  BY <1>1, <1>2, <1>3, <1>4

LEMMA ToolchainInit == T!Init => TP!IInv
<1>1. T!Init => TP!Init
  BY DEF T!Init, TP!Init, T!Absent, TP!Absent, T!Names, TP!Names
<1>2. TP!TomlsAssumption
  BY RegistrationAssumption
     DEF T!TomlsAssumption, TP!TomlsAssumption, T!DirKeys, TP!DirKeys, T!Flags, TP!Flags
<1>3. TP!TomlsAssumption /\ TP!Init => TP!IInv
  BY TP!InitIInv
<1> QED
  BY <1>1, <1>2, <1>3

LEMMA ToolchainType == TP!IInv => T!TypeOK
BY DEF TP!IInv, TP!TypeOK, T!TypeOK, TP!Absent, T!Absent, TP!Torn, T!Torn, TP!Names, T!Names

-----------------------------------------------------------------------------
(* Type correctness of the rest.                                           *)
Rows == [Entries -> {None, "ours", "foreign"}]
GenPoints == {"idle", "env", "wrapper", "fill", "chmod", "conf", "fillconf"}
RegPoints == {"idle", "read", "interp", "aot", "cp", "restart"}
Gens == [at : GenPoints, strict : BOOLEAN]
Regs == [at : RegPoints, strict : BOOLEAN, permanent : BOOLEAN,
         lines : BOOLEAN, overlap : BOOLEAN]

ScriptsOK ==
    /\ gen \in Gens
    /\ runnable \in BOOLEAN /\ envfile \in BOOLEAN /\ strayed \in BOOLEAN
    /\ tainted \in BOOLEAN /\ free \in BOOLEAN /\ promised \in BOOLEAN
    /\ wrapper \in {"absent", "torn", "rooted", "rootless"}
    /\ conf \in {"absent", "torn", "whole"}
    /\ reg \in Regs
    /\ reg.at \in {"interp", "aot"} /\ reg.strict => reg.lines
    /\ outcome \in {"none", "running", "ok", "failed", "aborted"}
    /\ table \in Rows
    /\ etc \in {"absent", "foreign", "torn", "whole"}
    /\ aborts \in 0 .. MaxAborts

LEMMA RowsOfEtc == FromEtc \in Rows /\ All("ours") \in Rows /\ All("foreign") \in Rows
BY DEF FromEtc, Rows, All

LEMMA GenAtType ==
    ASSUME gen \in Gens,
           NEW at \in GenPoints, GenAt(at)
    PROVE  /\ gen' \in Gens
           /\ gen'.at = at /\ (at # "idle" => gen'.strict = gen.strict)
BY DEF GenAt, Gens, NotRunning, GenPoints

LEMMA RegAtType ==
    ASSUME ScriptsOK, NEW at \in RegPoints, RegAt(at)
    PROVE  /\ reg' \in Regs
           /\ reg'.at = at /\ reg'.strict = reg.strict /\ reg'.permanent = reg.permanent
           /\ reg'.lines = reg.lines /\ reg'.overlap = reg.overlap
BY DEF RegAt, ScriptsOK, Regs

LEMMA LeaveType ==
    ASSUME ScriptsOK, NEW how, Leave(how)
    PROVE  /\ reg' \in Regs
           /\ reg'.at = "idle" /\ ~reg'.lines /\ outcome' = how
           /\ how = "ok" => /\ reg'.strict = reg.strict /\ reg'.permanent = reg.permanent
                           /\ reg'.overlap = reg.overlap
BY DEF Leave, NotRegistering, ScriptsOK, Regs, RegPoints

(* What a step of the generator may change, and what one of the            *)
(* registration may.                                                       *)
LEMMA GenerateFrame ==
    Generate => UNCHANGED <<toolchain, outcome, kernel>>
BY DEF Generate, GenSource, GenEnv, GenOpenWrapper, GenWriteWrapper, GenChmod,
       GenOpenConf, GenWriteConf, GenAbort

LEMMA RegisterFrame ==
    RegisterRun => UNCHANGED <<toolchain, gen, made>>
BY DEF RegisterRun, RegSource, RegRead, RegInterp, RegAot, RegCopy, RegRestart, RegAbort

LEMMA GenerateType == ScriptsOK /\ Generate => ScriptsOK'
<1> SUFFICES ASSUME ScriptsOK, Generate PROVE ScriptsOK'
  OBVIOUS
<1>1. UNCHANGED <<outcome, kernel>>
  BY GenerateFrame
<1>2. CASE GenSource
  <2>1. /\ reg' \in Regs
        /\ reg'.at = reg.at /\ reg'.strict = reg.strict /\ reg'.lines = reg.lines
    BY <1>2 DEF GenSource, ScriptsOK, Regs
  <2>2. gen' \in Gens /\ tainted' \in BOOLEAN
    BY <1>2 DEF GenSource, Sourced, Gens, GenPoints, ScriptsOK
  <2> QED
    BY <1>1, <1>2, <2>1, <2>2 DEF GenSource, ScriptsOK, kernel
<1>3. CASE GenEnv
  BY <1>1, <1>3, GenAtType DEF GenEnv, ScriptsOK, GenPoints, kernel
<1>4. CASE GenOpenWrapper
  BY <1>1, <1>4, GenAtType DEF GenOpenWrapper, ScriptsOK, GenPoints, kernel
<1>5. CASE GenWriteWrapper
  BY <1>1, <1>5, GenAtType DEF GenWriteWrapper, ScriptsOK, GenPoints, kernel
<1>6. ASSUME NEW dir \in Dirs, GenChmod(dir) PROVE ScriptsOK'
  BY <1>1, <1>6, GenAtType DEF GenChmod, MakeExecutable, ScriptsOK, GenPoints, kernel
<1>7. CASE GenOpenConf
  BY <1>1, <1>7, GenAtType DEF GenOpenConf, ScriptsOK, GenPoints, kernel
<1>8. CASE GenWriteConf
  BY <1>1, <1>8, GenAtType DEF GenWriteConf, ScriptsOK, GenPoints, kernel
<1>9. CASE GenAbort
  <2>1. aborts' \in 0 .. MaxAborts
    BY <1>9, RegistrationAssumption DEF GenAbort, ScriptsOK
  <2> QED
    BY <1>1, <1>9, <2>1, GenAtType DEF GenAbort, ScriptsOK, GenPoints, kernel
<1> QED
  BY <1>2, <1>3, <1>4, <1>5, <1>6, <1>7, <1>8, <1>9 DEF Generate

LEMMA RegisterType == ScriptsOK /\ RegisterRun => ScriptsOK'
<1> SUFFICES ASSUME ScriptsOK, RegisterRun PROVE ScriptsOK'
  OBVIOUS
<1>1. UNCHANGED <<gen, made>>
  BY RegisterFrame
<1>2. ASSUME NEW p \in BOOLEAN, RegSource(p) PROVE ScriptsOK'
  <2>1. /\ reg' \in Regs
        /\ reg'.at = "read"
    BY <1>2 DEF RegSource, Sourced, Regs, RegPoints
  <2> QED
    BY <1>1, <1>2, <2>1 DEF RegSource, ScriptsOK, made
<1>3. CASE RegRead
  <2>1. /\ reg' \in Regs
        /\ reg'.at \in {"interp", "aot"} /\ reg'.strict => reg'.lines
    <3>1. CASE conf # "whole" /\ reg.strict
      BY <1>3, <3>1, LeaveType DEF RegRead
    <3>2. CASE ~(conf # "whole" /\ reg.strict)
      BY <1>3, <3>2 DEF RegRead, Regs, RegPoints, ScriptsOK
    <3> QED
      BY <3>1, <3>2
  <2>2. outcome' \in {"none", "running", "ok", "failed", "aborted"}
    BY <1>3 DEF RegRead, Leave, ScriptsOK
  <2> QED
    BY <1>1, <1>3, <2>1, <2>2 DEF RegRead, ScriptsOK, made, kernel
<1>4. CASE RegInterp
  <2>1. table' \in Rows
    BY <1>4 DEF RegInterp, Register, Rows, ScriptsOK
  <2>2. /\ reg' \in Regs
        /\ reg'.at \in {"interp", "aot"} /\ reg'.strict => reg'.lines
    BY <1>4, RegAtType, LeaveType DEF RegInterp, RegPoints, ScriptsOK
  <2>3. outcome' \in {"none", "running", "ok", "failed", "aborted"}
    BY <1>4 DEF RegInterp, Leave, ScriptsOK
  <2> QED
    BY <1>1, <1>4, <2>1, <2>2, <2>3 DEF RegInterp, ScriptsOK, made
<1>5. CASE RegAot
  <2>1. table' \in Rows
    BY <1>5 DEF RegAot, Register, Rows, ScriptsOK
  <2>2. /\ reg' \in Regs
        /\ reg'.at = "idle"
    BY <1>5, LeaveType DEF RegAot
  <2>3. outcome' \in {"none", "running", "ok", "failed", "aborted"}
    BY <1>5 DEF RegAot, Leave
  <2> QED
    BY <1>1, <1>5, <2>1, <2>2, <2>3 DEF RegAot, ScriptsOK, made
<1>6. CASE RegCopy
  <2>1. /\ reg' \in Regs
        /\ reg'.at \notin {"interp", "aot"}
    BY <1>6, RegAtType, LeaveType DEF RegCopy, RegPoints
  <2>2. outcome' \in {"none", "running", "ok", "failed", "aborted"}
    BY <1>6 DEF RegCopy, Leave, ScriptsOK
  <2>3. etc' \in {"absent", "foreign", "torn", "whole"} /\ promised' \in BOOLEAN
    BY <1>6 DEF RegCopy, ScriptsOK
  <2> QED
    BY <1>1, <1>6, <2>1, <2>2, <2>3 DEF RegCopy, ScriptsOK, made
<1>7. CASE RegRestart
  <2>1. /\ reg' \in Regs
        /\ reg'.at = "idle" /\ outcome' = "ok"
    BY <1>7, LeaveType DEF RegRestart
  <2>2. promised' \in BOOLEAN
    BY <1>7 DEF RegRestart, ScriptsOK
  <2> QED
    BY <1>1, <1>7, <2>1, <2>2, RowsOfEtc DEF RegRestart, ScriptsOK, made
<1>8. CASE RegAbort
  <2>1. aborts' \in 0 .. MaxAborts
    BY <1>8, RegistrationAssumption DEF RegAbort, ScriptsOK
  <2>2. /\ reg' \in Regs
        /\ reg'.at = "idle" /\ outcome' = "aborted"
    BY <1>8, LeaveType DEF RegAbort
  <2> QED
    BY <1>1, <1>8, <2>1, <2>2 DEF RegAbort, ScriptsOK, made, kernel
<1> QED
  BY <1>2, <1>3, <1>4, <1>5, <1>6, <1>7, <1>8 DEF RegisterRun

LEMMA NextType == ScriptsOK /\ [Next]_vars => ScriptsOK'
<1> SUFFICES ASSUME ScriptsOK, [Next]_vars PROVE ScriptsOK'
  OBVIOUS
<1>1. CASE UNCHANGED vars \/ Toolchain
  BY <1>1 DEF vars, Toolchain, made, kernel, ScriptsOK
<1>2. CASE Reboot
  BY <1>2, LeaveType, RowsOfEtc DEF Reboot, made, ScriptsOK
<1>3. ASSUME NEW e \in Entries, ForeignEcho(e) PROVE ScriptsOK'
  <2>1. table' \in Rows
    BY <1>3 DEF ForeignEcho, ScriptsOK, Rows
  <2> QED
    BY <1>3, <2>1 DEF ForeignEcho, made, ScriptsOK
<1> QED
  BY <1>1, <1>2, <1>3, GenerateType, RegisterType DEF Next

TypeInv == TP!IInv /\ ScriptsOK

LEMMA TypeInvariance == Spec => []TypeInv
<1>1. Init => TypeInv
  <2> SUFFICES ASSUME Init PROVE TypeInv
    OBVIOUS
  <2>1. TP!IInv
    BY ToolchainInit DEF Init
  <2>2. table \in Rows /\ aborts \in 0 .. MaxAborts
    BY RowsOfEtc, RegistrationAssumption DEF Init
  <2>3. ScriptsOK
    BY <2>2 DEF Init, NotRunning, NotRegistering, ScriptsOK, Gens, Regs, GenPoints, RegPoints
  <2> QED
    BY <2>1, <2>3 DEF TypeInv
<1>2. TypeInv /\ [Next]_vars => TypeInv'
  <2> SUFFICES ASSUME TypeInv, [Next]_vars PROVE TypeInv'
    OBVIOUS
  <2>1. T!Next \/ UNCHANGED toolchain
    BY GenerateFrame, RegisterFrame DEF Next, vars, Toolchain, ForeignEcho, Reboot
  <2>2. TP!IInv'
    BY <2>1, ToolchainStep DEF TypeInv
  <2> QED
    BY <2>2, NextType DEF TypeInv
<1> QED
  BY <1>1, <1>2, PTL DEF Spec

(* Every reachable state is well typed; a strict registration that reaches *)
(* the kernel has lines to give it.                                        *)
THEOREM TypeCorrect == Spec => []TypeOK
<1>1. TypeInv => TypeOK
  BY ToolchainType DEF TypeInv, ScriptsOK, TypeOK, Rows, Gens, Regs, GenPoints, RegPoints
<1> QED
  BY <1>1, TypeInvariance, PTL

-----------------------------------------------------------------------------
(* The wrapper.  A run that is not tainted is strict, has made what it has *)
(* passed, and what an earlier one made is only ever replaced, never lost. *)
StrictRun ==
    /\ gen.at # "idle" /\ ~gen.strict => tainted
    /\ gen.at \in {"wrapper", "fill", "chmod", "conf", "fillconf"} /\ gen.strict => envfile
    /\ gen.at \in {"chmod", "conf", "fillconf"} /\ gen.strict => wrapper = "rooted"
    /\ gen.at \in {"conf", "fillconf"} /\ gen.strict => runnable \/ strayed

EarlierRun ==
    ~tainted /\ conf # "absent" =>
        /\ envfile /\ (runnable \/ strayed)
        /\ gen.at \in {"idle", "env", "wrapper"} => wrapper = "rooted"

(* Whatever names this checkout's wrapper was copied from a configuration  *)
(* some generation wrote.                                                  *)
FromConf ==
    \/ reg.lines \/ etc \in {"torn", "whole"} \/ \E e \in Entries : table[e] = "ours"
    => conf # "absent"

WrapperInv == StrictRun /\ EarlierRun /\ FromConf

LEMMA OursFromEtc ==
    ASSUME NEW e \in Entries, FromEtc[e] = "ours" PROVE etc = "whole"
BY RegistrationAssumption DEF FromEtc, All

LEMMA GenerateKeepsWrapper == ScriptsOK /\ WrapperInv /\ Generate => WrapperInv'
<1> SUFFICES ASSUME ScriptsOK, WrapperInv, Generate PROVE WrapperInv'
  OBVIOUS
<1> USE DEF WrapperInv, StrictRun, EarlierRun
<1>1. FromConf'
  <2>1. conf # "absent" => conf' # "absent"
    BY DEF Generate, GenSource, GenEnv, GenOpenWrapper, GenWriteWrapper, GenChmod,
           GenOpenConf, GenWriteConf, GenAbort
  <2>2. reg'.lines = reg.lines
    BY DEF Generate, GenSource, GenEnv, GenOpenWrapper, GenWriteWrapper, GenChmod,
           GenOpenConf, GenWriteConf, GenAbort, ScriptsOK, Regs
  <2> QED
    BY <2>1, <2>2, GenerateFrame DEF FromConf, kernel
<1> SUFFICES StrictRun' /\ EarlierRun'
  BY <1>1
<1>2. CASE GenSource
  BY <1>2 DEF GenSource, Sourced
<1>3. CASE GenEnv
  BY <1>3, GenAtType DEF GenEnv, ScriptsOK, GenPoints
<1>4. CASE GenOpenWrapper
  BY <1>4, GenAtType DEF GenOpenWrapper, ScriptsOK, GenPoints
<1>5. CASE GenWriteWrapper
  BY <1>5, GenAtType DEF GenWriteWrapper, ScriptsOK, GenPoints
<1>6. ASSUME NEW dir \in Dirs, GenChmod(dir) PROVE StrictRun' /\ EarlierRun'
  BY <1>6, GenAtType DEF GenChmod, MakeExecutable, Dirs, ScriptsOK, GenPoints
<1>7. CASE GenOpenConf
  BY <1>7, GenAtType DEF GenOpenConf, ScriptsOK, GenPoints
<1>8. CASE GenWriteConf
  BY <1>8, GenAtType DEF GenWriteConf, ScriptsOK, GenPoints
<1>9. CASE GenAbort
  BY <1>9, GenAtType DEF GenAbort, ScriptsOK, GenPoints
<1> QED
  BY <1>2, <1>3, <1>4, <1>5, <1>6, <1>7, <1>8, <1>9 DEF Generate

LEMMA RegisterKeepsWrapper == ScriptsOK /\ WrapperInv /\ RegisterRun => WrapperInv'
<1> SUFFICES ASSUME ScriptsOK, WrapperInv, RegisterRun PROVE WrapperInv'
  OBVIOUS
<1>1. UNCHANGED <<gen, made>>
  BY RegisterFrame
<1>2. StrictRun' /\ EarlierRun'
  BY <1>1 DEF WrapperInv, StrictRun, EarlierRun, made
<1> SUFFICES FromConf'
  BY <1>2 DEF WrapperInv
<1>3. reg'.lines => conf # "absent"
  <2>1. reg'.lines => reg.lines \/ conf = "whole"
    <3>1. ASSUME NEW p \in BOOLEAN, RegSource(p) PROVE reg'.lines => reg.lines
      BY <3>1 DEF RegSource
    <3>2. CASE RegRead
      <4>1. CASE conf # "whole" /\ reg.strict
        BY <3>2, <4>1, LeaveType DEF RegRead
      <4>2. CASE ~(conf # "whole" /\ reg.strict)
        BY <3>2, <4>2 DEF RegRead, ScriptsOK, Regs
      <4> QED
        BY <4>1, <4>2
    <3>3. CASE RegInterp
      BY <3>3, RegAtType, LeaveType DEF RegInterp, RegPoints
    <3>4. CASE RegCopy
      BY <3>4, RegAtType, LeaveType DEF RegCopy, RegPoints
    <3>5. CASE RegAot \/ RegRestart \/ RegAbort
      BY <3>5, LeaveType DEF RegAot, RegRestart, RegAbort
    <3> QED
      BY <3>1, <3>2, <3>3, <3>4, <3>5 DEF RegisterRun
  <2> QED
    BY <2>1 DEF WrapperInv, FromConf
<1>4. etc' \in {"torn", "whole"} => conf # "absent"
  BY DEF RegisterRun, RegSource, RegRead, RegInterp, RegAot, RegCopy, RegRestart, RegAbort,
         WrapperInv, FromConf, kernel
<1>5. ASSUME NEW e \in Entries, table'[e] = "ours" PROVE conf # "absent"
  <2>1. CASE RegInterp \/ RegAot
    <3>1. table'[e] = table[e] \/ reg.lines
      BY <2>1 DEF RegInterp, RegAot, Register, Accepts
    <3> QED
      BY <1>5, <3>1 DEF WrapperInv, FromConf
  <2>2. CASE RegRestart
    BY <1>5, <2>2, OursFromEtc DEF RegRestart, WrapperInv, FromConf
  <2>3. CASE ~(RegInterp \/ RegAot \/ RegRestart)
    <3>1. table' = table
      BY <2>3 DEF RegisterRun, RegSource, RegRead, RegCopy, RegAbort, kernel
    <3> QED
      BY <1>5, <3>1 DEF WrapperInv, FromConf
  <2> QED
    BY <2>1, <2>2, <2>3
<1> QED
  BY <1>1, <1>3, <1>4, <1>5 DEF FromConf, made

(* A program the kernel hands to this checkout meets a whole wrapper with  *)
(* the checkout's iwasm and an environment file, whatever registrations,   *)
(* reboots, toolchain runs and regenerations from other directories came   *)
(* before; only a lax or killed generation breaks it.  The wrapper is      *)
(* executable unless a chmod in another directory found a file of its name *)
(* and none ever ran in misc/.                                             *)
THEOREM RegisteredWrapperRuns == Spec => []EntriesAreRunnable
<1>1. Init => WrapperInv
  BY RegistrationAssumption
     DEF Init, NotRunning, NotRegistering, WrapperInv, StrictRun, EarlierRun, FromConf, FromEtc, All
<1>2. TypeInv /\ WrapperInv /\ [Next]_vars => WrapperInv'
  <2> SUFFICES ASSUME TypeInv, WrapperInv, [Next]_vars PROVE WrapperInv'
    OBVIOUS
  <2>1. CASE UNCHANGED vars \/ Toolchain
    BY <2>1 DEF vars, Toolchain, made, kernel, WrapperInv, StrictRun, EarlierRun, FromConf
  <2>2. CASE Reboot
    <3>1. FromConf'
      BY <2>2, OursFromEtc, LeaveType DEF Reboot, TypeInv, WrapperInv, FromConf, made
    <3> QED
      BY <2>2, <3>1 DEF Reboot, WrapperInv, StrictRun, EarlierRun, made
  <2>3. ASSUME NEW e \in Entries, ForeignEcho(e) PROVE WrapperInv'
    <3>1. \A d \in Entries : table'[d] = "ours" => table[d] = "ours"
      BY <2>3, RegistrationAssumption DEF ForeignEcho, TypeInv, ScriptsOK, Rows
    <3>2. FromConf'
      BY <2>3, <3>1 DEF ForeignEcho, WrapperInv, FromConf, made
    <3> QED
      BY <2>3, <3>2 DEF ForeignEcho, WrapperInv, StrictRun, EarlierRun, made
  <2> QED
    BY <2>1, <2>2, <2>3, GenerateKeepsWrapper, RegisterKeepsWrapper DEF Next, TypeInv
<1>3. WrapperInv => EntriesAreRunnable
  BY DEF WrapperInv, EarlierRun, FromConf, EntriesAreRunnable
<1> QED
  BY <1>1, <1>2, <1>3, TypeInvariance, PTL DEF Spec

-----------------------------------------------------------------------------
(* What status 0 means.  The invariant follows a run through its steps:    *)
(* nothing but the run itself touches the table while it goes on, and no   *)
(* generation touches the configuration unless it is marked as overlapping.*)
Undisturbed == reg.strict /\ ~reg.overlap

Serving ==
    /\ reg.at # "idle" => outcome = "running"
    /\ reg.at \in {"read", "interp"} /\ table["wali-interp"] = None => free
    /\ reg.at # "idle" /\ ~reg.overlap => gen.at = "idle"
    /\ reg.at \in {"interp", "aot"} => ~reg.permanent
    /\ reg.at \in {"cp", "restart"} => reg.permanent
    /\ reg.at = "aot" /\ reg.strict =>
           table["wali-interp"] = "ours" /\ free
    /\ reg.at = "cp" /\ Undisturbed => conf = "whole"
    /\ reg.at = "restart" /\ Undisturbed => etc = "whole"

RegInv == Serving /\ SuccessMeansRegistered /\ PermanentIsPermanent

LEMMA GenerateKeepsReg == ScriptsOK /\ RegInv /\ Generate => RegInv'
<1> SUFFICES ASSUME ScriptsOK, RegInv, Generate PROVE RegInv'
  OBVIOUS
<1>1. UNCHANGED <<outcome, table, free, etc, promised>>
  BY GenerateFrame DEF kernel
<1>2. /\ reg'.at = reg.at /\ reg'.strict = reg.strict /\ reg'.permanent = reg.permanent
      /\ reg'.overlap = (reg.overlap \/ (gen.at = "idle" /\ reg.at # "idle"))
      /\ gen.at = "idle" => conf' = conf
      /\ gen.at = "idle" \/ reg' = reg
  <2>1. GenSource => /\ reg'.at = reg.at /\ reg'.strict = reg.strict
                     /\ reg'.permanent = reg.permanent
                     /\ reg'.overlap = (reg.overlap \/ reg.at # "idle")
                     /\ gen.at = "idle" /\ conf' = conf
    BY DEF GenSource, ScriptsOK, Regs
  <2>2. CASE gen.at # "idle" /\ reg' = reg
    BY <2>2 DEF ScriptsOK, Regs
  <2>3. ~GenSource => gen.at # "idle" /\ reg' = reg
    BY DEF Generate, GenEnv, GenOpenWrapper, GenWriteWrapper, GenChmod, GenOpenConf,
           GenWriteConf, GenAbort
  <2> QED
    BY <2>1, <2>2, <2>3 DEF ScriptsOK, Regs
<1>3. Serving'
  BY <1>1, <1>2 DEF RegInv, Serving, Undisturbed
<1>4. SuccessMeansRegistered'
  <2>1. outcome = "ok" => reg.at = "idle"
    BY DEF RegInv, Serving
  <2> QED
    BY <1>1, <1>2, <2>1 DEF RegInv, SuccessMeansRegistered
<1>5. PermanentIsPermanent'
  BY <1>1 DEF RegInv, PermanentIsPermanent
<1> QED
  BY <1>3, <1>4, <1>5 DEF RegInv

LEMMA EtcFact == etc = "whole" => FromEtc = All("ours")
BY DEF FromEtc

LEMMA AllOurs == /\ \A e \in Entries : All("ours")[e] = "ours"
                 /\ table = All("ours") => \A e \in Entries : ~Accepts(e)
                 /\ "wali-interp" \in Entries /\ "wali-aot" \in Entries
BY RegistrationAssumption DEF All, Accepts, Entries

LEMMA RegisterKeepsReg == ScriptsOK /\ RegInv /\ RegisterRun => RegInv'
<1> SUFFICES ASSUME ScriptsOK, RegInv, RegisterRun PROVE RegInv'
  OBVIOUS
<1> USE DEF RegInv
<1>1. UNCHANGED <<gen, conf>>
  BY RegisterFrame DEF made
<1>2. ASSUME NEW p \in BOOLEAN, RegSource(p) PROVE RegInv'
  <2>1. Serving'
    BY <1>1, <1>2 DEF RegSource, Serving, Undisturbed
  <2> QED
    BY <1>2, <2>1 DEF RegSource, SuccessMeansRegistered, PermanentIsPermanent
<1>3. CASE RegRead
  <2>1. UNCHANGED <<table, free, etc, promised>> /\ outcome' # "ok"
    BY <1>3 DEF RegRead, Leave, Serving, kernel
  <2>2. CASE conf # "whole" /\ reg.strict
    <3>1. reg'.at = "idle"
      BY <1>3, <2>2, LeaveType DEF RegRead
    <3> QED
      BY <1>1, <2>1, <3>1 DEF Serving, SuccessMeansRegistered, PermanentIsPermanent
  <2>3. CASE ~(conf # "whole" /\ reg.strict)
    <3>1. /\ reg'.at = IF reg.permanent THEN "cp" ELSE "interp"
          /\ reg'.strict = reg.strict /\ reg'.overlap = reg.overlap
          /\ reg'.permanent = reg.permanent /\ reg.permanent \in BOOLEAN
          /\ outcome' = outcome /\ reg.at = "read"
      BY <1>3, <2>3 DEF RegRead, ScriptsOK, Regs
    <3>2. Serving'
      BY <1>1, <2>1, <2>3, <3>1 DEF Serving, Undisturbed
    <3> QED
      BY <2>1, <3>2 DEF SuccessMeansRegistered, PermanentIsPermanent
  <2> QED
    BY <2>2, <2>3
<1>4. CASE RegInterp
  <2>1. UNCHANGED <<free, etc, promised>> /\ reg.at = "interp" /\ ~reg.permanent
        /\ outcome = "running"
    BY <1>4 DEF RegInterp, Serving
  <2>2. PermanentIsPermanent'
    BY <1>4, <2>1, AllOurs DEF RegInterp, Register, PermanentIsPermanent
  <2>3. CASE reg.strict /\ ~Accepts("wali-interp")
    <3>1. reg'.at = "idle" /\ outcome' = "failed"
      BY <1>4, <2>3, RegAtType, LeaveType DEF RegInterp, RegPoints
    <3> QED
      BY <1>1, <2>2, <3>1 DEF Serving, SuccessMeansRegistered
  <2>4. CASE ~(reg.strict /\ ~Accepts("wali-interp"))
    <3>1. /\ reg'.at = "aot" /\ outcome' = "running"
          /\ reg'.strict = reg.strict /\ reg'.overlap = reg.overlap
          /\ reg'.permanent = reg.permanent
      BY <1>4, <2>1, <2>4, RegAtType DEF RegInterp, RegPoints
    <3>2. reg.strict => table'["wali-interp"] = "ours" /\ free
      <4>1. reg.strict => Accepts("wali-interp") /\ table["wali-interp"] = None
        BY <2>4 DEF Accepts
      <4>2. reg.strict => table'["wali-interp"] = "ours"
        BY <1>4, <4>1, AllOurs DEF RegInterp, Register, ScriptsOK, Rows
      <4> QED
        BY <2>1, <4>1, <4>2 DEF Serving
    <3>3. Serving'
      BY <1>1, <2>1, <3>1, <3>2 DEF Serving, Undisturbed
    <3> QED
      BY <2>2, <3>1, <3>3 DEF SuccessMeansRegistered
  <2> QED
    BY <2>3, <2>4
<1>5. CASE RegAot
  <2>1. UNCHANGED <<free, etc, promised>> /\ reg.at = "aot" /\ ~reg.permanent
    BY <1>5 DEF RegAot, Serving
  <2>2. PermanentIsPermanent'
    BY <1>5, <2>1, AllOurs DEF RegAot, Register, PermanentIsPermanent
  <2>3. /\ reg'.at = "idle" /\ outcome' \in {"ok", "failed"}
        /\ outcome' = "ok" => /\ Accepts("wali-aot")
                              /\ reg'.strict = reg.strict /\ reg'.permanent = reg.permanent
    BY <1>5, LeaveType DEF RegAot
  <2>4. Accepts("wali-aot") => table'["wali-aot"] = "ours"
                               /\ table'["wali-interp"] = table["wali-interp"]
    BY <1>5, AllOurs DEF RegAot, Register, ScriptsOK, Rows
  <2>5. SuccessMeansRegistered'
    BY <2>1, <2>3, <2>4 DEF SuccessMeansRegistered, Serving
  <2> QED
    BY <1>1, <2>2, <2>3, <2>5 DEF Serving
<1>6. CASE RegCopy
  <2>1. reg.at = "cp" /\ reg.permanent /\ UNCHANGED <<table, free>> /\ outcome = "running"
    BY <1>6 DEF RegCopy, Serving
  <2>2. outcome' # "ok"
    BY <1>6, <2>1 DEF RegCopy, Leave
  <2>3. PermanentIsPermanent'
    BY <1>6, <2>1 DEF RegCopy, PermanentIsPermanent
  <2>4. CASE conf = "absent" /\ reg.strict
    <3>1. reg'.at = "idle"
      BY <1>6, <2>4, RegAtType, LeaveType DEF RegCopy, RegPoints
    <3> QED
      BY <1>1, <2>2, <2>3, <3>1 DEF Serving, SuccessMeansRegistered
  <2>5. CASE ~(conf = "absent" /\ reg.strict)
    <3>1. RegAt("restart") /\ outcome' = outcome
      BY <1>6, <2>5 DEF RegCopy
    <3>2. /\ reg'.at = "restart" /\ reg'.strict = reg.strict /\ reg'.overlap = reg.overlap
          /\ reg'.permanent = reg.permanent
      BY <3>1, RegAtType DEF RegPoints
    <3>3. Undisturbed => etc' = "whole"
      BY <1>6, <2>1 DEF RegCopy, Serving
    <3>4. Serving'
      BY <1>1, <2>1, <3>1, <3>2, <3>3 DEF Serving, Undisturbed
    <3> QED
      BY <2>2, <2>3, <3>4 DEF SuccessMeansRegistered
  <2> QED
    BY <2>4, <2>5
<1>7. CASE RegRestart
  <2>1. reg.at = "restart" /\ reg.permanent /\ table' = FromEtc /\ etc' = etc
        /\ promised' = Undisturbed
    BY <1>7 DEF RegRestart, Serving, Undisturbed
  <2>2. reg'.at = "idle" /\ reg'.permanent /\ (Undisturbed' <=> Undisturbed)
    BY <1>7, <2>1, LeaveType DEF RegRestart, Undisturbed
  <2>3. Undisturbed => table' = All("ours") /\ etc' = "whole"
    BY <2>1, EtcFact DEF Serving
  <2> QED
    BY <1>1, <2>1, <2>2, <2>3
       DEF Serving, SuccessMeansRegistered, PermanentIsPermanent, Undisturbed
<1>8. CASE RegAbort
  <2>1. reg'.at = "idle" /\ outcome' = "aborted" /\ UNCHANGED <<table, etc, promised>>
    BY <1>8, LeaveType DEF RegAbort, kernel
  <2> QED
    BY <2>1 DEF Serving, SuccessMeansRegistered, PermanentIsPermanent
<1> QED
  BY <1>2, <1>3, <1>4, <1>5, <1>6, <1>7, <1>8 DEF RegisterRun

LEMMA RegInvariance == Spec => []RegInv
<1>1. Init => RegInv
  BY DEF Init, NotRegistering, RegInv, Serving, SuccessMeansRegistered, PermanentIsPermanent
<1>2. TypeInv /\ RegInv /\ [Next]_vars => RegInv'
  <2> SUFFICES ASSUME TypeInv, RegInv, [Next]_vars PROVE RegInv'
    OBVIOUS
  <2>1. CASE UNCHANGED vars \/ Toolchain
    BY <2>1 DEF vars, Toolchain, made, kernel, RegInv, Serving, Undisturbed,
                SuccessMeansRegistered, PermanentIsPermanent
  <2>2. CASE Reboot
    BY <2>2, EtcFact, LeaveType DEF Reboot, TypeInv, made, RegInv, Serving, SuccessMeansRegistered,
                         PermanentIsPermanent
  <2>3. ASSUME NEW e \in Entries, ForeignEcho(e) PROVE RegInv'
    <3>1. \A d \in Entries : table'[d] = table[d] \/ (table[d] = None /\ table'[d] = "foreign")
      BY <2>3 DEF ForeignEcho, TypeInv, ScriptsOK, Rows
    <3>2. UNCHANGED <<gen, conf, reg, outcome, free, etc, promised>>
      BY <2>3 DEF ForeignEcho, made
    <3>3. Serving'
      BY <3>1, <3>2, AllOurs, RegistrationAssumption DEF RegInv, Serving, Undisturbed
    <3>4. table = All("ours") => FALSE
      BY <2>3, AllOurs, RegistrationAssumption DEF ForeignEcho
    <3>5. SuccessMeansRegistered' /\ PermanentIsPermanent'
      BY <3>1, <3>2, <3>4, AllOurs, RegistrationAssumption
         DEF RegInv, SuccessMeansRegistered, PermanentIsPermanent
    <3> QED
      BY <3>3, <3>5 DEF RegInv
  <2> QED
    BY <2>1, <2>2, <2>3, GenerateKeepsReg, RegisterKeepsReg DEF Next, TypeInv
<1> QED
  BY <1>1, <1>2, TypeInvariance, PTL DEF Spec

(* Status 0 means that the formats are registered, and which of them, until *)
(* the next reboot.                                                        *)
THEOREM SuccessRegisters == Spec => []SuccessMeansRegistered
BY RegInvariance, PTL DEF RegInv

(* What -p registered survives reboots, later registrations and whatever   *)
(* is done to the configuration it was copied from.                        *)
THEOREM PermanentStays == Spec => []PermanentIsPermanent
BY RegInvariance, PTL DEF RegInv
=============================================================================
