------------------------- MODULE RustcConfigProofs -------------------------
(***************************************************************************)
(* Proofs about rustc_config.py for any number of trees, targets and runs. *)
(***************************************************************************)
EXTENDS RustcConfig, TLAPS

-----------------------------------------------------------------------------
(* The update.                                                             *)

(* Updating twice is updating once: a repeated run rewrites what is there. *)
THEOREM UpdateIdempotent ==
    ASSUME NEW old, NEW ours
    PROVE  Updated(Updated(old, ours), ours) = Updated(old, ours)
BY DEF Updated

(* Runs for different slots commute: the order in which two trees are      *)
(* configured does not matter to ~/.cargo/config.toml.                     *)
THEOREM UpdatesCommute ==
    ASSUME NEW old, NEW p, NEW q, DOMAIN p \cap DOMAIN q = {}
    PROVE  Updated(Updated(old, p), q) = Updated(Updated(old, q), p)
<1> DEFINE D == DOMAIN old \cup DOMAIN p \cup DOMAIN q
           val(x) == IF x \in DOMAIN p THEN p[x] ELSE IF x \in DOMAIN q THEN q[x] ELSE old[x]
<1>1. Updated(Updated(old, p), q) = [x \in D |-> val(x)]
  BY DEF Updated
<1>2. Updated(Updated(old, q), p) = [x \in D |-> val(x)]
  BY DEF Updated
<1> QED
  BY <1>1, <1>2

LEMMA UpdateKeepsOthers ==
    ASSUME NEW old, NEW ours, NEW slot \in DOMAIN old, slot \notin DOMAIN ours
    PROVE  slot \in DOMAIN Updated(old, ours) /\ Updated(old, ours)[slot] = old[slot]
BY DEF Updated

-----------------------------------------------------------------------------
(* Type correctness.                                                       *)

LEMMA AtType ==
    ASSUME TypeOK, NEW s \in Scripts
    PROVE  At(s) \in Files /\ pass[s] \in 1 .. 4 /\ At(s) = FileOf(s, pass[s])
BY DEF At, TypeOK, Files

LEMMA InitType == Init => TypeOK
<1> SUFFICES ASSUME Init PROVE TypeOK
  OBVIOUS
<1>1. DOMAIN disk = Files /\ DOMAIN mem = Scripts /\ kills \in 0 .. MaxKills
  BY ConfigAssumption DEF Init
<1>2. pass \in [Scripts -> 1 .. 4]
  BY DEF Init
<1>3. phase \in [Scripts -> {"off", "load", "open", "dump", "done", "failed", "killed"}]
  BY DEF Init
<1>4. torn \subseteq Files \X Scripts /\ overlapped \in BOOLEAN
  BY DEF Init
<1> QED
  BY <1>1, <1>2, <1>3, <1>4 DEF TypeOK

LEMMA NextType == TypeOK /\ [Next]_vars => TypeOK'
<1> SUFFICES ASSUME TypeOK, [Next]_vars PROVE TypeOK'
  OBVIOUS
<1> USE DEF TypeOK
<1>1. CASE UNCHANGED vars
  BY <1>1 DEF vars
<1>2. ASSUME NEW s \in Scripts, Begin(s) PROVE TypeOK'
  BY <1>2 DEF Begin
<1>3. ASSUME NEW s \in Scripts, Load(s) PROVE TypeOK'
  BY <1>3 DEF Load
<1>4. ASSUME NEW s \in Scripts, LoadFails(s) \/ OpenFails(s) PROVE TypeOK'
  BY <1>4 DEF LoadFails, OpenFails
<1>5. ASSUME NEW s \in Scripts, Open(s) PROVE TypeOK'
  BY <1>5 DEF Open
<1>6. ASSUME NEW s \in Scripts, Dump(s) PROVE TypeOK'
  BY <1>6 DEF Dump
<1>7. ASSUME NEW s \in Scripts, Kill(s) PROVE TypeOK'
  <2>1. kills' \in 0 .. MaxKills
    BY <1>7, ConfigAssumption DEF Kill
  <2>2. At(s) \in Files
    BY AtType
  <2> QED
    BY <1>7, <2>1, <2>2 DEF Kill
<1> QED
  BY <1>1, <1>2, <1>3, <1>4, <1>5, <1>6, <1>7 DEF Next

(* Every reachable state is well typed.                                    *)
THEOREM TypeCorrect == Spec => []TypeOK
BY InitType, NextType, PTL DEF Spec

-----------------------------------------------------------------------------
(* What the user had.  The invariant is about a set of files none of which *)
(* two running invocations are at: all files while runs do not overlap,    *)
(* the files of one invocation's tree always.  It follows the settings     *)
(* through the memory of the run that has the file open.                   *)
OneAtATime(fs) ==
    \A s, t \in Scripts : Running(s) /\ Running(t) /\ At(s) = At(t) /\ At(s) \in fs => s = t

MemoryCarries(fs) ==
    \A s \in Scripts : phase[s] \in {"open", "dump"} /\ At(s) \in fs =>
        /\ phase[s] = "dump" => disk[At(s)] = File(Empty)
        /\ Before[At(s)].state = "file" /\ TornBy(At(s)) = {} => Carries(mem[s], At(s))

KeptInv(fs) == MemoryCarries(fs) /\ SettingsSurviveIn(fs)

LEMMA Alone ==
    ASSUME NEW fs, OneAtATime(fs), NEW s \in Scripts, Running(s), At(s) \in fs,
           NEW t \in Scripts, t # s, At(t) = At(s)
    PROVE  phase[t] \notin {"load", "open", "dump"}
BY DEF OneAtATime, Running

(* A step of s changes nothing the others hold.                            *)
LEMMA OthersKeep ==
    ASSUME TypeOK, NEW s \in Scripts,
           \/ Begin(s) \/ Load(s) \/ LoadFails(s) \/ Open(s) \/ OpenFails(s)
           \/ Dump(s) \/ Kill(s)
    PROVE  /\ \A t \in Scripts : t # s =>
                  phase'[t] = phase[t] /\ pass'[t] = pass[t] /\ mem'[t] = mem[t] /\ At(t)' = At(t)
           /\ \A f \in Files : f # At(s) => disk'[f] = disk[f] /\ TornBy(f)' = TornBy(f)
           /\ phase[s] # "dump" => torn' = torn
           /\ phase[s] \notin {"open", "dump"} => disk' = disk
<1>1. \A t \in Scripts : t # s =>
          phase'[t] = phase[t] /\ pass'[t] = pass[t] /\ mem'[t] = mem[t]
  BY DEF Begin, Load, LoadFails, Open, OpenFails, Dump, Kill, TypeOK
<1>2. \A f \in Files : f # At(s) => disk'[f] = disk[f]
  BY DEF Begin, Load, LoadFails, Open, OpenFails, Dump, Kill, TypeOK
<1>3. torn' = torn \/ torn' = torn \cup {<<At(s), s>>}
  BY DEF Begin, Load, LoadFails, Open, OpenFails, Dump, Kill
<1>4. phase[s] # "dump" => torn' = torn
  BY DEF Begin, Load, LoadFails, Open, OpenFails, Dump, Kill
<1>5. phase[s] \notin {"open", "dump"} => disk' = disk
  BY DEF Begin, Load, LoadFails, Open, OpenFails, Dump, Kill
<1> QED
  BY <1>1, <1>2, <1>3, <1>4, <1>5 DEF At, TornBy

LEMMA LoadCarries ==
    ASSUME NEW fs \in SUBSET Files, TypeOK, OneAtATime(fs), KeptInv(fs),
           NEW s \in Scripts, Load(s), At(s) \in fs,
           Before[At(s)].state = "file", TornBy(At(s)) = {}
    PROVE  Carries(mem'[s], At(s))
<1>1. At(s) \in Files /\ pass[s] \in 1 .. 4 /\ At(s) = FileOf(s, pass[s])
  BY AtType
<1>2. ~Writing(At(s))
  BY Alone DEF Load, Running, Writing
<1>3. disk[At(s)].state = "file" /\ Carries(disk[At(s)].dict, At(s))
  BY <1>1, <1>2 DEF KeptInv, SettingsSurviveIn
<1>4. mem'[s] = Updated(disk[At(s)].dict, Ours(s, pass[s]))
  BY <1>3 DEF Load, TypeOK
<1>5. \A slot \in UserSlots(At(s)) : slot \notin DOMAIN Ours(s, pass[s])
  BY <1>1 DEF UserSlots
<1> QED
  BY <1>3, <1>4, <1>5, UpdateKeepsOthers DEF Carries

LEMMA MemoryCarriesStep ==
    ASSUME NEW fs \in SUBSET Files, TypeOK, OneAtATime(fs), KeptInv(fs), [Next]_vars
    PROVE  MemoryCarries(fs)'
<1>1. CASE UNCHANGED vars
  BY <1>1 DEF vars, KeptInv, MemoryCarries, At, TornBy, Carries
<1>2. ASSUME NEW s \in Scripts,
             \/ Begin(s) \/ Load(s) \/ LoadFails(s) \/ Open(s) \/ OpenFails(s)
             \/ Dump(s) \/ Kill(s)
      PROVE  MemoryCarries(fs)'
  <2> SUFFICES ASSUME NEW t \in Scripts, NEW f \in fs,
                      phase'[t] \in {"open", "dump"}, f = At(t)'
               PROVE  /\ phase'[t] = "dump" => disk'[f] = File(Empty)
                      /\ Before[f].state = "file" /\ TornBy(f)' = {} => Carries(mem'[t], f)
    BY DEF MemoryCarries, TornBy, Carries, At
  <2>1. CASE t # s
    <3>1. f = At(t) /\ phase'[t] = phase[t] /\ mem'[t] = mem[t]
      BY <1>2, <2>1, OthersKeep
    <3>2. f # At(s) \/ (disk' = disk /\ torn' = torn)
      BY <1>2, <2>1, <3>1, Alone, OthersKeep DEF Running
    <3>3. disk'[f] = disk[f] /\ TornBy(f)' = TornBy(f)
      BY <1>2, <3>2, OthersKeep DEF TornBy
    <3> QED
      BY <3>1, <3>3 DEF KeptInv, MemoryCarries, TornBy
  <2>2. CASE t = s
    <3>1. Load(s) \/ Open(s)
      BY <1>2, <2>2 DEF Begin, LoadFails, OpenFails, Dump, Kill, TypeOK
    <3>2. f = At(s) /\ torn' = torn
      BY <2>2, <3>1 DEF Load, Open, At
    <3>3. CASE Load(s)
      BY <2>2, <3>2, <3>3, LoadCarries DEF Load, TypeOK, TornBy
    <3>4. CASE Open(s)
      <4>1. mem' = mem /\ phase[s] = "open" /\ disk'[At(s)] = File(Empty)
        BY <3>4, AtType DEF Open, TypeOK
      <4> QED
        BY <2>2, <3>2, <4>1 DEF KeptInv, MemoryCarries, TornBy
    <3> QED
      BY <3>1, <3>3, <3>4
  <2> QED
    BY <2>1, <2>2
<1> QED
  BY <1>1, <1>2 DEF Next

LEMMA SurviveStep ==
    ASSUME NEW fs \in SUBSET Files, TypeOK, OneAtATime(fs), KeptInv(fs), [Next]_vars
    PROVE  SettingsSurviveIn(fs)'
<1>1. CASE UNCHANGED vars
  BY <1>1 DEF vars, KeptInv, SettingsSurviveIn, Writing, At, TornBy, Carries
<1>2. ASSUME NEW s \in Scripts,
             \/ Begin(s) \/ Load(s) \/ LoadFails(s) \/ Open(s) \/ OpenFails(s)
             \/ Dump(s) \/ Kill(s)
      PROVE  SettingsSurviveIn(fs)'
  <2> SUFFICES ASSUME NEW f \in fs,
                      Before[f].state = "file", ~Writing(f)', TornBy(f)' = {}
               PROVE  disk'[f].state = "file" /\ Carries(disk'[f].dict, f)
    BY DEF SettingsSurviveIn, Writing, TornBy, Carries, At
  <2>1. TornBy(f) = {}
    BY <1>2 DEF TornBy, Begin, Load, LoadFails, Open, OpenFails, Dump, Kill
  <2>2. \A t \in Scripts : t # s => ~(phase[t] = "dump" /\ At(t) = f)
    BY <1>2, OthersKeep DEF Writing
  <2>3. CASE phase[s] = "dump" /\ At(s) = f
    <3>1. Dump(s)
      <4>1. ~Begin(s) /\ ~Load(s) /\ ~LoadFails(s) /\ ~Open(s) /\ ~OpenFails(s)
        BY <2>3 DEF Begin, Load, LoadFails, Open, OpenFails, Running
      <4>2. Kill(s) => s \in TornBy(f)'
        BY <2>3 DEF Kill, TornBy
      <4> QED
        BY <1>2, <4>1, <4>2
    <3>2. disk[f] = File(Empty) /\ Carries(mem[s], f)
      BY <2>1, <2>3 DEF KeptInv, MemoryCarries
    <3>3. disk'[f] = File(mem[s])
      BY <2>3, <3>1, <3>2 DEF Dump, TypeOK
    <3> QED
      BY <3>2, <3>3 DEF File
  <2>4. CASE ~(phase[s] = "dump" /\ At(s) = f)
    <3>1. ~Writing(f)
      BY <2>2, <2>4 DEF Writing
    <3>2. ~(Open(s) /\ At(s) = f)
      BY DEF Open, Writing, At, TypeOK
    <3>3. disk'[f] = disk[f]
      <4>1. CASE At(s) # f
        BY <1>2, <4>1, OthersKeep
      <4>2. CASE At(s) = f
        BY <1>2, <2>4, <3>2, <4>2 DEF Begin, Load, LoadFails, OpenFails, Dump, Kill
      <4> QED
        BY <4>1, <4>2
    <3> QED
      BY <2>1, <3>1, <3>3 DEF KeptInv, SettingsSurviveIn
  <2> QED
    BY <2>3, <2>4
<1> QED
  BY <1>1, <1>2 DEF Next

LEMMA KeptInit == ASSUME NEW fs \in SUBSET Files, Init PROVE KeptInv(fs)
<1>1. MemoryCarries(fs)
  BY DEF Init, MemoryCarries
<1>2. SettingsSurviveIn(fs)
  BY DEF Init, SettingsSurviveIn, Carries, UserSlots
<1> QED
  BY <1>1, <1>2 DEF KeptInv

-----------------------------------------------------------------------------
(* Runs one after another.                                                 *)
OneRunning == \A s, t \in Scripts : Running(s) /\ Running(t) => s = t

LEMMA OneRunningStep ==
    ASSUME ~overlapped', TypeOK, OneRunning, [Next]_vars PROVE OneRunning'
<1>1. CASE UNCHANGED vars
  BY <1>1 DEF vars, OneRunning, Running
<1>2. ASSUME NEW s \in Scripts, Begin(s) PROVE OneRunning'
  BY <1>2 DEF Begin, OneRunning, Running, TypeOK
<1>3. ASSUME NEW s \in Scripts,
             Load(s) \/ LoadFails(s) \/ Open(s) \/ OpenFails(s) \/ Dump(s) \/ Kill(s)
      PROVE  OneRunning'
  <2>1. Running(s) /\ \A t \in Scripts : t # s => phase'[t] = phase[t]
    BY <1>3 DEF Load, LoadFails, Open, OpenFails, Dump, Kill, Running, TypeOK
  <2> QED
    BY <2>1 DEF OneRunning, Running
<1> QED
  BY <1>1, <1>2, <1>3 DEF Next

LEMMA OverlappedStays == TypeOK /\ [Next]_vars /\ ~overlapped' => ~overlapped
BY DEF Next, vars, Begin, Load, LoadFails, Open, OpenFails, Dump, Kill, TypeOK

(* The invariant of every specification that has runs one after another.   *)
SerialInv == ~overlapped => OneRunning /\ KeptInv(Files)

LEMMA SerialCorrect == Spec => []SerialInv
<1>1. Init => SerialInv
  BY KeptInit DEF Init, SerialInv, OneRunning, Running
<1>2. TypeOK /\ SerialInv /\ [Next]_vars => SerialInv'
  <2> SUFFICES ASSUME TypeOK, SerialInv, [Next]_vars, ~overlapped'
               PROVE  OneRunning' /\ KeptInv(Files)'
    BY DEF SerialInv
  <2>1. ~overlapped /\ OneRunning /\ KeptInv(Files)
    BY OverlappedStays DEF SerialInv
  <2>2. OneAtATime(Files)
    BY <2>1 DEF OneRunning, OneAtATime
  <2>3. MemoryCarries(Files)' /\ SettingsSurviveIn(Files)'
    BY <2>1, <2>2, MemoryCarriesStep, SurviveStep
  <2> QED
    BY <2>1, <2>3, OneRunningStep DEF KeptInv
<1> QED
  BY <1>1, <1>2, TypeCorrect, PTL DEF Spec

(* As long as runs do not overlap, only a kill with the file truncated     *)
(* loses a setting of the user's in a slot the script does not write: for  *)
(* any number of trees, targets, failures and repetitions.                 *)
THEOREM SerialRunsKeepUserSettings == Spec => []UserSettingsSurvive
<1>1. SerialInv => UserSettingsSurvive
  BY DEF SerialInv, KeptInv, UserSettingsSurvive
<1> QED
  BY <1>1, SerialCorrect, PTL

-----------------------------------------------------------------------------
(* Runs side by side.                                                      *)
Private ==
    {f \in Files : \A s, t \in Scripts : Configures(s, f) /\ Configures(t, f) => s = t}

LEMMA PrivateIsOneAtATime == TypeOK => OneAtATime(Private)
BY AtType DEF OneAtATime, Private, Configures

(* Runs side by side, however many, lose nothing of the files of a tree    *)
(* only one of them configures.                                            *)
THEOREM PrivateTreesSurvive == Spec => []PrivateSettingsSurvive
<1>1. Private \in SUBSET Files
  BY DEF Private
<1>2. Init => KeptInv(Private)
  BY <1>1, KeptInit
<1>3. TypeOK /\ KeptInv(Private) /\ [Next]_vars => KeptInv(Private)'
  BY <1>1, PrivateIsOneAtATime, MemoryCarriesStep, SurviveStep DEF KeptInv
<1>4. KeptInv(Private) => PrivateSettingsSurvive
  BY DEF KeptInv, Private, PrivateSettingsSurvive
<1> QED
  BY <1>2, <1>3, <1>4, TypeCorrect, PTL DEF Spec

-----------------------------------------------------------------------------
(* What the script writes.  The invariant is about the passes a run has    *)
(* behind it, and about the memory of whoever has one of their files open. *)
Finished(s) ==
    IF phase[s] = "done" THEN 1 .. 4 ELSE IF Running(s) THEN 1 .. pass[s] - 1 ELSE {}

InMemory ==
    \A t \in Scripts : phase[t] \in {"open", "dump"} => Configured(mem[t], t, pass[t])

OnDisk ==
    \A s \in Scripts : \A n \in Finished(s) : TornBy(FileOf(s, n)) \subseteq {s} =>
        /\ ~Writing(FileOf(s, n)) =>
               disk[FileOf(s, n)].state = "file" /\ Configured(disk[FileOf(s, n)].dict, s, n)
        /\ \A t \in Scripts : phase[t] \in {"open", "dump"} /\ At(t) = FileOf(s, n) =>
               Configured(mem[t], s, n)

ConfiguredInv == InMemory /\ OnDisk

LEMMA FinishedPasses == ASSUME TypeOK, NEW s \in Scripts PROVE Finished(s) \subseteq 1 .. 4
BY DEF Finished, TypeOK

(* An update writes its own slots and no disputed one of another pass.     *)
LEMMA UpdateConfigures ==
    ASSUME NEW old, NEW s \in Scripts, NEW n \in 1 .. 4, NEW t \in Scripts, NEW m \in 1 .. 4,
           FileOf(t, m) = FileOf(s, n)
    PROVE  /\ Configured(Ours(s, n), s, n)
           /\ Configured(Updated(old, Ours(s, n)), s, n)
           /\ Configured(old, s, n) => Configured(Updated(old, Ours(t, m)), s, n)
<1>1. Undisputed(s, n) \subseteq DOMAIN Ours(s, n)
  BY DEF Undisputed
<1>2. \A slot \in Undisputed(s, n) :
          slot \in DOMAIN Ours(t, m) => Ours(t, m)[slot] = Ours(s, n)[slot]
  BY DEF Undisputed
<1>3. Configured(Ours(s, n), s, n) /\ Configured(Updated(old, Ours(s, n)), s, n)
  BY <1>1 DEF Configured, Updated
<1>4. Configured(old, s, n) => Configured(Updated(old, Ours(t, m)), s, n)
  BY <1>2 DEF Configured, Updated
<1> QED
  BY <1>3, <1>4

(* While runs do not overlap no dump finds another's text.                 *)
LEMMA DumpIsClean ==
    ASSUME TypeOK, KeptInv(Files), NEW s \in Scripts, Dump(s)
    PROVE  disk' = [disk EXCEPT ![At(s)] = File(mem[s])]
BY AtType DEF KeptInv, MemoryCarries, Dump

LEMMA InMemoryStep ==
    ASSUME TypeOK, InMemory, [Next]_vars PROVE InMemory'
<1>1. CASE UNCHANGED vars
  BY <1>1 DEF vars, InMemory
<1>2. ASSUME NEW s \in Scripts,
             \/ Begin(s) \/ Load(s) \/ LoadFails(s) \/ Open(s) \/ OpenFails(s)
             \/ Dump(s) \/ Kill(s)
      PROVE  InMemory'
  <2> SUFFICES ASSUME NEW t \in Scripts, phase'[t] \in {"open", "dump"}
               PROVE  Configured(mem'[t], t, pass'[t])
    BY DEF InMemory
  <2>1. CASE t # s
    BY <1>2, <2>1, OthersKeep DEF InMemory
  <2>2. CASE t = s
    <3>1. (Load(s) \/ Open(s)) /\ pass' = pass
      BY <1>2, <2>2 DEF Begin, Load, LoadFails, Open, OpenFails, Dump, Kill, TypeOK
    <3>2. CASE Load(s)
      <4>1. \/ mem'[s] = Ours(s, pass[s])
            \/ mem'[s] = Updated(disk[At(s)].dict, Ours(s, pass[s]))
        BY <3>2 DEF Load, TypeOK
      <4> QED
        BY <2>2, <3>1, <4>1, AtType, UpdateConfigures
    <3>3. CASE Open(s)
      BY <2>2, <3>1, <3>3 DEF Open, InMemory
    <3> QED
      BY <3>1, <3>2, <3>3
  <2> QED
    BY <2>1, <2>2
<1> QED
  BY <1>1, <1>2 DEF Next

(* A pass counted after a step was counted before, unless this is the dump *)
(* that ends it.                                                           *)
LEMMA FinishedStep ==
    ASSUME TypeOK, NEW r \in Scripts,
           \/ Begin(r) \/ Load(r) \/ LoadFails(r) \/ Open(r) \/ OpenFails(r)
           \/ Dump(r) \/ Kill(r),
           NEW s \in Scripts, NEW n \in Finished(s)'
    PROVE  n \in Finished(s) \/ (Dump(r) /\ s = r /\ n = pass[r])
<1>1. CASE s # r
  BY <1>1, OthersKeep DEF Finished, Running
<1>2. CASE s = r
  <2>1. CASE Begin(r)
    BY <1>2, <2>1 DEF Begin, Finished, Running, TypeOK
  <2>2. CASE Load(r) \/ Open(r)
    <3>1. phase[r] \in {"load", "open"} /\ phase'[r] \in {"open", "dump"} /\ pass' = pass
      BY <2>2 DEF Load, Open, TypeOK
    <3> QED
      BY <1>2, <3>1 DEF Finished, Running
  <2>3. CASE LoadFails(r) \/ OpenFails(r) \/ Kill(r)
    BY <1>2, <2>3 DEF LoadFails, OpenFails, Kill, Finished, Running, TypeOK
  <2>4. CASE Dump(r)
    <3>1. phase[r] = "dump" /\ pass[r] \in 1 .. 4
      BY <2>4 DEF Dump, TypeOK
    <3>2. CASE pass[r] = 4
      <4>1. phase'[r] = "done"
        BY <2>4, <3>2 DEF Dump, TypeOK
      <4>2. n \in 1 .. 4
        BY <1>2, <4>1 DEF Finished
      <4>3. Finished(r) = 1 .. 3
        BY <3>1, <3>2 DEF Finished, Running
      <4> QED
        BY <1>2, <2>4, <3>2, <4>2, <4>3
    <3>3. CASE pass[r] # 4
      <4>1. phase'[r] = "load" /\ pass'[r] = pass[r] + 1
        BY <2>4, <3>3 DEF Dump, TypeOK
      <4> QED
        BY <1>2, <2>4, <3>1, <4>1 DEF Finished, Running
    <3> QED
      BY <3>2, <3>3
  <2> QED
    BY <2>1, <2>2, <2>3, <2>4
<1> QED
  BY <1>1, <1>2

LEMMA OnDiskStep ==
    ASSUME TypeOK, OneRunning, KeptInv(Files), InMemory, OnDisk, [Next]_vars
    PROVE  OnDisk'
<1>1. CASE UNCHANGED vars
  BY <1>1 DEF vars, OnDisk, Finished, Running, Writing, At, TornBy
<1>2. ASSUME NEW r \in Scripts,
             \/ Begin(r) \/ Load(r) \/ LoadFails(r) \/ Open(r) \/ OpenFails(r)
             \/ Dump(r) \/ Kill(r)
      PROVE  OnDisk'
  <2> SUFFICES ASSUME NEW s \in Scripts, NEW n \in Finished(s)',
                      NEW f, f = FileOf(s, n), TornBy(f)' \subseteq {s}
               PROVE  /\ ~Writing(f)' => disk'[f].state = "file" /\ Configured(disk'[f].dict, s, n)
                      /\ \A t \in Scripts : phase'[t] \in {"open", "dump"} /\ At(t)' = f =>
                             Configured(mem'[t], s, n)
    BY DEF OnDisk, Writing, TornBy, At, Finished, Running
  <2>1. n \in 1 .. 4 /\ f \in Files
    <3>1. n \in 1 .. 4
      BY <1>2, AtType, FinishedStep, FinishedPasses
    <3> QED
      BY <3>1 DEF Files
  <2>2. TornBy(f) \subseteq {s}
    BY <1>2 DEF TornBy, Begin, Load, LoadFails, Open, OpenFails, Dump, Kill
  <2>3. \A t \in Scripts : t # r /\ Running(r) => phase[t] \notin {"load", "open", "dump"}
    BY DEF OneRunning, Running
  <2>4. CASE Begin(r) \/ LoadFails(r) \/ OpenFails(r)
    <3>1. n \in Finished(s) /\ disk' = disk /\ mem' = mem
      BY <1>2, <2>4, FinishedStep DEF Begin, LoadFails, OpenFails, Dump, Running
    <3>2. \A t \in Scripts : phase'[t] \in {"open", "dump"} =>
              phase'[t] = phase[t] /\ At(t)' = At(t)
      BY <2>4 DEF Begin, LoadFails, OpenFails, TypeOK, At
    <3>3. Writing(f) => Writing(f)'
      BY <2>4 DEF Begin, LoadFails, OpenFails, Writing, Running, At, TypeOK
    <3> QED
      BY <2>2, <3>1, <3>2, <3>3 DEF OnDisk
  <2>5. CASE Load(r)
    <3>1. n \in Finished(s) /\ disk' = disk /\ pass' = pass /\ phase[r] = "load"
      BY <1>2, <2>5, FinishedStep DEF Load, Dump
    <3>2. ~Writing(f)
      BY <2>3, <3>1 DEF Writing, Running
    <3>3. disk[f].state = "file" /\ Configured(disk[f].dict, s, n)
      BY <2>2, <3>1, <3>2 DEF OnDisk
    <3>4. \A t \in Scripts : phase'[t] \in {"open", "dump"} => t = r
      BY <2>3, <2>5, <3>1 DEF Load, Running, TypeOK
    <3>5. At(r)' = f => mem'[r] = Updated(disk[f].dict, Ours(r, pass[r]))
                        /\ FileOf(r, pass[r]) = FileOf(s, n) /\ pass[r] \in 1 .. 4
      BY <2>5, <3>1, <3>3, AtType DEF Load, At, TypeOK
    <3> QED
      BY <2>1, <3>1, <3>3, <3>4, <3>5, UpdateConfigures
  <2>6. CASE Open(r)
    <3>1. n \in Finished(s) /\ pass' = pass /\ phase[r] = "open" /\ mem' = mem
      BY <1>2, <2>6, FinishedStep DEF Open, Dump
    <3>2. ~Writing(f)
      BY <2>3, <3>1 DEF Writing, Running
    <3>3. ~Writing(f)' => disk'[f] = disk[f]
      BY <2>1, <2>6 DEF Open, Writing, At, TypeOK
    <3>4. \A t \in Scripts : phase'[t] \in {"open", "dump"} => t = r
      BY <2>3, <2>6, <3>1 DEF Open, Running, TypeOK
    <3>5. At(r)' = At(r)
      BY <3>1 DEF At
    <3> QED
      BY <2>2, <3>1, <3>2, <3>3, <3>4, <3>5 DEF OnDisk
  <2>7. CASE Dump(r)
    <3>1. Running(r) /\ phase[r] = "dump" /\ At(r) = FileOf(r, pass[r])
      BY <2>7 DEF Dump, Running, At
    <3>2. \A t \in Scripts : phase'[t] \notin {"open", "dump"}
      BY <2>3, <2>7, <3>1 DEF Dump, TypeOK
    <3>3. CASE At(r) = f
      <4>1. disk'[f] = File(mem[r])
        BY <2>1, <2>7, <3>3, DumpIsClean DEF TypeOK
      <4>2. Configured(mem[r], s, n)
        BY <1>2, <2>2, <3>1, <3>3, FinishedStep DEF InMemory, OnDisk
      <4> QED
        BY <3>2, <4>1, <4>2 DEF File
    <3>4. CASE At(r) # f
      <4>1. n \in Finished(s) /\ disk'[f] = disk[f] /\ ~Writing(f)
        BY <1>2, <2>1, <2>3, <3>1, <3>4, FinishedStep, OthersKeep DEF Writing
      <4> QED
        BY <2>2, <3>2, <4>1 DEF OnDisk
    <3> QED
      BY <3>3, <3>4
  <2>8. CASE Kill(r)
    <3>1. Running(r) /\ n \in Finished(s) /\ s # r
      BY <1>2, <2>8, FinishedStep DEF Kill, Dump, Finished, Running, TypeOK
    <3>2. \A t \in Scripts : phase'[t] \notin {"open", "dump"}
      BY <2>3, <2>8, <3>1 DEF Kill, TypeOK
    <3>3. phase[r] = "dump" => At(r) # f
      BY <2>8, <3>1 DEF Kill, TornBy
    <3>4. disk'[f] = disk[f] /\ ~Writing(f)
      BY <2>1, <2>3, <2>8, <3>1, <3>3 DEF Kill, Writing, TypeOK
    <3> QED
      BY <2>2, <3>1, <3>2, <3>4 DEF OnDisk
  <2> QED
    BY <1>2, <2>4, <2>5, <2>6, <2>7, <2>8
<1> QED
  BY <1>1, <1>2 DEF Next

(* A run that got to its end left every setting of its own that no other   *)
(* invocation gives another value, and later runs of the others, and their *)
(* failures, keep it there.                                                *)
THEOREM FinishedRunsStayConfigured == Spec => []DoneMeansConfigured
<1> DEFINE IInv == ~overlapped => ConfiguredInv
<1>1. Init => IInv
  BY DEF Init, ConfiguredInv, InMemory, OnDisk, Finished, Running
<1>2. TypeOK /\ SerialInv /\ IInv /\ [Next]_vars => IInv'
  <2> SUFFICES ASSUME TypeOK, SerialInv, IInv, [Next]_vars, ~overlapped'
               PROVE  ConfiguredInv'
    OBVIOUS
  <2>1. ~overlapped
    BY OverlappedStays
  <2> QED
    BY <2>1, InMemoryStep, OnDiskStep DEF ConfiguredInv, SerialInv
<1>3. IInv => DoneMeansConfigured
  BY DEF ConfiguredInv, OnDisk, Finished, DoneMeansConfigured
<1> QED
  BY <1>1, <1>2, <1>3, TypeCorrect, SerialCorrect, PTL DEF Spec

(* Invocations for different trees and different targets dispute nothing:  *)
(* of such runs the theorem above is about every slot.                     *)
THEOREM DifferentTreesAgree ==
    ASSUME NEW s \in Scripts, NEW n \in 1 .. 4,
           \A t \in Scripts : t # s => TreeOf[t] # TreeOf[s] /\ TargetOf[t] # TargetOf[s]
    PROVE  Undisputed(s, n) = DOMAIN Ours(s, n)
<1> SUFFICES ASSUME NEW t \in Scripts, NEW m \in 1 .. 4, FileOf(t, m) = FileOf(s, n),
                    NEW slot \in DOMAIN Ours(s, n), slot \in DOMAIN Ours(t, m)
             PROVE  Ours(t, m)[slot] = Ours(s, n)[slot]
  BY DEF Undisputed
<1>1. m = n
  BY DEF FileOf, Home
<1>2. CASE t = s
  BY <1>1, <1>2
<1>3. CASE t # s
  <2>1. n = 4
    BY <1>1, <1>3 DEF FileOf
  <2>2. \A x \in Scripts : DOMAIN LinkerSlots(x) = {<<"target", TargetOf[x]>>}
    BY DEF LinkerSlots
  <2>3. Ours(s, n) = LinkerSlots(s) /\ Ours(t, m) = LinkerSlots(t)
    BY <1>1, <2>1 DEF Ours
  <2>4. slot = <<"target", TargetOf[s]>> /\ slot = <<"target", TargetOf[t]>>
    <3>1. slot \in DOMAIN LinkerSlots(s) /\ slot \in DOMAIN LinkerSlots(t)
      BY <2>3
    <3> QED
      BY <2>2, <3>1
  <2>5. slot[2] = TargetOf[s] /\ slot[2] = TargetOf[t]
    BY <2>4
  <2> QED
    BY <1>3, <2>5
<1> QED
  BY <1>2, <1>3
=============================================================================
