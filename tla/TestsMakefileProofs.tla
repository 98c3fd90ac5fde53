------------------------ MODULE TestsMakefileProofs ------------------------
(***************************************************************************)
(* Proofs about tests/Makefile for any list of programs and any -j.        *)
(***************************************************************************)
EXTENDS TestsMakefile, FiniteSetTheorems, TLAPS

-----------------------------------------------------------------------------
(* The targets.                                                            *)
Of(x) == <<"wasm", x>>

LEMMA AllTargets ==
    /\ Len(All) \in Nat \ {0} /\ DOMAIN All = 1 .. Len(All)
    /\ All[1] = Dir
    /\ \A n \in DOMAIN All : n # 1 => \E x \in Programs : All[n] = Of(x)
    /\ Targets = {Dir} \cup {Of(x) : x \in Programs}
<1>1. SRC_O = <<>>
  BY DEF SRC_O, UNAME_S
<1>2. SRC_C \in Seq(STRING) /\ DOMAIN SRC_C = 1 .. Len(SRC_C) /\ Len(SRC_C) \in Nat
  BY TestsAssumption
<1>3. SRC_WASM = [n \in 1 .. Len(SRC_C) |-> Of(SRC_C[n])]
  BY <1>2 DEF SRC_WASM, Targeting, Of
<1> DEFINE Pairs == {Dir} \cup {Of(x) : x \in Programs}
<1>4. SRC_WASM \in Seq(Pairs) /\ Len(SRC_WASM) = Len(SRC_C)
  <2>1. \A n \in 1 .. Len(SRC_C) : Of(SRC_C[n]) \in Pairs
    BY <1>2 DEF Programs, ToSet
  <2> QED
    BY <1>2, <1>3, <2>1
<1>5. All = <<Dir>> \o SRC_WASM
  BY <1>1, <1>4 DEF All
<1>6. Len(All) = Len(SRC_C) + 1 /\ DOMAIN All = 1 .. Len(SRC_C) + 1 /\ All[1] = Dir
  BY <1>2, <1>4, <1>5
<1>7. \A n \in 2 .. Len(SRC_C) + 1 : All[n] = Of(SRC_C[n - 1])
  BY <1>2, <1>3, <1>4, <1>5
<1>8. \A n \in DOMAIN All : n # 1 => \E x \in Programs : All[n] = Of(x)
  BY <1>2, <1>6, <1>7 DEF Programs, ToSet
<1>9. Targets \subseteq Pairs
  BY <1>6, <1>8 DEF Targets, ToSet
<1>10. Dir \in Targets
  BY <1>2, <1>6 DEF Targets, ToSet
<1>11. ASSUME NEW x \in Programs PROVE Of(x) \in Targets
  <2>1. PICK n \in 1 .. Len(SRC_C) : SRC_C[n] = x
    BY <1>2 DEF Programs, ToSet
  <2>2. n + 1 \in DOMAIN All /\ All[n + 1] = Of(x)
    BY <1>2, <1>6, <1>7, <2>1
  <2> QED
    BY <2>2 DEF Targets, ToSet
<1> QED
  BY <1>2, <1>6, <1>8, <1>9, <1>10, <1>11

LEMMA TargetKinds ==
    /\ Dir[1] = "dir" /\ Dir \in Targets
    /\ \A x \in Programs : Of(x) \in Targets /\ Of(x) # Dir /\ Of(x)[1] = "wasm" /\ Of(x)[2] = x
    /\ \A t \in Targets : t # Dir => t[1] = "wasm" /\ t[2] \in Programs /\ t = Of(t[2])
<1>1. Dir[1] = "dir" /\ \A x : Of(x)[1] = "wasm" /\ Of(x)[2] = x
  BY DEF Dir, Of
<1>2. \A x : Of(x) # Dir
  BY <1>1
<1>3. Dir \in Targets /\ \A x \in Programs : Of(x) \in Targets
  BY AllTargets
<1>4. ASSUME NEW t \in Targets, t # Dir PROVE t[1] = "wasm" /\ t[2] \in Programs /\ t = Of(t[2])
  <2>1. PICK x \in Programs : t = Of(x)
    BY <1>4, AllTargets
  <2> QED
    BY <1>1, <2>1
<1> QED
  BY <1>1, <1>2, <1>3, <1>4

LEMMA FiniteTargets == IsFiniteSet(Targets)
<1>1. All \in [1 .. Len(All) -> Targets]
  <2>1. All = [n \in DOMAIN All |-> All[n]]
    BY DEF All
  <2> QED
    BY <2>1, AllTargets DEF Targets, ToSet
<1>2. \A t \in Targets : \E n \in 1 .. Len(All) : All[n] = t
  BY AllTargets DEF Targets, ToSet
<1>3. ExistsSurjection(1 .. Len(All), Targets)
  BY <1>1, <1>2 DEF ExistsSurjection, Surjection
<1> QED
  BY <1>3, AllTargets, FS_NatSurjection

LEMMA FiniteActive ==
    IsFiniteSet(Active) /\ Cardinality(Active) \in Nat
<1>1. Active \in SUBSET Targets
  BY DEF Active
<1> QED
  BY <1>1, FiniteTargets, FS_Subset, FS_CardinalityType

-----------------------------------------------------------------------------
(* Type correctness.  The directory's target is made, the others compiled. *)
Recipes ==
    /\ state[Dir] \in {"idle", "mkdir", "done"}
    /\ \A t \in Targets : t # Dir => state[t] # "mkdir"

LEMMA InitType == Init => TypeOK /\ Recipes
<1> SUFFICES ASSUME Init PROVE TypeOK /\ Recipes
  OBVIOUS
<1>1. src \in 1 .. MaxVersion /\ jobs \in 1 .. MaxJobs
  BY TestsAssumption DEF Init
<1>2. wasm \in [Programs -> 0 .. MaxVersion] /\ wat \in [Programs -> 0 .. MaxVersion]
  BY TestsAssumption DEF Init
<1>3. state \in [Targets -> {"idle", "compile", "wat", "mkdir", "done", "failed"}] /\ Active = {}
  BY DEF Init, Active
<1>4. dirs \in BOOLEAN /\ broke \in BOOLEAN /\ found \in BOOLEAN /\ elf \subseteq Programs
      /\ make \in {"off", "running", "done", "failed"}
  BY DEF Init
<1>5. Recipes
  BY TargetKinds DEF Init, Recipes
<1> QED
  BY <1>1, <1>2, <1>3, <1>4, <1>5, FS_EmptySet DEF TypeOK

(* The recipes that run are fewer when one ends, one more when one starts. *)
LEMMA NoMoreRun ==
    ASSUME TypeOK, jobs' = jobs, Active' \subseteq Active
    PROVE  Cardinality(Active') <= jobs'
<1>1. Active' \in SUBSET Active
  OBVIOUS
<1>2. Cardinality(Active') <= Cardinality(Active) /\ Cardinality(Active') \in Nat
  BY <1>1, FiniteActive, FS_Subset, FS_CardinalityType
<1>3. Cardinality(Active) <= jobs /\ jobs \in 1 .. MaxJobs
  BY DEF TypeOK
<1> QED
  BY <1>2, <1>3, FiniteActive, TestsAssumption

LEMMA RecipeEnds ==
    ASSUME TypeOK, NEW t \in Targets, t \in Active, NEW s, jobs' = jobs,
           state' = [state EXCEPT ![t] = s]
    PROVE  Cardinality(Active') <= jobs'
<1>1. Active' \subseteq Active
  BY DEF Active, TypeOK
<1> QED
  BY <1>1, NoMoreRun

LEMMA NextType == TypeOK /\ Recipes /\ [Next]_vars => TypeOK' /\ Recipes'
<1> SUFFICES ASSUME TypeOK, Recipes, [Next]_vars PROVE TypeOK' /\ Recipes'
  OBVIOUS
<1> USE TestsAssumption, TargetKinds
<1>1. CASE UNCHANGED vars
  BY <1>1 DEF vars, TypeOK, Recipes, Active
<1>2. CASE Edit
  <2>1. src' \in 1 .. MaxVersion /\ make' \in {"off", "running", "done", "failed"}
    BY <1>2 DEF Edit, TypeOK
  <2>2. Active' = Active
    BY <1>2 DEF Edit, Active
  <2> QED
    BY <1>2, <2>1, <2>2 DEF Edit, TypeOK, Recipes
<1>3. CASE Invoke
  <2>1. Active' = {} /\ jobs' \in 1 .. MaxJobs
    BY <1>3 DEF Invoke, Active
  <2>2. Cardinality(Active') <= jobs'
    BY <2>1, FS_EmptySet
  <2>3. state' \in [Targets -> {"idle", "compile", "wat", "mkdir", "done", "failed"}] /\ Recipes'
    BY <1>3 DEF Invoke, Recipes
  <2> QED
    BY <1>3, <2>1, <2>2, <2>3 DEF Invoke, TypeOK
<1>4. ASSUME NEW n \in DOMAIN All, Start(n) PROVE TypeOK' /\ Recipes'
  <2>1. All[n] \in Targets
    BY DEF Targets, ToSet
  <2>2. Active' = Active \cup {All[n]}
    BY <1>4, <2>1 DEF Start, Active, TypeOK
  <2> DEFINE A == Active
             a == All[n]
  <2>3. Cardinality(A \cup {a}) = IF a \in A THEN Cardinality(A) ELSE Cardinality(A) + 1
    <3>1. IsFiniteSet(A)
      BY FiniteActive
    <3> HIDE DEF A, a
    <3> QED
      BY <3>1, FS_AddElement
  <2>4. Cardinality(Active) < jobs /\ jobs' = jobs /\ jobs \in 1 .. MaxJobs
    BY <1>4 DEF Start, TypeOK
  <2>5. Cardinality(Active') = Cardinality(A \cup {a})
    BY <2>2
  <2>6. Cardinality(Active') <= jobs'
    <3>1. Cardinality(A) \in Nat /\ Cardinality(A) < jobs /\ jobs' = jobs /\ jobs \in Nat
      BY <2>4, FiniteActive
    <3> HIDE DEF A, a
    <3> QED
      BY <2>3, <2>5, <3>1
  <2>7. state' \in [Targets -> {"idle", "compile", "wat", "mkdir", "done", "failed"}] /\ Recipes'
    BY <1>4, <2>1 DEF Start, TypeOK, Recipes
  <2> QED
    BY <1>4, <2>6, <2>7 DEF Start, TypeOK
<1>5. CASE Mkdir
  <2>1. Cardinality(Active') <= jobs'
    BY <1>5, RecipeEnds DEF Mkdir, Active
  <2>2. Recipes'
    BY <1>5 DEF Mkdir, Recipes, TypeOK
  <2> QED
    BY <1>5, <2>1, <2>2 DEF Mkdir, TypeOK
<1>6. ASSUME NEW t \in Targets, Compile(t) PROVE TypeOK' /\ Recipes'
  <2>1. t # Dir
    BY <1>6 DEF Compile, Recipes
  <2>2. Active' \subseteq Active
    BY <1>6 DEF Compile, Active, TypeOK
  <2>3. Cardinality(Active') <= jobs'
    BY <1>6, <2>2, NoMoreRun DEF Compile
  <2>4. wasm' \in [Programs -> 0 .. MaxVersion] /\ elf' \subseteq Programs
    BY <1>6, <2>1 DEF Compile, TypeOK
  <2>5. Recipes'
    BY <1>6, <2>1 DEF Compile, Recipes, TypeOK
  <2> QED
    BY <1>6, <2>3, <2>4, <2>5 DEF Compile, TypeOK
<1>7. ASSUME NEW t \in Targets, CompileFails(t) \/ WatFails(t) PROVE TypeOK' /\ Recipes'
  <2>1. t # Dir
    BY <1>7 DEF CompileFails, WatFails, Recipes
  <2>2. Cardinality(Active') <= jobs'
    BY <1>7, RecipeEnds DEF CompileFails, WatFails, Active
  <2>3. broke' \in BOOLEAN
    BY <1>7 DEF CompileFails, WatFails, TypeOK
  <2>4. Recipes'
    BY <1>7, <2>1 DEF CompileFails, WatFails, Recipes, TypeOK
  <2> QED
    BY <1>7, <2>2, <2>3, <2>4 DEF CompileFails, WatFails, TypeOK
<1>8. ASSUME NEW t \in Targets, Wat(t) PROVE TypeOK' /\ Recipes'
  <2>1. t # Dir
    BY <1>8 DEF Wat, Recipes
  <2>2. Cardinality(Active') <= jobs'
    BY <1>8, RecipeEnds DEF Wat, Active
  <2>3. wat' \in [Programs -> 0 .. MaxVersion]
    BY <1>8, <2>1 DEF Wat, TypeOK
  <2>4. Recipes'
    BY <1>8, <2>1 DEF Wat, Recipes, TypeOK
  <2> QED
    BY <1>8, <2>2, <2>3, <2>4 DEF Wat, TypeOK
<1>9. CASE Exits
  BY <1>9 DEF Exits, TypeOK, Recipes, Active
<1>10. CASE Clean
  <2>1. wasm' \in [Programs -> 0 .. MaxVersion] /\ wat' \in [Programs -> 0 .. MaxVersion]
    BY <1>10 DEF Clean
  <2> QED
    BY <1>10, <2>1 DEF Clean, TypeOK, Recipes, Active
<1> QED
  BY <1>1, <1>2, <1>3, <1>4, <1>5, <1>6, <1>7, <1>8, <1>9, <1>10 DEF Next

(* Every reachable state is well typed, and make never has more recipes    *)
(* running than the jobs it was given.                                     *)
THEOREM TypeCorrect == Spec => []TypeOK
BY InitType, NextType, PTL DEF Spec

LEMMA RecipesCorrect == Spec => [](TypeOK /\ Recipes)
BY InitType, NextType, PTL DEF Spec

-----------------------------------------------------------------------------
(* Success.  A target that has been compiled in this run was compiled from *)
(* the sources of this run.                                                *)
BuiltFromSource ==
    make \in {"running", "done"} => \A x \in Programs :
        /\ state[Of(x)] \in {"wat", "done"} => wasm[x] = src
        /\ state[Of(x)] = "done" => wat[x] = src

AllDone == make = "done" => \A t \in Targets : state[t] = "done"

LEMMA BuiltStep ==
    TypeOK /\ Recipes /\ BuiltFromSource /\ AllDone /\ [Next]_vars => BuiltFromSource' /\ AllDone'
<1> SUFFICES ASSUME TypeOK, Recipes, BuiltFromSource, AllDone, [Next]_vars
             PROVE  BuiltFromSource' /\ AllDone'
  OBVIOUS
<1> USE TargetKinds DEF BuiltFromSource, AllDone
<1>1. CASE UNCHANGED vars
  BY <1>1 DEF vars
<1>2. CASE Edit \/ Clean
  BY <1>2 DEF Edit, Clean
<1>3. CASE Invoke
  BY <1>3 DEF Invoke
<1>4. ASSUME NEW n \in DOMAIN All, Start(n) PROVE BuiltFromSource' /\ AllDone'
  <2>1. All[n] \in Targets
    BY DEF Targets, ToSet
  <2>2. \A x \in Programs : state'[Of(x)] \in {"wat", "done"} => state'[Of(x)] = state[Of(x)]
    BY <1>4, <2>1 DEF Start, TypeOK
  <2> QED
    BY <1>4, <2>2 DEF Start
<1>5. CASE Mkdir
  <2>1. \A x \in Programs : state'[Of(x)] = state[Of(x)]
    BY <1>5 DEF Mkdir, TypeOK
  <2>2. make # "done"
    BY <1>5 DEF Mkdir
  <2> QED
    BY <1>5, <2>1, <2>2 DEF Mkdir
<1>6. ASSUME NEW t \in Targets, Compile(t) \/ CompileFails(t) \/ Wat(t) \/ WatFails(t)
      PROVE  BuiltFromSource' /\ AllDone'
  <2>1. PICK x \in Programs : t = Of(x)
    BY <1>6 DEF Compile, CompileFails, Wat, WatFails, Recipes
  <2>2. \A y \in Programs : y # x => /\ state'[Of(y)] = state[Of(y)]
                                     /\ wasm'[y] = wasm[y] /\ wat'[y] = wat[y]
    <3>1. \A y \in Programs : y # x => Of(y) # Of(x)
      OBVIOUS
    <3> QED
      BY <1>6, <2>1, <3>1 DEF Compile, CompileFails, Wat, WatFails, TypeOK
  <2>4. make # "done" /\ make' = make /\ src' = src
    BY <1>6 DEF Compile, CompileFails, Wat, WatFails
  <2>3. make = "running" =>
        /\ state'[t] \in {"wat", "done"} => wasm'[x] = src
        /\ state'[t] = "done" => wat'[x] = src
    <3>1. CASE Compile(t)
      BY <2>1, <3>1 DEF Compile, TypeOK
    <3>2. CASE CompileFails(t) \/ WatFails(t)
      BY <3>2 DEF CompileFails, WatFails, TypeOK
    <3>3. CASE Wat(t)
      <4>1. wasm'[x] = wasm[x] /\ wat'[x] = wasm[x] /\ state[t] = "wat"
        BY <2>1, <3>3 DEF Wat, TypeOK
      <4> QED
        BY <1>6, <2>1, <2>4, <4>1
    <3> QED
      BY <1>6, <3>1, <3>2, <3>3
  <2> QED
    BY <2>1, <2>2, <2>3, <2>4
<1>7. CASE Exits
  BY <1>7 DEF Exits
<1> QED
  BY <1>1, <1>2, <1>3, <1>4, <1>5, <1>6, <1>7 DEF Next

(* Whatever earlier runs, failures, edits and removals left, a make that   *)
(* succeeds has built every program and its text from its sources.         *)
THEOREM SuccessIsComplete == Spec => []SuccessMeansAllBuilt
<1>1. Init => BuiltFromSource /\ AllDone
  BY DEF Init, BuiltFromSource, AllDone
<1>2. BuiltFromSource /\ AllDone => SuccessMeansAllBuilt
  BY TargetKinds DEF BuiltFromSource, AllDone, SuccessMeansAllBuilt
<1> QED
  BY <1>1, <1>2, BuiltStep, RecipesCorrect, PTL DEF Spec

-----------------------------------------------------------------------------
(* The race.  The directory's target starts first; a run that found the    *)
(* directories keeps them; one recipe at a time waits for mkdir.           *)
DirFirst ==
    make = "running" =>
        /\ \A t \in Targets : state[t] # "idle" => state[Dir] # "idle"
        /\ state[Dir] = "done" \/ found => dirs
        /\ jobs = 1 => \A t \in Targets : state[t] = "compile" => state[Dir] = "done"

FailedBy ==
    make \in {"running", "failed"} /\ ~broke /\ (\E t \in Targets : state[t] = "failed") =>
        ~found /\ jobs > 1

Settled ==
    make = "failed" => dirs /\ \E t \in Targets : state[t] = "failed"

Race == DirFirst /\ FailedBy /\ Settled

LEMMA AtMostOne ==
    ASSUME NEW A, IsFiniteSet(A), Cardinality(A) <= 1, NEW t \in A, NEW u \in A PROVE t = u
<1>1. Cardinality(A) \in {0, 1}
  BY FS_CardinalityType
<1>2. A = {} \/ \E x : A = {x}
  BY <1>1, FS_EmptySet, FS_Singleton
<1> QED
  BY <1>2

LEMMA DirFirstStep ==
    TypeOK /\ Recipes /\ TypeOK' /\ DirFirst /\ [Next]_vars => DirFirst'
<1> SUFFICES ASSUME TypeOK, Recipes, TypeOK', DirFirst, [Next]_vars, make' = "running"
             PROVE  /\ \A t \in Targets : state'[t] # "idle" => state'[Dir] # "idle"
                    /\ state'[Dir] = "done" \/ found' => dirs'
                    /\ jobs' = 1 => \A t \in Targets : state'[t] = "compile" => state'[Dir] = "done"
  BY DEF DirFirst
<1> USE TargetKinds DEF DirFirst
<1>1. CASE UNCHANGED vars
  BY <1>1 DEF vars
<1>2. CASE Edit \/ Clean \/ Exits
  BY <1>2 DEF Edit, Clean, Exits
<1>3. CASE Invoke
  BY <1>3 DEF Invoke
<1>4. ASSUME NEW n \in DOMAIN All, Start(n)
      PROVE  /\ \A t \in Targets : state'[t] # "idle" => state'[Dir] # "idle"
             /\ state'[Dir] = "done" \/ found' => dirs'
             /\ jobs' = 1 => \A t \in Targets : state'[t] = "compile" => state'[Dir] = "done"
  <2>1. All[n] \in Targets /\ state[All[n]] = "idle" /\ make = "running"
    BY <1>4 DEF Start, Targets, ToSet
  <2>2. \/ n = 1 /\ All[n] = Dir
        \/ n # 1 /\ All[n] # Dir /\ state[Dir] # "idle"
    <3>1. CASE n = 1
      BY <3>1, AllTargets
    <3>2. CASE n # 1
      <4>1. 1 \in 1 .. n - 1
        BY <3>2, AllTargets
      <4> QED
        BY <1>4, <3>2, <4>1, AllTargets DEF Start
    <3> QED
      BY <3>1, <3>2
  <2>3. state'[Dir] # "idle" /\ (state'[Dir] = "done" => state[Dir] = "done")
    BY <1>4, <2>1, <2>2 DEF Start, TypeOK
  <2>4. jobs = 1 => \A t \in Targets : state'[t] = "compile" => state'[Dir] = "done"
    <3>1. SUFFICES ASSUME jobs = 1, NEW t \in Targets, state'[t] = "compile"
                   PROVE  state'[Dir] = "done"
      OBVIOUS
    <3>2. t # Dir
      BY <1>4, <2>1, <2>2, <3>1 DEF Start, TypeOK, Recipes
    <3>3. state'[Dir] # "mkdir"
      <4>1. state'[Dir] = "mkdir" => Dir \in Active' /\ t \in Active'
        BY <3>1 DEF Active
      <4>2. Dir \in Active' /\ t \in Active' => t = Dir
        <5>1. jobs' = 1
          BY <1>4, <3>1 DEF Start
        <5>2. Cardinality(Active') <= 1 /\ Active' \in SUBSET Targets
          BY <5>1 DEF TypeOK, Active
        <5> DEFINE A == Active'
        <5>3. IsFiniteSet(A) /\ Cardinality(A) <= 1
          BY <5>2, FiniteTargets, FS_Subset
        <5> HIDE DEF A
        <5>4. Dir \in A /\ t \in A => t = Dir
          BY <5>3, AtMostOne
        <5> QED
          BY <5>4 DEF A
      <4> QED
        BY <3>2, <4>1, <4>2
    <3>4. state'[Dir] \in {"idle", "mkdir", "done"}
      BY <1>4, <2>1, <2>2 DEF Start, TypeOK, Recipes
    <3> QED
      BY <2>3, <3>3, <3>4
  <2> QED
    BY <1>4, <2>1, <2>3, <2>4 DEF Start
<1>5. CASE Mkdir
  BY <1>5 DEF Mkdir, TypeOK
<1>6. ASSUME NEW t \in Targets, Compile(t) \/ CompileFails(t) \/ Wat(t) \/ WatFails(t)
      PROVE  /\ \A u \in Targets : state'[u] # "idle" => state'[Dir] # "idle"
             /\ state'[Dir] = "done" \/ found' => dirs'
             /\ jobs' = 1 => \A u \in Targets : state'[u] = "compile" => state'[Dir] = "done"
  <2>1. state[t] # "idle" /\ t # Dir
    BY <1>6 DEF Compile, CompileFails, Wat, WatFails, Recipes
  <2>2. UNCHANGED <<make, jobs, dirs, found>> /\ state'[Dir] = state[Dir]
    BY <1>6, <2>1 DEF Compile, CompileFails, Wat, WatFails, TypeOK
  <2>3. \A u \in Targets : /\ state'[u] # "idle" => state[u] # "idle"
                           /\ state'[u] = "compile" => state[u] = "compile"
    BY <1>6, <2>1 DEF Compile, CompileFails, Wat, WatFails, TypeOK
  <2> QED
    BY <2>2, <2>3
<1> QED
  BY <1>1, <1>2, <1>3, <1>4, <1>5, <1>6 DEF Next

LEMMA FailedByStep ==
    TypeOK /\ Recipes /\ Race /\ [Next]_vars => FailedBy'
<1> SUFFICES ASSUME TypeOK, Recipes, Race, [Next]_vars,
                    make' \in {"running", "failed"}, ~broke',
                    NEW t \in Targets, state'[t] = "failed"
             PROVE  ~found' /\ jobs' > 1
  BY DEF FailedBy
<1> USE TargetKinds DEF Race, FailedBy
<1>1. CASE UNCHANGED vars
  BY <1>1 DEF vars
<1>2. CASE Edit \/ Clean
  BY <1>2 DEF Edit, Clean
<1>3. CASE Invoke
  BY <1>3 DEF Invoke
<1>4. ASSUME NEW n \in DOMAIN All, Start(n) PROVE ~found' /\ jobs' > 1
  <2>1. state[t] = "failed"
    BY <1>4 DEF Start, TypeOK
  <2> QED
    BY <1>4, <2>1 DEF Start
<1>5. CASE Mkdir
  BY <1>5 DEF Mkdir, TypeOK
<1>6. ASSUME NEW u \in Targets, Compile(u) \/ Wat(u) \/ WatFails(u) PROVE ~found' /\ jobs' > 1
  BY <1>6 DEF Compile, Wat, WatFails, TypeOK
<1>7. ASSUME NEW u \in Targets, CompileFails(u) PROVE ~found' /\ jobs' > 1
  <2>1. ~dirs /\ ~broke /\ state[u] = "compile" /\ make' = make
    BY <1>7 DEF CompileFails, TypeOK
  <2>2. CASE make = "running"
    <3>1. jobs # 1 /\ ~found
      BY <2>1, <2>2 DEF DirFirst
    <3>2. jobs \in Nat /\ jobs > 0
      BY DEF TypeOK
    <3> QED
      BY <1>7, <3>1, <3>2 DEF CompileFails
  <2>3. CASE make = "failed"
    BY <1>7, <2>1, <2>3 DEF CompileFails, Settled
  <2> QED
    BY <2>1, <2>2, <2>3
<1>8. CASE Exits
  BY <1>8 DEF Exits
<1> QED
  BY <1>1, <1>2, <1>3, <1>4, <1>5, <1>6, <1>7, <1>8 DEF Next

LEMMA SettledStep ==
    TypeOK /\ Recipes /\ Race /\ [Next]_vars => Settled'
<1> SUFFICES ASSUME TypeOK, Recipes, Race, [Next]_vars, make' = "failed"
             PROVE  dirs' /\ \E t \in Targets : state'[t] = "failed"
  BY DEF Settled
<1> USE TargetKinds DEF Race, Settled
<1>1. CASE UNCHANGED vars
  BY <1>1 DEF vars
<1>2. CASE Edit \/ Clean \/ Invoke
  BY <1>2 DEF Edit, Clean, Invoke
<1>3. ASSUME NEW n \in DOMAIN All, Start(n)
      PROVE  dirs' /\ \E t \in Targets : state'[t] = "failed"
  BY <1>3 DEF Start
<1>4. CASE Mkdir
  BY <1>4 DEF Mkdir, Recipes, TypeOK
<1>5. ASSUME NEW u \in Targets, Compile(u) \/ CompileFails(u) \/ Wat(u) \/ WatFails(u)
      PROVE  dirs' /\ \E t \in Targets : state'[t] = "failed"
  <2>1. make = "failed" /\ dirs' = dirs
    BY <1>5 DEF Compile, CompileFails, Wat, WatFails
  <2>2. PICK t \in Targets : state[t] = "failed"
    BY <2>1
  <2>3. state'[t] = "failed"
    BY <1>5, <2>2 DEF Compile, CompileFails, Wat, WatFails, TypeOK
  <2> QED
    BY <2>1, <2>3
<1>6. CASE Exits
  <2>1. PICK t \in Targets : state[t] = "failed"
    BY <1>6 DEF Exits
  <2>2. state[Dir] \in {"mkdir", "done"} /\ make = "running"
    BY <1>6, <2>1 DEF Exits, DirFirst, Recipes
  <2>3. state[Dir] # "mkdir"
    BY <1>6 DEF Exits, Active
  <2> QED
    BY <1>6, <2>1, <2>2, <2>3 DEF Exits, DirFirst
<1> QED
  BY <1>1, <1>2, <1>3, <1>4, <1>5, <1>6 DEF Next

(* A make in which no tool fails of itself fails only when several recipes *)
(* ran at a time and the directories were not there; they are now.         *)
THEOREM RaceIsFirstParallelBuild == Spec => []OnlyFirstParallelBuildRaces
<1>1. Init => Race
  BY DEF Init, Race, DirFirst, FailedBy, Settled
<1>2. TypeOK /\ Recipes /\ TypeOK' /\ Race /\ [Next]_vars => Race'
  BY DirFirstStep, FailedByStep, SettledStep DEF Race
<1>3. Race => OnlyFirstParallelBuildRaces
  BY DEF Race, FailedBy, Settled, OnlyFirstParallelBuildRaces
<1> QED
  BY <1>1, <1>2, <1>3, RecipesCorrect, PTL DEF Spec
=============================================================================
