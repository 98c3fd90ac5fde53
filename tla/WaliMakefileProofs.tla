------------------------- MODULE WaliMakefileProofs -------------------------
(***************************************************************************)
(* Proofs about the top-level Makefile for any goals, any -j, any set of   *)
(* supported versions and any number of updates.                           *)
(***************************************************************************)
EXTENDS WaliMakefile, FiniteSetTheorems, TLAPS

-----------------------------------------------------------------------------
(* The rules.                                                              *)
Cleaners == {"clean-runtime", "clean-libs", "clean", "clean-llvm", "clean-all"}
Builders == {"build_dir", "musl_config", "libc", "iwasm_build_dir", "iwasm", "llvm-base",
             "wali-compiler", "libcxx", "tests", "wamrc_build_dir", "wamrc", "rustc", "all"}

LEMMA AllTargets == Targets = Builders \cup Cleaners
<1>1. DOMAIN Order = 1 .. 18
  BY DEF Order
<1>2. Targets = {Order[i] : i \in 1 .. 18}
  BY <1>1 DEF Targets, ToSet
<1>3. \A i \in 1 .. 18 : Order[i] \in Builders \cup Cleaners
  BY DEF Order, Builders, Cleaners
<1>4. \A t \in Builders \cup Cleaners : \E i \in 1 .. 18 : Order[i] = t
  BY DEF Order, Builders, Cleaners
<1> QED
  BY <1>2, <1>3, <1>4

(* Where there are few lines.                                              *)
LEMMA OneOf1 ==
    ASSUME NEW a, NEW i \in 1 .. Len(<<a>>)
    PROVE  <<a>>[i] \in {a}
  OBVIOUS

LEMMA OneOf2 ==
    ASSUME NEW a, NEW b, NEW i \in 1 .. Len(<<a, b>>)
    PROVE  <<a, b>>[i] \in {a, b}
  OBVIOUS

LEMMA OneOf3 ==
    ASSUME NEW a, NEW b, NEW c, NEW i \in 1 .. Len(<<a, b, c>>)
    PROVE  <<a, b, c>>[i] \in {a, b, c}
  OBVIOUS

LEMMA OneOf4 ==
    ASSUME NEW a, NEW b, NEW c, NEW d, NEW i \in 1 .. Len(<<a, b, c, d>>)
    PROVE  <<a, b, c, d>>[i] \in {a, b, c, d}
  OBVIOUS

LEMMA RecipeLength ==
    ASSUME NEW t \in Targets
    PROVE  Len(Recipe(t)) \in Nat /\ (Recipe(t) # <<>> => Len(Recipe(t)) >= 1)
<1>1. CASE t \in {"build_dir", "iwasm_build_dir", "wamrc_build_dir"}
  <2>1. Recipe(t) = <<"mkdir">>
    BY <1>1 DEF Recipe, LibcRecipe
  <2>2. Len(<<"mkdir">>) = 1
    OBVIOUS
  <2>3. Len(Recipe(t)) = 1
    BY <2>1, <2>2, Zenon
  <2> QED
    BY <2>3
<1>2. CASE t = "musl_config"
  <2>1. Recipe(t) = <<"config">>
    BY <1>2 DEF Recipe, LibcRecipe
  <2>2. Len(<<"config">>) = 1
    OBVIOUS
  <2>3. Len(Recipe(t)) = 1
    BY <2>1, <2>2, Zenon
  <2> QED
    BY <2>3
<1>3. CASE t = "libc"
  <2>1. Recipe(t) = <<"make musl", "mkdir", "cp crt">>
    BY <1>3 DEF Recipe, LibcRecipe
  <2>2. Len(<<"make musl", "mkdir", "cp crt">>) = 3
    OBVIOUS
  <2>3. Len(Recipe(t)) = 3
    BY <2>1, <2>2, Zenon
  <2> QED
    BY <2>3
<1>4. CASE t = "libcxx"
  <2>1. Recipe(t) = <<"cmake libcxx", "make libcxx">>
    BY <1>4 DEF Recipe, LibcRecipe
  <2>2. Len(<<"cmake libcxx", "make libcxx">>) = 2
    OBVIOUS
  <2>3. Len(Recipe(t)) = 2
    BY <2>1, <2>2, Zenon
  <2> QED
    BY <2>3
<1>5. CASE t = "iwasm"
  <2>1. Recipe(t) = <<"cmake iwasm", "ninja iwasm", "ln">>
    BY <1>5 DEF Recipe, LibcRecipe
  <2>2. Len(<<"cmake iwasm", "ninja iwasm", "ln">>) = 3
    OBVIOUS
  <2>3. Len(Recipe(t)) = 3
    BY <2>1, <2>2, Zenon
  <2> QED
    BY <2>3
<1>6. CASE t = "wamrc"
  <2>1. Recipe(t) = <<"build wamrc llvm", "cmake wamrc", "ninja wamrc", "ln">>
    BY <1>6 DEF Recipe, LibcRecipe
  <2>2. Len(<<"build wamrc llvm", "cmake wamrc", "ninja wamrc", "ln">>) = 4
    OBVIOUS
  <2>3. Len(Recipe(t)) = 4
    BY <2>1, <2>2, Zenon
  <2> QED
    BY <2>3
<1>7. CASE t = "llvm-base"
  <2>1. Recipe(t) = <<"cmake llvm", "ninja llvm">>
    BY <1>7 DEF Recipe, LibcRecipe
  <2>2. Len(<<"cmake llvm", "ninja llvm">>) = 2
    OBVIOUS
  <2>3. Len(Recipe(t)) = 2
    BY <2>1, <2>2, Zenon
  <2> QED
    BY <2>3
<1>8. CASE t = "wali-compiler"
  <2>1. Recipe(t) = <<"mkdir", "cp rt">>
    BY <1>8 DEF Recipe, LibcRecipe
  <2>2. Len(<<"mkdir", "cp rt">>) = 2
    OBVIOUS
  <2>3. Len(Recipe(t)) = 2
    BY <2>1, <2>2, Zenon
  <2> QED
    BY <2>3
<1>9. CASE t = "rustc"
  <2>1. Recipe(t) = <<"x setup", "rustc_config", "x build", "toolchain link">>
    BY <1>9 DEF Recipe, LibcRecipe
  <2>2. Len(<<"x setup", "rustc_config", "x build", "toolchain link">>) = 4
    OBVIOUS
  <2>3. Len(Recipe(t)) = 4
    BY <2>1, <2>2, Zenon
  <2> QED
    BY <2>3
<1>10. CASE t = "tests"
  <2>1. Recipe(t) = <<"make tests">>
    BY <1>10 DEF Recipe, LibcRecipe
  <2>2. Len(<<"make tests">>) = 1
    OBVIOUS
  <2>3. Len(Recipe(t)) = 1
    BY <2>1, <2>2, Zenon
  <2> QED
    BY <2>3
<1>11. CASE t \in {"clean-runtime", "clean-llvm", "clean"}
  <2>1. Recipe(t) = <<t>>
    BY <1>11 DEF Recipe, LibcRecipe
  <2>2. Len(<<t>>) = 1
    OBVIOUS
  <2>3. Len(Recipe(t)) = 1
    BY <2>1, <2>2, Zenon
  <2> QED
    BY <2>3
<1>12. CASE t = "clean-libs"
  <2>1. Recipe(t) = <<"clean musl", "rm sysroot", "rm libcxx">>
    BY <1>12 DEF Recipe, LibcRecipe
  <2>2. Len(<<"clean musl", "rm sysroot", "rm libcxx">>) = 3
    OBVIOUS
  <2>3. Len(Recipe(t)) = 3
    BY <2>1, <2>2, Zenon
  <2> QED
    BY <2>3
<1>13. CASE t \in {"all", "clean-all"}
  <2>1. Recipe(t) = <<>>
    BY <1>13 DEF Recipe
  <2> QED
    BY <2>1
<1> QED
  BY <1>1, <1>2, <1>3, <1>4, <1>5, <1>6, <1>7, <1>8, <1>9, <1>10, <1>11, <1>12, <1>13, AllTargets DEF Builders, Cleaners

(* Who makes the products the properties are about, and by which command.  *)
Watched == {"config", "lib", "crt", "crtTarget", "libcxx", "clang", "rt", "tests", "rustStage1"}

Maker == [p \in Watched |->
    CASE p = "config" -> "config"
      [] p \in {"lib", "crt"} -> "make musl"
      [] p = "crtTarget" -> "cp crt"
      [] p = "libcxx" -> "make libcxx"
      [] p = "clang" -> "ninja llvm"
      [] p = "rt" -> "cp rt"
      [] p = "tests" -> "make tests"
      [] OTHER -> "x build"]

Owner == [p \in Watched |->
    CASE p = "config" -> "musl_config"
      [] p \in {"lib", "crt", "crtTarget"} -> "libc"
      [] p = "clang" -> "llvm-base"
      [] p = "rt" -> "wali-compiler"
      [] p = "rustStage1" -> "rustc"
      [] OTHER -> p]

LEMMA MakersWrite ==
    ASSUME NEW c, NEW p \in Watched
    PROVE  /\ p \in Writes(c) <=> c = Maker[p]
           /\ p \in Removes(c) => c \in {"clean-llvm", "rm sysroot", "rm libcxx", "clean"}
  BY DEF Watched, Maker, Writes, Removes

LEMMA OwnersMake ==
    ASSUME NEW t \in Targets, NEW n \in 1 .. Len(Recipe(t))
    PROVE  LET c == Recipe(t)[n] IN
           /\ c \in {"config"} => t = "musl_config"
           /\ c \in {"make musl", "cp crt"} => t = "libc"
           /\ c \in {"cmake libcxx", "make libcxx"} => t = "libcxx"
           /\ c \in {"ninja llvm"} => t = "llvm-base"
           /\ c \in {"cp rt"} => t = "wali-compiler"
           /\ c \in {"make tests"} => t = "tests"
           /\ c \in {"x build"} => t = "rustc"
           /\ c \in {"clean-llvm", "rm sysroot", "rm libcxx", "clean"} => t \in Cleaners
<1> DEFINE c == Recipe(t)[n]
<1>1. ASSUME t = "build_dir" PROVE c \in {"mkdir"}
  <2>1. Recipe(t) = <<"mkdir">>
    BY <1>1 DEF Recipe, LibcRecipe
  <2> QED
    BY <2>1, OneOf1
<1>2. ASSUME t = "musl_config" PROVE c \in {"config"}
  <2>1. Recipe(t) = <<"config">>
    BY <1>2 DEF Recipe, LibcRecipe
  <2> QED
    BY <2>1, OneOf1
<1>3. ASSUME t = "libc" PROVE c \in {"make musl", "mkdir", "cp crt"}
  <2>1. Recipe(t) = <<"make musl", "mkdir", "cp crt">>
    BY <1>3 DEF Recipe, LibcRecipe
  <2> QED
    BY <2>1, OneOf3
<1>4. ASSUME t = "iwasm_build_dir" PROVE c \in {"mkdir"}
  <2>1. Recipe(t) = <<"mkdir">>
    BY <1>4 DEF Recipe, LibcRecipe
  <2> QED
    BY <2>1, OneOf1
<1>5. ASSUME t = "iwasm" PROVE c \in {"cmake iwasm", "ninja iwasm", "ln"}
  <2>1. Recipe(t) = <<"cmake iwasm", "ninja iwasm", "ln">>
    BY <1>5 DEF Recipe, LibcRecipe
  <2> QED
    BY <2>1, OneOf3
<1>6. ASSUME t = "llvm-base" PROVE c \in {"cmake llvm", "ninja llvm"}
  <2>1. Recipe(t) = <<"cmake llvm", "ninja llvm">>
    BY <1>6 DEF Recipe, LibcRecipe
  <2> QED
    BY <2>1, OneOf2
<1>7. ASSUME t = "wali-compiler" PROVE c \in {"mkdir", "cp rt"}
  <2>1. Recipe(t) = <<"mkdir", "cp rt">>
    BY <1>7 DEF Recipe, LibcRecipe
  <2> QED
    BY <2>1, OneOf2
<1>8. ASSUME t = "libcxx" PROVE c \in {"cmake libcxx", "make libcxx"}
  <2>1. Recipe(t) = <<"cmake libcxx", "make libcxx">>
    BY <1>8 DEF Recipe, LibcRecipe
  <2> QED
    BY <2>1, OneOf2
<1>9. ASSUME t = "tests" PROVE c \in {"make tests"}
  <2>1. Recipe(t) = <<"make tests">>
    BY <1>9 DEF Recipe, LibcRecipe
  <2> QED
    BY <2>1, OneOf1
<1>10. ASSUME t = "wamrc_build_dir" PROVE c \in {"mkdir"}
  <2>1. Recipe(t) = <<"mkdir">>
    BY <1>10 DEF Recipe, LibcRecipe
  <2> QED
    BY <2>1, OneOf1
<1>11. ASSUME t = "wamrc" PROVE c \in {"build wamrc llvm", "cmake wamrc", "ninja wamrc", "ln"}
  <2>1. Recipe(t) = <<"build wamrc llvm", "cmake wamrc", "ninja wamrc", "ln">>
    BY <1>11 DEF Recipe, LibcRecipe
  <2> QED
    BY <2>1, OneOf4
<1>12. ASSUME t = "rustc" PROVE c \in {"x setup", "rustc_config", "x build", "toolchain link"}
  <2>1. Recipe(t) = <<"x setup", "rustc_config", "x build", "toolchain link">>
    BY <1>12 DEF Recipe, LibcRecipe
  <2> QED
    BY <2>1, OneOf4
<1>13. ASSUME t = "clean-runtime" PROVE c \in {"clean-runtime"}
  <2>1. Recipe(t) = <<"clean-runtime">>
    BY <1>13 DEF Recipe, LibcRecipe
  <2> QED
    BY <2>1, OneOf1
<1>14. ASSUME t = "clean-libs" PROVE c \in {"clean musl", "rm sysroot", "rm libcxx"}
  <2>1. Recipe(t) = <<"clean musl", "rm sysroot", "rm libcxx">>
    BY <1>14 DEF Recipe, LibcRecipe
  <2> QED
    BY <2>1, OneOf3
<1>15. ASSUME t = "clean" PROVE c \in {"clean"}
  <2>1. Recipe(t) = <<"clean">>
    BY <1>15 DEF Recipe, LibcRecipe
  <2> QED
    BY <2>1, OneOf1
<1>16. ASSUME t = "clean-llvm" PROVE c \in {"clean-llvm"}
  <2>1. Recipe(t) = <<"clean-llvm">>
    BY <1>16 DEF Recipe, LibcRecipe
  <2> QED
    BY <2>1, OneOf1
<1>17. t \notin {"all", "clean-all"}
  BY DEF Recipe
<1> HIDE DEF c
<1>18. t \in Builders \cup Cleaners
  BY AllTargets
<1>19. t \in Cleaners \/ c \notin {"clean-llvm", "rm sysroot", "rm libcxx", "clean"}
  BY <1>1, <1>2, <1>3, <1>4, <1>5, <1>6, <1>7, <1>8, <1>9, <1>10, <1>11, <1>12, <1>13, <1>14, <1>15, <1>16, <1>17, <1>18 DEF Builders
<1>20. c \in {"config"} => t = "musl_config"
  BY <1>1, <1>2, <1>3, <1>4, <1>5, <1>6, <1>7, <1>8, <1>9, <1>10, <1>11, <1>12, <1>13, <1>14, <1>15, <1>16, <1>17, <1>18 DEF Builders, Cleaners
<1>21. c \in {"make musl", "cp crt"} => t = "libc"
  BY <1>1, <1>2, <1>3, <1>4, <1>5, <1>6, <1>7, <1>8, <1>9, <1>10, <1>11, <1>12, <1>13, <1>14, <1>15, <1>16, <1>17, <1>18 DEF Builders, Cleaners
<1>22. c \in {"cmake libcxx", "make libcxx"} => t = "libcxx"
  BY <1>1, <1>2, <1>3, <1>4, <1>5, <1>6, <1>7, <1>8, <1>9, <1>10, <1>11, <1>12, <1>13, <1>14, <1>15, <1>16, <1>17, <1>18 DEF Builders, Cleaners
<1>23. c \in {"ninja llvm"} => t = "llvm-base"
  BY <1>1, <1>2, <1>3, <1>4, <1>5, <1>6, <1>7, <1>8, <1>9, <1>10, <1>11, <1>12, <1>13, <1>14, <1>15, <1>16, <1>17, <1>18 DEF Builders, Cleaners
<1>24. c \in {"cp rt"} => t = "wali-compiler"
  BY <1>1, <1>2, <1>3, <1>4, <1>5, <1>6, <1>7, <1>8, <1>9, <1>10, <1>11, <1>12, <1>13, <1>14, <1>15, <1>16, <1>17, <1>18 DEF Builders, Cleaners
<1>25. c \in {"make tests"} => t = "tests"
  BY <1>1, <1>2, <1>3, <1>4, <1>5, <1>6, <1>7, <1>8, <1>9, <1>10, <1>11, <1>12, <1>13, <1>14, <1>15, <1>16, <1>17, <1>18 DEF Builders, Cleaners
<1>26. c \in {"x build"} => t = "rustc"
  BY <1>1, <1>2, <1>3, <1>4, <1>5, <1>6, <1>7, <1>8, <1>9, <1>10, <1>11, <1>12, <1>13, <1>14, <1>15, <1>16, <1>17, <1>18 DEF Builders, Cleaners
<1> QED
  BY <1>19, <1>20, <1>21, <1>22, <1>23, <1>24, <1>25, <1>26 DEF c

LEMMA OwnersWrite ==
    ASSUME NEW t \in Targets, NEW n \in 1 .. Len(Recipe(t)), NEW p \in Watched
    PROVE  /\ p \in Writes(Recipe(t)[n]) => t = Owner[p]
           /\ p \in Removes(Recipe(t)[n]) => t \in Cleaners
<1> DEFINE c == Recipe(t)[n]
<1>1. p \in Removes(c) => t \in Cleaners
  BY MakersWrite, OwnersMake
<1>2. p \in Writes(c) => c = Maker[p]
  BY MakersWrite
<1>3. c = Maker[p] => t = Owner[p]
  BY OwnersMake DEF Maker, Owner, Watched
<1> QED
  BY <1>1, <1>2, <1>3

LEMMA NeededWithin ==
    ASSUME NEW S, \A t \in S : Prereqs(t) \subseteq S, NEW g \in S
    PROVE  Needed(g) \subseteq S
<1> DEFINE Close(ts) == ts \cup UNION {Prereqs(t) : t \in ts}
<1>1. ASSUME NEW ts, ts \subseteq S PROVE Close(ts) \subseteq S
  BY <1>1
<1>2. Needed(g) = Close(Close(Close(Close({g}))))
  BY DEF Needed
<1> HIDE DEF Close
<1> QED
  BY <1>1, <1>2

LEMMA PrereqsApart ==
    /\ \A t \in Builders \ {"rustc"} : Prereqs(t) \subseteq Builders \ {"rustc"}
    /\ \A t \in Cleaners : Prereqs(t) \subseteq Cleaners
    /\ \A t : t \notin Builders \ {"rustc"} /\ t \notin Cleaners => Prereqs(t) = {}
  BY DEF Prereqs, LibcPrereqs, TestsPrereqs, CleanAllPrereqs, Builders, Cleaners

LEMMA PrereqsAre ==
    /\ "musl_config" \in Prereqs("libc") /\ "libc" \in Prereqs("libcxx")
    /\ "libc" \in Prereqs("tests") /\ "llvm-base" \in Prereqs("wali-compiler")
    /\ "libc" \in Prereqs("all") /\ "build_dir" \in Prereqs("llvm-base")
    /\ \A t : Prereqs(t) \subseteq Targets
  BY AllTargets
  DEF Prereqs, LibcPrereqs, TestsPrereqs, CleanAllPrereqs, Builders, Cleaners

(* No goal needs both a clean target and another, or rustc and another.    *)
LEMMA GoalsApart ==
    ASSUME NEW g, NEW t \in Needed(g), NEW u \in Needed(g)
    PROVE  /\ t \in Cleaners /\ u \in Targets => u \in Cleaners
           /\ t = "rustc" => u = "rustc"
<1>1. CASE g \in Builders \ {"rustc"}
  <2>1. Needed(g) \subseteq Builders \ {"rustc"}
    BY <1>1, NeededWithin, PrereqsApart
  <2> QED
    BY <2>1 DEF Builders, Cleaners
<1>2. CASE g \in Cleaners
  <2>1. Needed(g) \subseteq Cleaners
    BY <1>2, NeededWithin, PrereqsApart
  <2> QED
    BY <2>1 DEF Cleaners
<1>3. CASE g \notin Builders \ {"rustc"} /\ g \notin Cleaners
  <2>1. \A x \in {g} : Prereqs(x) \subseteq {g}
    BY <1>3, PrereqsApart
  <2>2. Needed(g) \subseteq {g}
    BY <2>1, NeededWithin
  <2> QED
    BY <1>3, <2>2
<1> QED
  BY <1>1, <1>2, <1>3

-----------------------------------------------------------------------------
(* Types, and what the states of the targets say of each other: between    *)
(* invocations all is idle; within one only what is needed was started,    *)
(* after its prerequisites were done.                                      *)
Quiet == make # "running" => \A t \in Targets : state[t] = "idle"

Ordered ==
    \A t \in Targets : state[t] # "idle" =>
        t \in Needed(goal) /\ \A p \in Prereqs(t) : state[p] = "done"

InLine ==
    \A t \in Targets :
        /\ state[t] = "idle" => line[t] = 1
        /\ state[t] = "running" => line[t] <= Len(Recipe(t))

Shape == TypeOK /\ Quiet /\ Ordered /\ InLine

LEMMA FewTargets == IsFiniteSet(Targets)
<1>1. IsFiniteSet(1 .. 18)
  <2> DEFINE m == 18
  <2>1. 1 \in Int /\ m \in Int
    OBVIOUS
  <2> HIDE DEF m
  <2>2. IsFiniteSet(1 .. m)
    BY <2>1, FS_Interval
  <2> QED
    BY <2>2 DEF m
<1>2. Order \in Surjection(1 .. 18, Targets)
  BY DEF Targets, ToSet, Order, Surjection
<1> QED
  BY <1>1, <1>2, FS_Surjection

LEMMA RunningGrowsBy ==
    ASSUME NEW S \in SUBSET Targets, NEW T, NEW t \in Targets, T \subseteq S \cup {t}
    PROVE  /\ Cardinality(S) \in Nat /\ Cardinality(T) \in Nat
           /\ Cardinality(T) <= Cardinality(S) + 1
           /\ T \subseteq S => Cardinality(T) <= Cardinality(S)
<1>1. IsFiniteSet(S) /\ Cardinality(S) \in Nat
  BY FewTargets, FS_Subset, FS_CardinalityType
<1>2. IsFiniteSet(S \cup {t}) /\ Cardinality(S \cup {t}) <= Cardinality(S) + 1
  <2>1. IsFiniteSet(S \cup {t})
    BY <1>1, FS_AddElement
  <2>2. Cardinality(S \cup {t}) \in {Cardinality(S), Cardinality(S) + 1}
    <3>1. CASE t \in S
      <4>1. S \cup {t} = S
        BY <3>1
      <4> QED
        BY <4>1
    <3>2. CASE t \notin S
      BY <3>2, <1>1, FS_AddElement
    <3> QED
      BY <3>1, <3>2
  <2> QED
    BY <1>1, <2>1, <2>2
<1>3. Cardinality(S \cup {t}) \in Nat /\ IsFiniteSet(T) /\ Cardinality(T) \in Nat
  BY <1>2, FS_Subset, FS_CardinalityType
<1>4. Cardinality(T) <= Cardinality(S \cup {t})
  BY <1>2, FS_Subset
<1>5. T \subseteq S => Cardinality(T) <= Cardinality(S)
  BY <1>1, FS_Subset
<1> QED
  BY <1>1, <1>2, <1>3, <1>4, <1>5

LEMMA ShapeInit == Init => Shape
<1> SUFFICES ASSUME Init PROVE Shape
  OBVIOUS
<1>1. \A t \in Targets : Len(Recipe(t)) \in Nat
  BY RecipeLength
<1>2. Running = {}
  BY DEF Init, Running
<1>3. Cardinality(Running) = 0
  BY <1>2, FS_EmptySet
<1>4. MaxJobs \in Nat \ {0} /\ MaxVersion \in Nat \ {0}
  BY MakeAssumption
<1>5. \A t \in Targets : line[t] \in 1 .. Len(Recipe(t)) + 1
  BY <1>1 DEF Init
<1>6. TypeOK
  BY <1>3, <1>4, <1>5 DEF Init, TypeOK
<1>7. Quiet /\ Ordered /\ InLine
  BY DEF Init, Quiet, Ordered, InLine
<1> QED
  BY <1>6, <1>7 DEF Shape

(* What moving on in a recipe leaves.                                      *)
LEMMA ShapeAdvance ==
    ASSUME Shape, NEW t \in Targets, NEW ok, state[t] = "running", Advance(t, ok),
           UNCHANGED <<make, goal, jobs>>
    PROVE  /\ state' \in [Targets -> {"idle", "running", "done", "failed"}]
           /\ DOMAIN line' = Targets
           /\ \A u \in Targets : line'[u] \in 1 .. Len(Recipe(u)) + 1
           /\ Cardinality(Running') <= jobs'
           /\ Quiet' /\ Ordered' /\ InLine'
<1>1. Len(Recipe(t)) \in Nat /\ line[t] \in 1 .. Len(Recipe(t))
  <2>1. Len(Recipe(t)) \in Nat /\ line[t] \in 1 .. Len(Recipe(t)) + 1 /\ line[t] <= Len(Recipe(t))
    BY RecipeLength DEF Shape, TypeOK, InLine
  <2> QED
    BY <2>1
<1>2. make = "running"
  BY DEF Shape, Quiet
<1>3. state' \in [Targets -> {"idle", "running", "done", "failed"}]
  BY DEF Shape, TypeOK, Advance
<1>4. \A u \in Targets : u # t => state'[u] = state[u] /\ line'[u] = line[u]
  BY DEF Shape, TypeOK, Advance
<1>5. /\ DOMAIN line' = Targets
      /\ state'[t] # "idle"
      /\ line'[t] \in 1 .. Len(Recipe(t))
  BY <1>1 DEF Shape, TypeOK, Advance
<1>6. \A u \in Targets : line'[u] \in 1 .. Len(Recipe(u)) + 1
  <2>1. line'[t] \in 1 .. Len(Recipe(t)) + 1
    BY <1>1, <1>5
  <2>2. \A u \in Targets : line[u] \in 1 .. Len(Recipe(u)) + 1
    BY DEF Shape, TypeOK
  <2> QED
    BY <1>4, <2>1, <2>2
<1>7. Running' \subseteq Running
  BY <1>4 DEF Running
<1>8. Cardinality(Running') <= jobs'
  <2>1. Running \in SUBSET Targets
    BY DEF Running
  <2>2. Cardinality(Running') \in Nat /\ Cardinality(Running) \in Nat /\ Cardinality(Running') <= Cardinality(Running)
    BY <1>7, <2>1, RunningGrowsBy
  <2>3. jobs \in Nat /\ Cardinality(Running) <= jobs /\ jobs' = jobs
    BY MakeAssumption DEF Shape, TypeOK
  <2> QED
    BY <2>2, <2>3
<1>9. Quiet'
  BY <1>2 DEF Quiet
<1>10. Ordered'
  <2> SUFFICES ASSUME NEW u \in Targets, state'[u] # "idle"
               PROVE  u \in Needed(goal) /\ \A p \in Prereqs(u) : state'[p] = "done"
    BY DEF Ordered
  <2>1. state[u] # "idle"
    BY <1>4
  <2>2. u \in Needed(goal) /\ \A p \in Prereqs(u) : state[p] = "done"
    BY <2>1 DEF Shape, Ordered
  <2>3. \A p \in Prereqs(u) : p \in Targets /\ p # t
    BY <2>2, PrereqsAre
  <2> QED
    BY <2>2, <2>3, <1>4
<1>11. InLine'
  BY <1>1, <1>4, <1>5 DEF Shape, InLine
<1> QED
  BY <1>3, <1>5, <1>6, <1>8, <1>9, <1>10, <1>11

LEMMA ShapeStart ==
    ASSUME Shape, NEW t \in Targets, Start(t)
    PROVE  Shape'
<1>1. /\ make = "running" /\ make' = make /\ goal' = goal /\ jobs' = jobs
      /\ line' = line /\ disk' = disk /\ before' = before /\ src' = src
      /\ Cardinality(Running) < jobs
      /\ t \in Needed(goal) /\ state[t] = "idle" /\ \A p \in Prereqs(t) : state[p] = "done"
  BY DEF Start, Ready
<1>2. /\ state' \in [Targets -> {"idle", "running", "done", "failed"}]
      /\ \A u \in Targets : u # t => state'[u] = state[u]
      /\ state'[t] \in {"running", "done"}
      /\ state'[t] = "running" => Recipe(t) # <<>>
  BY DEF Start, Shape, TypeOK
<1>3. version' \in [Targets -> 0 .. MaxVersion]
  <2>1. disk["clang"] \in 0 .. MaxVersion
    BY DEF Shape, TypeOK, Products
  <2> QED
    BY <2>1 DEF Start, Shape, TypeOK
<1>4. Cardinality(Running') <= jobs'
  <2>1. Running \in SUBSET Targets /\ Running' \subseteq Running \cup {t}
    BY <1>2 DEF Running
  <2>2. /\ Cardinality(Running') \in Nat /\ Cardinality(Running) \in Nat
        /\ Cardinality(Running') <= Cardinality(Running) + 1
    BY <2>1, RunningGrowsBy
  <2>3. jobs \in Nat
    BY MakeAssumption DEF Shape, TypeOK
  <2> QED
    BY <1>1, <2>2, <2>3
<1>5. \A u \in Targets : line'[u] \in 1 .. Len(Recipe(u)) + 1
  BY <1>1 DEF Shape, TypeOK
<1>6. TypeOK'
  BY <1>1, <1>2, <1>3, <1>4, <1>5 DEF Shape, TypeOK
<1>7. Quiet'
  BY <1>1 DEF Quiet
<1>8. Ordered'
  <2> SUFFICES ASSUME NEW u \in Targets, state'[u] # "idle"
               PROVE  u \in Needed(goal) /\ \A p \in Prereqs(u) : state'[p] = "done"
    BY <1>1 DEF Ordered
  <2>1. u \in Needed(goal) /\ \A p \in Prereqs(u) : state[p] = "done"
    BY <1>1, <1>2 DEF Shape, Ordered
  <2>2. \A p \in Prereqs(u) : p \in Targets /\ p # t
    BY <2>1, <1>1, PrereqsAre
  <2> QED
    BY <2>1, <2>2, <1>2
<1>9. InLine'
  <2>1. ASSUME state'[t] = "running" PROVE line[t] <= Len(Recipe(t))
    <3>1. Len(Recipe(t)) >= 1 /\ line[t] = 1
      BY <2>1, <1>1, <1>2, RecipeLength DEF Shape, InLine
    <3> QED
      BY <3>1
  <2> QED
    BY <2>1, <1>1, <1>2 DEF Shape, InLine
<1> QED
  BY <1>6, <1>7, <1>8, <1>9 DEF Shape

LEMMA BuiltIn ==
    ASSUME Shape, NEW t \in Targets, NEW p \in Products
    PROVE  Built(t, p) \in 0 .. MaxVersion
<1>1. disk["crt"] \in 0 .. MaxVersion /\ version[t] \in 0 .. MaxVersion /\ src \in 0 .. MaxVersion
  BY MakeAssumption DEF Shape, TypeOK, Products
<1> QED
  BY <1>1 DEF Built

LEMMA ShapeCommand ==
    ASSUME Shape, NEW t \in Targets, Succeeds(t) \/ Fails(t)
    PROVE  Shape'
<1>1. UNCHANGED <<src, make, goal, jobs, version, before>>
  BY DEF Succeeds, Fails
<1>2. disk' \in [Products -> 0 .. MaxVersion]
  <2>1. \A p \in Products : Built(t, p) \in 0 .. MaxVersion
    BY BuiltIn
  <2>2. \A p \in Products : disk[p] \in 0 .. MaxVersion /\ 0 \in 0 .. MaxVersion
    BY MakeAssumption DEF Shape, TypeOK
  <2>3. CASE Succeeds(t)
    BY <2>1, <2>2, <2>3 DEF Succeeds
  <2>4. CASE Fails(t)
    <3>1. PICK some : disk' = [p \in Products |->
                         IF CanSucceed(t) /\ p \in some THEN Built(t, p) ELSE disk[p]]
      BY <2>4 DEF Fails
    <3> QED
      BY <3>1, <2>1, <2>2
  <2> QED
    BY <2>3, <2>4
<1>3. state[t] = "running" /\ \E ok \in BOOLEAN : Advance(t, ok)
  BY DEF Succeeds, Fails
<1>4. /\ state' \in [Targets -> {"idle", "running", "done", "failed"}]
      /\ DOMAIN line' = Targets
      /\ \A u \in Targets : line'[u] \in 1 .. Len(Recipe(u)) + 1
      /\ Cardinality(Running') <= jobs'
      /\ Quiet' /\ Ordered' /\ InLine'
  BY <1>1, <1>3, ShapeAdvance
<1>5. TypeOK'
  BY <1>1, <1>2, <1>4 DEF Shape, TypeOK
<1> QED
  BY <1>4, <1>5 DEF Shape

(* Between recipes.                                                        *)
LEMMA ShapeIdle ==
    ASSUME \A t \in Targets : state[t] = "idle"
    PROVE  Running = {} /\ Cardinality(Running) = 0
  BY FS_EmptySet DEF Running

LEMMA ShapeKept ==
    ASSUME Shape, [Next]_vars
    PROVE  Shape'
<1>1. ASSUME Update PROVE Shape'
  <2>1. \A t \in Targets : state[t] = "idle"
    BY <1>1 DEF Update, Shape, Quiet
  <2>2. src' \in 1 .. MaxVersion
    BY <1>1, MakeAssumption DEF Update, Shape, TypeOK
  <2>3. UNCHANGED <<disk, goal, jobs, state, line, version, before>> /\ make' = "off"
    BY <1>1 DEF Update
  <2>4. Running' = Running
    BY <2>3 DEF Running
  <2>5. TypeOK'
    BY <2>2, <2>3, <2>4 DEF Shape, TypeOK
  <2>6. Quiet' /\ Ordered' /\ InLine'
    BY <2>1, <2>3 DEF Shape, Quiet, Ordered, InLine
  <2> QED
    BY <2>5, <2>6 DEF Shape
<1>2. ASSUME Invoke PROVE Shape'
  <2>1. \A t \in Targets : state[t] = "idle"
    BY <1>2 DEF Invoke, Shape, Quiet
  <2>2. UNCHANGED <<src, disk, state, line, version>> /\ before' = disk
        /\ make' = "running" /\ goal' \in Goals /\ jobs' \in 1 .. MaxJobs
    BY <1>2 DEF Invoke
  <2>3. Cardinality(Running') <= jobs'
    <3>1. Running' = Running
      BY <2>2 DEF Running
    <3>2. Cardinality(Running') = 0
      BY <3>1, <2>1, ShapeIdle
    <3> QED
      BY <3>2, <2>2, MakeAssumption
  <2>4. TypeOK'
    BY <2>2, <2>3 DEF Shape, TypeOK
  <2>5. Quiet' /\ Ordered' /\ InLine'
    BY <2>1, <2>2 DEF Shape, Quiet, Ordered, InLine
  <2> QED
    BY <2>4, <2>5 DEF Shape
<1>3. ASSUME Exits PROVE Shape'
  <2>1. /\ UNCHANGED <<src, disk, goal, jobs, before>> /\ make' \in {"done", "failed"}
        /\ state' = [t \in Targets |-> "idle"]
        /\ line' = [t \in Targets |-> 1]
        /\ version' = [t \in Targets |-> 0]
    BY <1>3 DEF Exits
  <2>2. Cardinality(Running') <= jobs'
    <3>1. Running' = {}
      BY <2>1 DEF Running
    <3>2. Cardinality(Running') = 0
      BY <3>1, FS_EmptySet
    <3> QED
      BY <3>2, <2>1, MakeAssumption DEF Shape, TypeOK
  <2>3. \A t \in Targets : line'[t] \in 1 .. Len(Recipe(t)) + 1
    BY <2>1, RecipeLength
  <2>4. TypeOK'
    BY <2>1, <2>2, <2>3, MakeAssumption DEF Shape, TypeOK
  <2>5. Quiet' /\ Ordered' /\ InLine'
    BY <2>1 DEF Quiet, Ordered, InLine
  <2> QED
    BY <2>4, <2>5 DEF Shape
<1>4. ASSUME UNCHANGED vars PROVE Shape'
  <2>1. UNCHANGED <<src, disk, make, goal, jobs, state, line, version, before>> /\ Running' = Running
    BY <1>4 DEF vars, Running
  <2> QED
    BY <2>1 DEF Shape, TypeOK, Quiet, Ordered, InLine
<1> QED
  BY <1>1, <1>2, <1>3, <1>4, ShapeStart, ShapeCommand DEF Next

THEOREM ShapeHolds == Spec => []Shape
<1>1. Init => Shape
  BY ShapeInit
<1>2. Shape /\ [Next]_vars => Shape'
  BY ShapeKept
<1> QED
  BY <1>1, <1>2, PTL DEF Spec

(* Under any -j at most that many recipes run, and every variable keeps    *)
(* its type.                                                               *)
THEOREM TypeCorrect == Spec => []TypeOK
<1>1. Shape => TypeOK
  BY DEF Shape
<1> QED
  BY <1>1, ShapeHolds, PTL

(* Two recipes that run at once cannot have one write what the other's     *)
(* command reads of the sysroot or musl's configuration: writer and reader *)
(* are ordered by prerequisites.                                           *)
THEOREM RecipesKeepApart == Spec => []SysrootReadersWait
<1>1. ASSUME Shape PROVE SysrootReadersWait
  <2> SUFFICES ASSUME NEW t \in Running, NEW u \in Running, t # u,
                      NEW p \in {"config", "lib", "crt", "crtTarget"},
                      p \in Writes(Now(t)), p \in Reads(Now(u))
               PROVE  FALSE
    BY DEF SysrootReadersWait
  <2>1. /\ t \in Targets /\ u \in Targets /\ state[t] = "running" /\ state[u] = "running"
        /\ line[t] \in 1 .. Len(Recipe(t)) /\ line[u] \in 1 .. Len(Recipe(u))
    <3>1. /\ t \in Targets /\ u \in Targets /\ state[t] = "running" /\ state[u] = "running"
          /\ line[t] \in 1 .. Len(Recipe(t)) + 1 /\ line[u] \in 1 .. Len(Recipe(u)) + 1
          /\ line[t] <= Len(Recipe(t)) /\ line[u] <= Len(Recipe(u))
      BY <1>1 DEF Shape, TypeOK, InLine, Running
    <3>2. Len(Recipe(t)) \in Nat /\ Len(Recipe(u)) \in Nat
      BY <3>1, RecipeLength
    <3> QED
      BY <3>1, <3>2
  <2>2. t = Owner[p] /\ p \in Watched
    <3>1. p \in Watched
      BY DEF Watched
    <3> QED
      BY <3>1, <2>1, OwnersWrite DEF Now
  <2>3. Now(u) \in {"make musl", "cp crt", "cmake libcxx", "make libcxx", "x build", "make tests"}
    BY DEF Reads
  <2>4. u \in {"libc", "libcxx", "rustc", "tests"}
    BY <2>1, <2>3, OwnersMake DEF Now
  <2>5. t \in {"musl_config", "libc"} /\ (t = "musl_config" <=> p = "config")
    BY <2>2 DEF Owner, Watched
  <2>6. \A x \in Prereqs(u) : state[x] = "done"
    BY <1>1, <2>1 DEF Shape, Ordered
  <2>7. t \notin Prereqs(u)
    BY <2>1, <2>6
  <2>8. u # "rustc"
    BY <1>1, <2>1, <2>5, GoalsApart DEF Shape, Ordered
  <2>9. CASE u = "libc"
    BY <2>9, <2>5, <2>7, PrereqsAre
  <2>10. CASE u \in {"libcxx", "tests"}
    <3>1. t = "musl_config"
      BY <2>10, <2>5, <2>7, PrereqsAre
    <3>2. p = "config"
      BY <3>1, <2>5
    <3>3. Now(u) = "make musl"
      BY <3>2 DEF Reads
    <3> QED
      BY <3>3, <2>1, <2>10, OwnersMake DEF Now
  <2> QED
    BY <2>4, <2>8, <2>9, <2>10
<1> QED
  BY <1>1, ShapeHolds, PTL

-----------------------------------------------------------------------------
(* What a command does to a product that is watched, and to its target.    *)
LEMMA CommandRuns ==
    ASSUME Shape, NEW u \in Targets, Succeeds(u) \/ Fails(u)
    PROVE  /\ state[u] = "running" /\ u \in Needed(goal) /\ make = "running"
           /\ line[u] \in 1 .. Len(Recipe(u))
           /\ UNCHANGED <<src, make, goal, jobs, version, before>>
           /\ \A t \in Targets : t # u => state'[t] = state[t]
           /\ state'[u] # "idle"
           /\ state'[u] = "done" => Succeeds(u) /\ line[u] = Len(Recipe(u))
<1>1. state[u] = "running" /\ UNCHANGED <<src, make, goal, jobs, version, before>>
  BY DEF Succeeds, Fails
<1>2. u \in Needed(goal) /\ make = "running"
  BY <1>1 DEF Shape, Ordered, Quiet
<1>3. Len(Recipe(u)) \in Nat /\ line[u] \in 1 .. Len(Recipe(u)) + 1 /\ line[u] <= Len(Recipe(u))
  BY <1>1, RecipeLength DEF Shape, TypeOK, InLine
<1>4. line[u] \in 1 .. Len(Recipe(u))
  BY <1>3
<1>5. \E ok \in BOOLEAN : Advance(u, ok)
  BY DEF Succeeds, Fails
<1>6. /\ \A t \in Targets : t # u => state'[t] = state[t]
      /\ state'[u] # "idle"
  BY <1>1, <1>5 DEF Advance, Shape, TypeOK
<1>7. ASSUME state'[u] = "done" PROVE Succeeds(u) /\ line[u] = Len(Recipe(u))
  <2>1. ~(line[u] < Len(Recipe(u)))
    BY <1>1, <1>5, <1>7 DEF Advance
  <2>2. ~Fails(u)
    BY <2>1, <1>7 DEF Fails, Advance, Shape, TypeOK
  <2> QED
    BY <2>1, <2>2, <1>3
<1> QED
  BY <1>1, <1>2, <1>4, <1>6, <1>7

LEMMA CommandMakes ==
    ASSUME Shape, NEW u \in Targets, Succeeds(u) \/ Fails(u), NEW p \in Watched
    PROVE  /\ disk'[p] # disk[p] => u = Owner[p] \/ u \in Cleaners
           /\ u = Owner[p] /\ disk'[p] # disk[p] =>
                 Now(u) = Maker[p] /\ CanSucceed(u) /\ disk'[p] = Built(u, p)
           /\ Succeeds(u) => CanSucceed(u)
           /\ Succeeds(u) /\ Now(u) = Maker[p] => disk'[p] = Built(u, p)
<1>1. line[u] \in 1 .. Len(Recipe(u))
  BY CommandRuns
<1>2. p \in Products
  BY DEF Watched, Products
<1>3. /\ p \in Writes(Now(u)) => u = Owner[p]
      /\ p \in Writes(Now(u)) <=> Now(u) = Maker[p]
      /\ p \in Removes(Now(u)) => u \in Cleaners
  <2>1. /\ p \in Writes(Now(u)) => u = Owner[p]
        /\ p \in Removes(Now(u)) => u \in Cleaners
    BY <1>1, OwnersWrite DEF Now
  <2>2. p \in Writes(Now(u)) <=> Now(u) = Maker[p]
    BY MakersWrite
  <2> QED
    BY <2>1, <2>2
<1>4. Owner[p] \notin Cleaners
  BY DEF Owner, Watched, Cleaners
<1>5. CASE Succeeds(u)
  <2>1. /\ CanSucceed(u)
        /\ disk'[p] = IF p \in Writes(Now(u)) THEN Built(u, p)
                      ELSE IF p \in Removes(Now(u)) THEN 0 ELSE disk[p]
    BY <1>2, <1>5 DEF Succeeds
  <2> QED
    BY <2>1, <1>3, <1>4
<1>6. CASE Fails(u) /\ ~Succeeds(u)
  <2>1. PICK some \in (SUBSET Writes(Now(u)) \ {Writes(Now(u))}) \cup {{}} :
            disk' = [q \in Products |->
                       IF CanSucceed(u) /\ q \in some THEN Built(u, q) ELSE disk[q]]
    BY <1>6 DEF Fails
  <2>2. p \in some => p \in Writes(Now(u))
    OBVIOUS
  <2>3. disk'[p] = IF CanSucceed(u) /\ p \in some THEN Built(u, p) ELSE disk[p]
    BY <2>1, <1>2
  <2> QED
    BY <2>2, <2>3, <1>3, <1>6
<1> QED
  BY <1>5, <1>6

(* The goals whose recipe ends in the command that builds what they are    *)
(* asked for.                                                              *)
Finishers == {"llvm-base", "libcxx", "tests", "wali-compiler"}
Final == [t \in Finishers |->
    CASE t = "llvm-base" -> "clang" [] t = "wali-compiler" -> "rt" [] OTHER -> t]

LEMMA LastBuilds ==
    ASSUME NEW t \in Finishers
    PROVE  /\ Final[t] \in Watched /\ Owner[Final[t]] = t /\ t \in Targets /\ t \notin Cleaners
           /\ Recipe(t)[Len(Recipe(t))] = Maker[Final[t]]
           /\ Recipe(t) # <<>>
<1>1. Final[t] \in Watched /\ Owner[Final[t]] = t /\ t \in Targets /\ t \notin Cleaners
  BY AllTargets DEF Finishers, Final, Watched, Owner, Cleaners, Builders
<1>2. CASE t = "llvm-base"
  <2>1. Recipe(t) = <<"cmake llvm", "ninja llvm">>
    BY <1>2 DEF Recipe
  <2>2. Maker[Final[t]] = "ninja llvm"
    BY <1>2 DEF Finishers, Final, Maker, Watched
  <2>3. <<"cmake llvm", "ninja llvm">>[Len(<<"cmake llvm", "ninja llvm">>)] = "ninja llvm" /\ <<"cmake llvm", "ninja llvm">> # <<>>
    OBVIOUS
  <2>4. Recipe(t)[Len(Recipe(t))] = Maker[Final[t]] /\ Recipe(t) # <<>>
    BY <2>1, <2>2, <2>3, Zenon
  <2> QED
    BY <1>1, <2>4
<1>3. CASE t = "libcxx"
  <2>1. Recipe(t) = <<"cmake libcxx", "make libcxx">>
    BY <1>3 DEF Recipe
  <2>2. Maker[Final[t]] = "make libcxx"
    BY <1>3 DEF Finishers, Final, Maker, Watched
  <2>3. <<"cmake libcxx", "make libcxx">>[Len(<<"cmake libcxx", "make libcxx">>)] = "make libcxx" /\ <<"cmake libcxx", "make libcxx">> # <<>>
    OBVIOUS
  <2>4. Recipe(t)[Len(Recipe(t))] = Maker[Final[t]] /\ Recipe(t) # <<>>
    BY <2>1, <2>2, <2>3, Zenon
  <2> QED
    BY <1>1, <2>4
<1>4. CASE t = "tests"
  <2>1. Recipe(t) = <<"make tests">>
    BY <1>4 DEF Recipe
  <2>2. Maker[Final[t]] = "make tests"
    BY <1>4 DEF Finishers, Final, Maker, Watched
  <2>3. <<"make tests">>[Len(<<"make tests">>)] = "make tests" /\ <<"make tests">> # <<>>
    OBVIOUS
  <2>4. Recipe(t)[Len(Recipe(t))] = Maker[Final[t]] /\ Recipe(t) # <<>>
    BY <2>1, <2>2, <2>3, Zenon
  <2> QED
    BY <1>1, <2>4
<1>5. CASE t = "wali-compiler"
  <2>1. Recipe(t) = <<"mkdir", "cp rt">>
    BY <1>5 DEF Recipe
  <2>2. Maker[Final[t]] = "cp rt"
    BY <1>5 DEF Finishers, Final, Maker, Watched
  <2>3. <<"mkdir", "cp rt">>[Len(<<"mkdir", "cp rt">>)] = "cp rt" /\ <<"mkdir", "cp rt">> # <<>>
    OBVIOUS
  <2>4. Recipe(t)[Len(Recipe(t))] = Maker[Final[t]] /\ Recipe(t) # <<>>
    BY <2>1, <2>2, <2>3, Zenon
  <2> QED
    BY <1>1, <2>4
<1> QED
  BY <1>2, <1>3, <1>4, <1>5 DEF Finishers

(* A target that is done has built its product from this invocation's      *)
(* sources, and wali-compiler asked for the version after llvm-base had.   *)
Current ==
    /\ \A t \in Finishers : state[t] = "done" => disk[Final[t]] = src
    /\ state["wali-compiler"] = "running" => version["wali-compiler"] = src

LEMMA CurrentByCommand ==
    ASSUME Shape, Current, NEW u \in Targets, Succeeds(u) \/ Fails(u)
    PROVE  Current'
<1>1. /\ state[u] = "running" /\ u \in Needed(goal) /\ make = "running"
      /\ UNCHANGED <<src, make, goal, jobs, version, before>>
      /\ \A t \in Targets : t # u => state'[t] = state[t]
      /\ state'[u] = "done" => Succeeds(u) /\ line[u] = Len(Recipe(u))
  BY CommandRuns
<1>2. ASSUME NEW t \in Finishers, state'[t] = "done"
      PROVE  disk'[Final[t]] = src
  <2>1. Final[t] \in Watched /\ Owner[Final[t]] = t /\ t \in Targets /\ t \notin Cleaners
        /\ Recipe(t)[Len(Recipe(t))] = Maker[Final[t]]
    BY LastBuilds
  <2>2. CASE t # u
    <3>1. state[t] = "done"
      BY <1>1, <1>2, <2>1, <2>2
    <3>2. disk[Final[t]] = src
      BY <3>1 DEF Current
    <3>3. t \in Needed(goal)
      BY <3>1, <2>1 DEF Shape, Ordered
    <3>4. u \notin Cleaners
      BY <3>3, <1>1, <2>1, GoalsApart
    <3> QED
      BY <3>2, <3>4, <2>1, <2>2, CommandMakes
  <2>3. CASE t = u
    <3>1. Succeeds(u) /\ Now(u) = Maker[Final[t]]
      BY <1>1, <1>2, <2>1, <2>3 DEF Now
    <3>2. disk'[Final[t]] = Built(u, Final[t])
      BY <3>1, <2>1, CommandMakes
    <3>3. Final[t] # "crtTarget" /\ (Final[t] = "rt" => t = "wali-compiler")
      BY DEF Final, Finishers
    <3> QED
      BY <3>2, <3>3, <2>3, <1>1 DEF Built, Current
  <2> QED
    BY <2>2, <2>3
<1>3. "wali-compiler" \in Targets
  BY LastBuilds DEF Finishers
<1>4. state'["wali-compiler"] = "running" => version'["wali-compiler"] = src
  BY <1>1, <1>3 DEF Current
<1> QED
  BY <1>1, <1>2, <1>4 DEF Current

LEMMA CurrentByStart ==
    ASSUME Shape, Current, NEW t \in Targets, Start(t)
    PROVE  Current'
<1>1. /\ UNCHANGED <<src, disk>> /\ state[t] = "idle"
      /\ \A p \in Prereqs(t) : state[p] = "done"
      /\ \A u \in Targets : u # t => state'[u] = state[u] /\ version'[u] = version[u]
      /\ state'[t] = IF Recipe(t) = <<>> THEN "done" ELSE "running"
      /\ version'[t] = disk["clang"]
  BY DEF Start, Ready, Shape, TypeOK
<1>2. \A u \in Finishers : u \in Targets /\ Recipe(u) # <<>>
  BY LastBuilds
<1>3. \A u \in Finishers : state'[u] = "done" => state[u] = "done"
  BY <1>1, <1>2
<1>4. ASSUME state'["wali-compiler"] = "running" PROVE version'["wali-compiler"] = src
  <2>1. CASE t = "wali-compiler"
    <3>1. state["llvm-base"] = "done"
      BY <2>1, <1>1, PrereqsAre
    <3>2. disk["clang"] = src
      BY <3>1 DEF Current, Finishers, Final
    <3> QED
      BY <3>2, <2>1, <1>1
  <2>2. CASE t # "wali-compiler"
    BY <2>2, <1>1, <1>2, <1>4 DEF Current, Finishers
  <2> QED
    BY <2>1, <2>2
<1> QED
  BY <1>1, <1>3, <1>4 DEF Current

(* Where nothing runs and nothing is done.                                 *)
LEMMA CurrentIdle ==
    ASSUME \A t \in Targets : state[t] = "idle"
    PROVE  Current
<1>1. \A t \in Finishers : t \in Targets
  BY LastBuilds
<1> QED
  BY <1>1 DEF Current, Finishers

LEMMA CurrentKept ==
    ASSUME Shape, Current, [Next]_vars
    PROVE  Current'
<1>1. ASSUME Update \/ Invoke PROVE Current'
  <2>1. \A t \in Targets : state[t] = "idle"
    BY <1>1 DEF Update, Invoke, Shape, Quiet
  <2>2. \A t \in Finishers : t \in Targets
    BY LastBuilds
  <2>3. state' = state
    BY <1>1 DEF Update, Invoke
  <2> QED
    BY <2>1, <2>2, <2>3 DEF Current, Finishers
<1>2. ASSUME Exits PROVE Current'
  <2>1. state' = [t \in Targets |-> "idle"]
    BY <1>2 DEF Exits
  <2>2. \A t \in Finishers : t \in Targets
    BY LastBuilds
  <2> QED
    BY <2>1, <2>2 DEF Current, Finishers
<1>3. ASSUME UNCHANGED vars PROVE Current'
  BY <1>3 DEF vars, Current
<1> QED
  BY <1>1, <1>2, <1>3, CurrentByStart, CurrentByCommand DEF Next

(* make is done only when the goal is.                                     *)
LEMMA DoneByExit ==
    ASSUME Shape, [Next]_vars, make' = "done"
    PROVE  /\ UNCHANGED <<src, disk, goal, jobs, before>>
           /\ \/ UNCHANGED vars
              \/ make = "running" /\ state[goal] = "done"
<1>1. ~Update /\ ~Invoke
  BY DEF Update, Invoke
<1>2. ASSUME NEW t \in Targets, Start(t) \/ Succeeds(t) \/ Fails(t) PROVE FALSE
  <2>1. make = "running"
    BY <1>2, CommandRuns DEF Start
  <2>2. make' = make
    BY <1>2 DEF Start, Succeeds, Fails
  <2> QED
    BY <2>1, <2>2
<1>3. CASE Exits
  BY <1>3 DEF Exits
<1>4. CASE UNCHANGED vars
  BY <1>4 DEF vars
<1> QED
  BY <1>1, <1>2, <1>3, <1>4 DEF Next

LEMMA NeededHas ==
    ASSUME NEW g
    PROVE  /\ g \in Needed(g)
           /\ \A p \in Prereqs(g) : p \in Needed(g) /\ Prereqs(p) \subseteq Needed(g)
<1> DEFINE Close(ts) == ts \cup UNION {Prereqs(t) : t \in ts}
<1>1. \A ts : ts \subseteq Close(ts)
  OBVIOUS
<1>2. \A ts : \A t \in ts : Prereqs(t) \subseteq Close(ts)
  OBVIOUS
<1>3. Needed(g) = Close(Close(Close(Close({g}))))
  BY DEF Needed
<1> HIDE DEF Close
<1>4. g \in Close({g}) /\ Prereqs(g) \subseteq Close({g})
  BY <1>1, <1>2
<1>5. /\ Close({g}) \subseteq Close(Close({g}))
      /\ \A p \in Prereqs(g) : Prereqs(p) \subseteq Close(Close({g}))
  BY <1>1, <1>2, <1>4
<1>6. Close(Close({g})) \subseteq Needed(g)
  <2>1. Close(Close({g})) \subseteq Close(Close(Close({g})))
    BY <1>1
  <2>2. Close(Close(Close({g}))) \subseteq Needed(g)
    BY <1>1, <1>3
  <2> QED
    BY <2>1, <2>2
<1> QED
  BY <1>4, <1>5, <1>6

CurrentInv == Shape /\ Current /\ SuccessMeansCurrent /\ RuntimeLibMatchesClang

THEOREM CurrentHolds == Spec => []CurrentInv
<1>1. Init => CurrentInv
  <2> SUFFICES ASSUME Init PROVE CurrentInv
    OBVIOUS
  <2>1. Current
    BY CurrentIdle DEF Init
  <2>2. make = "off"
    BY DEF Init
  <2> QED
    BY <2>1, <2>2, ShapeInit DEF CurrentInv, SuccessMeansCurrent, RuntimeLibMatchesClang
<1>2. CurrentInv /\ [Next]_vars => CurrentInv'
  <2> SUFFICES ASSUME CurrentInv, [Next]_vars PROVE CurrentInv'
    OBVIOUS
  <2>1. Shape' /\ Current'
    BY ShapeKept, CurrentKept DEF CurrentInv
  <2>2. ASSUME make' = "done", UNCHANGED vars
        PROVE  SuccessMeansCurrent' /\ RuntimeLibMatchesClang'
    BY <2>2 DEF vars, CurrentInv, SuccessMeansCurrent, RuntimeLibMatchesClang
  <2>3. ASSUME make' = "done", ~UNCHANGED vars
        PROVE  SuccessMeansCurrent' /\ RuntimeLibMatchesClang'
    <3>1. UNCHANGED <<src, disk, goal>> /\ state[goal] = "done"
      BY <2>3, DoneByExit DEF CurrentInv
    <3>2. \A t \in Finishers : state[t] = "done" => disk[Final[t]] = src
      BY DEF CurrentInv, Current
    <3>3. /\ goal = "llvm-base" => disk["clang"] = src
          /\ goal = "libcxx" => disk["libcxx"] = src
          /\ goal = "tests" => disk["tests"] = src
      BY <3>1, <3>2 DEF Finishers, Final
    <3>4. ASSUME goal = "wali-compiler"
          PROVE  disk["rt"] = disk["clang"] /\ disk["clang"] = src
      <4>1. "wali-compiler" \in Targets
        BY LastBuilds DEF Finishers
      <4>2. state["wali-compiler"] = "done" /\ state["llvm-base"] = "done"
        BY <3>1, <3>4, <4>1, PrereqsAre DEF CurrentInv, Shape, Ordered
      <4> QED
        BY <4>2, <3>2 DEF Finishers, Final
    <3> QED
      BY <3>1, <3>3, <3>4 DEF SuccessMeansCurrent, RuntimeLibMatchesClang
  <2>4. ASSUME make' # "done"
        PROVE  SuccessMeansCurrent' /\ RuntimeLibMatchesClang'
    BY <2>4 DEF SuccessMeansCurrent, RuntimeLibMatchesClang
  <2> QED
    BY <2>1, <2>2, <2>3, <2>4 DEF CurrentInv
<1> QED
  BY <1>1, <1>2, PTL DEF Spec

(* A make that succeeds on llvm-base, libcxx or tests has built the        *)
(* sources it was given, whatever ran beside it and whatever failed on the *)
(* way.                                                                    *)
THEOREM SuccessIsCurrent == Spec => []SuccessMeansCurrent
<1>1. CurrentInv => SuccessMeansCurrent
  BY DEF CurrentInv
<1> QED
  BY <1>1, CurrentHolds, PTL

(* The builtins library that wali-compiler copies is the one for the clang *)
(* it has just built.                                                      *)
THEOREM RuntimeLibFits == Spec => []RuntimeLibMatchesClang
<1>1. CurrentInv => RuntimeLibMatchesClang
  BY DEF CurrentInv
<1> QED
  BY <1>1, CurrentHolds, PTL

-----------------------------------------------------------------------------
(* The recipes that end in cp or link, where an old product would do.      *)

(* While make runs for a goal that needs libc: the crt files are the old   *)
(* ones or the current ones, and a libc that is done copied some.          *)
Installed ==
    make = "running" /\ "libc" \in Needed(goal) =>
        /\ disk["crt"] \in {before["crt"], src}
        /\ state["libc"] = "done" => disk["crt"] # 0
        /\ state["libc"] = "done" /\ before["crt"] = 0 => disk["crtTarget"] = src

(* While make runs for all, serially: nobody touches the compiler before   *)
(* libc is done, so crt files appear only where there was a compiler.      *)
Serial ==
    make = "running" /\ goal = "all" /\ jobs = 1 =>
        /\ state["llvm-base"] # "idle" => state["libc"] = "done"
        /\ state["libc"] # "done" => disk["clang"] = before["clang"]
        /\ disk["crt"] # before["crt"] => before["clang"] # 0

(* While make runs for rustc, it is alone: what it reads stays as it was.  *)
Alone ==
    make = "running" /\ "rustc" \in Needed(goal) =>
        /\ \A p \in {"clang", "crt", "lib"} : disk[p] = before[p]
        /\ disk["rustStage1"] \in {before["rustStage1"], src}
        /\ disk["rustStage1"] # before["rustStage1"] =>
              \A p \in {"clang", "crt", "lib"} : before[p] # 0
        /\ state["rustc"] = "done" => disk["rustStage1"] # 0

OldInv == Shape /\ Installed /\ Serial /\ Alone

LEMMA LibcCopies ==
    /\ "libc" \in Targets /\ "rustc" \in Targets /\ "llvm-base" \in Targets
    /\ Recipe("libc") # <<>> /\ Recipe("rustc") # <<>>
    /\ Recipe("libc")[Len(Recipe("libc"))] = "cp crt"
    /\ Recipe("rustc")[Len(Recipe("rustc"))] = "toolchain link"
<1>1. "libc" \in Targets /\ "rustc" \in Targets /\ "llvm-base" \in Targets
  BY AllTargets DEF Builders
<1>2. /\ Recipe("libc") = <<"make musl", "mkdir", "cp crt">>
      /\ Recipe("rustc") = <<"x setup", "rustc_config", "x build", "toolchain link">>
  BY DEF Recipe, LibcRecipe
<1> DEFINE l == <<"make musl", "mkdir", "cp crt">>
           r == <<"x setup", "rustc_config", "x build", "toolchain link">>
<1>3. /\ l # <<>> /\ l[Len(l)] = "cp crt"
      /\ r # <<>> /\ r[Len(r)] = "toolchain link"
  OBVIOUS
<1> HIDE DEF l, r
<1>4. Recipe("libc") = l /\ Recipe("rustc") = r
  BY <1>2 DEF l, r
<1> QED
  BY <1>1, <1>3, <1>4

LEMMA InstalledByCommand ==
    ASSUME OldInv, NEW u \in Targets, Succeeds(u) \/ Fails(u)
    PROVE  Installed'
<1>1. /\ state[u] = "running" /\ u \in Needed(goal) /\ make = "running"
      /\ UNCHANGED <<src, make, goal, jobs, version, before>>
      /\ \A t \in Targets : t # u => state'[t] = state[t]
      /\ state'[u] = "done" => Succeeds(u) /\ line[u] = Len(Recipe(u))
  BY CommandRuns DEF OldInv
<1> SUFFICES ASSUME "libc" \in Needed(goal)
             PROVE  /\ disk'["crt"] \in {before["crt"], src}
                    /\ state'["libc"] = "done" => disk'["crt"] # 0
                    /\ state'["libc"] = "done" /\ before["crt"] = 0 => disk'["crtTarget"] = src
  BY <1>1 DEF Installed
<1>2. /\ disk["crt"] \in {before["crt"], src}
      /\ state["libc"] = "done" => disk["crt"] # 0
      /\ state["libc"] = "done" /\ before["crt"] = 0 => disk["crtTarget"] = src
  BY <1>1 DEF OldInv, Installed
<1>3. "libc" \in Targets /\ "libc" \notin Cleaners
  BY LibcCopies DEF Cleaners
<1>4. u \notin Cleaners
  BY <1>1, <1>3, GoalsApart
<1>5. /\ "crt" \in Watched /\ "crtTarget" \in Watched
      /\ Owner["crt"] = "libc" /\ Owner["crtTarget"] = "libc"
      /\ Maker["crt"] = "make musl" /\ Maker["crtTarget"] = "cp crt"
  BY DEF Watched, Owner, Maker
<1>6. CASE u # "libc"
  <2>1. disk'["crt"] = disk["crt"] /\ disk'["crtTarget"] = disk["crtTarget"]
    BY <1>4, <1>5, <1>6, CommandMakes DEF OldInv
  <2> QED
    BY <2>1, <1>1, <1>2, <1>3, <1>6
<1>7. CASE u = "libc"
  <2>1. disk'["crt"] # disk["crt"] => Now(u) = "make musl" /\ disk'["crt"] = src
    <3>1. disk'["crt"] # disk["crt"] => Now(u) = "make musl" /\ disk'["crt"] = Built(u, "crt")
      BY <1>5, <1>7, CommandMakes DEF OldInv
    <3> QED
      BY <3>1 DEF Built
  <2>2. ASSUME state'["libc"] = "done"
        PROVE  disk'["crt"] = disk["crt"] /\ disk["crt"] # 0 /\ disk'["crtTarget"] = disk["crt"]
    <3>1. Succeeds(u) /\ Now(u) = "cp crt"
      BY <2>2, <1>1, <1>7, LibcCopies DEF Now
    <3>2. CanSucceed(u) /\ disk'["crtTarget"] = Built(u, "crtTarget")
      BY <3>1, <1>5, CommandMakes DEF OldInv
    <3>3. disk["crt"] # 0
      BY <3>1, <3>2 DEF CanSucceed, Reads
    <3> QED
      BY <3>1, <3>2, <3>3, <2>1 DEF Built
  <2> QED
    BY <2>1, <2>2, <1>2
<1> QED
  BY <1>6, <1>7

LEMMA SerialByCommand ==
    ASSUME OldInv, NEW u \in Targets, Succeeds(u) \/ Fails(u)
    PROVE  Serial'
<1>1. /\ state[u] = "running" /\ u \in Needed(goal) /\ make = "running"
      /\ UNCHANGED <<src, make, goal, jobs, version, before>>
      /\ \A t \in Targets : t # u => state'[t] = state[t]
  BY CommandRuns DEF OldInv
<1> SUFFICES ASSUME goal = "all", jobs = 1
             PROVE  /\ state'["llvm-base"] # "idle" => state'["libc"] = "done"
                    /\ state'["libc"] # "done" => disk'["clang"] = before["clang"]
                    /\ disk'["crt"] # before["crt"] => before["clang"] # 0
  BY <1>1 DEF Serial
<1>2. /\ state["llvm-base"] # "idle" => state["libc"] = "done"
      /\ state["libc"] # "done" => disk["clang"] = before["clang"]
      /\ disk["crt"] # before["crt"] => before["clang"] # 0
  BY <1>1 DEF OldInv, Serial
<1>3. "libc" \in Targets /\ "llvm-base" \in Targets
  BY LibcCopies
<1>4. u \notin Cleaners
  <2>1. "libc" \in Needed(goal)
    BY NeededHas, PrereqsAre
  <2> QED
    BY <2>1, <1>1, <1>3, GoalsApart DEF Cleaners
<1>5. /\ "crt" \in Watched /\ "clang" \in Watched
      /\ Owner["crt"] = "libc" /\ Owner["clang"] = "llvm-base"
      /\ Maker["crt"] = "make musl"
  BY DEF Watched, Owner, Maker
<1>6. state["libc"] = "done" => state'["libc"] = "done"
  BY <1>1, <1>3
<1>7. state'["llvm-base"] # "idle" => state["llvm-base"] # "idle"
  BY <1>1, <1>3
<1>8. disk'["clang"] # disk["clang"] => state["libc"] = "done"
  BY <1>1, <1>2, <1>4, <1>5, CommandMakes DEF OldInv
<1>9. disk'["crt"] # disk["crt"] => before["clang"] # 0
  <2> SUFFICES ASSUME disk'["crt"] # disk["crt"] PROVE before["clang"] # 0
    OBVIOUS
  <2>1. u = "libc" /\ Now(u) = "make musl" /\ CanSucceed(u)
    BY <1>4, <1>5, CommandMakes DEF OldInv
  <2>2. disk["clang"] # 0
    BY <2>1 DEF CanSucceed, Reads
  <2> QED
    BY <2>1, <2>2, <1>1, <1>2
<1> QED
  BY <1>2, <1>6, <1>7, <1>8, <1>9

LEMMA AloneByCommand ==
    ASSUME OldInv, NEW u \in Targets, Succeeds(u) \/ Fails(u)
    PROVE  Alone'
<1> DEFINE Sysroot == {"clang", "crt", "lib"}
<1>1. /\ state[u] = "running" /\ u \in Needed(goal) /\ make = "running"
      /\ UNCHANGED <<src, make, goal, jobs, version, before>>
      /\ state'[u] = "done" => Succeeds(u) /\ line[u] = Len(Recipe(u))
  BY CommandRuns DEF OldInv
<1> SUFFICES ASSUME "rustc" \in Needed(goal)
             PROVE  /\ \A p \in Sysroot : disk'[p] = before[p]
                    /\ disk'["rustStage1"] \in {before["rustStage1"], src}
                    /\ disk'["rustStage1"] # before["rustStage1"] =>
                          \A p \in Sysroot : before[p] # 0
                    /\ state'["rustc"] = "done" => disk'["rustStage1"] # 0
  BY <1>1 DEF Alone
<1>2. /\ \A p \in Sysroot : disk[p] = before[p]
      /\ disk["rustStage1"] \in {before["rustStage1"], src}
      /\ disk["rustStage1"] # before["rustStage1"] => \A p \in Sysroot : before[p] # 0
      /\ state["rustc"] = "done" => disk["rustStage1"] # 0
  BY <1>1 DEF OldInv, Alone
<1>3. u = "rustc" /\ u \notin Cleaners
  BY <1>1, GoalsApart DEF Cleaners
<1>4. /\ \A p \in Sysroot : p \in Watched /\ Owner[p] # "rustc"
      /\ "rustStage1" \in Watched /\ Owner["rustStage1"] = "rustc"
      /\ Maker["rustStage1"] = "x build"
  BY DEF Watched, Owner, Maker
<1>5. \A p \in Sysroot : disk'[p] = disk[p]
  BY <1>3, <1>4, CommandMakes DEF OldInv
<1>6. ASSUME disk'["rustStage1"] # disk["rustStage1"]
      PROVE  disk'["rustStage1"] = src /\ \A p \in Sysroot : disk[p] # 0
  <2>1. Now(u) = "x build" /\ CanSucceed(u) /\ disk'["rustStage1"] = Built(u, "rustStage1")
    BY <1>3, <1>4, <1>6, CommandMakes DEF OldInv
  <2>2. \A p \in Sysroot : disk[p] # 0
    BY <2>1 DEF CanSucceed, Reads
  <2> QED
    BY <2>1, <2>2 DEF Built
<1>7. ASSUME state'["rustc"] = "done" PROVE disk'["rustStage1"] # 0
  <2>1. Succeeds(u) /\ Now(u) = "toolchain link"
    BY <1>1, <1>3, <1>7, LibcCopies DEF Now
  <2>2. CanSucceed(u)
    BY <2>1, <1>4, CommandMakes DEF OldInv
  <2>3. disk["rustStage1"] # 0
    BY <2>1, <2>2 DEF CanSucceed, Reads
  <2>4. disk'["rustStage1"] = disk["rustStage1"]
    BY <2>1, <1>3, <1>4, CommandMakes DEF OldInv
  <2> QED
    BY <2>3, <2>4
<1> QED
  BY <1>2, <1>5, <1>6, <1>7

(* Serially, make asks for libc before llvm-base.                          *)
LEMMA LibcFirst ==
    ASSUME Shape, goal = "all", jobs = 1, Start("llvm-base")
    PROVE  state["libc"] = "done"
<1>1. Cardinality(Running) = 0 /\ IsFiniteSet(Running)
  <2>1. IsFiniteSet(Running) /\ Cardinality(Running) \in Nat
    BY FewTargets, FS_Subset, FS_CardinalityType DEF Running
  <2>2. Cardinality(Running) < 1
    BY DEF Start
  <2> QED
    BY <2>1, <2>2
<1>2. Running = {}
  BY <1>1, FS_EmptySet
<1>3. \A t \in Targets : state[t] \in {"idle", "done"}
  BY <1>2 DEF Start, Shape, TypeOK, Running
<1>4. /\ {"build_dir", "musl_config", "libc"} \subseteq Needed(goal)
      /\ Prereqs("build_dir") = {} /\ Prereqs("musl_config") = {}
      /\ Prereqs("libc") = {"build_dir", "musl_config"}
      /\ {"build_dir", "musl_config", "libc"} \subseteq Targets
  <2>1. /\ Prereqs("build_dir") = {} /\ Prereqs("musl_config") = {}
        /\ Prereqs("libc") = {"build_dir", "musl_config"}
    BY DEF Prereqs, LibcPrereqs
  <2>2. "libc" \in Needed(goal) /\ Prereqs("libc") \subseteq Needed(goal)
    BY NeededHas, PrereqsAre
  <2> QED
    BY <2>1, <2>2, AllTargets DEF Builders
<1>5. /\ Order[1] = "build_dir" /\ Order[2] = "musl_config" /\ Order[3] = "libc"
      /\ 1 \in DOMAIN Order /\ 2 \in DOMAIN Order /\ 3 \in DOMAIN Order
  BY DEF Order
<1>6. ASSUME NEW n \in {1, 2, 3} PROVE ~Ready(Order[n])
  <2>1. n \in DOMAIN Order
    BY <1>5
  <2>2. Ready(Order[n]) => \E k \in 1 .. n : Order[k] = "llvm-base"
    BY <2>1 DEF Start
  <2>3. \A k \in 1 .. n : k \in {1, 2, 3}
    OBVIOUS
  <2> QED
    BY <2>2, <2>3, <1>5
<1>7. ~Ready("build_dir") /\ ~Ready("musl_config") /\ ~Ready("libc")
  BY <1>5, <1>6
<1>8. state["build_dir"] = "done" /\ state["musl_config"] = "done"
  BY <1>3, <1>4, <1>7 DEF Ready
<1> QED
  BY <1>3, <1>4, <1>7, <1>8 DEF Ready

LEMMA OldByStart ==
    ASSUME OldInv, NEW t \in Targets, Start(t)
    PROVE  Installed' /\ Serial' /\ Alone'
<1>1. /\ UNCHANGED <<src, disk, make, goal, jobs, before>> /\ state[t] = "idle"
      /\ \A u \in Targets : u # t => state'[u] = state[u]
      /\ state'[t] = IF Recipe(t) = <<>> THEN "done" ELSE "running"
      /\ make = "running"
  BY DEF Start, Ready, OldInv, Shape, TypeOK
<1>2. /\ state'["libc"] = "done" <=> state["libc"] = "done"
      /\ state'["rustc"] = "done" <=> state["rustc"] = "done"
  BY <1>1, LibcCopies
<1>3. Installed' /\ Alone'
  BY <1>1, <1>2 DEF OldInv, Installed, Alone
<1>4. Serial'
  <2> SUFFICES ASSUME goal = "all", jobs = 1
               PROVE  /\ state'["llvm-base"] # "idle" => state'["libc"] = "done"
                      /\ state'["libc"] # "done" => disk["clang"] = before["clang"]
                      /\ disk["crt"] # before["crt"] => before["clang"] # 0
    BY <1>1 DEF Serial
  <2>1. /\ state["llvm-base"] # "idle" => state["libc"] = "done"
        /\ state["libc"] # "done" => disk["clang"] = before["clang"]
        /\ disk["crt"] # before["crt"] => before["clang"] # 0
    BY <1>1 DEF OldInv, Serial
  <2>2. t = "llvm-base" => state["libc"] = "done"
    BY LibcFirst DEF OldInv
  <2>3. t # "llvm-base" => state'["llvm-base"] = state["llvm-base"]
    BY <1>1, LibcCopies
  <2> QED
    BY <2>1, <2>2, <2>3, <1>2
<1> QED
  BY <1>3, <1>4

LEMMA OldKept ==
    ASSUME OldInv, [Next]_vars
    PROVE  OldInv'
<1>1. Shape'
  BY ShapeKept DEF OldInv
<1>2. ASSUME Invoke PROVE Installed' /\ Serial' /\ Alone'
  <2>1. before' = disk /\ UNCHANGED <<src, disk, state>>
    BY <1>2 DEF Invoke
  <2>2. \A t \in Targets : state[t] = "idle"
    BY <1>2 DEF Invoke, OldInv, Shape, Quiet
  <2>3. state["libc"] = "idle" /\ state["rustc"] = "idle" /\ state["llvm-base"] = "idle"
    BY <2>2, LibcCopies
  <2>4. Installed'
    BY <2>1, <2>3 DEF Installed
  <2>5. Serial'
    BY <2>1, <2>3 DEF Serial
  <2>6. Alone'
    BY <2>1, <2>3 DEF Alone
  <2> QED
    BY <2>4, <2>5, <2>6
<1>3. ASSUME Update \/ Exits PROVE Installed' /\ Serial' /\ Alone'
  <2>1. make' # "running"
    BY <1>3 DEF Update, Exits
  <2> QED
    BY <2>1 DEF Installed, Serial, Alone
<1>4. ASSUME UNCHANGED vars PROVE Installed' /\ Serial' /\ Alone'
  BY <1>4 DEF vars, OldInv, Installed, Serial, Alone
<1>5. ASSUME NEW t \in Targets, Start(t) PROVE Installed' /\ Serial' /\ Alone'
  BY <1>5, OldByStart
<1>6. ASSUME NEW t \in Targets, Succeeds(t) \/ Fails(t) PROVE Installed' /\ Serial' /\ Alone'
  BY <1>6, InstalledByCommand, SerialByCommand, AloneByCommand
<1>7. Installed' /\ Serial' /\ Alone'
  BY <1>2, <1>3, <1>4, <1>5, <1>6 DEF Next
<1> QED
  BY <1>1, <1>7 DEF OldInv

OldDoneInv == OldInv /\ AllNeedsOldClang /\ FreshSuccessMeansCurrent

THEOREM OldHolds == Spec => []OldDoneInv
<1>1. Init => OldDoneInv
  <2> SUFFICES ASSUME Init PROVE OldDoneInv
    OBVIOUS
  <2>1. make = "off"
    BY DEF Init
  <2>2. OldInv
    BY <2>1, ShapeInit DEF OldInv, Installed, Serial, Alone
  <2> QED
    BY <2>1, <2>2 DEF OldDoneInv, AllNeedsOldClang, FreshSuccessMeansCurrent
<1>2. OldDoneInv /\ [Next]_vars => OldDoneInv'
  <2> SUFFICES ASSUME OldDoneInv, [Next]_vars PROVE OldDoneInv'
    OBVIOUS
  <2>1. OldInv'
    BY OldKept DEF OldDoneInv
  <2>2. ASSUME make' = "done", UNCHANGED vars
        PROVE  AllNeedsOldClang' /\ FreshSuccessMeansCurrent'
    BY <2>2 DEF vars, OldDoneInv, AllNeedsOldClang, FreshSuccessMeansCurrent
  <2>3. ASSUME make' = "done", ~UNCHANGED vars
        PROVE  AllNeedsOldClang' /\ FreshSuccessMeansCurrent'
    <3>1. UNCHANGED <<src, disk, goal, jobs, before>> /\ state[goal] = "done" /\ make = "running"
      BY <2>3, DoneByExit DEF OldDoneInv, OldInv
    <3>2. Shape /\ Installed /\ Serial /\ Alone
      BY DEF OldDoneInv, OldInv
    <3>3. goal \in Needed(goal)
      BY NeededHas
    <3>4. ASSUME goal = "all", jobs = 1 PROVE before["clang"] # 0 \/ before["crt"] # 0
      <4>1. "libc" \in Needed(goal)
        BY <3>4, NeededHas, PrereqsAre
      <4>2. state["libc"] = "done"
        <5>1. "all" \in Targets
          BY AllTargets DEF Builders
        <5> QED
          BY <5>1, <3>1, <3>2, <3>4, PrereqsAre DEF Shape, Ordered
      <4>3. disk["crt"] # 0
        BY <4>1, <4>2, <3>1, <3>2 DEF Installed
      <4>4. disk["crt"] # before["crt"] => before["clang"] # 0
        BY <3>1, <3>2, <3>4 DEF Serial
      <4> QED
        BY <4>3, <4>4
    <3>5. ASSUME goal = "libc", before["crt"] = 0 PROVE disk["crtTarget"] = src
      BY <3>1, <3>2, <3>3, <3>5 DEF Installed
    <3>6. ASSUME goal = "rustc", before["rustStage1"] = 0
          PROVE  disk["rustStage1"] = src /\ \A p \in {"clang", "crt", "lib"} : before[p] # 0
      BY <3>1, <3>2, <3>3, <3>6 DEF Alone
    <3>7. AllNeedsOldClang'
      BY <3>1, <3>4 DEF AllNeedsOldClang
    <3>8. FreshSuccessMeansCurrent'
      BY <3>1, <3>5, <3>6 DEF FreshSuccessMeansCurrent
    <3> QED
      BY <3>7, <3>8
  <2>4. ASSUME make' # "done"
        PROVE  AllNeedsOldClang' /\ FreshSuccessMeansCurrent'
    BY <2>4 DEF AllNeedsOldClang, FreshSuccessMeansCurrent
  <2> QED
    BY <2>1, <2>2, <2>3, <2>4 DEF OldDoneInv
<1> QED
  BY <1>1, <1>2, PTL DEF Spec

(* make all, run serially, succeeds only where a compiler, or crt files,   *)
(* were left by an earlier build.                                          *)
THEOREM AllNeedsEarlierBuild == Spec => []AllNeedsOldClang
<1>1. OldDoneInv => AllNeedsOldClang
  BY DEF OldDoneInv
<1> QED
  BY <1>1, OldHolds, PTL

(* Where there was no old product to take, a libc or rustc that succeeds   *)
(* has built the current one.                                              *)
THEOREM FreshSuccessIsCurrent == Spec => []FreshSuccessMeansCurrent
<1>1. OldDoneInv => FreshSuccessMeansCurrent
  BY DEF OldDoneInv
<1> QED
  BY <1>1, OldHolds, PTL
=============================================================================
