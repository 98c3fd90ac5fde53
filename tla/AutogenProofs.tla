--------------------------- MODULE AutogenProofs ---------------------------
(***************************************************************************)
(* Proofs about autogen.py for every syscall table, every pair of type     *)
(* tables and every history of runs, kills and edits.                      *)
(***************************************************************************)
EXTENDS Autogen, FiniteSetTheorems, TLAPS

-----------------------------------------------------------------------------
(* Arguments.                                                              *)

(* What get_scargs returns is a sequence of names the lookup loop and the  *)
(* pointer test are defined on.                                            *)
LEMMA ScargsType ==
    ASSUME NEW c \in Csvs, NEW i \in Supported(c)
    PROVE  /\ i \in DOMAIN c
           /\ GetScargs(c, i) \in Seq(TypeNames \cup Pointers)
<1>1. i \in DOMAIN c /\ HasArgs(c, i)
  BY DEF Supported, Live
<1>2. c[i] \in Row
  BY <1>1, RunAssumption
<1>3. c[i].nargs \in Nat
  BY <1>1, <1>2 DEF Row, HasArgs
<1>4. \A a : Replace(a) \in TypeNames \cup Pointers
  BY DEF Replace, TypeNames
<1>5. DOMAIN GetScargs(c, i) = 1 .. c[i].nargs
  BY <1>1 DEF GetScargs, RawArgs
<1>6. GetScargs(c, i) \in [1 .. c[i].nargs -> TypeNames \cup Pointers]
  BY <1>4, <1>5 DEF GetScargs
<1> QED
  BY <1>1, <1>3, <1>6

LEMMA CombinedType == ASSUME NEW v PROVE Combined(v) \in TypeNames
BY DEF Combined, TypeNames, WitPrimitives

LEMMA RowArgsType ==
    ASSUME tab \in Csvs PROVE RowArgs \in Seq(TypeNames \cup Pointers)
BY ScargsType DEF RowArgs

-----------------------------------------------------------------------------
(* Type correctness.                                                       *)

LEMMA FilesOfType == ASSUME NEW stub \in Stubs PROVE FilesOf(stub) \in Seq(Files)
<1>1. Archs \in Seq(Files)
  BY RunAssumption DEF Files, ArchFiles
<1>2. FixedFiles \subseteq Files
  BY DEF Files
<1>3. CASE stub = "libc"
  BY <1>2, <1>3 DEF FilesOf, FixedFiles
<1>4. CASE stub = "wamr"
  BY <1>2, <1>4 DEF FilesOf, FixedFiles
<1>5. CASE stub = "wit"
  BY <1>2, <1>5 DEF FilesOf, FixedFiles
<1>6. CASE stub = "arch-diff"
  BY <1>1, <1>6 DEF FilesOf
<1>7. CASE stub = "markdown"
  BY <1>2, <1>7 DEF FilesOf, FixedFiles
<1> QED
  BY <1>3, <1>4, <1>5, <1>6, <1>7 DEF Stubs

LEMMA SeqElements == ASSUME NEW S, NEW s \in Seq(S) PROVE \A n \in DOMAIN s : s[n] \in S
OBVIOUS

LEMMA Bounds == MaxEdits \in Nat /\ MaxKills \in Nat
BY RunAssumption

LEMMA EmptySeq == ASSUME NEW S PROVE <<>> \in Seq(S)
OBVIOUS

LEMMA InitType == Init => TypeOK
<1> SUFFICES ASSUME Init PROVE TypeOK
  OBVIOUS
<1>1. edits \in 0 .. MaxEdits /\ kills \in 0 .. MaxKills
  BY RunAssumption DEF Init
<1>2. FileState(Files, disk) /\ FileState(DocFiles, docs)
  BY DEF Init, FileState
<1>3. stubs \in Seq(Stubs) /\ todo \in Seq(Files) /\ tys \in Seq(WitPrimitives)
  BY EmptySeq DEF Init
<1> QED
  BY <1>1, <1>2, <1>3 DEF Init, TypeOK

LEMMA NextType == TypeOK /\ [Next]_vars => TypeOK'
<1> SUFFICES ASSUME TypeOK, [Next]_vars PROVE TypeOK'
  OBVIOUS
<1> USE DEF TypeOK, FileState
<1>1. ASSUME NEW request \in Requests, NEW isScript \in BOOLEAN, Start(request, isScript)
      PROVE  TypeOK'
  <2>1. request \in Seq(Stubs)
    BY RunAssumption
  <2>2. job' \subseteq Files
    <3>1. \A n \in DOMAIN request : FilesOf(request[n]) \in Seq(Files)
      <4>1. \A n \in DOMAIN request : request[n] \in Stubs
        BY <2>1, SeqElements
      <4> QED
        BY <4>1, FilesOfType
    <3>2. \A n \in DOMAIN request : \A m \in DOMAIN FilesOf(request[n]) :
             FilesOf(request[n])[m] \in Files
      <4> TAKE n \in DOMAIN request
      <4>1. FilesOf(request[n]) \in Seq(Files)
        BY <3>1
      <4> QED
        BY <4>1, SeqElements
    <3> QED
      BY <1>1, <3>2 DEF Start
  <2> QED
    BY <1>1, <2>1, <2>2 DEF Start, store, rust, bounds
<1>2. CASE NextStub
  <2>1. FilesOf(Head(stubs)) \in Seq(Files)
    BY <1>2, FilesOfType DEF NextStub
  <2> QED
    BY <1>2, <2>1 DEF NextStub, store, rust, bounds
<1>3. CASE Exit
  BY <1>3, EmptySeq DEF Exit, Leave, store, bounds
<1>4. CASE Compute
  BY <1>4, EmptySeq DEF Compute, store, bounds
<1>5. CASE Raise
  BY <1>5, EmptySeq DEF Raise, Leave, store, bounds
<1>6. CASE RustArg
  <2>1. RowArgs[Len(tys) + 1] \in TypeNames \cup Pointers
    BY <1>6, RowArgsType DEF RustArg
  <2> QED
    BY <1>6, <2>1 DEF RustArg, store, bounds
<1>7. CASE RustLookup
  BY <1>7, CombinedType DEF RustLookup, store, bounds
<1>8. CASE RustResolved
  BY <1>8, ResolveAssumption DEF RustResolved, store, bounds
<1>9. CASE RustRow
  BY <1>9 DEF RustRow, store, bounds
<1>10. CASE RustDone
  BY <1>10 DEF RustDone, store, rust, bounds
<1>11. CASE Open
  BY <1>11 DEF Open, rust, bounds
<1>12. CASE WriteClose
  BY <1>12 DEF WriteClose, rust, bounds, Whole
<1>13. CASE CopyMarkdown
  BY <1>13 DEF CopyMarkdown, Copy, rust, bounds, DocFiles, Files, FixedFiles
<1>14. CASE CopyWit
  BY <1>14 DEF CopyWit, Copy, rust, bounds, DocFiles, Files, FixedFiles
<1>15. ASSUME NEW whole \in BOOLEAN, Kill(whole) PROVE TypeOK'
  <2>1. kills' \in 0 .. MaxKills
    <3>1. kills \in 0 .. MaxKills /\ kills < MaxKills /\ kills' = kills + 1
      BY <1>15 DEF Kill
    <3> HIDE DEF TypeOK
    <3> QED
      BY <3>1, Bounds
  <2> QED
    BY <1>15, <2>1, EmptySeq DEF Kill, store
<1>16. CASE EditCsv
  <2>1. edits' \in 0 .. MaxEdits
    <3>1. edits \in 0 .. MaxEdits /\ edits < MaxEdits /\ edits' = edits + 1
      BY <1>16 DEF EditCsv
    <3> HIDE DEF TypeOK
    <3> QED
      BY <3>1, Bounds
  <2> QED
    BY <1>16, <2>1 DEF EditCsv, rust
<1>17. CASE UNCHANGED vars
  BY <1>17 DEF vars
<1> QED
  BY <1>1, <1>2, <1>3, <1>4, <1>5, <1>6, <1>7, <1>8, <1>9, <1>10, <1>11, <1>12,
     <1>13, <1>14, <1>15, <1>16, <1>17 DEF Next, Step

(* Every reachable state of the generator is well typed.                   *)
THEOREM TypeCorrect == Spec => []TypeOK
BY InitType, NextType, PTL DEF Spec

-----------------------------------------------------------------------------
(* The invariant behind the file contents: how far the Rust lookup loop is *)
(* on its row, that the text about to be written is complete, and that     *)
(* rust/match.out waits for rust/defs.out.                                 *)
ArgumentsSoFar ==
    /\ Len(tys) <= Len(RowArgs)
    /\ \A k \in 1 .. Len(tys) : tys[k] = RustType(RowArgs[k])

LookupInProgress ==
    ty # None =>
        /\ Len(tys) < Len(RowArgs)
        /\ LET a == RowArgs[Len(tys) + 1]
           IN  IF a \in Pointers THEN ty = a
               ELSE ty \in TypeNames /\ Resolve[ty] = Resolve[a]

RowsSoFar ==
    /\ row \in 1 .. Len(tab) + 1
    /\ buf = {RustDefStub(tab[i], RustifyArgs(GetScargs(tab, i))) :
                 i \in {j \in Supported(tab) : j < row}}
    /\ \A i \in Live(tab) : i < row => Resolvable(tab, i)

RustProgress ==
    pc = "rustify" =>
        Head(todo) = "rust_defs" /\ RowsSoFar /\ ArgumentsSoFar /\ LookupInProgress

TextComplete ==
    pc \in {"open", "write"} =>
        /\ buf = Content(tab, Head(todo))
        /\ Head(todo) = "rust_defs" => ResolvableTable(tab)

MatchAfterDefs ==
    \A n \in DOMAIN todo : todo[n] = "rust_match" =>
        ResolvableTable(tab) \/ \E m \in 1 .. n - 1 : todo[m] = "rust_defs"

(* The Rust files never come from a table in which some argument type has  *)
(* no primitive behind it: rustify_args is still looking it up.            *)
UnresolvedNeverReachesRust ==
    \A f \in {"rust_defs", "rust_match"} :
        disk[f].state = "whole" => ResolvableTable(disk[f].src)

IInv == RustProgress /\ TextComplete /\ MatchAfterDefs
        /\ WholeFilesFaithful /\ UnresolvedNeverReachesRust

(* The loop's equation on one lookup.                                      *)
LEMMA LookupStep ==
    ASSUME NEW v \in TypeNames, v \notin WitPrimitives
    PROVE  Resolve[Combined(v)] = Resolve[v]
BY ResolveAssumption

LEMMA LookupEnd ==
    ASSUME NEW v \in WitPrimitives
    PROVE  v \in TypeNames /\ v \notin Pointers /\ Resolve[v] = v
<1>1. v \in TypeNames
  BY DEF TypeNames
<1> QED
  BY <1>1, ResolveAssumption

(* What RustArg, RustLookup and RustResolved do to the row being resolved. *)
LEMMA ArgStep ==
    ASSUME TypeOK, RustProgress, RustArg
    PROVE  ArgumentsSoFar' /\ LookupInProgress'
<1>1. RowArgs' = RowArgs
  BY DEF RustArg, RowArgs
<1>2. RowArgs \in Seq(TypeNames \cup Pointers) /\ Len(tys) \in Nat
  BY RowArgsType DEF RustArg, TypeOK
<1>3. ArgumentsSoFar'
  BY <1>1 DEF RustArg, RustProgress, ArgumentsSoFar
<1>4. RowArgs[Len(tys) + 1] \in TypeNames \cup Pointers
  BY <1>2 DEF RustArg
<1>5. LookupInProgress'
  BY <1>1, <1>4 DEF RustArg, LookupInProgress
<1> QED
  BY <1>3, <1>5

LEMMA LookupPreserved ==
    ASSUME TypeOK, RustProgress, RustLookup
    PROVE  ArgumentsSoFar' /\ LookupInProgress'
<1>1. RowArgs' = RowArgs
  BY DEF RustLookup, RowArgs
<1>2. ArgumentsSoFar'
  BY <1>1 DEF RustLookup, RustProgress, ArgumentsSoFar
<1>3. /\ Len(tys) < Len(RowArgs)
      /\ RowArgs[Len(tys) + 1] \notin Pointers
      /\ ty \in TypeNames /\ Resolve[ty] = Resolve[RowArgs[Len(tys) + 1]]
  BY DEF RustLookup, RustProgress, LookupInProgress
<1>4. Resolve[Combined(ty)] = Resolve[ty] /\ Combined(ty) \in TypeNames
  BY <1>3, LookupStep, CombinedType DEF RustLookup
<1>5. ty' = Combined(ty) /\ tys' = tys
  BY DEF RustLookup
<1>6. LookupInProgress'
  BY <1>1, <1>3, <1>4, <1>5 DEF LookupInProgress
<1> QED
  BY <1>2, <1>6

LEMMA ResolvedStep ==
    ASSUME TypeOK, RustProgress, RustResolved
    PROVE  ArgumentsSoFar' /\ LookupInProgress'
<1>1. RowArgs' = RowArgs
  BY DEF RustResolved, RowArgs
<1> DEFINE a == RowArgs[Len(tys) + 1]
           t == IF ty \in Pointers THEN S32 ELSE ty
<1>2. tys \in Seq(WitPrimitives) /\ t \in WitPrimitives
  BY ResolveAssumption DEF RustResolved, TypeOK
<1>3. RowArgs \in Seq(TypeNames \cup Pointers)
  BY RowArgsType DEF RustResolved, TypeOK
<1>4. t = RustType(a)
  <2>1. CASE a \in Pointers
    BY <2>1 DEF RustResolved, RustProgress, LookupInProgress, RustType
  <2>2. CASE a \notin Pointers
    <3>1. ty \in TypeNames /\ Resolve[ty] = Resolve[a]
      BY <2>2 DEF RustResolved, RustProgress, LookupInProgress
    <3>2. ty \notin Pointers /\ ty \in WitPrimitives
      BY <3>1, ResolveAssumption DEF RustResolved
    <3> QED
      BY <2>2, <3>1, <3>2, LookupEnd DEF RustType
  <2> QED
    BY <2>1, <2>2
<1>5. tys' = Append(tys, t) /\ ty' = None
  BY DEF RustResolved
<1>6. Len(tys) < Len(RowArgs)
  BY DEF RustResolved, RustProgress, LookupInProgress
<1>7. \A k \in 1 .. Len(tys) : tys[k] = RustType(RowArgs[k])
  BY DEF RustResolved, RustProgress, ArgumentsSoFar
<1>8. Len(tys') = Len(tys) + 1 /\ \A k \in 1 .. Len(tys') :
          tys'[k] = IF k = Len(tys) + 1 THEN t ELSE tys[k]
  BY <1>2, <1>5
<1> HIDE DEF t
<1>9. Len(tys') <= Len(RowArgs)
  BY <1>2, <1>3, <1>6, <1>8
<1>10. \A k \in 1 .. Len(tys') : tys'[k] = RustType(RowArgs[k])
  <2> TAKE k \in 1 .. Len(tys')
  <2>1. CASE k = Len(tys) + 1
    BY <2>1, <1>4, <1>8
  <2>2. CASE k # Len(tys) + 1
    <3>1. k \in 1 .. Len(tys)
      BY <2>2, <1>2, <1>8
    <3> QED
      BY <2>2, <3>1, <1>7, <1>8
  <2> QED
    BY <2>1, <2>2
<1> QED
  BY <1>1, <1>5, <1>9, <1>10 DEF ArgumentsSoFar, LookupInProgress

(* A finished row adds its entry, and its types are all primitives.        *)
LEMMA RowStep ==
    ASSUME TypeOK, RustProgress, RustRow
    PROVE  RowsSoFar' /\ ArgumentsSoFar' /\ LookupInProgress'
<1>1. /\ pc = "rustify" /\ row \in DOMAIN tab /\ ty = None /\ ty' = ty /\ tab' = tab
      /\ Len(tys) = Len(RowArgs) /\ row' = row + 1 /\ tys' = <<>>
      /\ buf' = IF row \in Supported(tab)
                THEN buf \cup {RustDefStub(tab[row], tys)} ELSE buf
  BY DEF RustRow
<1>2. tab \in Csvs /\ tab \in Seq(Row) /\ tys \in Seq(WitPrimitives)
  BY <1>1, RunAssumption DEF TypeOK
<1>3. RowsSoFar /\ ArgumentsSoFar
  BY <1>1 DEF RustProgress
<1>4. RowArgs \in Seq(TypeNames \cup Pointers)
  BY <1>2, RowArgsType
<1>5. tys = RustifyArgs(RowArgs)
  <2>1. DOMAIN tys = DOMAIN RowArgs
    BY <1>1, <1>2, <1>4
  <2>2. \A k \in DOMAIN tys : tys[k] = RustType(RowArgs[k])
    BY <1>2, <1>3 DEF ArgumentsSoFar
  <2>3. tys = [k \in DOMAIN tys |-> tys[k]]
    BY <1>2
  <2> QED
    BY <2>1, <2>2, <2>3 DEF RustifyArgs
<1>6. row \in Live(tab) => Resolvable(tab, row)
  <2>1. CASE row \in Supported(tab)
    <3>1. RowArgs = GetScargs(tab, row)
      BY <2>1 DEF RowArgs
    <3>2. \A k \in DOMAIN RowArgs : RustType(RowArgs[k]) = tys[k] /\ tys[k] \in WitPrimitives
      BY <1>1, <1>2, <1>3, <1>4 DEF ArgumentsSoFar
    <3> QED
      BY <3>1, <3>2 DEF Resolvable
  <2>2. CASE row \in Live(tab) \ Supported(tab)
    <3>1. ~HasArgs(tab, row)
      BY <2>2 DEF Supported
    <3>2. DOMAIN GetScargs(tab, row) = 1 .. 0
      BY <3>1 DEF GetScargs, RawArgs
    <3> QED
      BY <3>2 DEF Resolvable
  <2> QED
    BY <2>1, <2>2
<1>7. \A j : j \in Live(tab) => j \in Nat /\ (j < row + 1 <=> j < row \/ j = row)
  <2>1. row \in Nat
    BY DEF TypeOK
  <2>2. \A j \in Live(tab) : j \in Nat
    BY <1>2 DEF Live
  <2> QED
    BY <2>1, <2>2
<1>8. row' \in 1 .. Len(tab) + 1
  BY <1>1, <1>2
<1>9. \A i \in Live(tab) : i < row' => Resolvable(tab, i)
  BY <1>1, <1>3, <1>6, <1>7 DEF RowsSoFar
<1> DEFINE Stub(i) == RustDefStub(tab[i], RustifyArgs(GetScargs(tab, i)))
<1>10. buf' = {Stub(i) : i \in {j \in Supported(tab) : j < row'}}
  <2>1. buf = {Stub(i) : i \in {j \in Supported(tab) : j < row}}
    BY <1>3 DEF RowsSoFar
  <2>2. CASE row \in Supported(tab)
    <3>1. RustDefStub(tab[row], tys) = Stub(row)
      BY <2>2, <1>5 DEF RowArgs
    <3>2. {j \in Supported(tab) : j < row'} = {j \in Supported(tab) : j < row} \cup {row}
      BY <2>2, <1>1, <1>7 DEF Supported
    <3> HIDE DEF Stub
    <3> QED
      BY <2>1, <2>2, <3>1, <3>2, <1>1
  <2>3. CASE row \notin Supported(tab)
    <3>1. {j \in Supported(tab) : j < row'} = {j \in Supported(tab) : j < row}
      BY <2>3, <1>1, <1>7 DEF Supported
    <3> QED
      BY <2>1, <2>3, <3>1, <1>1
  <2> QED
    BY <2>2, <2>3
<1>11. RowsSoFar'
  BY <1>1, <1>8, <1>9, <1>10 DEF RowsSoFar
<1>12. RowArgs' \in Seq(TypeNames \cup Pointers)
  <2>1. (tab \in Csvs)'
    BY <1>1, <1>2
  <2>2. RowArgs' = IF row' \in Supported(tab) THEN GetScargs(tab, row') ELSE <<>>
    BY <1>1 DEF RowArgs
  <2> QED
    BY <1>2, <2>2, ScargsType, EmptySeq
<1> QED
  BY <1>1, <1>11, <1>12 DEF ArgumentsSoFar, LookupInProgress

(* The loop over an empty prefix of the table.                             *)
LEMMA ComputeStep ==
    ASSUME TypeOK, Compute, pc' = "rustify"
    PROVE  RustProgress'
<1>1. /\ tab' = tab /\ todo' = todo /\ Head(todo) = "rust_defs" /\ buf' = {}
      /\ row' = 1 /\ tys' = <<>> /\ ty' = None /\ tab \in Csvs
  BY DEF Compute, TypeOK
<1>2. tab \in Seq(Row)
  BY <1>1, RunAssumption
<1>3. \A j \in Live(tab) : j \in Nat \ {0}
  BY <1>2 DEF Live
<1>4. RowsSoFar'
  BY <1>1, <1>2, <1>3 DEF RowsSoFar, Supported
<1>5. RowArgs' \in Seq(TypeNames \cup Pointers)
  <2>1. RowArgs' = IF row' \in Supported(tab) THEN GetScargs(tab, row') ELSE <<>>
    BY <1>1 DEF RowArgs
  <2> QED
    BY <1>1, <2>1, ScargsType, EmptySeq
<1> QED
  BY <1>1, <1>4, <1>5 DEF RustProgress, ArgumentsSoFar, LookupInProgress

LEMMA RustProgressStep ==
    ASSUME TypeOK, RustProgress, [Next]_vars PROVE RustProgress'
<1>1. ASSUME pc' = "rustify", UNCHANGED <<pc, todo, tab, buf, rust>> PROVE RustProgress'
  BY <1>1 DEF rust, RustProgress, RowsSoFar, ArgumentsSoFar, LookupInProgress, RowArgs
<1>2. ASSUME NEW request, NEW isScript, Start(request, isScript) PROVE RustProgress'
  BY <1>2 DEF Start, RustProgress
<1>3. CASE NextStub
  BY <1>3 DEF NextStub, RustProgress
<1>4. CASE Exit
  BY <1>4 DEF Exit, Leave, RustProgress
<1>5. CASE Compute
  <2>1. CASE pc' = "rustify"
    BY <1>5, <2>1, ComputeStep
  <2>2. CASE pc' # "rustify"
    BY <2>2 DEF RustProgress
  <2> QED
    BY <2>1, <2>2
<1>6. CASE Raise
  BY <1>6 DEF Raise, Leave, RustProgress
<1>7. ASSUME RustArg \/ RustLookup \/ RustResolved PROVE RustProgress'
  <2>1. ArgumentsSoFar' /\ LookupInProgress'
    BY <1>7, ArgStep, LookupPreserved, ResolvedStep
  <2>2. pc = "rustify" /\ UNCHANGED <<todo, tab, buf, row>>
    BY <1>7 DEF RustArg, RustLookup, RustResolved
  <2>3. Head(todo') = "rust_defs" /\ RowsSoFar'
    BY <2>2 DEF RustProgress, RowsSoFar
  <2> QED
    BY <2>1, <2>3 DEF RustProgress
<1>8. CASE RustRow
  <2>1. pc = "rustify" /\ todo' = todo
    BY <1>8 DEF RustRow
  <2> QED
    BY <1>8, <2>1, RowStep DEF RustProgress
<1>9. CASE RustDone
  BY <1>9 DEF RustDone, RustProgress
<1>10. CASE Open
  BY <1>10 DEF Open, RustProgress
<1>11. CASE WriteClose
  BY <1>11 DEF WriteClose, RustProgress
<1>12. CASE CopyMarkdown
  BY <1>12 DEF CopyMarkdown, Copy, RustProgress
<1>13. CASE CopyWit
  BY <1>13 DEF CopyWit, Copy, RustProgress
<1>14. ASSUME NEW whole, Kill(whole) PROVE RustProgress'
  BY <1>14 DEF Kill, RustProgress
<1>15. CASE EditCsv
  BY <1>1, <1>15 DEF EditCsv, RustProgress
<1>16. CASE UNCHANGED vars
  BY <1>1, <1>16 DEF vars, rust, RustProgress
<1> QED
  BY <1>2, <1>3, <1>4, <1>5, <1>6, <1>7, <1>8, <1>9, <1>10, <1>11, <1>12, <1>13,
     <1>14, <1>15, <1>16 DEF Next, Step

(* The end of the loop: the text is that of the whole table.               *)
LEMMA DoneStep ==
    ASSUME TypeOK, RustProgress, RustDone
    PROVE  buf = RustDefStubs(tab) /\ ResolvableTable(tab)
<1>1. RowsSoFar /\ row \notin DOMAIN tab
  BY DEF RustDone, RustProgress
<1>2. tab \in Seq(Row)
  BY RunAssumption DEF RustDone, TypeOK
<1>3. \A i \in Live(tab) : i < row
  BY <1>1, <1>2 DEF RowsSoFar, Live
<1>4. {j \in Supported(tab) : j < row} = Supported(tab)
  BY <1>3 DEF Supported
<1> QED
  BY <1>1, <1>3, <1>4 DEF RowsSoFar, RustDefStubs, ResolvableTable

LEMMA TextCompleteStep ==
    ASSUME TypeOK, RustProgress, TextComplete, [Next]_vars PROVE TextComplete'
<1>1. ASSUME pc' = pc, UNCHANGED <<todo, tab, buf>> PROVE TextComplete'
  BY <1>1 DEF TextComplete
<1>2. ASSUME NEW request, NEW isScript, Start(request, isScript) PROVE TextComplete'
  BY <1>2 DEF Start, TextComplete
<1>3. CASE NextStub
  BY <1>3 DEF NextStub, TextComplete
<1>4. CASE Exit
  BY <1>4 DEF Exit, Leave, TextComplete
<1>5. CASE Compute
  BY <1>5 DEF Compute, TextComplete
<1>6. CASE Raise
  BY <1>6 DEF Raise, Leave, TextComplete
<1>7. ASSUME RustArg \/ RustLookup \/ RustResolved \/ RustRow PROVE TextComplete'
  BY <1>7 DEF RustArg, RustLookup, RustResolved, RustRow, TextComplete
<1>8. CASE RustDone
  <2>1. Head(todo) = "rust_defs" /\ UNCHANGED <<todo, tab, buf>>
    BY <1>8 DEF RustDone, RustProgress
  <2>2. buf = Content(tab, Head(todo)) /\ ResolvableTable(tab)
    BY <1>8, <2>1, DoneStep DEF Content
  <2> QED
    BY <2>1, <2>2 DEF TextComplete
<1>9. CASE Open
  BY <1>9 DEF Open, TextComplete
<1>10. CASE WriteClose
  BY <1>10 DEF WriteClose, TextComplete
<1>11. CASE CopyMarkdown
  BY <1>11 DEF CopyMarkdown, Copy, TextComplete
<1>12. CASE CopyWit
  BY <1>12 DEF CopyWit, Copy, TextComplete
<1>13. ASSUME NEW whole, Kill(whole) PROVE TextComplete'
  BY <1>13 DEF Kill, TextComplete
<1>14. CASE EditCsv
  BY <1>1, <1>14 DEF EditCsv
<1>15. CASE UNCHANGED vars
  BY <1>1, <1>15 DEF vars
<1> QED
  BY <1>2, <1>3, <1>4, <1>5, <1>6, <1>7, <1>8, <1>9, <1>10, <1>11, <1>12, <1>13,
     <1>14, <1>15 DEF Next, Step

(* rust/match.out is never at the head before rust/defs.out was written.   *)
LEMMA FilesOfOrder ==
    ASSUME NEW stub \in Stubs, NEW n \in DOMAIN FilesOf(stub),
           FilesOf(stub)[n] = "rust_match"
    PROVE  \E m \in 1 .. n - 1 : FilesOf(stub)[m] = "rust_defs"
<1>1. CASE stub = "libc"
  BY <1>1 DEF FilesOf
<1>2. CASE stub = "arch-diff"
  <2>1. FilesOf(stub)[n] \in ArchFiles
    BY <1>2 DEF FilesOf, ArchFiles
  <2> QED
    BY <2>1, RunAssumption DEF FixedFiles
<1>3. CASE stub \in {"wamr", "wit", "markdown"}
  BY <1>3 DEF FilesOf
<1> QED
  BY <1>1, <1>2, <1>3 DEF Stubs

LEMMA MatchAfterDefsStep ==
    ASSUME TypeOK, TextComplete, MatchAfterDefs, [Next]_vars PROVE MatchAfterDefs'
<1>1. ASSUME UNCHANGED <<todo, tab>> PROVE MatchAfterDefs'
  BY <1>1 DEF MatchAfterDefs
<1>2. ASSUME todo' = <<>> PROVE MatchAfterDefs'
  BY <1>2 DEF MatchAfterDefs
<1>3. ASSUME NEW request, NEW isScript, Start(request, isScript) PROVE MatchAfterDefs'
  BY <1>2, <1>3 DEF Start
<1>4. CASE NextStub
  <2>1. Head(stubs) \in Stubs /\ todo' = FilesOf(Head(stubs))
    BY <1>4 DEF NextStub, TypeOK
  <2> QED
    BY <2>1, FilesOfOrder DEF MatchAfterDefs
<1>5. CASE WriteClose
  <2>1. /\ pc = "write" /\ todo \in Seq(Files) /\ todo # <<>>
        /\ todo' = Tail(todo) /\ tab' = tab
    BY <1>5 DEF WriteClose, TypeOK
  <2>2. \A n \in DOMAIN todo' : n + 1 \in DOMAIN todo /\ todo'[n] = todo[n + 1] /\ n \in Nat
    BY <2>1
  <2> SUFFICES ASSUME NEW n \in DOMAIN todo', todo'[n] = "rust_match", ~ResolvableTable(tab)
               PROVE  \E m \in 1 .. n - 1 : todo'[m] = "rust_defs"
    BY <2>1 DEF MatchAfterDefs
  <2>3. PICK m \in 1 .. n : todo[m] = "rust_defs"
    BY <2>1, <2>2 DEF MatchAfterDefs
  <2>4. m # 1
    BY <2>1, <2>3 DEF TextComplete
  <2>5. m - 1 \in 1 .. n - 1 /\ todo'[m - 1] = todo[m]
    BY <2>1, <2>2, <2>3, <2>4
  <2> QED
    BY <2>3, <2>5
<1>6. ASSUME Exit \/ Raise PROVE MatchAfterDefs'
  BY <1>2, <1>6 DEF Exit, Raise, Leave
<1>7. ASSUME NEW whole, Kill(whole) PROVE MatchAfterDefs'
  BY <1>2, <1>7 DEF Kill
<1>8. ASSUME Compute \/ RustArg \/ RustLookup \/ RustResolved \/ RustRow \/ RustDone \/ Open
      PROVE  MatchAfterDefs'
  BY <1>1, <1>8 DEF Compute, RustArg, RustLookup, RustResolved, RustRow, RustDone, Open
<1>9. ASSUME CopyMarkdown \/ CopyWit \/ EditCsv \/ UNCHANGED vars PROVE MatchAfterDefs'
  BY <1>1, <1>9 DEF CopyMarkdown, CopyWit, Copy, EditCsv, vars
<1> QED
  BY <1>3, <1>4, <1>5, <1>6, <1>7, <1>8, <1>9 DEF Next, Step

LEMMA FilesStep ==
    ASSUME TypeOK, TextComplete, MatchAfterDefs,
           WholeFilesFaithful, UnresolvedNeverReachesRust, [Next]_vars
    PROVE  WholeFilesFaithful' /\ UnresolvedNeverReachesRust'
<1>1. ASSUME UNCHANGED <<disk, docs>>
      PROVE  WholeFilesFaithful' /\ UnresolvedNeverReachesRust'
  BY <1>1 DEF WholeFilesFaithful, UnresolvedNeverReachesRust
<1>2. CASE Open
  BY <1>2 DEF Open, Torn, WholeFilesFaithful, UnresolvedNeverReachesRust, TypeOK, FileState,
              Files, FixedFiles
<1>3. CASE WriteClose
  <2>1. /\ pc = "write" /\ todo \in Seq(Files) /\ todo # <<>> /\ docs' = docs
        /\ disk' = [disk EXCEPT ![Head(todo)] = Whole(tab, buf)] /\ DOMAIN disk = Files
    BY <1>3 DEF WriteClose, TypeOK, FileState
  <2>2. \A f \in Files : disk'[f] = IF f = Head(todo) THEN Whole(tab, buf) ELSE disk[f]
    BY <2>1
  <2>3. WholeFilesFaithful'
    BY <2>1, <2>2 DEF WholeFilesFaithful, TextComplete, Whole
  <2>4. Head(todo) \in {"rust_defs", "rust_match"} => ResolvableTable(tab)
    <3>1. CASE Head(todo) = "rust_defs"
      BY <2>1, <3>1 DEF TextComplete
    <3>2. CASE Head(todo) = "rust_match"
      <4>1. 1 \in DOMAIN todo /\ todo[1] = "rust_match"
        BY <2>1, <3>2
      <4> QED
        BY <4>1 DEF MatchAfterDefs
    <3> QED
      BY <3>1, <3>2
  <2>5. UnresolvedNeverReachesRust'
    BY <2>2, <2>4 DEF UnresolvedNeverReachesRust, Whole, Files, FixedFiles
  <2> QED
    BY <2>3, <2>5
<1>4. ASSUME NEW f \in DocFiles, NEW at, NEW next, Copy(f, at, next)
      PROVE  WholeFilesFaithful' /\ UnresolvedNeverReachesRust'
  <2>1. disk' = disk /\ DOMAIN docs = DocFiles /\ f \in Files
    BY <1>4 DEF Copy, TypeOK, FileState, DocFiles, Files, FixedFiles
  <2>2. \A g \in DocFiles : docs'[g] = docs[g] \/ (g = f /\ docs'[g] = disk[f])
    BY <1>4, <2>1 DEF Copy
  <2> QED
    BY <2>1, <2>2 DEF WholeFilesFaithful, UnresolvedNeverReachesRust
<1>5. ASSUME CopyMarkdown \/ CopyWit
      PROVE  WholeFilesFaithful' /\ UnresolvedNeverReachesRust'
  BY <1>4, <1>5 DEF CopyMarkdown, CopyWit, DocFiles
<1>6. ASSUME NEW request, NEW isScript, Start(request, isScript) PROVE UNCHANGED <<disk, docs>>
  BY <1>6 DEF Start, store
<1>7. ASSUME NextStub \/ Exit \/ Compute \/ Raise PROVE UNCHANGED <<disk, docs>>
  BY <1>7 DEF NextStub, Exit, Compute, Raise, store
<1>8. ASSUME RustArg \/ RustLookup \/ RustResolved \/ RustRow \/ RustDone
      PROVE  UNCHANGED <<disk, docs>>
  BY <1>8 DEF RustArg, RustLookup, RustResolved, RustRow, RustDone, store
<1>9. ASSUME (\E whole \in BOOLEAN : Kill(whole)) \/ EditCsv \/ UNCHANGED vars
      PROVE  UNCHANGED <<disk, docs>>
  BY <1>9 DEF Kill, EditCsv, vars, store
<1> QED
  BY <1>1, <1>2, <1>3, <1>5, <1>6, <1>7, <1>8, <1>9 DEF Next, Step

LEMMA InitIInv == Init => IInv
<1> SUFFICES ASSUME Init PROVE IInv
  OBVIOUS
<1>1. RustProgress /\ TextComplete /\ MatchAfterDefs
  BY DEF Init, RustProgress, TextComplete, MatchAfterDefs
<1>2. WholeFilesFaithful /\ UnresolvedNeverReachesRust
  BY DEF Init, WholeFilesFaithful, UnresolvedNeverReachesRust, Absent, Files, FixedFiles
<1> QED
  BY <1>1, <1>2 DEF IInv

LEMMA NextIInv == TypeOK /\ IInv /\ [Next]_vars => IInv'
BY RustProgressStep, TextCompleteStep, MatchAfterDefsStep, FilesStep DEF IInv

THEOREM Invariance == Spec => []IInv
BY InitIInv, NextIInv, TypeCorrect, PTL DEF Spec

(* Every whole file, and every copy under docs/, is exactly the rendering  *)
(* of one table, whatever runs, kills and edits came before; in particular *)
(* the Rust declarations the lookup loop built.                            *)
THEOREM FilesAreFaithful == Spec => []WholeFilesFaithful
BY Invariance, PTL DEF IInv

(* The Rust files never hold a table one of whose types has no primitive   *)
(* behind it.                                                              *)
THEOREM OnlyResolvedTypesReachRust == Spec => []UnresolvedNeverReachesRust
BY Invariance, PTL DEF IInv

-----------------------------------------------------------------------------
(* Linking.                                                                *)

LEMMA AnonymizedArgument ==
    ASSUME NEW args, NEW k \in DOMAIN args
    PROVE  /\ DOMAIN PtrAnonymize(args) = DOMAIN args
           /\ args[k] \in Pointers => PtrAnonymize(args)[k] \in Pointers
           /\ args[k] \notin Pointers => PtrAnonymize(args)[k] = args[k]
BY ResolveAssumption DEF PtrAnonymize

LEMMA AnonymizedLength ==
    ASSUME NEW c \in Csvs, NEW i \in Supported(c)
    PROVE  /\ Len(PtrAnonymize(GetScargs(c, i))) = Len(GetScargs(c, i))
           /\ DOMAIN PtrAnonymize(GetScargs(c, i)) = DOMAIN GetScargs(c, i)
<1>1. GetScargs(c, i) \in Seq(TypeNames \cup Pointers)
  BY ScargsType
<1>2. DOMAIN PtrAnonymize(GetScargs(c, i)) = DOMAIN GetScargs(c, i)
  BY DEF PtrAnonymize
<1>3. PtrAnonymize(GetScargs(c, i)) \in
        [DOMAIN GetScargs(c, i) -> TypeNames \cup Pointers]
  BY <1>1, ResolveAssumption DEF PtrAnonymize
<1>4. PtrAnonymize(GetScargs(c, i)) \in Seq(TypeNames \cup Pointers)
  BY <1>1, <1>3
<1> QED
  BY <1>1, <1>2, <1>4

(* The host's native signature of a row is the wasm signature clang gives  *)
(* the import of that row.                                                 *)
LEMMA NativeSignature ==
    ASSUME NEW c \in Csvs, PortableTypes(c), NEW i \in Supported(c)
    PROVE  LET args == PtrAnonymize(GetScargs(c, i))
           IN  GenNativeArgs(GetScargs(c, i)) = [k \in DOMAIN args |-> WasmType(args[k])]
<1> DEFINE raw == GetScargs(c, i)
           args == PtrAnonymize(raw)
<1>1. DOMAIN args = DOMAIN raw
  BY DEF PtrAnonymize
<1>2. ASSUME NEW k \in DOMAIN raw
      PROVE  (IF raw[k] \in LongNames THEN "I" ELSE "i") = WasmType(args[k])
  <2>1. CASE raw[k] \in Pointers
    <3>1. args[k] \in Pointers /\ raw[k] \notin LongNames
      BY <2>1, AnonymizedArgument, ResolveAssumption
    <3> QED
      BY <3>1 DEF WasmType
  <2>2. CASE raw[k] \notin Pointers
    <3>1. args[k] = raw[k]
      BY <2>2, AnonymizedArgument
    <3>2. CWidth[raw[k]] = Width(Resolve[raw[k]])
          /\ (raw[k] \in LongNames <=> Width(Resolve[raw[k]]) = "I")
      BY <2>2 DEF PortableTypes
    <3>3. Width(Resolve[raw[k]]) \in {"I", "i"}
      BY DEF Width
    <3> QED
      BY <2>2, <3>1, <3>2, <3>3 DEF WasmType
  <2> QED
    BY <2>1, <2>2
<1> QED
  BY <1>1, <1>2 DEF GenNativeArgs

LEMMA CaseLinks ==
    ASSUME NEW c \in Csvs, Linkable(c), NEW e \in CaseStubs(c)
    PROVE  /\ \A d \in DefStubs(c) : d.fn = e.fn => d.args = e.args
           /\ \A d \in DeclrStubs(c) : d.fn = e.fn => d.arity = Len(e.args)
           /\ \E d \in ImplStubs(c) :
                 /\ d.fn = e.fn /\ d.arity = Len(e.args)
                 /\ \A k \in d.maddr : WasmType(e.args[k]) = "i"
           /\ \E s \in SymbolsStubs(c) :
                 /\ s.fn = e.fn
                 /\ s.sig = [k \in DOMAIN e.args |-> WasmType(e.args[k])]
<1>1. PICK i \in Supported(c) :
        e = [name |-> c[i].name, fn |-> FnName(c[i]),
             args |-> PtrAnonymize(GetScargs(c, i))]
  BY DEF CaseStubs
<1>2. i \in Live(c) /\ \A j \in Live(c) : FnName(c[j]) = FnName(c[i]) => j = i
  BY DEF Supported, Linkable, UniqueFunctions
<1>3. e.fn = FnName(c[i]) /\ e.args = PtrAnonymize(GetScargs(c, i))
  BY <1>1
<1>4. Len(e.args) = Len(GetScargs(c, i)) /\ DOMAIN e.args = DOMAIN GetScargs(c, i)
  BY <1>3, AnonymizedLength
<1>5. \A d \in DefStubs(c) : d.fn = e.fn => d.args = e.args
  BY <1>2, <1>3 DEF DefStubs
<1>6. \A d \in DeclrStubs(c) : d.fn = e.fn => d.arity = Len(e.args)
  BY <1>2, <1>3, <1>4 DEF DeclrStubs
<1>7. \E d \in ImplStubs(c) :
        /\ d.fn = e.fn /\ d.arity = Len(e.args)
        /\ \A k \in d.maddr : WasmType(e.args[k]) = "i"
  <2> DEFINE d == [fn |-> FnName(c[i]), arity |-> Len(GetScargs(c, i)),
                   maddr |-> {k \in DOMAIN GetScargs(c, i) : GetScargs(c, i)[k] \in Pointers}]
  <2>1. d \in ImplStubs(c)
    BY DEF ImplStubs
  <2>2. \A k \in d.maddr : e.args[k] \in Pointers
    BY <1>3, AnonymizedArgument
  <2> QED
    BY <1>3, <1>4, <2>1, <2>2 DEF WasmType
<1>8. \E s \in SymbolsStubs(c) :
        /\ s.fn = e.fn
        /\ s.sig = [k \in DOMAIN e.args |-> WasmType(e.args[k])]
  <2> DEFINE s == [fn |-> FnName(c[i]), sig |-> GenNativeArgs(GetScargs(c, i))]
  <2>1. s \in SymbolsStubs(c)
    BY DEF SymbolsStubs
  <2>2. s.sig = [k \in DOMAIN e.args |-> WasmType(e.args[k])]
    BY <1>3, NativeSignature DEF Linkable
  <2> QED
    BY <1>3, <2>1, <2>2
<1> QED
  BY <1>5, <1>6, <1>7, <1>8

(* Whenever the guest's and the host's files come from one linkable table, *)
(* every call the C library makes finds its import, declared with the      *)
(* types it is cast to, and a host symbol of the same wasm signature.      *)
THEOREM GuestLinksToHost == Spec => []GuestImportsLink
<1>1. TypeOK /\ WholeFilesFaithful => GuestImportsLink
  <2> DEFINE fs == {"defs", "case", "declr", "impl", "symbols"}
             c == disk["case"].src
  <2> SUFFICES ASSUME TypeOK, WholeFilesFaithful, FromSameTable(fs), Linkable(c),
                      NEW e \in disk["case"].body
               PROVE  /\ \A d \in disk["defs"].body : d.fn = e.fn => d.args = e.args
                      /\ \A d \in disk["declr"].body : d.fn = e.fn => d.arity = Len(e.args)
                      /\ \E d \in disk["impl"].body :
                            /\ d.fn = e.fn /\ d.arity = Len(e.args)
                            /\ \A k \in d.maddr : WasmType(e.args[k]) = "i"
                      /\ \E s \in disk["symbols"].body :
                            /\ s.fn = e.fn
                            /\ s.sig = [k \in DOMAIN e.args |-> WasmType(e.args[k])]
    BY DEF GuestImportsLink
  <2>1. \A f \in fs : f \in Files /\ disk[f].state = "whole" /\ disk[f].src = c
    BY DEF FromSameTable, Files, FixedFiles
  <2>2. c \in Csvs
    <3>1. "case" \in Files /\ disk["case"].state = "whole"
      BY <2>1
    <3>2. disk["case"] \in {Absent, Torn} \/ disk["case"].src \in Csvs
      BY <3>1 DEF TypeOK, FileState
    <3> QED
      BY <3>1, <3>2 DEF Absent, Torn
  <2>3. \A f \in fs : disk[f].body = Content(c, f)
    BY <2>1 DEF WholeFilesFaithful
  <2>4. /\ disk["case"].body = CaseStubs(c) /\ disk["defs"].body = DefStubs(c)
        /\ disk["declr"].body = DeclrStubs(c) /\ disk["impl"].body = ImplStubs(c)
        /\ disk["symbols"].body = SymbolsStubs(c)
    BY <2>3 DEF Content
  <2> HIDE DEF c
  <2> QED
    BY <2>2, <2>4, CaseLinks
<1> QED
  BY <1>1, TypeCorrect, FilesAreFaithful, PTL

(* The Rust import of a row has the wasm signature the host registers.     *)
LEMMA RustSignature ==
    ASSUME NEW c \in Csvs, PortableTypes(c), NEW i \in Supported(c)
    PROVE  LET args == RustifyArgs(GetScargs(c, i))
           IN  GenNativeArgs(GetScargs(c, i)) = [k \in DOMAIN args |-> Width(args[k])]
<1> DEFINE raw == GetScargs(c, i)
           args == RustifyArgs(raw)
<1>1. DOMAIN args = DOMAIN raw
  BY DEF RustifyArgs
<1>2. ASSUME NEW k \in DOMAIN raw
      PROVE  (IF raw[k] \in LongNames THEN "I" ELSE "i") = Width(args[k])
  <2>1. args[k] = RustType(raw[k])
    BY DEF RustifyArgs
  <2>2. CASE raw[k] \in Pointers
    <3>1. args[k] = S32 /\ raw[k] \notin LongNames
      BY <2>1, <2>2, ResolveAssumption DEF RustType
    <3>2. Width(S32) = "i"
      BY ResolveAssumption DEF Width
    <3> QED
      BY <3>1, <3>2
  <2>3. CASE raw[k] \notin Pointers
    <3>1. args[k] = Resolve[raw[k]]
      BY <2>1, <2>3 DEF RustType
    <3>2. raw[k] \in LongNames <=> Width(Resolve[raw[k]]) = "I"
      BY <2>3 DEF PortableTypes
    <3>3. Width(Resolve[raw[k]]) \in {"I", "i"}
      BY DEF Width
    <3> QED
      BY <3>1, <3>2, <3>3
  <2> QED
    BY <2>2, <2>3
<1> QED
  BY <1>1, <1>2 DEF GenNativeArgs

LEMMA ArmLinks ==
    ASSUME NEW c \in Csvs, Linkable(c), NEW arm \in RustMatchStubs(c), arm.implemented
    PROVE  /\ \E d \in RustDefStubs(c) : d.fn = arm.fn /\ Len(d.args) = arm.arity
           /\ \A d \in RustDefStubs(c), s \in SymbolsStubs(c) :
                 d.fn = arm.fn /\ s.fn = arm.fn =>
                     s.sig = [k \in DOMAIN d.args |-> Width(d.args[k])]
<1>1. PICK i \in Live(c) :
        arm = [name |-> c[i].name, fn |-> FnName(c[i]),
               arity |-> Len(GetScargs(c, i)), implemented |-> HasArgs(c, i)]
  BY DEF RustMatchStubs
<1>2. i \in Supported(c) /\ arm.fn = FnName(c[i]) /\ arm.arity = Len(GetScargs(c, i))
  BY <1>1 DEF Supported
<1>3. \A j \in Supported(c) : FnName(c[j]) = FnName(c[i]) => j = i
  BY DEF Supported, Linkable, UniqueFunctions
<1> DEFINE args == RustifyArgs(GetScargs(c, i))
<1>4. Len(args) = Len(GetScargs(c, i))
  <2>1. GetScargs(c, i) \in Seq(TypeNames \cup Pointers)
    BY <1>2, ScargsType
  <2>2. args \in [DOMAIN GetScargs(c, i) -> {RustType(a) : a \in TypeNames \cup Pointers}]
    BY <2>1 DEF RustifyArgs
  <2>3. args \in Seq({RustType(a) : a \in TypeNames \cup Pointers})
    BY <2>1, <2>2
  <2> QED
    BY <2>1, <2>2, <2>3
<1>5. \E d \in RustDefStubs(c) : d.fn = arm.fn /\ Len(d.args) = arm.arity
  <2>1. RustDefStub(c[i], args) \in RustDefStubs(c)
    BY <1>2 DEF RustDefStubs
  <2> QED
    BY <1>2, <1>4, <2>1 DEF RustDefStub
<1>6. ASSUME NEW d \in RustDefStubs(c), NEW s \in SymbolsStubs(c),
             d.fn = arm.fn, s.fn = arm.fn
      PROVE  s.sig = [k \in DOMAIN d.args |-> Width(d.args[k])]
  <2>1. d.args = args
    BY <1>2, <1>3, <1>6 DEF RustDefStubs, RustDefStub
  <2>2. s.sig = GenNativeArgs(GetScargs(c, i))
    BY <1>2, <1>3, <1>6 DEF SymbolsStubs
  <2> QED
    BY <1>2, <2>1, <2>2, RustSignature DEF Linkable
<1> QED
  BY <1>5, <1>6

(* Whenever Rust's and the host's files come from one linkable table,      *)
(* every implemented arm of Rust's syscall() calls a declared import of    *)
(* its arity, with the wasm signature the host registers.                  *)
THEOREM RustLinksToHost == Spec => []RustImportsLink
<1>1. TypeOK /\ WholeFilesFaithful => RustImportsLink
  <2> DEFINE fs == {"rust_defs", "rust_match", "symbols"}
             c == disk["symbols"].src
  <2> SUFFICES ASSUME TypeOK, WholeFilesFaithful, FromSameTable(fs), Linkable(c),
                      NEW arm \in disk["rust_match"].body, arm.implemented
               PROVE  /\ \E d \in disk["rust_defs"].body :
                            d.fn = arm.fn /\ Len(d.args) = arm.arity
                      /\ \A d \in disk["rust_defs"].body, s \in disk["symbols"].body :
                            d.fn = arm.fn /\ s.fn = arm.fn =>
                                s.sig = [k \in DOMAIN d.args |-> Width(d.args[k])]
    BY DEF RustImportsLink
  <2>1. \A f \in fs : f \in Files /\ disk[f].state = "whole" /\ disk[f].src = c
    BY DEF FromSameTable, Files, FixedFiles
  <2>2. c \in Csvs
    <3>1. "symbols" \in Files /\ disk["symbols"].state = "whole"
      BY <2>1
    <3>2. disk["symbols"] \in {Absent, Torn} \/ disk["symbols"].src \in Csvs
      BY <3>1 DEF TypeOK, FileState
    <3> QED
      BY <3>1, <3>2 DEF Absent, Torn
  <2>3. \A f \in fs : disk[f].body = Content(c, f)
    BY <2>1 DEF WholeFilesFaithful
  <2>4. /\ disk["rust_defs"].body = RustDefStubs(c)
        /\ disk["rust_match"].body = RustMatchStubs(c)
        /\ disk["symbols"].body = SymbolsStubs(c)
    BY <2>3 DEF Content
  <2> HIDE DEF c
  <2> QED
    BY <2>2, <2>4, ArmLinks
<1> QED
  BY <1>1, TypeCorrect, FilesAreFaithful, PTL

-----------------------------------------------------------------------------
(* The runs: what a kill leaves, what a run that finishes leaves, and that *)
(* a run publishes its files.                                              *)
InRun == pc \in {"next", "rustify", "open", "write"}

(* The steps of a run that touch no file, and keep the run going.          *)
QuietStep == NextStub \/ Compute \/ RustArg \/ RustLookup \/ RustResolved \/ RustRow \/ RustDone

LEMMA Quiet ==
    ASSUME QuietStep
    PROVE  /\ InRun /\ InRun' /\ pc # "write" /\ pc' # "write"
           /\ UNCHANGED <<csv, disk, docs, script, job, tab, status, edits, kills>>
BY DEF QuietStep, NextStub, Compute, RustArg, RustLookup, RustResolved, RustRow, RustDone,
       InRun, store, bounds

LEMMA Ends ==
    ASSUME TypeOK, Exit \/ Raise \/ \E whole \in BOOLEAN : Kill(whole)
    PROVE  /\ InRun /\ ~InRun' /\ pc' # "write"
           /\ UNCHANGED <<csv, disk, docs, job, tab>>
BY DEF Exit, Raise, Kill, Leave, InRun, store

LEMMA Copies ==
    ASSUME CopyMarkdown \/ CopyWit
    PROVE  /\ ~InRun /\ ~InRun' /\ pc # "write" /\ pc' # "write"
           /\ UNCHANGED <<csv, disk, job, tab, status, edits, kills>>
BY DEF CopyMarkdown, CopyWit, Copy, InRun, bounds

-----------------------------------------------------------------------------
(* A kill tears one file.                                                  *)

TornFiles == {f \in Files : disk[f].state = "torn"}
Writing == IF pc = "write" THEN 1 ELSE 0

TornInv ==
    /\ pc = "write" => Head(todo) \in TornFiles
    /\ IsFiniteSet(TornFiles) /\ Cardinality(TornFiles) <= kills + Writing

LEMMA InitTorn == Init => TornInv
<1> SUFFICES ASSUME Init PROVE TornInv
  OBVIOUS
<1>1. TornFiles = {}
  BY DEF Init, TornFiles, Absent
<1>2. IsFiniteSet(TornFiles) /\ Cardinality(TornFiles) = 0
  BY <1>1, FS_EmptySet
<1>3. pc # "write" /\ kills = 0
  BY DEF Init
<1> QED BY <1>2, <1>3 DEF TornInv, Writing

LEMMA NextTorn == TypeOK /\ TornInv /\ [Next]_vars => TornInv'
<1> SUFFICES ASSUME TypeOK, TornInv, [Next]_vars PROVE TornInv'
  OBVIOUS
<1>1. kills \in Nat /\ Cardinality(TornFiles) \in Nat
  <2>1. kills \in 0 .. MaxKills
    BY DEF TypeOK
  <2>2. Cardinality(TornFiles) \in Nat
    BY FS_CardinalityType DEF TornInv
  <2> QED BY <2>1, <2>2, Bounds
<1>2. ASSUME UNCHANGED disk, pc # "write", pc' # "write", kills' = kills PROVE TornInv'
  BY <1>2 DEF TornInv, TornFiles, Writing
<1>3. CASE Open
  <2>1. /\ pc = "open" /\ pc' = "write" /\ todo' = todo /\ kills' = kills
        /\ disk' = [disk EXCEPT ![Head(todo)] = Torn]
        /\ DOMAIN disk = Files /\ Head(todo) \in Files
    BY <1>3 DEF Open, TypeOK, FileState, bounds
  <2>2. TornFiles' = TornFiles \cup {Head(todo)}
    BY <2>1 DEF TornFiles, Torn
  <2>3. /\ IsFiniteSet(TornFiles')
        /\ Cardinality(TornFiles') = Cardinality(TornFiles)
           \/ Cardinality(TornFiles') = Cardinality(TornFiles) + 1
    BY <2>2, FS_AddElement DEF TornInv
  <2>4. Cardinality(TornFiles) <= kills
    BY <1>1, <2>1 DEF TornInv, Writing
  <2>5. Cardinality(TornFiles') <= kills' + 1
    BY <1>1, <2>1, <2>3, <2>4
  <2> QED BY <2>1, <2>2, <2>3, <2>5 DEF TornInv, Writing
<1>4. CASE WriteClose
  <2>1. /\ pc = "write" /\ pc' = "next" /\ kills' = kills
        /\ disk' = [disk EXCEPT ![Head(todo)] = Whole(tab, buf)]
        /\ DOMAIN disk = Files /\ Head(todo) \in TornFiles
    BY <1>4 DEF WriteClose, TypeOK, FileState, TornInv, bounds
  <2>2. TornFiles' = TornFiles \ {Head(todo)}
    BY <2>1 DEF TornFiles, Whole
  <2>3. IsFiniteSet(TornFiles') /\ Cardinality(TornFiles') = Cardinality(TornFiles) - 1
    BY <2>1, <2>2, FS_RemoveElement DEF TornInv
  <2>4. Cardinality(TornFiles) <= kills + 1
    BY <2>1 DEF TornInv, Writing
  <2>5. Cardinality(TornFiles') <= kills'
    BY <1>1, <2>1, <2>3, <2>4
  <2>6. Writing' = 0 /\ pc' # "write"
    BY <2>1 DEF Writing
  <2>7. kills' + Writing' = kills'
    BY <1>1, <2>1, <2>6
  <2> QED BY <2>3, <2>5, <2>6, <2>7 DEF TornInv
<1>5. ASSUME NEW whole \in BOOLEAN, Kill(whole) PROVE TornInv'
  <2>1. disk' = disk /\ kills' = kills + 1 /\ pc' # "write"
    BY <1>5 DEF Kill, store
  <2>2. TornFiles' = TornFiles
    BY <2>1 DEF TornFiles
  <2>3. Cardinality(TornFiles) <= kills + 1
    BY <1>1 DEF TornInv, Writing
  <2> QED BY <1>1, <2>1, <2>2, <2>3 DEF TornInv, Writing
<1>6. CASE Exit \/ Raise
  <2>1. UNCHANGED <<disk, kills>> /\ pc # "write" /\ pc' # "write"
    BY <1>6 DEF Exit, Raise, Leave, store, bounds
  <2> QED BY <1>2, <2>1
<1>7. CASE QuietStep
  BY <1>2, <1>7, Quiet
<1>8. CASE CopyMarkdown \/ CopyWit
  BY <1>2, <1>8, Copies
<1>9. ASSUME NEW request, NEW isScript, Start(request, isScript) PROVE TornInv'
  <2>1. UNCHANGED <<disk, kills>> /\ pc # "write" /\ pc' # "write"
    BY <1>9 DEF Start, store, bounds
  <2> QED BY <1>2, <2>1
<1>10. CASE EditCsv \/ UNCHANGED vars
  BY <1>10 DEF EditCsv, vars, TornInv, TornFiles, Writing
<1> QED
  BY <1>3, <1>4, <1>5, <1>6, <1>7, <1>8, <1>9, <1>10 DEF Next, Step, QuietStep

(* However many runs raise, hang or are killed, at most one file per kill  *)
(* is torn, and the one being written.                                     *)
THEOREM KillsTearOneFile == Spec => []OneTornFilePerKill
<1>1. TornInv => OneTornFilePerKill
  BY DEF TornInv, TornFiles, Writing, OneTornFilePerKill
<1> QED BY <1>1, InitTorn, NextTorn, TypeCorrect, PTL DEF Spec

-----------------------------------------------------------------------------
(* A run that finishes is complete.                                        *)

InTodo(f) == \E m \in DOMAIN todo : todo[m] = f
InStubs(f) == \E n \in DOMAIN stubs : \E m \in DOMAIN FilesOf(stubs[n]) : FilesOf(stubs[n])[m] = f
Done(f) == disk[f].state = "whole" /\ disk[f].src = tab

RunInv ==
    /\ InRun => status = "running" /\ \A f \in job : Done(f) \/ InTodo(f) \/ InStubs(f)
    /\ FinishedRunIsComplete

LEMMA InitRun == Init => RunInv
BY DEF Init, RunInv, InRun, FinishedRunIsComplete

LEMMA NextRun == TypeOK /\ RunInv /\ [Next]_vars => RunInv'
<1> SUFFICES ASSUME TypeOK, RunInv, [Next]_vars PROVE RunInv'
  OBVIOUS
<1>1. ASSUME NEW request \in Requests, NEW isScript \in BOOLEAN, Start(request, isScript)
      PROVE  RunInv'
  <2>1. status' = "running" /\ stubs' = request
    BY <1>1 DEF Start
  <2>2. \A f \in job' : InStubs(f)'
    BY <1>1 DEF Start, InStubs
  <2> QED BY <2>1, <2>2 DEF RunInv, FinishedRunIsComplete
<1>2. CASE NextStub
  <2>1. /\ todo = <<>> /\ stubs \in Seq(Stubs) /\ stubs # <<>>
        /\ todo' = FilesOf(Head(stubs)) /\ stubs' = Tail(stubs)
        /\ UNCHANGED <<disk, job, tab, status>> /\ InRun
    BY <1>2, Quiet DEF NextStub, TypeOK, QuietStep
  <2>2. ASSUME NEW f \in job PROVE Done(f)' \/ InTodo(f)' \/ InStubs(f)'
    <3>1. Done(f) => Done(f)'
      BY <2>1 DEF Done
    <3>2. ~InTodo(f)
      BY <2>1 DEF InTodo
    <3>3. ASSUME InStubs(f) PROVE InTodo(f)' \/ InStubs(f)'
      <4>1. PICK n \in DOMAIN stubs :
                \E m \in DOMAIN FilesOf(stubs[n]) : FilesOf(stubs[n])[m] = f
        BY <3>3 DEF InStubs
      <4>2. CASE n = 1
        <5>1. stubs[1] = Head(stubs)
          BY <2>1
        <5> QED BY <2>1, <4>1, <4>2, <5>1 DEF InTodo
      <4>3. CASE n # 1
        <5>1. n - 1 \in DOMAIN stubs' /\ stubs'[n - 1] = stubs[n]
          BY <2>1, <4>3
        <5> QED BY <4>1, <5>1 DEF InStubs
      <4> QED BY <4>2, <4>3
    <3> QED BY <2>1, <3>1, <3>2, <3>3 DEF RunInv
  <2> QED BY <2>1, <2>2 DEF RunInv, FinishedRunIsComplete
<1>3. CASE WriteClose
  <2>1. /\ InRun /\ status' = status /\ UNCHANGED <<stubs, job, tab>>
        /\ disk' = [disk EXCEPT ![Head(todo)] = Whole(tab, buf)]
        /\ DOMAIN disk = Files /\ todo \in Seq(Files) /\ todo # <<>> /\ todo' = Tail(todo)
    BY <1>3 DEF WriteClose, InRun, TypeOK, FileState
  <2>2. ASSUME NEW f \in job PROVE Done(f)' \/ InTodo(f)' \/ InStubs(f)'
    <3>1. f \in Files
      BY DEF TypeOK
    <3>2. f = Head(todo) => Done(f)'
      BY <2>1, <3>1 DEF Done, Whole
    <3>3. f # Head(todo) /\ Done(f) => Done(f)'
      BY <2>1, <3>1 DEF Done
    <3>4. InStubs(f) => InStubs(f)'
      BY <2>1 DEF InStubs
    <3>5. ASSUME f # Head(todo), InTodo(f) PROVE InTodo(f)'
      <4>1. PICK m \in DOMAIN todo : todo[m] = f
        BY <3>5 DEF InTodo
      <4>2. m # 1
        BY <2>1, <3>5, <4>1
      <4>3. m - 1 \in DOMAIN todo' /\ todo'[m - 1] = f
        BY <2>1, <4>1, <4>2
      <4> QED BY <4>3 DEF InTodo
    <3> QED BY <2>1, <3>2, <3>3, <3>4, <3>5 DEF RunInv
  <2> QED BY <2>1, <2>2 DEF RunInv, FinishedRunIsComplete
<1>4. CASE Open
  <2>1. /\ InRun /\ status' = status /\ UNCHANGED <<stubs, job, tab, todo>>
        /\ disk' = [disk EXCEPT ![Head(todo)] = Torn]
        /\ DOMAIN disk = Files /\ todo \in Seq(Files) /\ todo # <<>>
    BY <1>4 DEF Open, InRun, TypeOK, FileState
  <2>2. ASSUME NEW f \in job PROVE Done(f)' \/ InTodo(f)' \/ InStubs(f)'
    <3>1. f \in Files
      BY DEF TypeOK
    <3>2. f = Head(todo) => InTodo(f)
      BY <2>1 DEF InTodo
    <3>3. f # Head(todo) /\ Done(f) => Done(f)'
      BY <2>1, <3>1 DEF Done
    <3>4. (InStubs(f) => InStubs(f)') /\ (InTodo(f) => InTodo(f)')
      BY <2>1 DEF InStubs, InTodo
    <3> QED BY <2>1, <3>2, <3>3, <3>4 DEF RunInv
  <2> QED BY <2>1, <2>2 DEF RunInv, FinishedRunIsComplete
<1>5. CASE Compute \/ RustArg \/ RustLookup \/ RustResolved \/ RustRow \/ RustDone
  <2>1. InRun /\ UNCHANGED <<disk, job, tab, status>>
    BY <1>5, Quiet DEF QuietStep
  <2>2. UNCHANGED <<stubs, todo>>
    BY <1>5 DEF Compute, RustArg, RustLookup, RustResolved, RustRow, RustDone
  <2> QED BY <2>1, <2>2 DEF RunInv, FinishedRunIsComplete, Done, InTodo, InStubs
<1>6. CASE Exit
  <2>1. InRun /\ ~InRun' /\ UNCHANGED <<disk, job, tab>> /\ todo = <<>> /\ stubs = <<>>
    BY <1>6, Ends DEF Exit
  <2>2. \A f \in job : Done(f)
    BY <2>1 DEF RunInv, InTodo, InStubs
  <2> QED BY <2>1, <2>2 DEF RunInv, FinishedRunIsComplete, Done
<1>7. CASE Raise \/ \E whole \in BOOLEAN : Kill(whole)
  <2>1. status' \in {"raised", "killed"}
    BY <1>7 DEF Raise, Kill, Leave
  <2>2. ~InRun'
    BY <1>7, Ends
  <2> QED BY <2>1, <2>2 DEF RunInv, FinishedRunIsComplete
<1>8. CASE CopyMarkdown \/ CopyWit
  BY <1>8, Copies DEF RunInv, FinishedRunIsComplete
<1>9. CASE EditCsv \/ UNCHANGED vars
  <2>1. UNCHANGED <<disk, job, tab, status, stubs, todo, pc>>
    BY <1>9 DEF EditCsv, vars
  <2> QED BY <2>1 DEF RunInv, FinishedRunIsComplete, InRun, Done, InTodo, InStubs
<1> QED
  BY <1>1, <1>2, <1>3, <1>4, <1>5, <1>6, <1>7, <1>8, <1>9 DEF Next, Step

(* A run that exits with 0 has written every file it was asked for from    *)
(* the table it read.                                                      *)
THEOREM FinishedRunsAreComplete == Spec => []FinishedRunIsComplete
<1>1. RunInv => FinishedRunIsComplete
  BY DEF RunInv
<1> QED BY <1>1, InitRun, NextRun, TypeCorrect, PTL DEF Spec

-----------------------------------------------------------------------------
(* The documents.                                                          *)

LEMMA SameNumber ==
    ASSUME NEW S, NEW T, IsFiniteSet(S), NEW f \in [S -> T],
           \A i, j \in S : f[i] = f[j] => i = j,
           \A t \in T : \E i \in S : f[i] = t
    PROVE  Cardinality(T) = Cardinality(S)
<1>1. f \in Bijection(S, T)
  BY DEF Bijection, Injection, IsInjective, Surjection
<1>2. ExistsBijection(S, T)
  BY <1>1 DEF ExistsBijection
<1> QED
  BY <1>2, FS_Bijection

(* In a table without duplicates both documents have an entry per          *)
(* supported row.                                                          *)
LEMMA EntryPerRow ==
    ASSUME NEW c \in Csvs, UniqueFunctions(c), UniqueNames(c)
    PROVE  Cardinality(WitStubs(c)) = Cardinality(SupportTable(c, ArchCalls).supported)
<1>1. IsFiniteSet(Supported(c))
  <2>1. c \in Seq(Row) /\ Len(c) \in Nat /\ DOMAIN c = 1 .. Len(c)
    BY RunAssumption
  <2>2. IsFiniteSet(1 .. Len(c))
    BY <2>1, FS_Interval
  <2>3. Supported(c) \subseteq 1 .. Len(c)
    BY <2>1 DEF Supported, Live
  <2> QED
    BY <2>2, <2>3, FS_Subset
<1>2. Supported(c) \subseteq Live(c)
  BY DEF Supported
<1>3. Cardinality(WitStubs(c)) = Cardinality(Supported(c))
  <2> DEFINE f == [i \in Supported(c) |->
                     [nr |-> c[i].nr, fn |-> FnName(c[i]), args |-> RawArgs(c, i)]]
  <2>1. f \in [Supported(c) -> WitStubs(c)] /\ \A t \in WitStubs(c) : \E i \in Supported(c) : f[i] = t
    BY DEF WitStubs
  <2>2. ASSUME NEW i \in Supported(c), NEW j \in Supported(c), f[i] = f[j] PROVE i = j
    <3>1. f[i].fn = FnName(c[i]) /\ f[j].fn = FnName(c[j])
      OBVIOUS
    <3>2. FnName(c[i]) = FnName(c[j])
      BY <2>2, <3>1
    <3> QED
      BY <3>2, <1>2 DEF UniqueFunctions
  <2> HIDE DEF f
  <2> QED
    BY <1>1, <2>1, <2>2, SameNumber
<1> DEFINE names == {c[i].name : i \in Supported(c)}
<1>4. Cardinality(names) = Cardinality(Supported(c))
  <2> DEFINE g == [i \in Supported(c) |-> c[i].name]
  <2>1. g \in [Supported(c) -> names] /\ \A t \in names : \E i \in Supported(c) : g[i] = t
    OBVIOUS
  <2>2. \A i, j \in Supported(c) : g[i] = g[j] => i = j
    BY <1>2 DEF UniqueNames
  <2> HIDE DEF g, names
  <2> QED
    BY <1>1, <2>1, <2>2, SameNumber
<1>5. SupportTable(c, ArchCalls).supported = names
  BY DEF SupportTable
<1> QED
  BY <1>3, <1>4, <1>5

(* The script asks for both documents, and copies what is on the disk.     *)
DocsInv ==
    /\ script => DocFiles \subseteq job
    /\ script /\ status = "ok" /\ pc \in {"cp wit", "idle"} => docs["support"] = disk["support"]
    /\ script /\ status = "ok" /\ pc = "idle" => docs["wit"] = disk["wit"]

LEMMA NextDocs == TypeOK /\ RunInv /\ DocsInv /\ [Next]_vars => DocsInv'
<1> SUFFICES ASSUME TypeOK, RunInv, DocsInv, [Next]_vars PROVE DocsInv'
  OBVIOUS
<1>1. ASSUME NEW request \in Requests, NEW isScript \in BOOLEAN, Start(request, isScript)
      PROVE  DocsInv'
  <2>1. status' = "running" /\ script' = isScript
    BY <1>1 DEF Start
  <2>2. ASSUME isScript PROVE DocFiles \subseteq job'
    <3>1. request = <<"markdown", "wit">>
      BY <1>1, <2>2 DEF Start
    <3>2. /\ 1 \in DOMAIN request /\ request[1] = "markdown"
          /\ 2 \in DOMAIN request /\ request[2] = "wit"
      BY <3>1
    <3>3. FilesOf("markdown") = <<"support">> /\ FilesOf("wit") = <<"wit">>
      BY DEF FilesOf
    <3>4. /\ 1 \in DOMAIN FilesOf("markdown") /\ FilesOf("markdown")[1] = "support"
          /\ 1 \in DOMAIN FilesOf("wit") /\ FilesOf("wit")[1] = "wit"
      BY <3>3
    <3>5. job' = UNION {{FilesOf(request[n])[m] : m \in DOMAIN FilesOf(request[n])}
                        : n \in DOMAIN request}
      BY <1>1 DEF Start
    <3>6. "support" \in job' /\ "wit" \in job'
      BY <3>2, <3>4, <3>5
    <3> QED
      BY <3>6 DEF DocFiles
  <2> QED
    BY <2>1, <2>2 DEF DocsInv
<1>2. ASSUME InRun, pc' \notin {"cp wit", "idle"} \/ status' # "ok",
             UNCHANGED <<script, job>>
      PROVE  DocsInv'
  BY <1>2 DEF DocsInv
<1>3. CASE QuietStep \/ Open \/ WriteClose
  <2>1. InRun /\ pc' \notin {"cp wit", "idle"} /\ UNCHANGED <<script, job>>
    BY <1>3, Quiet DEF InRun, Open, WriteClose
  <2> QED
    BY <1>2, <2>1
<1>4. CASE Raise \/ \E whole \in BOOLEAN : Kill(whole)
  <2>1. InRun /\ status' # "ok" /\ UNCHANGED <<script, job>>
    BY <1>4 DEF InRun, Raise, Kill, Leave
  <2> QED
    BY <1>2, <2>1
<1>5. CASE Exit
  <2>1. UNCHANGED <<script, job>> /\ (script => pc' = "cp markdown")
    BY <1>5 DEF Exit, Leave
  <2> QED
    BY <2>1 DEF DocsInv
<1>6. ASSUME script, status = "ok"
      PROVE  disk["support"] # Absent /\ disk["wit"] # Absent
  <2>1. disk["support"].state = "whole" /\ disk["wit"].state = "whole"
    BY <1>6 DEF RunInv, FinishedRunIsComplete, DocsInv, DocFiles
  <2>2. Absent.state # "whole"
    BY DEF Absent
  <2> QED
    BY <2>1, <2>2
<1>7. "support" \in DOMAIN docs /\ "wit" \in DOMAIN docs
  BY DEF TypeOK, FileState, DocFiles
<1>8. CASE CopyMarkdown
  <2>1. /\ UNCHANGED <<disk, script, job, status>> /\ pc' = "cp wit"
        /\ disk["support"] # Absent => docs' = [docs EXCEPT !["support"] = disk["support"]]
    BY <1>8 DEF CopyMarkdown, Copy
  <2> QED
    BY <2>1, <1>6, <1>7 DEF DocsInv
<1>9. CASE CopyWit
  <2>1. /\ UNCHANGED <<disk, script, job, status>> /\ pc = "cp wit" /\ pc' = "idle"
        /\ disk["wit"] # Absent => docs' = [docs EXCEPT !["wit"] = disk["wit"]]
    BY <1>9 DEF CopyWit, Copy
  <2> QED
    BY <2>1, <1>6, <1>7 DEF DocsInv
<1>10. CASE EditCsv \/ UNCHANGED vars
  <2>1. UNCHANGED <<disk, docs, pc, script, job, status>>
    BY <1>10 DEF EditCsv, vars
  <2> QED
    BY <2>1 DEF DocsInv
<1>11. CASE Step
  BY <1>11, <1>3, <1>4, <1>5, <1>8, <1>9 DEF Step, QuietStep
<1> QED
  BY <1>1, <1>4, <1>10, <1>11 DEF Next

(* After update_docs.sh around a run that succeeded, both documents are of *)
(* the table the run read, and count the same syscalls.                    *)
THEOREM DocumentsAgree == Spec => []UpdatedDocsAgree
<1>1. Init => DocsInv
  BY DEF Init, DocsInv
<1>2. TypeOK /\ RunInv /\ WholeFilesFaithful /\ DocsInv => UpdatedDocsAgree
  <2> SUFFICES ASSUME TypeOK, RunInv, WholeFilesFaithful, DocsInv,
                      script, pc = "idle", status = "ok"
               PROVE  /\ \A f \in DocFiles : docs[f].state = "whole" /\ docs[f].src = tab
                      /\ UniqueFunctions(tab) /\ UniqueNames(tab) =>
                            Cardinality(docs["wit"].body) =
                            Cardinality(docs["support"].body.supported)
    BY DEF UpdatedDocsAgree
  <2>1. docs["support"] = disk["support"] /\ docs["wit"] = disk["wit"]
    BY DEF DocsInv
  <2>2. \A f \in DocFiles : disk[f].state = "whole" /\ disk[f].src = tab
    BY DEF DocsInv, RunInv, FinishedRunIsComplete
  <2>3. \A f \in DocFiles : docs[f].state = "whole" /\ docs[f].src = tab
    BY <2>1, <2>2 DEF DocFiles
  <2>4. docs["wit"].body = WitStubs(tab) /\ docs["support"].body = SupportTable(tab, ArchCalls)
    BY <2>3 DEF WholeFilesFaithful, DocFiles, Content
  <2>5. tab \in Csvs
    <3>1. docs["wit"].state = "whole" /\ docs["wit"].src = tab
      BY <2>3 DEF DocFiles
    <3>2. docs["wit"] \in {Absent, Torn} \/ docs["wit"].src \in Csvs
      BY DEF TypeOK, FileState, DocFiles
    <3> QED
      BY <3>1, <3>2 DEF Absent, Torn
  <2> QED
    BY <2>3, <2>4, <2>5, EntryPerRow
<1> QED
  BY <1>1, <1>2, InitRun, NextRun, NextDocs, TypeCorrect, FilesAreFaithful, PTL DEF Spec

-----------------------------------------------------------------------------
(* The refinement.                                                         *)

LEMMA InitPublishes == Init => Published!Init
BY DEF Init, Published!Init, Published!Absent, Absent

LEMMA StepPublishes == TypeOK /\ [Next]_vars => [Published!Next]_(Published!vars)
<1> SUFFICES ASSUME TypeOK, [Next]_vars PROVE [Published!Next]_(Published!vars)
  OBVIOUS
<1> USE RunAssumption
<1>1. ASSUME NEW request, NEW isScript, Start(request, isScript) PROVE Published!Next
  <2>1. Published!Begin
    BY <1>1 DEF Start, store, Published!Begin
  <2> QED BY <2>1 DEF Published!Next
<1>2. CASE QuietStep
  BY <1>2, Quiet DEF InRun, Published!vars
<1>3. CASE Exit \/ Raise \/ \E whole \in BOOLEAN : Kill(whole)
  <2>1. Published!Stop
    BY <1>3, Ends DEF InRun, TypeOK, Published!Stop
  <2> QED BY <2>1 DEF Published!Next
<1>4. CASE Open
  <2>1. PICK f \in Files : f = Head(todo)
    BY <1>4 DEF Open, TypeOK
  <2>2. Published!Truncate(f)
    BY <1>4, <2>1 DEF Open, TypeOK, FileState, Published!Truncate, Published!Torn, Torn
  <2> QED BY <2>2 DEF Published!Next
<1>5. CASE WriteClose
  <2>1. PICK f \in Files : f = Head(todo)
    BY <1>5 DEF WriteClose, TypeOK
  <2>2. Published!Complete(f)
    BY <1>5, <2>1 DEF WriteClose, TypeOK, FileState, Published!Complete, Published!Whole, Whole
  <2> QED BY <2>2 DEF Published!Next
<1>6. CASE CopyMarkdown \/ CopyWit
  BY <1>6, Copies DEF InRun, Published!vars
<1>7. CASE EditCsv
  <2>1. Published!Edit
    BY <1>7 DEF EditCsv, Published!Edit
  <2> QED BY <2>1 DEF Published!Next
<1>8. CASE UNCHANGED vars
  BY <1>8 DEF vars, Published!vars
<1> QED
  BY <1>1, <1>2, <1>3, <1>4, <1>5, <1>6, <1>7, <1>8 DEF Next, Step, QuietStep

(* autogen.py implements Publication: every run writes from the one table  *)
(* it read, one file truncated at a time, and none after it ended.         *)
THEOREM Refinement == Spec => PublishesFiles
BY InitPublishes, StepPublishes, TypeCorrect, PTL
   DEF Spec, PublishesFiles, Published!Spec
=============================================================================
