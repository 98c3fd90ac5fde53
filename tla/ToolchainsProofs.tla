-------------------------- MODULE ToolchainsProofs --------------------------
(***************************************************************************)
(* Theorems about Toolchains, for every set of configurations and every    *)
(* number of edits and kills: type correctness, that the three files agree,*)
(* and that the generator implements Publication.                          *)
(***************************************************************************)
EXTENDS Toolchains, TLAPS

(* What is still to be written is an end of the list main starts with.     *)
Orders == {<<"mk", "sh", "cmake">>, <<"sh", "cmake">>, <<"cmake">>}

Written ==
    CASE todo = <<"mk", "sh", "cmake">> -> {}
      [] todo = <<"sh", "cmake">>       -> {"mk"}
      [] todo = <<"cmake">>             -> {"mk", "sh"}
      [] OTHER                          -> Names

Progress ==
    /\ pc \in {"open", "write"} => todo \in Orders
    /\ pc \in {"idle", "chmod"} => todo = <<>>
    /\ pc # "idle" =>
          Usable(cfg) /\ \A f \in Written : files[f] = Whole(cfg, Text(f, cfg))

IInv == TypeOK /\ Progress /\ ToolchainsAgree

LEMMA OrderFacts ==
    ASSUME NEW s \in Orders
    PROVE  /\ s \in Seq(Names) /\ s # <<>> /\ Head(s) \in Names
           /\ Tail(s) \in Orders \cup {<<>>}
<1>1. CASE s = <<"mk", "sh", "cmake">>
  <2>1. Head(s) = "mk" /\ Tail(s) = <<"sh", "cmake">>
    BY <1>1
  <2>2. s \in Seq(Names) /\ s # <<>>
    BY <1>1 DEF Names
  <2> QED BY <2>1, <2>2 DEF Orders, Names
<1>2. CASE s = <<"sh", "cmake">>
  <2>1. Head(s) = "sh" /\ Tail(s) = <<"cmake">>
    BY <1>2
  <2>2. s \in Seq(Names) /\ s # <<>>
    BY <1>2 DEF Names
  <2> QED BY <2>1, <2>2 DEF Orders, Names
<1>3. CASE s = <<"cmake">>
  <2>1. Head(s) = "cmake" /\ Tail(s) = <<>>
    BY <1>3
  <2>2. s \in Seq(Names) /\ s # <<>>
    BY <1>3 DEF Names
  <2> QED BY <2>1, <2>2 DEF Names
<1> QED BY <1>1, <1>2, <1>3 DEF Orders

LEMMA InitIInv == Init => IInv
<1> SUFFICES ASSUME Init PROVE IInv
  OBVIOUS
<1> USE TomlsAssumption
<1>1. todo \in Seq(Names) /\ (pc \in {"open", "write"} <=> todo # <<>>)
  BY DEF Init
<1>2. TypeOK
  <2>1. DOMAIN files = Names /\ \A f \in Names : files[f] = Absent
    BY DEF Init
  <2>2. /\ toml \in Tomls \cup {None} /\ executable \in BOOLEAN /\ interrupted \in BOOLEAN
        /\ pc = "idle" /\ cfg = None /\ status = "none"
    BY DEF Init
  <2>3. edits \in 0 .. MaxEdits /\ kills \in 0 .. MaxKills
    BY DEF Init
  <2> QED BY <1>1, <2>1, <2>2, <2>3 DEF TypeOK
<1>3. Progress
  BY DEF Init, Progress
<1>4. ToolchainsAgree
  BY DEF Init, ToolchainsAgree
<1> QED BY <1>2, <1>3, <1>4 DEF IInv

LEMMA NextIInv == IInv /\ [Next]_vars => IInv'
<1> SUFFICES ASSUME IInv, [Next]_vars PROVE IInv'
  OBVIOUS
<1> USE TomlsAssumption DEF IInv
<1>1. CASE Start
  <2>1. TypeOK'
    BY <1>1, OrderFacts DEF Start, TypeOK, Orders, Usable, Absent, Torn
  <2>2. Progress'
    BY <1>1 DEF Start, TypeOK, Progress, Orders, Written
  <2>3. ToolchainsAgree'
    BY <1>1 DEF Start, ToolchainsAgree
  <2> QED BY <2>1, <2>2, <2>3
<1>2. CASE Refuse
  BY <1>2 DEF Refuse, TypeOK, Progress, Written, ToolchainsAgree, Absent, Torn
<1>3. CASE Open
  <2>1. todo \in Orders /\ Head(todo) \in Names
    BY <1>3, OrderFacts DEF Open, Progress
  <2>2. TypeOK'
    BY <1>3, <2>1 DEF Open, TypeOK, Absent, Torn
  <2>3. Progress'
    <3>1. Head(todo) \notin Written
      BY <2>1 DEF Orders, Written
    <3> QED BY <1>3, <2>1, <3>1 DEF Open, TypeOK, Progress, Written, Names
  <2>4. ToolchainsAgree'
    BY <1>3 DEF Open, ToolchainsAgree
  <2> QED BY <2>2, <2>3, <2>4
<1>4. CASE Write
  <2>1. todo \in Orders /\ Head(todo) \in Names /\ Usable(cfg)
    BY <1>4, OrderFacts DEF Write, Progress
  <2>2. TypeOK'
    <3>1. todo' \in Seq(Names) /\ (pc' \in {"open", "write"} <=> todo' # <<>>)
      BY <1>4, <2>1, OrderFacts DEF Write, TypeOK
    <3>2. cfg \in Tomls /\ Len(cfg.triple) = 4
      BY <2>1, <1>4 DEF Write, TypeOK, Usable
    <3>3. \A f \in Names : \/ files'[f] \in {Absent, Torn}
                           \/ /\ files'[f].state = "whole" /\ files'[f].src \in Tomls
                              /\ Len(files'[f].src.triple) = 4
      BY <1>4, <2>1, <3>2 DEF Write, TypeOK, Whole
    <3> QED BY <1>4, <3>1, <3>2, <3>3 DEF Write, TypeOK, Absent, Torn
  <2>3. Progress'
    <3>1. Written' = Written \cup {Head(todo)}
      <4>1. CASE todo = <<"mk", "sh", "cmake">>
        <5>1. Head(todo) = "mk" /\ todo' = <<"sh", "cmake">>
          BY <1>4, <4>1 DEF Write
        <5> QED BY <4>1, <5>1 DEF Written
      <4>2. CASE todo = <<"sh", "cmake">>
        <5>1. Head(todo) = "sh" /\ todo' = <<"cmake">>
          BY <1>4, <4>2 DEF Write
        <5> QED BY <4>2, <5>1 DEF Written
      <4>3. CASE todo = <<"cmake">>
        <5>1. Head(todo) = "cmake" /\ todo' = <<>>
          BY <1>4, <4>3 DEF Write
        <5> QED BY <4>3, <5>1 DEF Written, Names
      <4> QED BY <2>1, <4>1, <4>2, <4>3 DEF Orders
    <3>2. \A f \in Written' : files'[f] = Whole(cfg, Text(f, cfg))
      BY <1>4, <2>1, <3>1 DEF Write, TypeOK, Progress, Written, Names
    <3> QED BY <1>4, <2>1, <3>2, OrderFacts DEF Write, Progress
  <2>4. ToolchainsAgree'
    BY <1>4 DEF Write, ToolchainsAgree
  <2> QED BY <2>2, <2>3, <2>4
<1>5. CASE Chmod
  <2>1. TypeOK'
    BY <1>5 DEF Chmod, TypeOK, Progress, Absent, Torn
  <2>2. Progress'
    BY <1>5 DEF Chmod, Progress
  <2>3. \A f \in Names : files[f] = Whole(cfg, Text(f, cfg))
    BY <1>5 DEF Chmod, Progress, Written
  <2>4. ToolchainsAgree'
    BY <1>5, <2>3 DEF Chmod, ToolchainsAgree, Names, Whole, Text, MakeText, BashText
  <2> QED BY <2>1, <2>2, <2>4
<1>6. CASE Abort
  <2>1. TypeOK'
    BY <1>6 DEF Abort, TypeOK, Absent, Torn
  <2>2. Progress' /\ ToolchainsAgree'
    BY <1>6 DEF Abort, Progress, ToolchainsAgree
  <2> QED BY <2>1, <2>2
<1>7. CASE EditToml
  <2>1. TypeOK'
    BY <1>7 DEF EditToml, TypeOK, Absent, Torn
  <2>2. Progress'
    BY <1>7 DEF EditToml, Progress, Written
  <2>3. ToolchainsAgree'
    BY <1>7 DEF EditToml, ToolchainsAgree
  <2> QED BY <2>1, <2>2, <2>3
<1>8. CASE UNCHANGED vars
  BY <1>8 DEF vars, TypeOK, Progress, Written, ToolchainsAgree, Absent, Torn
<1> QED BY <1>1, <1>2, <1>3, <1>4, <1>5, <1>6, <1>7, <1>8 DEF Next

LEMMA Invariance == Spec => []IInv
BY InitIInv, NextIInv, PTL DEF Spec

(* The state of a run is of its type: in particular every file that is     *)
(* whole was made from a configuration with a triple of four parts.        *)
THEOREM TypeCorrect == Spec => []TypeOK
BY Invariance, PTL DEF IInv

(* Between runs, unless the last to write was stopped, the three files are *)
(* those of one configuration and the shell compiles with what make does.  *)
THEOREM FilesAgree == Spec => []ToolchainsAgree
BY Invariance, PTL DEF IInv

-----------------------------------------------------------------------------
(* The refinement.                                                         *)

LEMMA InitRefines == Init => Published!Init
BY DEF Init, Published!Init, Published!Absent, Absent

LEMMA StepRefines == IInv /\ [Next]_vars => [Published!Next]_(Published!vars)
<1> SUFFICES ASSUME IInv, [Next]_vars PROVE [Published!Next]_(Published!vars)
  OBVIOUS
<1> USE TomlsAssumption DEF IInv
<1>1. CASE Start
  <2>1. Published!Begin
    BY <1>1 DEF Start, TypeOK, Published!Begin
  <2> QED BY <2>1 DEF Published!Next
<1>2. CASE Refuse
  BY <1>2 DEF Refuse, Published!vars
<1>3. CASE Open
  <2>1. PICK f \in Names : f = Head(todo)
    BY <1>3, OrderFacts DEF Open, Progress
  <2>2. Published!Truncate(f)
    BY <1>3, <2>1 DEF Open, TypeOK, Published!Truncate, Published!Torn, Torn
  <2> QED BY <2>2 DEF Published!Next
<1>4. CASE Write
  <2>1. PICK f \in Names : f = Head(todo)
    BY <1>4, OrderFacts DEF Write, Progress
  <2>2. Published!Complete(f)
    BY <1>4, <2>1 DEF Write, TypeOK, Published!Complete, Published!Whole, Whole
  <2> QED BY <2>2 DEF Published!Next
<1>5. CASE Chmod
  <2>1. Published!Stop
    BY <1>5 DEF Chmod, TypeOK, Published!Stop
  <2> QED BY <2>1 DEF Published!Next
<1>6. CASE Abort
  <2>1. Published!Stop
    BY <1>6 DEF Abort, TypeOK, Published!Stop
  <2> QED BY <2>1 DEF Published!Next
<1>7. CASE EditToml
  <2>1. Published!Edit
    BY <1>7 DEF EditToml, TypeOK, Published!Edit
  <2> QED BY <2>1 DEF Published!Next
<1>8. CASE UNCHANGED vars
  BY <1>8 DEF vars, Published!vars
<1> QED BY <1>1, <1>2, <1>3, <1>4, <1>5, <1>6, <1>7, <1>8 DEF Next

(* gen_toolchains.py implements Publication: a run writes from the one     *)
(* configuration it read, one file at a time, and a refused run nothing.   *)
THEOREM Refinement == Spec => PublishesFiles
<1>1. Init => Published!Init
  BY InitRefines
<1>2. Spec => []IInv
  BY Invariance
<1>3. IInv /\ [Next]_vars => [Published!Next]_(Published!vars)
  BY StepRefines
<1> QED BY <1>1, <1>2, <1>3, PTL DEF Spec, PublishesFiles, Published!Spec
=============================================================================
