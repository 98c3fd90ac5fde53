----------------------------- MODULE GzipSuite -----------------------------
(***************************************************************************)
(* tests/zlib_test/test_gzip.c: nine tests of gzip file I/O over the       *)
(* handles the host gives the guest for its gzFiles (zlib.h:130).  A test  *)
(* is a straight line of calls, any of which may fail; each checked call   *)
(* names what the test releases before it returns 0.  All tests write and  *)
(* read back the same file.                                                *)
(***************************************************************************)
EXTENDS Integers, FiniteSets, Sequences

CONSTANT Handles    \* external: the slots of the host's table of gzFiles

ASSUME HandlesAssumption == Handles # {}

Vars == {"wf", "rf"}        \* the gzFile variables of a test
Buffers == {"data", "buf"}  \* the heap buffers of a test

(* A call, the variable it is made on or assigns, whether its result is    *)
(* checked, and what is released when the check fails.                     *)
Checked(op, v, released) == [op |-> op, on |-> v, checked |-> TRUE, released |-> released]
Unchecked(op, v) == [op |-> op, on |-> v, checked |-> FALSE, released |-> {}]

Create(held) == Checked("create", "wf", held)
Open(held) == Checked("open", "rf", held)
Write(held) == Checked("write", "wf", {"wf"} \cup held)
Look(held) == Checked("look", "rf", {"rf"} \cup held)        \* any result tells little
Compare(held) == Checked("compare", "rf", {"rf"} \cup held)  \* the last of the data
Malloc(b, held) == Checked("malloc", b, held)
CloseW == Unchecked("close", "wf")
CloseR == Unchecked("close", "rf")
Free(b) == Unchecked("free", b)

Times(n, calls) ==
    [i \in 1 .. n * Len(calls) |-> calls[((i - 1) % Len(calls)) + 1]]

gzwrite_gzread ==
    <<Create({}), Write({}), Checked("close", "wf", {}),
      Open({}), Look({}), Compare({}), CloseR>>
gzputs_gzgets ==
    <<Create({})>> \o Times(3, <<Write({})>>) \o <<CloseW, Open({})>>
    \o Times(2, <<Look({}), Look({})>>) \o <<Look({}), Compare({}), CloseR>>
gzputc_gzgetc ==
    <<Create({})>> \o Times(10, <<Write({})>>) \o <<CloseW, Open({})>>
    \o Times(9, <<Look({})>>) \o <<Compare({}), Look({}), CloseR>>
WriteUnchecked == <<Create({}), Unchecked("write", "wf"), CloseW, Open({})>>
gzseek_gztell ==
    WriteUnchecked \o <<Unchecked("look", "rf")>> \o Times(5, <<Look({})>>) \o <<CloseR>>
gzeof ==
    WriteUnchecked \o <<Look({}), Unchecked("look", "rf"), Look({}), CloseR>>
gzerror == WriteUnchecked \o <<Look({}), CloseR>>
gzungetc == WriteUnchecked \o Times(4, <<Look({})>>) \o <<CloseR>>

LargeFileLeaking ==             \* mutant: a failure that forgets data
    <<Malloc("data", {}), Create({"data"}), Write({"data"}), CloseW,
      Open({"data"}), Malloc("buf", {"rf"}),
      Compare({"data", "buf"}), Look({"data", "buf"}),
      CloseR, Free("data"), Free("buf")>>

LargeFileUncompared ==          \* mutant: no look at how much was read
    <<Malloc("data", {}), Create({"data"}), Write({"data"}), CloseW,
      Open({"data"}), Malloc("buf", {"rf", "data"}),
      Look({"data", "buf"}), CloseR, Free("data"), Free("buf")>>

large_file ==
    <<Malloc("data", {}), Create({"data"}), Write({"data"}), CloseW,
      Open({"data"}), Malloc("buf", {"rf", "data"}),
      Compare({"data", "buf"}), Look({"data", "buf"}),
      CloseR, Free("data"), Free("buf")>>
compression_levels ==
    <<Malloc("data", {})>>
    \o Times(3, <<Create({"data"}), Unchecked("write", "wf"), CloseW>>)
    \o <<Free("data")>>

Tests == <<gzwrite_gzread, gzputs_gzgets, gzputc_gzgetc, gzseek_gztell, gzeof,
           gzerror, gzungetc, large_file, compression_levels>>

-----------------------------------------------------------------------------
VARIABLES
    test,       \* the test main is at, Len(Tests) + 1 past the last
    at,         \* the call the test is at, 0 in main before it
    local,      \* the values of the gzFile variables, 0 for NULL
    table,      \* handle |-> the variable that opened it, "free" if none
    heap,       \* buffers allocated
    file,       \* the test that created the file; whether it holds all it wrote
    result,     \* what the test returned, -1 before
    passed, total,
    early,      \* the build reads the left side of tests_passed += first
    saved,      \* the value it read
    exit,       \* -1 while running
    good        \* tests that returned 1 (history)

vars == <<test, at, local, table, heap, file, result, passed, total, early, saved, exit, good>>
counts == <<passed, total, early, saved, exit, good>>

Init ==
    /\ test = 1 /\ at = 0
    /\ local = [v \in Vars |-> 0]
    /\ table = [h \in Handles |-> "free"]
    /\ heap = {}
    /\ file = [by |-> 0, whole |-> FALSE]
    /\ result = -1
    /\ passed = 0 /\ total = 0 /\ saved = 0
    /\ early \in BOOLEAN
    /\ exit = -1 /\ good = {}

InTest == at > 0 /\ result = -1
Here == Tests[test][at]
On(op) == InTest /\ at <= Len(Tests[test]) /\ Here.op = op

CallsTwice ==                   \* mutant: TEST() expanded twice
    /\ test <= Len(Tests) /\ at = 0
    /\ saved' = passed
    /\ total' = total + 2
    /\ at' = 1
    /\ UNCHANGED <<test, local, table, heap, file, result, passed, early, exit, good>>

(* The call of the next test, and TEST().                                  *)
Call ==
    /\ test <= Len(Tests) /\ at = 0
    /\ saved' = passed
    /\ total' = total + 1
    /\ at' = 1
    /\ UNCHANGED <<test, local, table, heap, file, result, passed, early, exit, good>>

Continues == at' = at + 1 /\ UNCHANGED <<test, result>>

(* gzopen: the host opens the file and finds a free handle.                *)
OpenSucceeds ==
    /\ On("create") \/ On("open")
    /\ \E h \in Handles :
          /\ table[h] = "free"
          /\ table' = [table EXCEPT ![h] = Here.on]
          /\ local' = [local EXCEPT ![Here.on] = h]
    /\ file' = IF Here.op = "create" THEN [by |-> test, whole |-> TRUE] ELSE file
    /\ Continues
    /\ UNCHANGED <<heap, counts>>

(* gzwrite, gzputs, gzputc: data lost in an unchecked write stays lost.    *)
WriteReturns ==
    /\ On("write")
    /\ \/ UNCHANGED file
       \/ ~Here.checked /\ file' = [file EXCEPT !.whole = FALSE]
    /\ Continues
    /\ UNCHANGED <<local, table, heap, counts>>

(* A read, seek or query; only the last of the data compared tells that    *)
(* all of it was there.                                                    *)
ReadSucceeds ==
    /\ On("look") \/ On("compare")
    /\ On("compare") => file.by = test /\ file.whole
    /\ Continues
    /\ UNCHANGED <<local, table, heap, file, counts>>

CloseReturns ==
    /\ On("close")
    /\ table' = [table EXCEPT ![local[Here.on]] = "free"]
    /\ \/ UNCHANGED file
       \/ Here.on = "wf" /\ ~Here.checked /\ file' = [file EXCEPT !.whole = FALSE]
    /\ Continues
    /\ UNCHANGED <<local, heap, counts>>

Allocate ==
    /\ On("malloc")
    /\ heap' = heap \cup {Here.on}
    /\ Continues
    /\ UNCHANGED <<local, table, file, counts>>

FreeReturns ==
    /\ On("free")
    /\ heap' = heap \ {Here.on}
    /\ Continues
    /\ UNCHANGED <<local, table, file, counts>>

(* A checked call fails: FAIL(), after the releases.  A gzclose that fails *)
(* has released its own handle.                                            *)
Fails ==
    /\ InTest /\ at <= Len(Tests[test]) /\ Here.checked
    /\ LET gone == Here.released \cup (IF Here.op = "close" THEN {Here.on} ELSE {}) IN
       /\ table' = [h \in Handles |->
                      IF \E v \in gone \cap Vars : local[v] = h THEN "free" ELSE table[h]]
       /\ heap' = heap \ gone
    /\ IF Here.on = "wf"
       THEN file' \in {file, [by |-> test, whole |-> FALSE]}
       ELSE UNCHANGED file
    /\ result' = 0
    /\ UNCHANGED <<test, at, local, counts>>

(* PASS(); return 1.                                                       *)
Passes ==
    /\ InTest /\ at = Len(Tests[test]) + 1
    /\ passed' = passed + 1
    /\ good' = good \cup {test}
    /\ result' = 1
    /\ UNCHANGED <<test, at, local, table, heap, file, total, early, saved, exit>>

CountsEvery ==                  \* mutant: a test counts whatever it returned
    /\ result # -1
    /\ passed' = (IF early THEN saved ELSE passed) + 1
    /\ test' = test + 1 /\ at' = 0 /\ result' = -1
    /\ local' = [v \in Vars |-> 0]
    /\ UNCHANGED <<table, heap, file, total, early, saved, exit, good>>

(* tests_passed += test(): C leaves open whether the left side is read     *)
(* before the call, which then loses PASS()'s increment, or after it.      *)
Count ==
    /\ result # -1
    /\ passed' = (IF early THEN saved ELSE passed) + result
    /\ test' = test + 1 /\ at' = 0 /\ result' = -1
    /\ local' = [v \in Vars |-> 0]
    /\ UNCHANGED <<table, heap, file, total, early, saved, exit, good>>

Exit ==
    /\ test = Len(Tests) + 1 /\ exit = -1
    /\ exit' = IF passed = total THEN 0 ELSE 1
    /\ file' = [by |-> 0, whole |-> FALSE]
    /\ UNCHANGED <<test, at, local, table, heap, result, passed, total, early, saved, good>>

Next ==
    \/ Call \/ OpenSucceeds \/ WriteReturns \/ ReadSucceeds \/ CloseReturns
    \/ Allocate \/ FreeReturns \/ Fails \/ Passes \/ Count \/ Exit

Spec == Init /\ [][Next]_vars

-----------------------------------------------------------------------------
(* The type invariant.                                                     *)
TypeOK ==
    /\ test \in 1 .. Len(Tests) + 1
    /\ at = 0 \/ at \in 1 .. Len(Tests[test]) + 1
    /\ local \in [Vars -> Handles \cup {0}]
    /\ table \in [Handles -> Vars \cup {"free"}]
    /\ heap \subseteq Buffers
    /\ file \in [by : 0 .. Len(Tests), whole : BOOLEAN]
    /\ result \in {-1, 0, 1}
    /\ passed \in 0 .. 2 * Len(Tests) /\ total \in 0 .. Len(Tests)
    /\ saved \in 0 .. 2 * Len(Tests)
    /\ early \in BOOLEAN /\ exit \in {-1, 0, 1}
    /\ good \subseteq 1 .. Len(Tests)

(* Whichever call fails, a test returns with every handle closed and every *)
(* buffer freed (test_gzip.c:24-476), so a failing test costs the later    *)
(* ones nothing.                                                           *)
NothingLeaks ==
    result # -1 \/ at = 0 =>
        heap = {} /\ \A h \in Handles : table[h] = "free"

(* The tests that read all of their data back (basic, puts/gets, putc/getc *)
(* and the large file) pass only if none of it was lost, though the last   *)
(* three ignore what the gzclose after their writes returns.  For the      *)
(* other five that does not hold: they pass on a file cut short.           *)
PassedMeansWhole ==
    result = 1 /\ test \in {1, 2, 3, 8} => file = [by |-> test, whole |-> TRUE]

(* The exit status is 0 only if every test passed, in either order of      *)
(* evaluation: double counting gives an even count of an odd total.        *)
ExitZeroMeansAllPassed == exit = 0 => good = 1 .. Len(Tests)

(* "Results: %d/%d tests passed" (test_gzip.c:494): the first number       *)
(* counts the tests that passed.                                           *)
ResultsCountTests == test = Len(Tests) + 1 => passed = Cardinality(good)
=============================================================================
