------------------------------ MODULE Autogen ------------------------------
(***************************************************************************)
(* A run of scripts/autogen.py over the working tree, and update_docs.sh   *)
(* around it.  One process runs at a time; it reads the CSV once, computes *)
(* each file's text before it truncates the file, and may be killed at any *)
(* step.  A maintainer edits the CSV at any time.                          *)
(***************************************************************************)
EXTENDS Stubs, FiniteSets

CONSTANTS
    Csvs,       \* the contents the CSV may have
    Archs,      \* the list of <arch>_NR columns
    ArchCalls,  \* external: the calls system_calls knows of
    Requests,   \* the lists of stub classes a user asks for
    MaxEdits,   \* bound: edits of the CSV
    MaxKills,   \* bound: killed runs
    None        \* no CSV, no type, no content

Row == [nr : Nat, name : STRING \cup {Blank}, nargs : Nat \cup {Blank},
        cells : [1 .. MaxArgs -> STRING \cup {Blank}],
        alias : STRING \cup {Blank}, undef : SUBSET STRING]

FixedFiles == {"defs", "case", "rust_defs", "rust_match",
               "declr", "impl", "symbols", "wit", "support"}
ArchFiles == {Archs[n] : n \in DOMAIN Archs}
Files == FixedFiles \cup ArchFiles
DocFiles == {"support", "wit"}

(* The files of a stub class in the order its generator writes them.       *)
FilesOf(stub) ==
    CASE stub = "libc"      -> <<"defs", "case", "rust_defs", "rust_match">>
      [] stub = "wamr"      -> <<"declr", "impl", "symbols">>
      [] stub = "wit"       -> <<"wit">>
      [] stub = "arch-diff" -> Archs
      [] stub = "markdown"  -> <<"support">>

Stubs == {"libc", "wamr", "wit", "arch-diff", "markdown"}

ASSUME RunAssumption ==
    /\ Csvs \subseteq Seq(Row)
    /\ Archs \in Seq(STRING)
    /\ ArchFiles \cap FixedFiles = {}
    /\ Requests \subseteq Seq(Stubs)
    /\ MaxEdits \in Nat /\ MaxKills \in Nat
    /\ None \notin Csvs

(* The text of file f for table c, without its layout.                     *)
Content(c, f) ==
    CASE f = "defs"       -> DefStubs(c)
      [] f = "case"       -> CaseStubs(c)
      [] f = "rust_defs"  -> RustDefStubs(c)
      [] f = "rust_match" -> RustMatchStubs(c)
      [] f = "declr"      -> DeclrStubs(c)
      [] f = "impl"       -> ImplStubs(c)
      [] f = "symbols"    -> SymbolsStubs(c)
      [] f = "wit"        -> WitStubs(c)
      [] f = "support"    -> SupportTable(c, ArchCalls)
      [] OTHER            -> UndefinedOn(c, f)

(* get_scargs is what raises on a malformed row; the arch-diff and         *)
(* markdown generators do not call it.                                     *)
CallsGetScargs(f) == f \notin ArchFiles \cup {"support"}

MalformedTable(c) == \E i \in Live(c) : Malformed(c, i)
ResolvableTable(c) == \A i \in Live(c) : Resolvable(c, i)

-----------------------------------------------------------------------------
VARIABLES
    csv,     \* csvs/syscall_full_format.csv
    disk,    \* the generated files
    docs,    \* the copies under docs/
    pc,      \* where the process is
    script,  \* update_docs.sh is what started it
    stubs,   \* args.stubs still to be generated
    todo,    \* files of the current stub class still to be written
    job,     \* files the run was asked for
    tab,     \* the table the run read
    buf,     \* the text computed for the file at the head of todo
    row, tys, ty, \* rustify_args: row, types of its arguments, type looked up
    status,  \* how the last run of autogen.py ended
    edits, kills

rust == <<row, tys, ty>>
store == <<csv, disk, docs>>
bounds == <<edits, kills>>
vars == <<csv, disk, docs, pc, script, stubs, todo, job, tab, buf,
          row, tys, ty, status, edits, kills>>

Absent == [state |-> "absent", src |-> None, body |-> None]
Torn == [state |-> "torn", src |-> None, body |-> None]
Whole(c, body) == [state |-> "whole", src |-> c, body |-> body]

Init ==
    /\ csv \in Csvs
    /\ disk = [f \in Files |-> Absent]
    /\ docs = [f \in DocFiles |-> Absent]
    /\ pc = "idle" /\ script = FALSE /\ status = "none"
    /\ stubs = <<>> /\ todo = <<>> /\ job = {} /\ tab = None /\ buf = None
    /\ row = 1 /\ tys = <<>> /\ ty = None
    /\ edits = 0 /\ kills = 0

(* main: parse_args; parse_csv reads the table the whole run uses.         *)
Start(request, isScript) ==
    /\ pc = "idle"
    /\ isScript => request = <<"markdown", "wit">>
    /\ pc' = "next" /\ script' = isScript /\ status' = "running"
    /\ stubs' = request /\ todo' = <<>> /\ buf' = None
    /\ job' = UNION {{FilesOf(request[n])[m] : m \in DOMAIN FilesOf(request[n])}
                     : n \in DOMAIN request}
    /\ tab' = csv
    /\ UNCHANGED <<store, rust, bounds>>

(* for stub in args.stubs: stub_classes[stub](...)                         *)
NextStub ==
    /\ pc = "next" /\ todo = <<>> /\ stubs # <<>>
    /\ todo' = FilesOf(Head(stubs))
    /\ stubs' = Tail(stubs)
    /\ UNCHANGED <<store, pc, script, job, tab, buf, rust, status, bounds>>

(* Leaving autogen.py: the script carries on whatever the exit status.     *)
Leave(how) ==
    /\ status' = how
    /\ pc' = IF script THEN "cp markdown" ELSE "idle"
    /\ stubs' = <<>> /\ todo' = <<>> /\ buf' = None
    /\ row' = 1 /\ tys' = <<>> /\ ty' = None

ExitAfterFirstStub ==      \* mutant: return inside the loop over the stub classes
    /\ pc = "next" /\ todo = <<>>
    /\ Leave("ok")
    /\ UNCHANGED <<store, script, job, tab, bounds>>

Exit ==
    /\ pc = "next" /\ todo = <<>> /\ stubs = <<>>
    /\ Leave("ok")
    /\ UNCHANGED <<store, script, job, tab, bounds>>

(* syscall_iter (and the loops of the other generators) run before the     *)
(* file is opened; only rust/defs.out has a loop that may not end.         *)
Compute ==
    /\ pc = "next" /\ todo # <<>>
    /\ CallsGetScargs(Head(todo)) => ~MalformedTable(tab)
    /\ IF Head(todo) = "rust_defs"
       THEN pc' = "rustify" /\ buf' = {}
       ELSE pc' = "open" /\ buf' = Content(tab, Head(todo))
    /\ row' = 1 /\ tys' = <<>> /\ ty' = None
    /\ UNCHANGED <<store, script, stubs, todo, job, tab, status, bounds>>

RaiseAfterOpen ==          \* mutant: syscall_iter called with the file open
    /\ pc = "next" /\ todo # <<>>
    /\ CallsGetScargs(Head(todo)) /\ MalformedTable(tab)
    /\ Leave("raised")
    /\ disk' = [disk EXCEPT ![Head(todo)] = Torn]
    /\ UNCHANGED <<csv, docs, script, job, tab, bounds>>

Raise ==
    /\ pc = "next" /\ todo # <<>>
    /\ CallsGetScargs(Head(todo)) /\ MalformedTable(tab)
    /\ Leave("raised")
    /\ UNCHANGED <<store, script, job, tab, bounds>>

RowArgs == IF row \in Supported(tab) THEN GetScargs(tab, row) ELSE <<>>

(* rustify_args on the next argument of the row.                           *)
RustArg ==
    /\ pc = "rustify" /\ row \in DOMAIN tab
    /\ ty = None /\ Len(tys) < Len(RowArgs)
    /\ ty' = RowArgs[Len(tys) + 1]
    /\ UNCHANGED <<store, pc, script, stubs, todo, job, tab, buf, row, tys, status, bounds>>

RustLookupComplexOnly ==   \* mutant: COMPLEX_TYPES.get instead of COMBINED_TYPES.get
    /\ pc = "rustify" /\ ty # None
    /\ ty \notin Pointers \cup WitPrimitives
    /\ ty' = IF ty \in DOMAIN Complex THEN Complex[ty] ELSE Undef
    /\ UNCHANGED <<store, pc, script, stubs, todo, job, tab, buf, row, tys, status, bounds>>

(* while v not in WIT_PRIMITIVE_SET: v = COMBINED_TYPES.get(v, "UNDEF")    *)
RustLookup ==
    /\ pc = "rustify" /\ ty # None
    /\ ty \notin Pointers \cup WitPrimitives
    /\ ty' = Combined(ty)
    /\ UNCHANGED <<store, pc, script, stubs, todo, job, tab, buf, row, tys, status, bounds>>

RustKeepsPointer ==        \* mutant: a pointer keeps its C name
    /\ pc = "rustify" /\ ty # None
    /\ ty \in Pointers \cup WitPrimitives
    /\ tys' = Append(tys, ty)
    /\ ty' = None
    /\ UNCHANGED <<store, pc, script, stubs, todo, job, tab, buf, row, status, bounds>>

RustResolved ==
    /\ pc = "rustify" /\ ty # None
    /\ ty \in Pointers \cup WitPrimitives
    /\ tys' = Append(tys, IF ty \in Pointers THEN S32 ELSE ty)
    /\ ty' = None
    /\ UNCHANGED <<store, pc, script, stubs, todo, job, tab, buf, row, status, bounds>>

RustRowByName ==           \* mutant: the entry is named by the syscall, not by its alias
    /\ pc = "rustify" /\ row \in DOMAIN tab
    /\ ty = None /\ Len(tys) = Len(RowArgs)
    /\ buf' = IF row \in Supported(tab)
              THEN buf \cup {[RustDefStub(tab[row], tys) EXCEPT !.fn = tab[row].name]}
              ELSE buf
    /\ row' = row + 1 /\ tys' = <<>>
    /\ UNCHANGED <<store, pc, script, stubs, todo, job, tab, ty, status, bounds>>

(* The row's entry, "" (and filtered out) for a row without arguments.     *)
RustRow ==
    /\ pc = "rustify" /\ row \in DOMAIN tab
    /\ ty = None /\ Len(tys) = Len(RowArgs)
    /\ buf' = IF row \in Supported(tab)
              THEN buf \cup {RustDefStub(tab[row], tys)} ELSE buf
    /\ row' = row + 1 /\ tys' = <<>>
    /\ UNCHANGED <<store, pc, script, stubs, todo, job, tab, ty, status, bounds>>

RustDone ==
    /\ pc = "rustify" /\ row \notin DOMAIN tab
    /\ pc' = "open"
    /\ UNCHANGED <<store, script, stubs, todo, job, tab, buf, rust, status, bounds>>

(* with open(outpath, 'w'): truncates; the text reaches the disk when the  *)
(* file is closed.                                                         *)
Open ==
    /\ pc = "open"
    /\ disk' = [disk EXCEPT ![Head(todo)] = Torn]
    /\ pc' = "write"
    /\ UNCHANGED <<csv, docs, script, stubs, todo, job, tab, buf, rust, status, bounds>>

WriteClose ==
    /\ pc = "write"
    /\ disk' = [disk EXCEPT ![Head(todo)] = Whole(tab, buf)]
    /\ pc' = "next" /\ todo' = Tail(todo) /\ buf' = None
    /\ UNCHANGED <<csv, docs, script, stubs, job, tab, rust, status, bounds>>

CopyNoClobber(f, at, next) ==   \* mutant: cp -n
    /\ pc = at
    /\ docs' = IF docs[f] # Absent THEN docs ELSE [docs EXCEPT ![f] = disk[f]]
    /\ pc' = next
    /\ UNCHANGED <<csv, disk, script, stubs, todo, job, tab, buf, rust, status, bounds>>

(* update_docs.sh: cp markdown/* and cp wit/*; a file that was never       *)
(* generated is not copied.                                                *)
Copy(f, at, next) ==
    /\ pc = at
    /\ docs' = IF disk[f] = Absent THEN docs ELSE [docs EXCEPT ![f] = disk[f]]
    /\ pc' = next
    /\ UNCHANGED <<csv, disk, script, stubs, todo, job, tab, buf, rust, status, bounds>>

CopyMarkdown == Copy("support", "cp markdown", "cp wit")
CopyWit == Copy("wit", "cp wit", "idle")

(* SIGKILL of autogen.py, or of the script that waits for it.              *)
Kill(whole) ==
    /\ pc \in {"next", "rustify", "open", "write"}
    /\ kills < MaxKills /\ kills' = kills + 1
    /\ whole => script
    /\ status' = "killed"
    /\ pc' = IF script /\ ~whole THEN "cp markdown" ELSE "idle"
    /\ stubs' = <<>> /\ todo' = <<>> /\ buf' = None
    /\ row' = 1 /\ tys' = <<>> /\ ty' = None
    /\ UNCHANGED <<store, script, job, tab, edits>>

(* The maintainer, at any time.                                            *)
EditCsv ==
    /\ edits < MaxEdits /\ edits' = edits + 1
    /\ csv' \in Csvs \ {csv}
    /\ UNCHANGED <<disk, docs, pc, script, stubs, todo, job, tab, buf, rust, status, kills>>

Step ==
    \/ NextStub \/ Exit \/ Compute \/ Raise
    \/ RustArg \/ RustLookup \/ RustResolved \/ RustRow \/ RustDone
    \/ Open \/ WriteClose \/ CopyMarkdown \/ CopyWit

Next ==
    \/ \E request \in Requests, isScript \in BOOLEAN : Start(request, isScript)
    \/ Step
    \/ \E whole \in BOOLEAN : Kill(whole)
    \/ EditCsv

Spec == Init /\ [][Next]_vars

(* The interpreter keeps executing: the process' own steps are fair, the   *)
(* user, the maintainer and kill are not.                                  *)
FairSpec == Spec /\ WF_vars(Step)

-----------------------------------------------------------------------------
FileState(Fs, S) ==
    /\ DOMAIN S = Fs
    /\ \A f \in Fs : S[f] \in {Absent, Torn} \/ (S[f].state = "whole" /\ S[f].src \in Csvs)

(* The type invariant.                                                     *)
TypeOK ==
    /\ csv \in Csvs
    /\ FileState(Files, disk) /\ FileState(DocFiles, docs)
    /\ pc \in {"idle", "next", "rustify", "open", "write", "cp markdown", "cp wit"}
    /\ script \in BOOLEAN
    /\ stubs \in Seq(Stubs) /\ todo \in Seq(Files) /\ job \subseteq Files
    /\ status \in {"none", "running", "ok", "raised", "killed"}
    /\ tab \in Csvs \cup {None} /\ (pc # "idle" => tab \in Csvs)
    /\ pc \in {"rustify", "open", "write"} => todo # <<>>
    /\ row \in Nat /\ tys \in Seq(WitPrimitives)
    /\ ty \in TypeNames \cup Pointers \cup {None}
    /\ edits \in 0 .. MaxEdits /\ kills \in 0 .. MaxKills

(* A file that is whole holds exactly what its generator makes of the      *)
(* table it was made from, the Rust declarations that the lookup loop      *)
(* built row by row included, and so does its copy under docs/: no run,    *)
(* kill or edit in between leaves entries of another table in it.          *)
WholeFilesFaithful ==
    /\ \A f \in Files : disk[f].state = "whole" => disk[f].body = Content(disk[f].src, f)
    /\ \A f \in DocFiles : docs[f].state = "whole" => docs[f].body = Content(docs[f].src, f)

(* A table whose rows can be linked: no two rows share a function, and     *)
(* gen_native_args, clang and the Rust lookup read the same width from     *)
(* every scalar type the rows use.                                         *)
UniqueFunctions(c) ==
    \A i, j \in Live(c) : FnName(c[i]) = FnName(c[j]) => i = j

UniqueNames(c) == \A i, j \in Live(c) : c[i].name = c[j].name => i = j

PortableTypes(c) ==
    \A i \in Supported(c) : \A k \in DOMAIN GetScargs(c, i) :
        LET a == GetScargs(c, i)[k]
        IN  a \notin Pointers =>
                /\ Resolve[a] \in WitPrimitives
                /\ CWidth[a] = Width(Resolve[a])
                /\ a \in LongNames <=> Width(Resolve[a]) = "I"

Linkable(c) == UniqueFunctions(c) /\ PortableTypes(c)

WasmType(a) == IF a \in Pointers THEN "i" ELSE CWidth[a]

FromSameTable(fs) ==
    /\ \A f \in fs : disk[f].state = "whole"
    /\ \A f, g \in fs : disk[f].src = disk[g].src

(* The reason the generator exists: every call the C library's syscall     *)
(* switch makes is declared as an import with the argument types it is     *)
(* cast to, and the host registers for that import one symbol, with a      *)
(* declaration and a body of that arity and the same wasm signature.       *)
GuestImportsLink ==
    LET fs == {"defs", "case", "declr", "impl", "symbols"}
    IN  FromSameTable(fs) /\ Linkable(disk["case"].src) =>
            \A e \in disk["case"].body :
                /\ \A d \in disk["defs"].body : d.fn = e.fn => d.args = e.args
                /\ \A d \in disk["declr"].body : d.fn = e.fn => d.arity = Len(e.args)
                /\ \E d \in disk["impl"].body :
                      /\ d.fn = e.fn /\ d.arity = Len(e.args)
                      /\ \A k \in d.maddr : WasmType(e.args[k]) = "i"
                /\ \E s \in disk["symbols"].body :
                      /\ s.fn = e.fn
                      /\ s.sig = [k \in DOMAIN e.args |-> WasmType(e.args[k])]

(* Rust's libc binds to the same host: each arm of its syscall() that is   *)
(* implemented calls a declared import with as many arguments as it has,   *)
(* and the wasm signature of that import is the one the host registers.    *)
RustImportsLink ==
    LET fs == {"rust_defs", "rust_match", "symbols"}
    IN  FromSameTable(fs) /\ Linkable(disk["symbols"].src) =>
            \A arm \in disk["rust_match"].body : arm.implemented =>
                /\ \E d \in disk["rust_defs"].body :
                      d.fn = arm.fn /\ Len(d.args) = arm.arity
                /\ \A d \in disk["rust_defs"].body, s \in disk["symbols"].body :
                      d.fn = arm.fn /\ s.fn = arm.fn =>
                          s.sig = [k \in DOMAIN d.args |-> Width(d.args[k])]

(* Only a kill tears a file, and a kill tears one: a run that raises, or   *)
(* hangs in the Rust loop, leaves the files of the last good run readable. *)
OneTornFilePerKill ==
    Cardinality({f \in Files : disk[f].state = "torn"})
        <= kills + (IF pc = "write" THEN 1 ELSE 0)

(* A run that exits with status 0 has rewritten every file of every stub   *)
(* class it was asked for, all of them from the one table it read, however *)
(* many runs before it were killed or raised.                              *)
FinishedRunIsComplete ==
    status = "ok" => \A f \in job : disk[f].state = "whole" /\ disk[f].src = tab

(* After update_docs.sh, if autogen.py succeeded, the support page and the *)
(* WIT interface under docs/ are those of the one table it read, and they  *)
(* agree: a function per supported syscall, where no two rows share either *)
(* (the page counts names, and aliases tell functions of one name apart).  *)
UpdatedDocsAgree ==
    script /\ pc = "idle" /\ status = "ok" =>
        /\ \A f \in DocFiles : docs[f].state = "whole" /\ docs[f].src = tab
        /\ UniqueFunctions(tab) /\ UniqueNames(tab) =>
               Cardinality(docs["wit"].body) = Cardinality(docs["support"].body.supported)

(* A run over a table whose types all resolve ends, whatever happens to it.*)
ResolvableRunEnds ==
    \A c \in Csvs : ResolvableTable(c) =>
        (status = "running" /\ tab = c ~> status # "running")
(* A run of autogen.py, alone or inside update_docs.sh, publishes its      *)
(* files: one table per run, one file truncated at a time and completed    *)
(* before the next, none touched by a run that raises, hangs or ends.      *)
Published == INSTANCE Publication WITH
    Sources <- Csvs, Names <- Files, source <- csv,
    files <- [f \in Files |-> [state |-> disk[f].state, src |-> disk[f].src]],
    run <- IF pc \in {"next", "rustify", "open", "write"} THEN tab ELSE None,
    writing <- IF pc = "write" THEN {Head(todo)} ELSE {}

(* autogen.py implements Publication under that mapping.                   *)
PublishesFiles == Published!Spec

=============================================================================
