----------------------------- MODULE Toolchains -----------------------------
(***************************************************************************)
(* toolchains/gen_toolchains.py: wali.toml is read once, the texts of      *)
(* wali.mk, wali.sh and wali.cmake are computed from it, and the three     *)
(* files are written one after another.  A path is the sequence of its     *)
(* directories below the checkout; a text is what its reader finds in it:  *)
(* directories and flags.  The maintainer edits wali.toml at any time, and *)
(* a run may end at any step, killed or by an exception of write_text.     *)
(***************************************************************************)
EXTENDS Naturals, Sequences

CONSTANTS
    Tomls,      \* the contents wali.toml may have
    None,       \* no wali.toml, no table, no content
    MaxEdits,   \* bound: edits of wali.toml
    MaxKills    \* bound: runs that are killed or raise while they write

DirKeys == {"root", "llvm", "sysroot", "libcxx"}
Flags == {"cflags", "warnings", "features", "cxxflags"}
Names == {"mk", "sh", "cmake"}

(* The settings the generator looks up: [target] triple, [build_dirs],     *)
(* [flags] (each list of words as a set; a list that is left out is empty) *)
(* and [flags.link]; braced says that str.format rejects some flag.        *)
ASSUME TomlsAssumption ==
    /\ None \notin Tomls
    /\ \A t \in Tomls :
          /\ t.triple \in Seq(STRING)
          /\ DOMAIN t.dirs \subseteq DirKeys
          /\ \A k \in DOMAIN t.dirs : t.dirs[k] \in Seq(STRING)
          /\ t.flags # None => DOMAIN t.flags = Flags
          /\ \A e \in t.link : DOMAIN e = {"key", "kind", "values"}
          /\ t.braced \in BOOLEAN
    /\ MaxEdits \in Nat /\ MaxKills \in Nat

-----------------------------------------------------------------------------
(* What the generator makes of a configuration.                            *)
UsableAnyTriple(t) ==      \* mutant: the length of the triple is not checked
    t # None /\ DOMAIN t.dirs = DirKeys /\ t.flags # None /\ ~t.braced

Usable(t) ==
    /\ t # None
    /\ Len(t.triple) = 4
    /\ DOMAIN t.dirs = DirKeys
    /\ t.flags # None
    /\ ~t.braced

NoVendor(triple) == <<Head(triple)>> \o SubSeq(triple, 3, Len(triple))

(* A boolean is a flag if it is true, a list one flag per item.            *)
LinkFlags(link) ==
    {<<e.key>> : e \in {b \in link : b.kind = "bool" /\ TRUE \in b.values}}
      \cup UNION {{<<e.key, v>> : v \in e.values} : e \in {v \in link : v.kind # "bool"}}

(* The part the three templates share, for a root they each compute.       *)
(* extra_cxxflags is read (line 49) and goes nowhere.                      *)
Settings(t, root) ==
    LET build == root \o t.dirs["root"]
        sysroot == build \o t.dirs["sysroot"]
        libcxx == build \o t.dirs["libcxx"]
    IN  [root |-> root,
         bin |-> build \o t.dirs["llvm"] \o <<"bin">>,
         sysroot |-> sysroot,
         libcxx |-> libcxx,
         cflags |-> [target |-> t.triple, sysroot |-> sysroot,
                     words |-> t.flags["cflags"] \cup t.flags["warnings"]
                                  \cup t.flags["features"]],
         includes |-> libcxx \o <<"include", "c++", "v1">>,
         ldflags |-> [libs |-> {sysroot \o <<"lib">>, libcxx \o <<"lib">>},
                      words |-> LinkFlags(t.link)]]

(* wali.mk and wali.sh start from the parent of their directory, wali.cmake*)
(* from its directory.                                                     *)
ProjectRoot == <<>>

MakeText(t) ==
    [settings |-> Settings(t, ProjectRoot),
     target |-> t.triple, novendor |-> NoVendor(t.triple)]

BashTextInToolchains(t) ==   \* mutant: root_dir_rel is forgotten
    [settings |-> Settings(t, <<"toolchains">>),
     target |-> t.triple, novendor |-> NoVendor(t.triple)]

BashText(t) ==
    [settings |-> Settings(t, ProjectRoot),
     target |-> t.triple, novendor |-> NoVendor(t.triple)]

CMakeText(t) == [settings |-> Settings(t, <<"toolchains">>)]

Text(f, t) ==
    CASE f = "mk"    -> MakeText(t)
      [] f = "sh"    -> BashText(t)
      [] f = "cmake" -> CMakeText(t)

-----------------------------------------------------------------------------
VARIABLES
    toml,        \* wali.toml
    files,       \* wali.mk, wali.sh, wali.cmake
    executable,  \* the mode of wali.sh
    pc,          \* where the generator is
    todo,        \* files it has still to write
    cfg,         \* the configuration it read
    status,      \* how the last run ended
    interrupted, \* history: a run stopped among the writes, none finished since
    edits, kills

vars == <<toml, files, executable, pc, todo, cfg, status, interrupted, edits, kills>>

Absent == [state |-> "absent", src |-> None, text |-> None]
Torn == [state |-> "torn", src |-> None, text |-> None]
Whole(t, text) == [state |-> "whole", src |-> t, text |-> text]

Init ==
    /\ toml \in Tomls \cup {None}
    /\ files = [f \in Names |-> Absent] /\ executable = FALSE
    /\ pc = "idle" /\ todo = <<>> /\ cfg = None /\ status = "none"
    /\ interrupted = FALSE /\ edits = 0 /\ kills = 0

(* main: the three texts are computed before the first file is touched.    *)
Start ==
    /\ pc = "idle" /\ Usable(toml)
    /\ pc' = "open" /\ todo' = <<"mk", "sh", "cmake">> /\ cfg' = toml
    /\ status' = "running"
    /\ UNCHANGED <<toml, files, executable, interrupted, edits, kills>>

RefuseAfterMake ==         \* mutant: each text is formatted when its file is written
    /\ pc = "idle" /\ ~Usable(toml)
    /\ status' = "failed"
    /\ files' = [files EXCEPT !["mk"] = Torn]
    /\ UNCHANGED <<toml, executable, pc, todo, cfg, interrupted, edits, kills>>

(* No wali.toml, a triple of another length, a missing key, flags that     *)
(* str.format rejects: sys.exit(1) or an exception.                        *)
Refuse ==
    /\ pc = "idle" /\ ~Usable(toml)
    /\ status' = "failed"
    /\ UNCHANGED <<toml, files, executable, pc, todo, cfg, interrupted, edits, kills>>

(* write_text: open truncates, close writes; the text fits in one buffer.  *)
Open ==
    /\ pc = "open"
    /\ files' = [files EXCEPT ![Head(todo)] = Torn]
    /\ pc' = "write"
    /\ UNCHANGED <<toml, executable, todo, cfg, status, interrupted, edits, kills>>

WriteOfCurrent ==          \* mutant: the configuration is loaded again for each file
    /\ pc = "write"
    /\ files' = [files EXCEPT ![Head(todo)] =
                    IF Usable(toml) THEN Whole(toml, Text(Head(todo), toml)) ELSE Torn]
    /\ todo' = Tail(todo)
    /\ pc' = IF Tail(todo) = <<>> THEN "chmod" ELSE "open"
    /\ UNCHANGED <<toml, executable, cfg, status, interrupted, edits, kills>>

Write ==
    /\ pc = "write"
    /\ files' = [files EXCEPT ![Head(todo)] = Whole(cfg, Text(Head(todo), cfg))]
    /\ todo' = Tail(todo)
    /\ pc' = IF Tail(todo) = <<>> THEN "chmod" ELSE "open"
    /\ UNCHANGED <<toml, executable, cfg, status, interrupted, edits, kills>>

Chmod ==
    /\ pc = "chmod"
    /\ executable' = TRUE
    /\ pc' = "idle" /\ cfg' = None /\ status' = "ok" /\ interrupted' = FALSE
    /\ UNCHANGED <<toml, files, todo, edits, kills>>

(* SIGKILL, or write_text raises: the file cannot be opened, or the disk   *)
(* is full when it is closed.                                              *)
Abort ==
    /\ pc # "idle"
    /\ kills < MaxKills /\ kills' = kills + 1
    /\ pc' = "idle" /\ todo' = <<>> /\ cfg' = None /\ status' = "aborted"
    /\ interrupted' = TRUE
    /\ UNCHANGED <<toml, files, executable, edits>>

(* The maintainer, at any time.                                            *)
EditToml ==
    /\ edits < MaxEdits /\ edits' = edits + 1
    /\ toml' \in (Tomls \cup {None}) \ {toml}
    /\ UNCHANGED <<files, executable, pc, todo, cfg, status, interrupted, kills>>

Next ==
    \/ Start \/ Refuse \/ Open \/ Write \/ Chmod
    \/ Abort \/ EditToml

Spec == Init /\ [][Next]_vars

-----------------------------------------------------------------------------
(* The type invariant.                                                     *)
TypeOK ==
    /\ toml \in Tomls \cup {None}
    /\ DOMAIN files = Names
    /\ \A f \in Names :
          \/ files[f] \in {Absent, Torn}
          \/ /\ files[f].state = "whole" /\ files[f].src \in Tomls
             /\ Len(files[f].src.triple) = 4
    /\ executable \in BOOLEAN /\ interrupted \in BOOLEAN
    /\ pc \in {"idle", "open", "write", "chmod"}
    /\ todo \in Seq(Names) /\ (pc \in {"open", "write"} <=> todo # <<>>)
    /\ cfg \in Tomls \cup {None} /\ (pc # "idle" <=> cfg # None)
    /\ status \in {"none", "running", "ok", "failed", "aborted"}
    /\ edits \in 0 .. MaxEdits /\ kills \in 0 .. MaxKills

(* Between runs, unless one stopped among its writes and none has finished *)
(* since, the three files are those of one configuration: all are whole,   *)
(* wali.sh is executable, and what a shell that sources it compiles with   *)
(* and where it looks is what make compiles with and installs into.        *)
(* Refused runs and edits in between change nothing about that.            *)
ToolchainsAgree ==
    pc = "idle" /\ ~interrupted =>
        \/ \A f \in Names : files[f] = Absent
        \/ /\ \A f \in Names : files[f].state = "whole" /\ files[f].src = files["mk"].src
           /\ executable
           /\ files["sh"].text = files["mk"].text

(* gen_toolchains.py publishes its three files: one configuration per run, *)
(* one file truncated at a time, a refused run touches none.               *)
Published == INSTANCE Publication WITH
    Sources <- Tomls \cup {None}, source <- toml,
    files <- [f \in Names |-> [state |-> files[f].state, src |-> files[f].src]],
    run <- cfg,
    writing <- IF pc = "write" THEN {Head(todo)} ELSE {}

(* gen_toolchains.py implements Publication under that mapping.            *)
PublishesFiles == Published!Spec

(* The comment above line 149, "Resolve project root relative to this      *)
(* file": in a whole wali.cmake WALI_ROOT_DIR is the root of the project,  *)
(* the one wali.mk installs compiler and sysroot under.                    *)
CMakeFindsRoot ==
    files["cmake"].state = "whole" => files["cmake"].text.settings.root = ProjectRoot
=============================================================================
