----------------------------- MODULE MCAutogen -----------------------------
(***************************************************************************)
(* A small syscall table with a row of every kind the shipped one has, and *)
(* the edits that exercise the generator's corner cases.                   *)
(***************************************************************************)
EXTENDS Autogen, TLC

MCBasic == ("int" :> "s32") @@ ("long" :> "s64") @@ ("long long" :> "s64")
           @@ ("unsigned int" :> "u32") @@ ("unsigned long" :> "u64") @@ ("reg" :> "s64")
MCComplex == ("size_t" :> "unsigned int") @@ ("off_t" :> "long long")
             @@ ("uid_t" :> "int") @@ ("time_t" :> "s64")
             @@ ("sigset_t" :> "Array[128, u8]")
MCBits == ("s32" :> 32) @@ ("u32" :> 32) @@ ("s64" :> 64) @@ ("u64" :> 64)
MCPointers == {"void*", "char*", "int*", "struct stat*"}
MCLongNames == {"long", "long long", "unsigned long"}
MCCWidth == ("int" :> "i") @@ ("unsigned int" :> "i") @@ ("long" :> "I")
            @@ ("long long" :> "I") @@ ("unsigned long" :> "I")
            @@ ("reg" :> "I") @@ ("s64" :> "I") @@ ("Array[128, u8]" :> "i")
            @@ ("UNDEF" :> "i")
MCResolve == ("int" :> "s32") @@ ("unsigned int" :> "u32") @@ ("long" :> "s64")
             @@ ("long long" :> "s64") @@ ("unsigned long" :> "u64") @@ ("reg" :> "s64")
             @@ ("size_t" :> "u32") @@ ("off_t" :> "s64") @@ ("uid_t" :> "s32")
             @@ ("time_t" :> "s64") @@ ("s32" :> "s32") @@ ("u32" :> "u32")
             @@ ("s64" :> "s64") @@ ("u64" :> "u64") @@ ("UNDEF" :> "diverges")
             @@ ("sigset_t" :> "diverges") @@ ("Array[128, u8]" :> "diverges")

Entry(nr, name, nargs, args, alias, undef) ==
    [nr |-> nr, name |-> name, nargs |-> nargs, alias |-> alias, undef |-> undef,
     cells |-> [k \in 1 .. MaxArgs |-> IF k \in DOMAIN args THEN args[k] ELSE Blank]]

Read == Entry(0, "read", 3, <<"int", "void*", "size_t">>, Blank, {})
Lseek == Entry(8, "lseek", 3, <<"int", "off_t", "int">>, Blank, {})
Fstatat == Entry(262, "newfstatat", 2, <<"int*", "struct stat*">>, "fstatat", {"riscv64"})
Prctl == Entry(157, "prctl", 2, <<"int", "unsigned long">>, Blank, {})
SchedYield == Entry(24, "sched_yield", 0, <<>>, Blank, {})
Unsupported == Entry(57, "vfork", Blank, <<>>, Blank, {"aarch64", "riscv64"})
Nameless == Entry(999, Blank, Blank, <<>>, Blank, {})
MissingCell == Entry(1, "write", 3, <<"int", "void*">>, Blank, {})
ByValue == Entry(13, "rt_sigaction", 2, <<"int", "sigset_t">>, Blank, {})
Wide == Entry(201, "time", 1, <<"time_t">>, Blank, {})

ShippedCsv == <<Nameless, Read, Lseek, Fstatat, SchedYield, Unsupported>>
FullCsv == <<Read, Prctl, SchedYield>>     \* no blank cell: '# Args' is numeric
MissingCsv == <<Read, MissingCell>>
ByValueCsv == <<ByValue, Wide, Unsupported>>  \* an Array, and 64 bits not spelled "long"

AllCsvs == {ShippedCsv, FullCsv, MissingCsv, ByValueCsv}

MCArchs == <<"aarch64", "riscv64">>
MCArchCalls == {"read", "lseek", "newfstatat", "vfork", "prctl"}
AllStubs == <<"libc", "wamr", "wit", "arch-diff", "markdown">>
MCRequests == {AllStubs, <<"wamr">>, <<"markdown", "wit">>}
=============================================================================
