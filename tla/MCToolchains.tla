---------------------------- MODULE MCToolchains ----------------------------
(***************************************************************************)
(* Configurations for TLC: the one shipped, one with other directories and *)
(* flags, and one of each kind the generator refuses.                      *)
(***************************************************************************)
EXTENDS Toolchains

Shipped ==
    [triple |-> <<"wasm32", "unknown", "linux", "muslwali">>,
     dirs |-> [root |-> <<"build">>, llvm |-> <<"llvm">>,
               sysroot |-> <<"sysroot">>, libcxx |-> <<"libcxx">>],
     flags |-> [cflags |-> {"-O0"}, warnings |-> {"-Wno-int-conversion"},
                features |-> {"-matomics"}, cxxflags |-> {}],
     link |-> {[key |-> "shared-memory", kind |-> "bool", values |-> {TRUE}],
               [key |-> "max-memory", kind |-> "value", values |-> {"2147483648"}],
               [key |-> "undefined", kind |-> "list", values |-> {"__walirt"}]},
     braced |-> FALSE]

Moved ==
    [Shipped EXCEPT !.dirs["root"] = <<"out", "build">>, !.flags["cflags"] = {"-O2"},
                    !.link = {[key |-> "shared-memory", kind |-> "bool", values |-> {FALSE}]}]

NoVendorTriple == [Shipped EXCEPT !.triple = <<"wasm32", "linux", "muslwali">>]
NoLibcxx == [Moved EXCEPT !.dirs = [k \in {"root", "llvm", "sysroot"} |-> Moved.dirs[k]]]
NoFlags == [Shipped EXCEPT !.flags = None]
Braced == [Shipped EXCEPT !.braced = TRUE]

AllTomls == {Shipped, Moved, NoVendorTriple, NoLibcxx, NoFlags, Braced}
=============================================================================
