--------------------------- MODULE MCRegistration ---------------------------
EXTENDS Registration

(* One configuration: what the scripts read of it is whether wali.sh is whole. *)
OneToml ==
    {[triple |-> <<"wasm32", "unknown", "linux", "muslwali">>,
      dirs |-> [root |-> <<"build">>, llvm |-> <<"llvm">>,
                sysroot |-> <<"sysroot">>, libcxx |-> <<"libcxx">>],
      flags |-> [cflags |-> {}, warnings |-> {}, features |-> {}, cxxflags |-> {}],
      link |-> {}, braced |-> FALSE]}
=============================================================================
