--------------------------- MODULE MCRustcConfig ---------------------------
(***************************************************************************)
(* Two trees built for two targets; the user's files hold a setting in a   *)
(* table the script writes to, one in a table it does not, and an older    *)
(* sub-table of one of the targets.                                        *)
(***************************************************************************)
EXTENDS RustcConfig

TreeAB == [s \in Scripts |-> IF s = "a" THEN "treeA" ELSE "treeB"]
TargetAB == [s \in Scripts |-> IF s = "a" THEN "wali" ELSE "wali2"]
LlvmAB == [s \in Scripts |-> IF s = "a" THEN "llvmA" ELSE "llvmB"]

UserConfig == (<<"build", "docs">> :> <<"false">>) @@ (<<"build", "target">> :> <<"user">>)
              @@ (<<"target", "Host">> :> <<"linker">>) @@ (<<"rust", "lld">> :> <<"true">>)
UserCargo == (<<"profile", "debug">> :> <<"0">>)
UserHome == (<<"target", "wali">> :> <<"rustflags">>) @@ (<<"net", "retry">> :> <<"2">>)

UserFiles ==
    [f \in Files |-> File(CASE f[1] = "home" -> UserHome
                            [] f[1] = "config" -> UserConfig
                            [] OTHER -> UserCargo)]
=============================================================================
