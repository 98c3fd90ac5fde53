--------------------------- MODULE MCWaliMakefile ---------------------------
EXTENDS WaliMakefile

ToolchainGoals == {"llvm-base", "wali-compiler", "libc", "libcxx", "tests", "rustc"}
WholeGoals == {"wali-compiler", "all", "clean-all"}
Supported == {1, 2}
=============================================================================
