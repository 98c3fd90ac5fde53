-------------------------- MODULE MCTestsMakefile --------------------------
(* Three programs: more than the jobs that run at a time.                  *)
EXTENDS TestsMakefile

Three == <<"access", "pipe", "write">>
=============================================================================
