----------------------------- MODULE MCGzipSuite ----------------------------
(* Two slots: as a test holds one at a time, a handle is reused or not.    *)
EXTENDS GzipSuite

TwoHandles == 1 .. 2
=============================================================================
