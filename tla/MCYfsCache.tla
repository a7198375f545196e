----------------------------- MODULE MCYfsCache -----------------------------
(* Small instances of YfsCache.                                            *)
EXTENDS YfsCache

CONSTANTS a, b

NoFaults == {{}}
DiskFaults == {{}, {2}, {3}}
=============================================================================
