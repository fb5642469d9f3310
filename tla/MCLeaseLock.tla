----------------------------- MODULE MCLeaseLock -----------------------------
(* Instance of LeaseLock for TLC.                                            *)
EXTENDS LeaseLock

CONSTANTS c1, c2, t1, t2, t3, k1, nameA, nameB

\* Two workload specifications that meet on business key k1, with TTLs of 2
\* and 3 ticks: the same number of milliseconds, not the same duration.
UniformSpecs == {[name |-> nameA, defaultTTL |-> 2], [name |-> nameB, defaultTTL |-> 2]}
UniformOverrides == {-1, 0, 3}
OneKey == {k1}

=============================================================================
