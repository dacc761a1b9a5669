----------------------------- MODULE MCPidGuard -----------------------------
\* PidGuard with a few process identifiers, for TLC.
EXTENDS PidGuard
CONSTANTS p1, p2, p3, p4
MCPid == {p1, p2, p3, p4}
=============================================================================
