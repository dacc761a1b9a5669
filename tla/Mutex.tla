------------------------------- MODULE Mutex -------------------------------
(***************************************************************************)
(* What every pid file of the router promises: of all the processes that   *)
(* start the same script, at most one works at a time.  holder is the      *)
(* process that works, or NoPid.                                           *)
(***************************************************************************)
CONSTANTS
    Pid,      \* the process identifiers
    NoPid     \* no process

VARIABLE holder

Init == holder = NoPid

Acquire(p) == holder = NoPid /\ holder' = p
Release    == holder # NoPid /\ holder' = NoPid

Next == (\E p \in Pid : Acquire(p)) \/ Release

Spec == Init /\ [][Next]_holder
=============================================================================
