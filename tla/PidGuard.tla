------------------------------ MODULE PidGuard ------------------------------
(***************************************************************************)
(* The pid-file guard with which the router's scripts try to run one at a  *)
(* time: bin/flash.sh (/tmp/pid_xxxx), usr/sbin/crontab_rom.sh             *)
(* (/tmp/crontab_pid_xxxx) and usr/sbin/otapredownload all begin with it,  *)
(* and bin/flash_check.sh asks the same question for the web interface.    *)
(*                                                                         *)
(*   - the script reads the pid file and tries kill -0 on what it holds;   *)
(*   - a live pid makes it exit;                                           *)
(*   - a dead pid, an empty or a missing file lets it write its own pid    *)
(*     and go on.  Nobody ever removes the file.                           *)
(*                                                                         *)
(* Reading and writing are two steps of the shell, so a second script may  *)
(* read between them.  Overlap says whether the starters of the script may *)
(* be that close: cron starts otapredownload once an hour (FALSE), HTTP    *)
(* handlers and background jobs start the other two at will (TRUE).        *)
(***************************************************************************)
CONSTANTS
    Pid,        \* the process identifiers of the system (a bound)
    NoPid,      \* what a missing or empty pid file holds
    Overlap     \* may two starters be inside the guard at once?

ASSUME NoPidAssumption   == NoPid \notin Pid
ASSUME OverlapAssumption == Overlap \in BOOLEAN

VARIABLES
    pidFile,    \* the pid the file holds
    phase       \* phase[p]: what the process with pid p is doing

vars == <<pidFile, phase>>

(***************************************************************************)
(* A pid is free ("none"), at the guard ("check": about to look, "write":  *)
(* about to write its pid), working ("hold"), or given by the kernel to an *)
(* unrelated process ("other").                                            *)
(***************************************************************************)
Phases == {"none", "check", "write", "hold", "other"}

TypeOK == /\ pidFile \in Pid \cup {NoPid}
          /\ phase \in [Pid -> Phases]

Alive(p)   == p \in Pid /\ phase[p] # "none"
InGuard(p) == phase[p] \in {"check", "write"}
Holding(p) == phase[p] = "hold"

\* bin/flash_check.sh: exit status 1 exactly when the file holds a live pid
FlashCheck == IF Alive(pidFile) THEN 1 ELSE 0

(***************************************************************************)
(* Actions                                                                 *)
(***************************************************************************)
Init == pidFile = NoPid /\ phase = [p \in Pid |-> "none"]

Become(p, ph) == phase' = [phase EXCEPT ![p] = ph]

Start(p) == /\ phase[p] = "none"
            /\ Overlap \/ \A q \in Pid : ~InGuard(q)
            /\ Become(p, "check")
            /\ UNCHANGED pidFile

\* mutation: the result of kill -0 is ignored
PassBlindly(p) == phase[p] = "check" /\ Become(p, "write") /\ UNCHANGED pidFile

\* mutation: the file is written only where there was none
WriteIfMissing(p) == /\ phase[p] = "write"
                     /\ Become(p, "hold")
                     /\ pidFile' = IF pidFile = NoPid THEN p ELSE pidFile

\* kill -0 succeeds: "Upgrading, exit..."
Refuse(p) == /\ phase[p] = "check"
             /\ Alive(pidFile)
             /\ Become(p, "none")
             /\ UNCHANGED pidFile

Pass(p) == /\ phase[p] = "check"
           /\ ~Alive(pidFile)
           /\ Become(p, "write")
           /\ UNCHANGED pidFile

Write(p) == /\ phase[p] = "write"
            /\ Become(p, "hold")
            /\ pidFile' = p

\* scripts end, or are killed wherever they are (flash.sh kills many at once)
Exit(S) == /\ \A p \in S : InGuard(p) \/ Holding(p)
           /\ phase' = [p \in Pid |-> IF p \in S THEN "none" ELSE phase[p]]
           /\ UNCHANGED pidFile

\* the kernel gives a free pid to some other program, which ends in its turn
Recycle(p)   == phase[p] = "none" /\ Become(p, "other") /\ UNCHANGED pidFile
OtherExit(p) == phase[p] = "other" /\ Become(p, "none") /\ UNCHANGED pidFile

\* /tmp is a ram disk: a reboot loses the file and every process
Reboot == /\ phase' = [p \in Pid |-> "none"]
          /\ pidFile' = NoPid

Next == \/ \E p \in Pid : \/ Start(p) \/ Refuse(p) \/ Pass(p) \/ Write(p)
                          \/ Recycle(p) \/ OtherExit(p)
        \/ \E S \in (SUBSET Pid) \ {{}} : Exit(S)
        \/ Reboot

Spec == Init /\ [][Next]_vars

(***************************************************************************)
(* Properties                                                              *)
(***************************************************************************)

\* At most one process is past the guard: two flash.sh would write the same
\* flash partition, two checkupgrade.lua the same image and status file.
AtMostOneHolder == \A p, q \in Pid : Holding(p) /\ Holding(q) => p = q

\* A process that is past the guard is seen by flash_check.sh: the web
\* interface never believes that nothing runs while something does.
CheckSeesHolder == (\E p \in Pid : Holding(p)) => FlashCheck = 1

\* The guard implements the mutual exclusion of module Mutex.
holderNow == IF \E p \in Pid : Holding(p)
             THEN CHOOSE p \in Pid : Holding(p)
             ELSE NoPid
M == INSTANCE Mutex WITH holder <- holderNow
ImplementsMutex == M!Spec

(***************************************************************************)
(* Why it holds when starters do not overlap: the holder is always the     *)
(* process the file names, and whoever is about to write has seen that     *)
(* there is no holder and is alone inside the guard.                       *)
(***************************************************************************)
HolderIsNamed == \A p \in Pid : Holding(p) => pidFile = p
WriterSawNone == \A p \in Pid : phase[p] = "write" => \A q \in Pid : ~Holding(q)
GuardIsSerial == \A p, q \in Pid : InGuard(p) /\ InGuard(q) => p = q

IInv == TypeOK /\ HolderIsNamed /\ WriterSawNone /\ GuardIsSerial
=============================================================================
