---------------------------- MODULE SafeUpgrade ----------------------------
(***************************************************************************)
(* What a firmware upgrade promises to the owner of the router: whatever   *)
(* is installed, erased or interrupted, services only ever run on a        *)
(* configuration that fits the firmware.                                   *)
(***************************************************************************)
EXTENDS Naturals

CONSTANT Empty      \* the configuration of an erased overlay

VARIABLES
    fw,         \* the version of the firmware in flash
    conf,       \* the version the configuration in /data/etc is written for
    serving     \* do services run?

Init == fw = 0 /\ conf = 0 /\ serving = TRUE

Stop    == serving' = FALSE /\ UNCHANGED <<fw, conf>>
Install == ~serving /\ fw' = fw + 1 /\ UNCHANGED <<conf, serving>>
Erase   == ~serving /\ conf' = Empty /\ UNCHANGED <<fw, serving>>
Settle  == ~serving /\ conf' = fw /\ UNCHANGED <<fw, serving>>
Serve   == ~serving /\ conf = fw /\ serving' = TRUE /\ UNCHANGED <<fw, conf>>

Next == Stop \/ Install \/ Erase \/ Settle \/ Serve

Spec == Init /\ [][Next]_<<fw, conf, serving>>
=============================================================================
