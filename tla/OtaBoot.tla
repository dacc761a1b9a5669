------------------------------ MODULE OtaBoot ------------------------------
(***************************************************************************)
(* From the burning of a firmware to the end of the boot that follows it,  *)
(* with a power cut possible at every step:                                *)
(*                                                                         *)
(*   bin/flash.sh             commits the flags, then burns;               *)
(*   31_restore_nvram         restores defaults, erases the overlay;       *)
(*   90_mount_bind_etc        migrates /data/etc and binds it to /etc;     *)
(*   usr/sbin/boot_check      announces the upgrade, clears the flags;     *)
(*   reset (web and button)   asks the next boot for factory settings.     *)
(*                                                                         *)
(* nvram set changes a copy in memory (ram), nvram commit writes all of it *)
(* to flash (nv), whoever set it.  A commit and the burning of the image   *)
(* are atomic; a half-written firmware is left to the boot loader.         *)
(***************************************************************************)
EXTENDS Integers

CONSTANTS
    Empty,          \* the configuration of an erased overlay
    MaxFw,          \* firmware versions (a bound)
    MaxCuts,        \* power cuts (a bound)
    OthersCommit    \* the points at which other programs may commit nvram

ASSUME EmptyAssumption  == Empty \notin Nat
ASSUME BoundAssumption  == MaxFw \in Nat /\ MaxCuts \in Nat

VARIABLES
    fw,         \* version of the firmware in flash
    conf,       \* version the configuration in /data/etc is written for
    nv,         \* nvram in flash
    ram,        \* nvram in memory
    post,       \* post_ota of 90_mount_bind_etc
    reset,      \* a factory reset under way
    news,       \* has the installed firmware been announced? (history)
    cuts,       \* power cuts so far
    pc          \* what the router is doing

vars == <<fw, conf, nv, ram, post, reset, news, cuts, pc>>

\* restore_defaults, flag_ota_reboot, flag_upgrade_push, flag_format_overlay
Nvram == [restore : {0, 1, 2}, ota : BOOLEAN, push : BOOLEAN, format : BOOLEAN]

Boot    == {"restore", "defaults", "mount", "format", "unset", "post", "ready"}
Running == {"rc", "save", "push", "feed", "clear", "finish", "up"}
Flash   == {"stage", "commit", "env", "burn", "abort", "dead"}

ASSUME OthersAssumption == OthersCommit \subseteq Running

TypeOK ==
    /\ fw \in Nat
    /\ conf \in Nat \cup {Empty}
    /\ nv \in Nvram /\ ram \in Nvram
    /\ post \in BOOLEAN
    /\ reset \in {"no", "set", "committed"}
    /\ news \in {"none", "due", "sent"}
    /\ cuts \in Nat
    /\ pc \in Boot \cup Running \cup Flash \cup {"off"}

Clean == [restore |-> 0, ota |-> FALSE, push |-> FALSE, format |-> FALSE]

Init ==
    /\ fw = 0 /\ conf = 0
    /\ nv = Clean /\ ram = Clean
    /\ post = FALSE /\ reset = "no" /\ news = "none" /\ cuts = 0
    /\ pc = "up"

Goto(from, to) == pc = from /\ pc' = to
Commit         == nv' = ram
Copy           == conf' = IF conf = Empty THEN fw ELSE conf  \* never overwrites

(***************************************************************************)
(* preinit: 31_restore_nvram                                               *)
(***************************************************************************)
PowerOn == /\ Goto("off", "restore")
           /\ ram' = nv
           /\ UNCHANGED <<fw, conf, nv, post, reset, news, cuts>>

EraseOverlay == /\ Goto("restore", "defaults")
                /\ IF ram.restore = 1
                   THEN ram' = [ram EXCEPT !.format = TRUE] /\ conf' = Empty
                   ELSE UNCHANGED <<ram, conf>>
                /\ UNCHANGED <<fw, nv, post, reset, news, cuts>>

\* nvram clear forgets everything but the reserved names; the defaults put
\* restore_defaults back to 0; one commit
RestoreDefaults ==
    /\ Goto("defaults", "mount")
    /\ IF ram.restore \in {1, 2}
       THEN /\ ram' = [ram EXCEPT !.restore = 0,
                                  !.push = ram.push /\ ram.restore # 1]
            /\ nv' = ram'
            /\ news' = IF ram.restore = 1 /\ news = "due" THEN "none" ELSE news
       ELSE UNCHANGED <<ram, nv, news>>
    /\ UNCHANGED <<fw, conf, post, reset, cuts>>

(***************************************************************************)
(* preinit: 90_mount_bind_etc                                              *)
(***************************************************************************)
\* With a bug: post_ota is not remembered.
PreOtaForgets == /\ Goto("mount", "format")
                 /\ post' = FALSE
                 /\ IF ram.ota THEN Copy ELSE UNCHANGED conf
                 /\ UNCHANGED <<fw, nv, ram, reset, news, cuts>>

PreOta == /\ Goto("mount", "format")
          /\ post' = ram.ota
          /\ IF ram.ota THEN Copy ELSE UNCHANGED conf
          /\ UNCHANGED <<fw, nv, ram, reset, news, cuts>>

\* With a bug: the flag is unset although nothing was copied.
FormatNoCopy == /\ pc = "format"
                /\ pc' = IF ram.format THEN "unset" ELSE "post"
                /\ UNCHANGED <<fw, conf, nv, ram, post, reset, news, cuts>>

FormatCopy == /\ pc = "format"
              /\ IF ram.format THEN Copy /\ pc' = "unset" ELSE UNCHANGED conf /\ pc' = "post"
              /\ UNCHANGED <<fw, nv, ram, post, reset, news, cuts>>

FormatUnset == /\ Goto("unset", "post")
               /\ ram' = [ram EXCEPT !.format = FALSE]
               /\ nv' = ram'
               /\ UNCHANGED <<fw, conf, post, reset, news, cuts>>

\* mount --bind, then config_post_ota.sh rewrites the old configuration
PostOta == /\ Goto("post", "ready")
           /\ conf' = IF post THEN fw ELSE conf
           /\ post' = FALSE
           /\ UNCHANGED <<fw, nv, ram, reset, news, cuts>>

\* With a bug: services wait for boot_check to clear flag_ota_reboot.
StartWhenClear == /\ Goto("ready", "rc") /\ ~ram.ota
                  /\ UNCHANGED <<fw, conf, nv, ram, post, reset, news, cuts>>

StartInit == /\ Goto("ready", "rc")
             /\ UNCHANGED <<fw, conf, nv, ram, post, reset, news, cuts>>

(***************************************************************************)
(* boot_check, after all rc scripts                                        *)
(***************************************************************************)
RcDone == /\ Goto("rc", "save")
          /\ UNCHANGED <<fw, conf, nv, ram, post, reset, news, cuts>>

SaveNet == /\ Goto("save", "push")
           /\ Commit
           /\ UNCHANGED <<fw, conf, ram, post, reset, news, cuts>>

PushFlag == /\ pc = "push"
            /\ IF ram.push
               THEN ram' = [ram EXCEPT !.push = FALSE] /\ pc' = "feed"
               ELSE UNCHANGED ram /\ pc' = "clear"
            /\ UNCHANGED <<fw, conf, nv, post, reset, news, cuts>>

FeedPush == /\ Goto("feed", "clear")
            /\ news' = IF news = "due" THEN "sent" ELSE news
            /\ UNCHANGED <<fw, conf, nv, ram, post, reset, cuts>>

\* a normal boot (boot_status 3) commits before it clears flag_ota_reboot
ClearFlag == /\ Goto("clear", "finish")
             /\ ram' = [ram EXCEPT !.ota = FALSE]
             /\ Commit \/ UNCHANGED nv
             /\ UNCHANGED <<fw, conf, post, reset, news, cuts>>

Finish == /\ Goto("finish", "up")
          /\ Commit
          /\ UNCHANGED <<fw, conf, ram, post, reset, news, cuts>>

(***************************************************************************)
(* While the system runs                                                   *)
(***************************************************************************)
OtherCommit == /\ pc \in OthersCommit
               /\ Commit
               /\ UNCHANGED <<fw, conf, ram, post, reset, news, cuts, pc>>

\* nvram set restore_defaults=1; nvram commit; reboot
ResetSet == /\ pc \in Running /\ reset = "no"
            /\ reset' = "set"
            /\ ram' = [ram EXCEPT !.restore = 1]
            /\ UNCHANGED <<fw, conf, nv, post, news, cuts, pc>>
ResetCommit == /\ reset = "set"
               /\ reset' = "committed"
               /\ Commit
               /\ UNCHANGED <<fw, conf, ram, post, news, cuts, pc>>
ResetReboot == /\ reset = "committed"
               /\ reset' = "no" /\ pc' = "off"
               /\ UNCHANGED <<fw, conf, nv, ram, post, news, cuts>>

(***************************************************************************)
(* flash.sh, from the moment it has killed every other program             *)
(***************************************************************************)
FlashStart == /\ pc \in Running
              /\ pc' = "stage" /\ reset' = "no"
              /\ UNCHANGED <<fw, conf, nv, ram, post, news, cuts>>

FlashStage == /\ Goto("stage", "commit")
              /\ \E r \in {1, 2} :
                     ram' = [ram EXCEPT !.restore = r, !.ota = TRUE, !.push = TRUE]
              /\ UNCHANGED <<fw, conf, nv, post, reset, news, cuts>>

\* With a bug: nothing is committed before the firmware is burnt.
FlashNoCommit == /\ Goto("commit", "env")
                 /\ UNCHANGED <<fw, conf, nv, ram, post, reset, news, cuts>>

FlashCommit == /\ Goto("commit", "env")
               /\ Commit
               /\ UNCHANGED <<fw, conf, ram, post, reset, news, cuts>>

\* a library or program is missing from the list: hndmsg ends the script
FlashEnv == /\ pc = "env"
            /\ pc' \in {"burn", "abort"}
            /\ UNCHANGED <<fw, conf, nv, ram, post, reset, news, cuts>>
FlashAbort == /\ Goto("abort", "dead")
              /\ UNCHANGED <<fw, conf, nv, ram, post, reset, news, cuts>>

\* mkxqimage -w: burns and reboots, or fails and the script ends
Burn == /\ Goto("burn", "off")
        /\ fw < MaxFw /\ fw' = fw + 1
        /\ news' = "due"
        /\ UNCHANGED <<conf, nv, ram, post, reset, cuts>>
BurnFailed == /\ Goto("burn", "dead")
              /\ UNCHANGED <<fw, conf, nv, ram, post, reset, news, cuts>>

PowerCut == /\ pc # "off" /\ cuts < MaxCuts
            /\ cuts' = cuts + 1
            /\ pc' = "off" /\ post' = FALSE /\ reset' = "no"
            /\ UNCHANGED <<fw, conf, nv, ram, news>>

Preinit   == \/ EraseOverlay \/ RestoreDefaults \/ PreOta
             \/ FormatCopy \/ FormatUnset \/ PostOta \/ StartInit
BootCheck == RcDone \/ SaveNet \/ PushFlag \/ FeedPush \/ ClearFlag \/ Finish
Reset     == ResetSet \/ ResetCommit \/ ResetReboot
FlashSh   == \/ FlashStart \/ FlashStage \/ FlashCommit \/ FlashEnv
             \/ FlashAbort \/ Burn \/ BurnFailed

Next == PowerOn \/ Preinit \/ BootCheck \/ OtherCommit \/ Reset \/ FlashSh \/ PowerCut

Spec == Init /\ [][Next]_vars

\* A router without power is switched on, and the boot scripts go on.
Fairness == /\ WF_vars(PowerOn) /\ WF_vars(Preinit)
            /\ WF_vars(BootCheck) /\ WF_vars(FlashAbort)
FairSpec == Spec /\ Fairness

-----------------------------------------------------------------------------
(***************************************************************************)
(* Properties                                                              *)
(***************************************************************************)

\* Services only run on a configuration that fits the firmware: an upgrade is
\* migrated, an erased overlay is filled again, before anything is started,
\* whatever power cuts or resets came in between.
ServicesFit == pc \in Running => conf = fw

\* A power cut can be survived at every moment: what is wrong with the
\* configuration is written down in the flags that are already in flash.
FlagsCover(n) == \/ conf = fw
                 \/ n.ota
                 \/ conf = Empty /\ (n.format \/ n.restore = 1)
Recoverable == FlagsCover(nv)

\* An upgrade is announced in the end, through any number of power cuts, unless
\* a factory reset forgets it or flash.sh takes the router first.
PushSent == news = "due" ~> news # "due" \/ pc \in Flash

\* flash.sh that gives up before it burns ("abort early") reboots the router.
AbortReboots == pc = "abort" ~> pc = "off"

\* The scripts together keep the promise of module SafeUpgrade.
S == INSTANCE SafeUpgrade WITH serving <- pc \in Running
ImplementsSafeUpgrade == S!Spec

(***************************************************************************)
(* The inductive invariant                                                 *)
(***************************************************************************)

\* Where something that reads the configuration runs, or nothing can migrate
\* it any more before the next boot, it fits.
Fits == pc \in Running \cup Flash \cup {"ready"} => conf = fw

\* flash.sh burns only behind the commit of flag_ota_reboot.
FlagFirst == /\ pc = "commit" => ram.ota
             /\ pc \in {"env", "burn"} => nv.ota

\* The boot scripts work on what is in flash, and no reset is left over.
InStep == /\ pc \in {"restore", "mount", "format", "unset", "post"} => ram = nv
          /\ pc = "defaults" => \/ ram = nv /\ nv.restore # 1
                                \/ /\ nv.restore = 1 /\ conf = Empty
                                   /\ ram = [nv EXCEPT !.format = TRUE]
          /\ pc \in {"mount", "format", "unset", "post"} => nv.restore = 0
          /\ reset # "no" => pc \in Running

\* From the decision to migrate until it is done, post_ota remembers it.
Migrating == /\ pc \in {"format", "unset", "post"} => (post <=> nv.ota)
             /\ pc = "format" /\ post => conf # Empty
             /\ pc \in {"unset", "post"} => conf # Empty /\ (conf = fw \/ post)

IInv == TypeOK /\ Recoverable /\ Fits /\ FlagFirst /\ InStep /\ Migrating
=============================================================================
