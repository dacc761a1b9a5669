----------------------------- MODULE RomUpgrade -----------------------------
(***************************************************************************)
(* The firmware upgrade of the router as its concurrent programs run it:   *)
(*                                                                         *)
(*   - HTTP handlers, in several fcgi processes: upgradeRom, flashRom,     *)
(*     cancelUpgrade, uploadRom and any other request, each behind the     *)
(*     system-lock test of luci/dispatcher.lua;                            *)
(*   - crontab_rom.sh and the checkupgrade.lua it runs: ask, download,     *)
(*     verify, wait for permission, flash;                                 *)
(*   - otapredownload, started by cron: the same on the router's own       *)
(*     initiative;                                                         *)
(*   - flash.sh, started by any of them: stop the rest of the system,      *)
(*     commit the nvram flags, burn, reboot.                               *)
(*                                                                         *)
(* They share only files: the lock file, whose content is the upgrade      *)
(* status, two pid files, the images, and the flags in nvram.  A step of a *)
(* program is one test or one write of that shared state.  A loop over ps  *)
(* and the tests inside checkUpgradeStatus are one step.                   *)
(***************************************************************************)
EXTENDS Naturals, Integers, FiniteSets

CONSTANTS
    Web,            \* HTTP request processes (a bound)
    Cron,           \* pids for crontab_rom.sh and its lua (a bound)
    Flash,          \* pids for flash.sh (a bound)
    NoPid,          \* what a missing pid file holds
    Kinds,          \* the requests users make
    OtaOn,          \* does cron start otapredownload?
    OtaBackground,  \* does otapredownload start flash.sh in the background?
    LuaCrash,       \* may checkupgrade.lua die of an error in the middle?
    Overlap         \* may two starters be inside a pid-file guard at once?

ASSUME PidAssumption     == NoPid \notin Cron \cup Flash /\ Cron \cap Flash = {}
ASSUME KindsAssumption   == Kinds \subseteq {"upgrade", "flash", "cancel", "upload", "other"}
ASSUME BooleanAssumption == {OtaOn, OtaBackground, LuaCrash, Overlap} \subseteq BOOLEAN

VARIABLES
    lock,       \* /tmp/upgrade_lock: NoLock, or the status it holds (0: empty)
    cronPid,    \* /tmp/crontab_pid_xxxx
    flashPid,   \* /tmp/pid_xxxx
    otaFlag,    \* nvram flag_ota_reboot
    image,      \* the image files: rom.bin and customrom.bin
    system,     \* "up", "noweb": its web server stopped, "dead": crond and
                \* boot_check killed too
    web,        \* the HTTP request processes
    sh,         \* crontab_rom.sh, by pid
    lua,        \* the checkupgrade.lua started by that crontab_rom.sh
    flash,      \* flash.sh, by pid: its image, who waits for its exit status, and
                \* the programs it is going to kill
    ota         \* otapredownload

files == <<lock, cronPid, flashPid, otaFlag, image>>
procs == <<system, web, sh, lua, flash, ota>>
vars  == <<files, procs>>

NoLock   == -1
Status   == 0 .. 12
Image    == {"rom", "custom"}
Content  == {"none", "good", "bad"}     \* bad: mkxqimage -v refuses it

\* the programs in the list of ps: crond and boot_check are the rest
Ota      == <<"ota">>
Rest     == <<"rest">>
Program  == ({"sh", "lua"} \X Cron) \cup {Ota, Rest}

IdleWeb == [pc |-> "idle", kind |-> "other", image |-> "rom", pid |-> NoPid, lua |-> NoPid]
NoFlash == [pc |-> "none", image |-> "rom", by |-> NoPid, list |-> {}]

TypeOK ==
    /\ lock \in Status \cup {NoLock}
    /\ cronPid \in Cron \cup {NoPid}
    /\ flashPid \in Flash \cup {NoPid}
    /\ otaFlag \in BOOLEAN /\ system \in {"up", "noweb", "dead"}
    /\ image \in [Image -> Content]
    /\ web \in [Web -> [pc : {"idle", "unlock", "decide", "lock", "fork", "status",
                              "verify", "remove", "store", "check", "pid", "lua", "kill", "killlua",
                              "abort", "release"},
                        kind : Kinds \cup {"other"}, image : Image,
                        pid : Cron \cup {NoPid}, lua : Cron \cup {NoPid}]]
    /\ sh \in [Cron -> {"none", "check", "write", "hold", "wait"}]
    /\ lua \in [Cron -> {"none", "start", "ask", "url", "fetch", "verify", "permit", "flash"}]
    /\ flash \in [Flash -> [pc : {"none", "check", "write", "verify", "stop", "list", "kill",
                                  "commit", "burn"},
                            image : Image, by : Cron \cup {"ota", NoPid}, list : SUBSET Program]]
    /\ ota \in {"none", "fetch", "verify", "recheck", "lock", "status", "fork", "flash", "ok"}

Init ==
    /\ lock = NoLock /\ cronPid = NoPid /\ flashPid = NoPid
    /\ otaFlag = FALSE /\ system = "up"
    /\ image = [i \in Image |-> "none"]
    /\ web = [w \in Web |-> IdleWeb]
    /\ sh = [c \in Cron |-> "none"]
    /\ lua = [c \in Cron |-> "none"]
    /\ flash = [f \in Flash |-> NoFlash]
    /\ ota = "none"

(***************************************************************************)
(* The pid-file guards: module PidGuard, once for crontab_rom.sh and once  *)
(* for flash.sh.                                                           *)
(***************************************************************************)
guardPhase(pc) == IF pc \in {"none", "check", "write"} THEN pc ELSE "hold"

CG == INSTANCE PidGuard WITH
        Pid <- Cron, pidFile <- cronPid,
        phase <- [c \in Cron |-> guardPhase(sh[c])]
FG == INSTANCE PidGuard WITH
        Pid <- Flash, pidFile <- flashPid,
        phase <- [f \in Flash |-> guardPhase(flash[f].pc)]

(***************************************************************************)
(* What the web interface computes from the files and from ps              *)
(***************************************************************************)
sysLockStatus  == lock # NoLock
getUpgradeStatus == IF lock = NoLock THEN 0 ELSE lock
CrontabRunning == \E c \in Cron : sh[c] # "none"
FlashRunning   == FG!FlashCheck = 1

getFlashStatus == IF otaFlag THEN 2
                  ELSE IF FlashRunning THEN 1
                  ELSE IF flashPid = NoPid THEN 0 ELSE 3

\* mutation: the lock file alone tells the status
StatusFromFile == IF otaFlag THEN 11 ELSE getUpgradeStatus

checkUpgradeStatus ==
    LET status == getUpgradeStatus
        CustomFlash == \E f \in Flash : flash[f].pc # "none" /\ flash[f].image = "custom"
    IN  IF otaFlag THEN 11
        ELSE IF CrontabRunning THEN (IF status = 0 THEN 1 ELSE status)
        ELSE IF FlashRunning THEN (IF CustomFlash THEN 12 ELSE 5)
        ELSE IF cronPid # NoPid /\ status # 0 THEN status
        ELSE IF getFlashStatus = 3 THEN 10
        ELSE 0

isUpgrading == checkUpgradeStatus \in {1, 2, 3, 4, 5, 12}

-----------------------------------------------------------------------------
(***************************************************************************)
(* Starting a script                                                       *)
(***************************************************************************)
ForkCron == \E c \in Cron :
                /\ sh[c] = "none" /\ lua[c] = "none"
                /\ Overlap \/ \A d \in Cron : ~CG!InGuard(d)
                /\ sh' = [sh EXCEPT ![c] = "check"]

\* by: who waits for its exit status
ForkFlash(i, by) == \E f \in Flash :
                        /\ flash[f].pc = "none"
                        /\ Overlap \/ \A g \in Flash : ~FG!InGuard(g)
                        /\ flash' = [flash EXCEPT ![f] = [NoFlash EXCEPT !.pc = "check", !.image = i, !.by = by]]

WaitsFor(by, f) == flash[f].pc # "none" /\ flash[f].by = by
Unlink(i)       == image' = [image EXCEPT ![i] = "none"]
touch           == IF lock = NoLock THEN 0 ELSE lock   \* keeps what the file holds

(***************************************************************************)
(* HTTP requests.  A request arrives behind the system-lock test of the    *)
(* dispatcher: while an upgrade runs it is refused; a stale lock is about  *)
(* to be removed.  cancel is exempt (flag 0x04 of its entry).              *)
(***************************************************************************)
Goto(w, pc) == web' = [web EXCEPT ![w].pc = pc]
Answer(w)   == web' = [web EXCEPT ![w] = IdleWeb]

First == [upgrade |-> "decide", flash |-> "status", upload |-> "store",
          cancel |-> "pid", other |-> "idle"]

Arrive(w, kind, i) ==
    LET locked == sysLockStatus /\ kind # "cancel"
    IN  /\ i = "custom" => kind \in {"flash", "upload"}
        /\ kind = "upload" => i = "custom"
        /\ system = "up" /\ web[w].pc = "idle"
        /\ ~(locked /\ isUpgrading)
        /\ kind = "other" => locked
        /\ kind = "cancel" => ~FlashRunning         \* else cancelUpgrade returns false
        /\ web' = [web EXCEPT ![w].kind = kind, ![w].image = i,
                              ![w].pc = IF locked THEN "unlock" ELSE First[kind]]
        /\ UNCHANGED <<files, system, sh, lua, flash, ota>>

\* sysUnlock, then on to the handler
GateUnlock(w) ==
    /\ web[w].pc = "unlock"
    /\ lock' = NoLock
    /\ IF web[w].kind = "other" THEN Answer(w) ELSE Goto(w, First[web[w].kind])
    /\ UNCHANGED <<cronPid, flashPid, otaFlag, image, system, sh, lua, flash, ota>>

\* upgradeRom
UpgradeDecide(w) ==
    /\ web[w].pc = "decide"
    /\ IF otaFlag \/ isUpgrading THEN Answer(w) ELSE Goto(w, "lock")
    /\ UNCHANGED <<files, system, sh, lua, flash, ota>>

\* flashRom: an error on any path removes the image file
FlashStatus(w) ==
    /\ web[w].pc = "status"
    /\ Goto(w, IF getFlashStatus \in {1, 2} \/ image[web[w].image] = "none"
               THEN "remove" ELSE "verify")
    /\ UNCHANGED <<files, system, sh, lua, flash, ota>>

FlashVerify(w) ==
    /\ web[w].pc = "verify"
    /\ Goto(w, IF image[web[w].image] = "good" THEN "lock" ELSE "remove")
    /\ UNCHANGED <<files, system, sh, lua, flash, ota>>

FlashRemove(w) ==
    /\ web[w].pc = "remove"
    /\ Unlink(web[w].image)
    /\ Answer(w)
    /\ UNCHANGED <<lock, cronPid, flashPid, otaFlag, system, sh, lua, flash, ota>>

\* the end of upgradeRom and of flashRom: sysLock, then forkExec
WebLock(w) ==
    /\ web[w].pc = "lock"
    /\ lock' = touch
    /\ Goto(w, "fork")
    /\ UNCHANGED <<cronPid, flashPid, otaFlag, image, system, sh, lua, flash, ota>>

WebFork(w) ==
    /\ web[w].pc = "fork"
    /\ IF web[w].kind = "upgrade"
       THEN ForkCron /\ UNCHANGED flash
       ELSE ForkFlash(web[w].image, NoPid) /\ UNCHANGED sh
    /\ Answer(w)
    /\ UNCHANGED <<files, system, lua, ota>>

\* uploadRom replaces customrom.bin, or leaves it when nothing arrived ...
UploadStore(w) ==
    /\ web[w].pc = "store"
    /\ \/ /\ \E c \in {"good", "bad"} : image' = [image EXCEPT !["custom"] = c]
          /\ Goto(w, "check")
       \/ Goto(w, "check") /\ UNCHANGED image
       \/ Goto(w, "remove") /\ UNCHANGED image     \* no space
    /\ UNCHANGED <<lock, cronPid, flashPid, otaFlag, system, sh, lua, flash, ota>>

\* ... and verifies what is there then
UploadVerify(w) ==
    /\ web[w].pc = "check"
    /\ IF image["custom"] = "good" THEN Answer(w) ELSE Goto(w, "remove")
    /\ UNCHANGED <<files, system, sh, lua, flash, ota>>

(***************************************************************************)
(* cancelUpgrade, after its look at flash_check: read the pid file, look   *)
(* for checkupgrade.lua in ps, kill the one, kill the other, drop the      *)
(* download, sysUnlock.                                                    *)
(***************************************************************************)
CancelPid(w) ==
    /\ web[w].pc = "pid"
    /\ IF cronPid = NoPid THEN Answer(w)
       ELSE web' = [web EXCEPT ![w].pid = cronPid, ![w].pc = "lua"]
    /\ UNCHANGED <<files, system, sh, lua, flash, ota>>

CancelLua(w) ==
    LET running == {c \in Cron : lua[c] # "none"}
    IN  /\ web[w].pc = "lua"
        /\ \E c \in IF running = {} THEN {NoPid} ELSE running :
               web' = [web EXCEPT ![w].lua = c, ![w].pc = "kill"]
        /\ UNCHANGED <<files, system, sh, lua, flash, ota>>

CancelKill(w) ==
    /\ web[w].pc = "kill"
    /\ sh' = [sh EXCEPT ![web[w].pid] = "none"]
    /\ Goto(w, "killlua")
    /\ UNCHANGED <<files, system, lua, flash, ota>>

\* whoever waited for the flash.sh of a killed lua is gone
CancelKillLua(w) ==
    /\ web[w].pc = "killlua"
    /\ lua' = [c \in Cron |-> IF c = web[w].lua THEN "none" ELSE lua[c]]
    /\ flash' = [f \in Flash |-> IF flash[f].by = web[w].lua
                                 THEN [flash[f] EXCEPT !.by = NoPid] ELSE flash[f]]
    /\ Goto(w, "abort")
    /\ UNCHANGED <<files, system, sh, ota>>

\* cancelDownload: wget's file is removed, a download of xunlei is elsewhere
CancelAbort(w) ==
    /\ web[w].pc = "abort"
    /\ Unlink("rom") \/ UNCHANGED image
    /\ Goto(w, "release")
    /\ UNCHANGED <<lock, cronPid, flashPid, otaFlag, system, sh, lua, flash, ota>>

\* mutation: the lock file stays
ReleaseNothing(w) == web[w].pc = "release" /\ Answer(w) /\ UNCHANGED <<files, system, sh, lua, flash, ota>>

CancelRelease(w) ==
    /\ web[w].pc = "release"
    /\ lock' = NoLock
    /\ Answer(w)
    /\ UNCHANGED <<cronPid, flashPid, otaFlag, image, system, sh, lua, flash, ota>>

Request(w) == \/ GateUnlock(w) \/ UpgradeDecide(w)
              \/ FlashStatus(w) \/ FlashVerify(w) \/ FlashRemove(w)
              \/ WebLock(w) \/ WebFork(w)
              \/ UploadStore(w) \/ UploadVerify(w)
              \/ CancelPid(w) \/ CancelLua(w) \/ CancelKill(w)
              \/ CancelKillLua(w) \/ CancelAbort(w) \/ CancelRelease(w)

(***************************************************************************)
(* crontab_rom.sh                                                          *)
(***************************************************************************)
ShStep(c, from, to) == sh[c] = from /\ sh' = [sh EXCEPT ![c] = to]

CronRefuse(c) == /\ CG!Alive(cronPid)
                 /\ ShStep(c, "check", "none")
                 /\ UNCHANGED <<files, system, web, lua, flash, ota>>
\* mutation: the result of kill -0 is ignored
CronPassBlindly(c) == ShStep(c, "check", "write") /\ UNCHANGED <<files, system, web, lua, flash, ota>>
\* mutation: the pid goes to the wrong file
CronWriteElsewhere(c) == /\ ShStep(c, "write", "hold") /\ flashPid' = c
                         /\ UNCHANGED <<lock, cronPid, otaFlag, image, system, web, lua, flash, ota>>
CronPass(c)   == /\ ~CG!Alive(cronPid)
                 /\ ShStep(c, "check", "write")
                 /\ UNCHANGED <<files, system, web, lua, flash, ota>>
CronWrite(c)  == /\ ShStep(c, "write", "hold")
                 /\ cronPid' = c
                 /\ UNCHANGED <<lock, flashPid, otaFlag, image,
                                system, web, lua, flash, ota>>
CronLua(c)    == /\ ShStep(c, "hold", "wait")
                 /\ lua' = [lua EXCEPT ![c] = "start"]
                 /\ UNCHANGED <<files, system, web, flash, ota>>
CronEnd(c)    == /\ lua[c] = "none"
                 /\ ShStep(c, "wait", "none")
                 /\ UNCHANGED <<files, system, web, lua, flash, ota>>

CrontabRom(c) == CronRefuse(c) \/ CronPass(c) \/ CronWrite(c) \/ CronLua(c) \/ CronEnd(c)

(***************************************************************************)
(* checkupgrade.lua: every status is written over the lock file            *)
(***************************************************************************)
updateUpgradeStatus(s) == lock' = s

LuaStep(c, from, to) == lua[c] = from /\ lua' = [lua EXCEPT ![c] = to]

LuaStart(c) == /\ LuaStep(c, "start", "ask")
               /\ updateUpgradeStatus(1)
               /\ UNCHANGED <<image, sh, flash>>
LuaAsk(c)   == /\ \/ LuaStep(c, "ask", "url")  /\ updateUpgradeStatus(2)
                  \/ LuaStep(c, "ask", "none") /\ updateUpgradeStatus(6)
               /\ UNCHANGED <<image, sh, flash>>
\* wget's target is removed before the download begins
LuaUrl(c)   == /\ \/ LuaStep(c, "url", "fetch") /\ updateUpgradeStatus(3) /\ Unlink("rom")
                  \/ LuaStep(c, "url", "none")  /\ updateUpgradeStatus(7) /\ UNCHANGED image
               /\ UNCHANGED <<sh, flash>>
\* mutation: a failed download leaves the status alone
FetchQuietly(c) == /\ \/ /\ LuaStep(c, "fetch", "verify")
                         /\ \E i \in {"good", "bad"} : image' = [image EXCEPT !["rom"] = i]
                      \/ LuaStep(c, "fetch", "none") /\ Unlink("rom")
                   /\ UNCHANGED <<lock, sh, flash>>
LuaFetch(c) == /\ \/ /\ LuaStep(c, "fetch", "verify") /\ UNCHANGED lock
                     /\ \E i \in {"good", "bad"} : image' = [image EXCEPT !["rom"] = i]
                  \/ LuaStep(c, "fetch", "none") /\ updateUpgradeStatus(8) /\ Unlink("rom")
               /\ UNCHANGED <<sh, flash>>
\* mutation: the branch for a bad image is missing
VerifyGoodOnly(c) == /\ image["rom"] = "good"
                     /\ LuaStep(c, "verify", "permit") /\ updateUpgradeStatus(5)
                     /\ UNCHANGED <<image, sh, flash>>
LuaVerify(c) == /\ \/ /\ image["rom"] = "good"
                      /\ LuaStep(c, "verify", "permit") /\ updateUpgradeStatus(5) /\ UNCHANGED image
                   \/ /\ image["rom"] # "good"
                      /\ LuaStep(c, "verify", "none") /\ updateUpgradeStatus(9) /\ Unlink("rom")
                /\ UNCHANGED <<sh, flash>>
\* the wait ends with the permission, or without it after TIME_LIMIT seconds
LuaPermit(c) == /\ LuaStep(c, "permit", "flash")
                /\ ForkFlash("rom", c)
                /\ UNCHANGED <<lock, image, sh>>
LuaFailed(c) == /\ \A f \in Flash : ~WaitsFor(c, f)
                /\ LuaStep(c, "flash", "none")
                /\ updateUpgradeStatus(10) /\ Unlink("rom")
                /\ UNCHANGED <<sh, flash>>

CheckUpgrade(c) ==
    /\ \/ LuaStart(c) \/ LuaAsk(c) \/ LuaUrl(c) \/ LuaFetch(c)
       \/ LuaVerify(c) \/ LuaPermit(c) \/ LuaFailed(c)
    /\ UNCHANGED <<cronPid, flashPid, otaFlag, system, web, ota>>

\* a Lua error outside pcall: the interpreter exits where it is
LuaError(c) ==
    /\ LuaCrash /\ lua[c] \in {"ask", "url", "fetch"}
    /\ lua' = [lua EXCEPT ![c] = "none"]
    /\ UNCHANGED <<files, system, web, sh, flash, ota>>

(***************************************************************************)
(* otapredownload, after its guard (cron runs it once an hour)             *)
(***************************************************************************)
OtaStep(from, to) == ota = from /\ ota' = to

\* its pid is new, and in no list
OtaWake    == /\ OtaOn /\ system # "dead" /\ ~sysLockStatus
              /\ OtaStep("none", "fetch") /\ Unlink("rom")
              /\ flash' = [f \in Flash |-> [flash[f] EXCEPT !.list = @ \ {Ota}]]
              /\ UNCHANGED lock
OtaFetch   == /\ \/ /\ OtaStep("fetch", "verify")
                    /\ \E i \in {"good", "bad"} : image' = [image EXCEPT !["rom"] = i]
                 \/ OtaStep("fetch", "none") /\ UNCHANGED image
              /\ UNCHANGED <<lock, flash>>
\* a file that is gone is not verified, and not an error
OtaVerify  == /\ \/ image["rom"] = "bad" /\ OtaStep("verify", "none") /\ Unlink("rom")
                 \/ image["rom"] # "bad" /\ OtaStep("verify", "recheck") /\ UNCHANGED image
              /\ UNCHANGED <<lock, flash>>
OtaRecheck == /\ IF sysLockStatus THEN OtaStep("recheck", "none") ELSE OtaStep("recheck", "lock")
              /\ UNCHANGED <<lock, image, flash>>
OtaLock    == /\ OtaStep("lock", "status")
              /\ lock' = touch
              /\ UNCHANGED <<image, flash>>
OtaStatus  == /\ OtaStep("status", "fork")
              /\ updateUpgradeStatus(5)
              /\ UNCHANGED <<image, flash>>
\* in the background ("cmdpending") the exit status is always 0
OtaFork    == /\ \/ ~OtaBackground /\ OtaStep("fork", "flash") /\ ForkFlash("rom", "ota")
                 \/ OtaBackground  /\ OtaStep("fork", "ok")    /\ ForkFlash("rom", NoPid)
              /\ UNCHANGED <<lock, image>>
OtaOk      == /\ OtaStep("ok", "none")
              /\ updateUpgradeStatus(11)
              /\ UNCHANGED <<image, flash>>
\* mutation: a failed flash leaves status 5 behind
OtaFailedQuietly == OtaStep("flash", "none") /\ Unlink("rom") /\ UNCHANGED <<lock, flash>>
OtaFailed  == /\ \A f \in Flash : ~WaitsFor("ota", f)
              /\ OtaStep("flash", "none")
              /\ updateUpgradeStatus(10) /\ Unlink("rom")
              /\ UNCHANGED flash

OtaPredownload ==
    /\ \/ OtaFetch \/ OtaVerify \/ OtaRecheck \/ OtaLock
       \/ OtaStatus \/ OtaFork \/ OtaOk \/ OtaFailed
    /\ UNCHANGED <<cronPid, flashPid, otaFlag, system, web, sh, lua>>

CronJob == OtaWake /\ UNCHANGED <<cronPid, flashPid, otaFlag, system, web, sh, lua>>

(***************************************************************************)
(* flash.sh                                                                *)
(***************************************************************************)
FlashStep(f, from, to) == flash[f].pc = from /\ flash' = [flash EXCEPT ![f].pc = to]
FlashEnd(f, from)      == flash[f].pc = from /\ flash' = [flash EXCEPT ![f] = NoFlash]

others == <<web, sh, lua, ota>>

FlashRefuse(f) == /\ FG!Alive(flashPid)
                  /\ FlashEnd(f, "check")
                  /\ UNCHANGED <<files, system, others>>
\* mutation: the result of kill -0 is ignored
FlashPassBlindly(f) == FlashStep(f, "check", "write") /\ UNCHANGED <<files, system, others>>
FlashPass(f)   == /\ ~FG!Alive(flashPid)
                  /\ FlashStep(f, "check", "write")
                  /\ UNCHANGED <<files, system, others>>
FlashWrite(f)  == /\ FlashStep(f, "write", "verify")
                  /\ flashPid' = f
                  /\ UNCHANGED <<lock, cronPid, otaFlag, image, system, others>>
\* an image that fails mkxqimage -v is removed
FlashCheckImage(f) ==
    /\ \/ image[flash[f].image] = "good" /\ FlashStep(f, "verify", "stop") /\ UNCHANGED image
       \/ image[flash[f].image] # "good" /\ FlashEnd(f, "verify") /\ Unlink(flash[f].image)
    /\ UNCHANGED <<lock, cronPid, flashPid, otaFlag, system, others>>
\* sysapihttpd stop: no request survives it
FlashStop(f)   == /\ FlashStep(f, "stop", "list")
                  /\ system' = IF system = "up" THEN "noweb" ELSE system
                  /\ web' = [w \in Web |-> IdleWeb]
                  /\ UNCHANGED <<files, sh, lua, ota>>

\* One ps lists what runs, every flash.sh left out ...
Running == {<<"sh", c>> : c \in {d \in Cron : sh[d] # "none"}}
           \cup {<<"lua", c>> : c \in {d \in Cron : lua[d] # "none"}}
           \cup (IF ota # "none" THEN {Ota} ELSE {})
           \cup (IF system # "dead" THEN {Rest} ELSE {})

\* mutation: the list holds the scripts only
ListScripts(f) == /\ flash[f].pc = "list"
                  /\ flash' = [flash EXCEPT ![f].pc = "kill", ![f].list = Running \ {Rest}]
                  /\ UNCHANGED <<files, system, others>>
FlashList(f)   == /\ flash[f].pc = "list"
                  /\ flash' = [flash EXCEPT ![f].pc = "kill", ![f].list = Running]
                  /\ UNCHANGED <<files, system, others>>

\* ... and they are killed one after the other, in the order of their pids: any.
\* Those killed later go on meanwhile, and what they start is not in the list.
\* crond and boot_check are gone when both are: one killed before the other is
\* one that happens to do nothing more.
FlashKill(f, p) ==
    /\ flash[f].pc = "kill" /\ p \in flash[f].list \cap Running
    /\ sh' = [c \in Cron |-> IF p = <<"sh", c>> THEN "none" ELSE sh[c]]
    /\ lua' = [c \in Cron |-> IF p = <<"lua", c>> THEN "none" ELSE lua[c]]
    /\ ota' = IF p = Ota THEN "none" ELSE ota
    /\ system' = IF p = Rest THEN "dead" ELSE system
    /\ flash' = [g \in Flash |->
                    IF p \in {<<"lua", flash[g].by>>, <<flash[g].by>>}
                    THEN [flash[g] EXCEPT !.by = NoPid] ELSE flash[g]]
    /\ UNCHANGED <<files, web>>

FlashKilled(f) == /\ flash[f].pc = "kill" /\ flash[f].list \cap Running = {}
                  /\ flash' = [flash EXCEPT ![f].pc = "commit", ![f].list = {}]
                  /\ UNCHANGED <<files, system, others>>
FlashCommit(f) == /\ FlashStep(f, "commit", "burn")
                  /\ otaFlag' = TRUE
                  /\ UNCHANGED <<lock, cronPid, flashPid, image, system, others>>
BurnFailed(f)  == /\ FlashEnd(f, "burn")
                  /\ Unlink(flash[f].image)
                  /\ UNCHANGED <<lock, cronPid, flashPid, otaFlag, system, others>>

FlashSh(f) == \/ FlashRefuse(f) \/ FlashPass(f) \/ FlashWrite(f) \/ FlashCheckImage(f)
              \/ FlashStop(f) \/ FlashList(f) \/ (\E p \in Program : FlashKill(f, p))
              \/ FlashKilled(f) \/ FlashCommit(f) \/ BurnFailed(f)

(***************************************************************************)
(* Restarts.  /tmp and every process are lost; nvram stays.                *)
(***************************************************************************)
Boot == /\ lock' = NoLock /\ cronPid' = NoPid /\ flashPid' = NoPid
        /\ image' = [i \in Image |-> "none"]
        /\ system' = "up"
        /\ web' = [w \in Web |-> IdleWeb]
        /\ sh' = [c \in Cron |-> "none"]
        /\ lua' = [c \in Cron |-> "none"]
        /\ flash' = [f \in Flash |-> NoFlash]
        /\ ota' = "none"
        /\ UNCHANGED otaFlag

Burnt(f)   == flash[f].pc = "burn" /\ image[flash[f].image] = "good" /\ Boot
PowerCycle == Boot

\* boot_check, some time after the system is up
BootCheck  == /\ otaFlag /\ system # "dead"
              /\ otaFlag' = FALSE
              /\ UNCHANGED <<lock, cronPid, flashPid, image, procs>>

Next == \/ \E w \in Web : \/ \E kind \in Kinds, i \in Image : Arrive(w, kind, i)
                          \/ Request(w)
        \/ \E c \in Cron : CrontabRom(c) \/ CheckUpgrade(c) \/ LuaError(c)
        \/ CronJob \/ OtaPredownload
        \/ \E f \in Flash : FlashSh(f) \/ Burnt(f)
        \/ PowerCycle \/ BootCheck

Spec == Init /\ [][Next]_vars

\* Every running program goes on.  Users, cron, power and errors need not.
Fairness == /\ \A w \in Web : WF_vars(Request(w))
            /\ \A c \in Cron : WF_vars(CrontabRom(c)) /\ WF_vars(CheckUpgrade(c))
            /\ WF_vars(OtaPredownload)
            /\ \A f \in Flash : WF_vars(FlashSh(f) \/ Burnt(f))

FairSpec == Spec /\ Fairness

-----------------------------------------------------------------------------
(***************************************************************************)
(* Properties                                                              *)
(***************************************************************************)

\* Whatever starts flash.sh, at most one goes past its guard, and flash_check
\* names it: the flash partition has one writer.
FlashGuard == FG!Spec
OneFlash   == FG!AtMostOneHolder

\* Step by step crontab_rom.sh and its pid file do what PidGuard does; OneUpgrade
\* is what that is good for.
CronGuard == CG!Spec

\* Requests that decide to upgrade at the same moment, before any of them has
\* taken the lock, start one checkupgrade.lua, as long as the system is up, no
\* cancel kills the script in front of it and no two scripts are between the test
\* and the write of the pid file at once.
OneUpgrade == system = "up" => \A c, d \in Cron : lua[c] # "none" /\ lua[d] # "none" => c = d

\* While checkupgrade.lua works the web interface says so, as long as there is one
\* to ask: no stale status, removed lock or second request hides it.
UpgradeVisible == system = "up" /\ (\E c \in Cron : lua[c] \notin {"none", "start"}) /\ ~otaFlag
                      => isUpgrading

\* Status 3 is shown only while something downloads.
DownloadingIsTrue == system = "up" /\ checkUpgradeStatus = 3 =>
                         \E c \in Cron : lua[c] \in {"fetch", "verify"}

\* The kill of flash.sh cannot be overtaken: from the commit of the nvram flags on
\* no request, script or cron job starts, whatever was under way and whatever was
\* forked while the list was worked off, and the boot_check of an earlier upgrade
\* no longer clears the flag.  (Only a flash.sh may, which the guard is for.)
Committed     == \E f \in Flash : flash[f].pc \in {"commit", "burn"}
NothingStarts == [][Committed /\ Committed' =>
                        /\ Running' \subseteq Running
                        /\ \A w \in Web : web[w].pc = "idle" => web'[w].pc = "idle"
                        /\ otaFlag => otaFlag']_vars

\* After the kill the process tree is init, sh and flash.sh: no other program of
\* the upgrade is left.
BurnsAlone == Committed => Running = {} /\ \A w \in Web : web[w].pc = "idle"

\* cancelUpgrade reports success only if no flash.sh was started meanwhile.
CancelMeansNoFlash == \A w \in Web : web[w].pc = "release" =>
                          \A f \in Flash : flash[f].pc = "none"

\* Every checkupgrade.lua comes to an end.
UpgradeEnds == \A c \in Cron : lua[c] # "none" ~> lua[c] = "none"

\* Users are not locked out for ever, unless a checkupgrade.lua that died left
\* its status behind ...
LockedOut    == sysLockStatus /\ isUpgrading
Orphaned     == lock \in {1, 2, 3} /\ \A c \in Cron : lua[c] = "none"
NotLockedOut == LockedOut ~> ~LockedOut \/ Orphaned

\* ... and then a cancel that found the pid file gives the router back.
CancelUnlocks == \A w \in Web : web[w].pc = "lua" ~> ~LockedOut
=============================================================================
