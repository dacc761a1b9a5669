-------------------------- MODULE RomUpgradeProofs --------------------------
(***************************************************************************)
(* Proofs about RomUpgrade, for any number of requests, scripts and        *)
(* flash.sh processes: its types; that the guards of flash.sh and of       *)
(* crontab_rom.sh are PidGuard's, so that what is proved there holds here; *)
(* and from that what the scripts and the status may rely on.              *)
(***************************************************************************)
EXTENDS RomUpgrade, TLAPS

WebPc == {"idle", "unlock", "decide", "lock", "fork", "status", "verify", "remove",
          "store", "check", "pid", "lua", "kill", "killlua", "abort", "release"}
WebRecord == [pc : WebPc, kind : Kinds \cup {"other"}, image : Image,
              pid : Cron \cup {NoPid}, lua : Cron \cup {NoPid}]
WebTyped  == web \in [Web -> WebRecord]
ShTyped   == sh \in [Cron -> {"none", "check", "write", "hold", "wait"}]
LuaTyped  == lua \in [Cron -> {"none", "start", "ask", "url", "fetch", "verify", "permit", "flash"}]
FlashPc   == {"none", "check", "write", "verify", "stop", "list", "kill", "commit", "burn"}
FlashRecord == [pc : FlashPc, image : Image, by : Cron \cup {"ota", NoPid}, list : SUBSET Program]
FlashTyped == flash \in [Flash -> FlashRecord]
FilesTyped == /\ lock \in Status \cup {NoLock}
              /\ cronPid \in Cron \cup {NoPid}
              /\ flashPid \in Flash \cup {NoPid}
              /\ otaFlag \in BOOLEAN
              /\ image \in [Image -> Content]
SystemTyped == /\ system \in {"up", "noweb", "dead"}
               /\ ota \in {"none", "fetch", "verify", "recheck", "lock", "status",
                           "fork", "flash", "ok"}

AllTyped == FilesTyped /\ SystemTyped /\ WebTyped /\ ShTyped /\ LuaTyped /\ FlashTyped

\* TypeOK in parts, each of which a lemma below needs or keeps alone.
LEMMA TypeParts == TypeOK <=> AllTyped
  BY DEF AllTyped, TypeOK, FilesTyped, SystemTyped, WebTyped, ShTyped, LuaTyped, FlashTyped,
         WebRecord, WebPc, FlashRecord, FlashPc

\* The same of the next state.
LEMMA TypePartsNext == AllTyped' => TypeOK'
  BY TypeParts, PTL

\* A handler that goes on.
LEMMA GotoTyped == ASSUME WebTyped, NEW w \in Web, NEW pc \in WebPc, Goto(w, pc)
                   PROVE  WebTyped'
  BY DEF WebTyped, Goto, WebRecord

\* A handler that answers.
LEMMA AnswerTyped == ASSUME WebTyped, NEW w \in Web, Answer(w) PROVE WebTyped'
  BY DEF WebTyped, Answer, IdleWeb, WebRecord, WebPc, Image

\* crontab_rom.sh is started.
LEMMA ForkCronTyped == ASSUME ShTyped, ForkCron PROVE ShTyped'
  BY DEF ShTyped, ForkCron

\* flash.sh is started, with an image and for whom.
LEMMA ForkFlashTyped == ASSUME FlashTyped, NEW i \in Image, NEW by \in Cron \cup {"ota", NoPid},
                               ForkFlash(i, by)
                        PROVE  FlashTyped'
<1>1. [NoFlash EXCEPT !.pc = "check", !.image = i, !.by = by] \in FlashRecord
  BY DEF FlashRecord, FlashPc, NoFlash
<1> QED
  BY <1>1 DEF FlashTyped, ForkFlash

\* What ps lists are programs.
LEMMA RunningTyped == Running \subseteq Program
  BY DEF Running, Program

\* An image is removed.
LEMMA UnlinkTyped == ASSUME FilesTyped, NEW i \in Image, Unlink(i) PROVE image' \in [Image -> Content]
  BY DEF FilesTyped, Unlink, Content

\* Every step of a request keeps the types.
LEMMA RequestTypes == ASSUME TypeOK, NEW w \in Web, Request(w) PROVE TypeOK'
<1>0. FilesTyped /\ SystemTyped /\ WebTyped /\ ShTyped /\ LuaTyped /\ FlashTyped
  BY TypeParts DEF AllTyped
<1>w. web[w] \in WebRecord /\ Image = {"rom", "custom"}
  BY <1>0 DEF WebTyped, Image
<1>s. /\ UNCHANGED sh => ShTyped'
      /\ UNCHANGED lua => LuaTyped'
      /\ UNCHANGED flash => FlashTyped'
      /\ UNCHANGED <<system, ota>> => SystemTyped'
      /\ UNCHANGED files => FilesTyped'
  BY <1>0 DEF ShTyped, LuaTyped, FlashTyped, SystemTyped, FilesTyped, files
<1>1. ASSUME GateUnlock(w) PROVE TypeOK'
  <2>1. FilesTyped'
    BY <1>0, <1>1 DEF GateUnlock, FilesTyped
  <2>2. WebTyped'
    <3>1. \A k \in {"upgrade", "flash", "upload", "cancel", "other"} : First[k] \in WebPc
      BY DEF First, WebPc
    <3>2. web[w].kind \in {"upgrade", "flash", "upload", "cancel", "other"}
      BY <1>w, KindsAssumption DEF WebRecord
    <3> QED
      BY <3>1, <3>2, <1>0, <1>1, GotoTyped, AnswerTyped DEF GateUnlock
  <2> QED
    BY <2>1, <2>2, <1>s, TypePartsNext, <1>1 DEF AllTyped, GateUnlock
<1>2. ASSUME \/ UpgradeDecide(w) \/ FlashStatus(w) \/ FlashVerify(w) \/ UploadVerify(w)
             \/ CancelPid(w) \/ CancelLua(w)
      PROVE  TypeOK'
  <2>1. WebTyped'
    <3>1. CASE UpgradeDecide(w) \/ FlashStatus(w) \/ FlashVerify(w) \/ UploadVerify(w)
      BY <3>1, <1>0, GotoTyped, AnswerTyped DEF UpgradeDecide, FlashStatus, FlashVerify, UploadVerify,
         WebPc
    <3>2. CASE CancelPid(w)
      BY <3>2, <1>0, AnswerTyped DEF CancelPid, FilesTyped, WebTyped, WebRecord, WebPc
    <3>3. CASE CancelLua(w)
      BY <3>3, <1>0 DEF CancelLua, WebTyped, WebRecord, WebPc
    <3> QED
      BY <3>1, <3>2, <3>3, <1>2
  <2> QED
    BY <2>1, <1>s, TypePartsNext, <1>2 DEF AllTyped, UpgradeDecide, FlashStatus, FlashVerify,
       UploadVerify, CancelPid, CancelLua, files
<1>3. ASSUME FlashRemove(w) \/ UploadStore(w) \/ CancelAbort(w) PROVE TypeOK'
  <2>1. WebTyped'
    BY <1>3, <1>0, GotoTyped, AnswerTyped DEF FlashRemove, UploadStore, CancelAbort, WebPc
  <2>2. image' \in [Image -> Content]
    BY <1>3, <1>0, <1>w, UnlinkTyped DEF FlashRemove, UploadStore, CancelAbort, FilesTyped, Content,
       WebRecord
  <2> QED
    BY <2>1, <2>2, <1>0, <1>s, TypePartsNext, <1>3 DEF AllTyped, FlashRemove, UploadStore, CancelAbort,
       FilesTyped
<1>4. ASSUME WebLock(w) \/ CancelRelease(w) PROVE TypeOK'
  <2>1. WebTyped'
    BY <1>4, <1>0, GotoTyped, AnswerTyped DEF WebLock, CancelRelease, WebPc
  <2>2. FilesTyped'
    BY <1>4, <1>0 DEF WebLock, CancelRelease, touch, FilesTyped, Status, NoLock
  <2> QED
    BY <2>1, <2>2, <1>s, TypePartsNext, <1>4 DEF AllTyped, WebLock, CancelRelease
<1>5. ASSUME WebFork(w) PROVE TypeOK'
  <2>1. WebTyped'
    BY <1>5, <1>0, AnswerTyped DEF WebFork
  <2>2. ShTyped' /\ FlashTyped'
    BY <1>5, <1>0, <1>s, <1>w, ForkCronTyped, ForkFlashTyped DEF WebFork, WebRecord
  <2> QED
    BY <2>1, <2>2, <1>s, TypePartsNext, <1>5 DEF AllTyped, WebFork, files
<1>6. ASSUME CancelKill(w) \/ CancelKillLua(w) PROVE TypeOK'
  <2>1. WebTyped'
    BY <1>6, <1>0, GotoTyped DEF CancelKill, CancelKillLua, WebPc
  <2>2. ShTyped'
    BY <1>6, <1>0 DEF CancelKill, CancelKillLua, ShTyped
  <2>3. LuaTyped'
    BY <1>6, <1>0, <1>s DEF CancelKill, CancelKillLua, LuaTyped
  <2>4. FlashTyped'
    BY <1>6, <1>0, <1>s DEF CancelKill, CancelKillLua, FlashTyped, FlashRecord
  <2> QED
    BY <2>1, <2>2, <2>3, <2>4, <1>s, TypePartsNext, <1>6 DEF AllTyped, CancelKill, CancelKillLua, files
<1> QED
  BY <1>1, <1>2, <1>3, <1>4, <1>5, <1>6 DEF Request

\* A request that arrives.
LEMMA ArriveTypes == ASSUME TypeOK, NEW w \in Web, NEW kind \in Kinds, NEW i \in Image,
                            Arrive(w, kind, i)
                     PROVE  TypeOK'
<1>1. \A k \in {"upgrade", "flash", "upload", "cancel", "other"} : First[k] \in WebPc
  BY DEF First, WebPc
<1>2. PICK pc \in WebPc :
          web' = [web EXCEPT ![w].kind = kind, ![w].image = i, ![w].pc = pc]
  BY <1>1, KindsAssumption DEF Arrive, WebPc
<1>3. WebTyped'
  <2>1. WebTyped
    BY TypeParts DEF AllTyped
  <2>2. [web[w] EXCEPT !.kind = kind, !.image = i, !.pc = pc] \in WebRecord
    BY <2>1 DEF WebTyped, WebRecord
  <2> QED
    BY <1>2, <2>1, <2>2 DEF WebTyped
<1> QED
  BY <1>3 DEF Arrive, TypeOK, files, WebTyped, WebRecord, WebPc

\* So does every step of crontab_rom.sh and checkupgrade.lua, a lua error included.
LEMMA CronTypes == ASSUME TypeOK, NEW c \in Cron,
                          CrontabRom(c) \/ CheckUpgrade(c) \/ LuaError(c)
                   PROVE  TypeOK'
<1>0. FilesTyped /\ SystemTyped /\ WebTyped /\ ShTyped /\ LuaTyped /\ FlashTyped
  BY TypeParts DEF AllTyped
<1>s. /\ UNCHANGED sh => ShTyped'
      /\ UNCHANGED lua => LuaTyped'
      /\ UNCHANGED flash => FlashTyped'
      /\ UNCHANGED web => WebTyped'
      /\ UNCHANGED <<system, ota>> => SystemTyped'
      /\ UNCHANGED files => FilesTyped'
  BY <1>0 DEF ShTyped, LuaTyped, FlashTyped, SystemTyped, FilesTyped, WebTyped, files
<1>1. ASSUME CrontabRom(c) PROVE TypeOK'
  <2>1. ShTyped'
    BY <1>1, <1>0 DEF CrontabRom, CronRefuse, CronPass, CronWrite, CronLua, CronEnd, ShStep, ShTyped
  <2>2. LuaTyped'
    BY <1>1, <1>0, <1>s DEF CrontabRom, CronRefuse, CronPass, CronWrite, CronLua, CronEnd, LuaTyped
  <2>3. FilesTyped'
    BY <1>1, <1>0, <1>s DEF CrontabRom, CronRefuse, CronPass, CronWrite, CronLua, CronEnd, FilesTyped
  <2> QED
    BY <2>1, <2>2, <2>3, <1>s, TypePartsNext, <1>1
       DEF AllTyped, CrontabRom, CronRefuse, CronPass, CronWrite, CronLua, CronEnd
<1>2. ASSUME LuaError(c) PROVE TypeOK'
  <2>1. LuaTyped'
    BY <1>2, <1>0 DEF LuaError, LuaTyped
  <2> QED
    BY <2>1, <1>s, TypePartsNext, <1>2 DEF AllTyped, LuaError
<1>3. ASSUME CheckUpgrade(c) PROVE TypeOK'
  <2> USE DEF CheckUpgrade, LuaStart, LuaAsk, LuaUrl, LuaFetch, LuaVerify, LuaPermit, LuaFailed
  <2>1. LuaTyped'
    BY <1>3, <1>0 DEF LuaStep, LuaTyped
  <2>2. lock' \in Status \cup {NoLock}
    BY <1>3, <1>0 DEF updateUpgradeStatus, FilesTyped, Status
  <2>3. image' \in [Image -> Content]
    <3>1. \A i \in {"good", "bad"} : [image EXCEPT !["rom"] = i] \in [Image -> Content]
      BY <1>0 DEF FilesTyped, Content
    <3>2. Unlink("rom") => image' \in [Image -> Content]
      BY <1>0, UnlinkTyped DEF Image
    <3> QED
      BY <3>1, <3>2, <1>3, <1>0 DEF FilesTyped
  <2>4. FlashTyped'
    BY <1>3, <1>0, <1>s, ForkFlashTyped DEF Image
  <2>5. FilesTyped'
    BY <2>2, <2>3, <1>3, <1>0 DEF FilesTyped
  <2>6. UNCHANGED <<system, web, ota, sh>>
    BY <1>3
  <2> QED
    BY <2>1, <2>4, <2>5, <2>6, <1>s, TypePartsNext DEF AllTyped
<1> QED
  BY <1>1, <1>2, <1>3

\* So does otapredownload.lua, from the cron line to its end.
LEMMA OtaTypes == ASSUME TypeOK, CronJob \/ OtaPredownload PROVE TypeOK'
<1> USE DEF CronJob, OtaPredownload, OtaWake, OtaFetch, OtaVerify, OtaRecheck, OtaLock,
            OtaStatus, OtaFork, OtaOk, OtaFailed
<1>0. FilesTyped /\ SystemTyped /\ WebTyped /\ ShTyped /\ LuaTyped /\ FlashTyped
  BY TypeParts DEF AllTyped
<1>1. lock' \in Status \cup {NoLock}
  BY <1>0 DEF updateUpgradeStatus, touch, FilesTyped, Status
<1>2. image' \in [Image -> Content]
  <2>1. \A i \in {"good", "bad"} : [image EXCEPT !["rom"] = i] \in [Image -> Content]
    BY <1>0 DEF FilesTyped, Content
  <2>2. Unlink("rom") => image' \in [Image -> Content]
    BY <1>0, UnlinkTyped DEF Image
  <2> QED
    BY <2>1, <2>2, <1>0 DEF FilesTyped
<1>3. FlashTyped'
  <2>1. CASE UNCHANGED flash \/ OtaFork
    BY <2>1, <1>0, ForkFlashTyped DEF Image, FlashTyped
  <2>2. CASE flash' = [f \in Flash |-> [flash[f] EXCEPT !.list = @ \ {Ota}]]
    BY ONLY <2>2, <1>0 DEF FlashTyped, FlashRecord
  <2> QED
    BY <2>1, <2>2
<1>4. SystemTyped'
  BY <1>0 DEF SystemTyped, OtaStep
<1>5. FilesTyped'
  BY <1>1, <1>2, <1>0 DEF FilesTyped
<1>6. UNCHANGED <<web, sh, lua>>
  OBVIOUS
<1>7. WebTyped' /\ ShTyped' /\ LuaTyped'
  BY <1>6, <1>0 DEF WebTyped, ShTyped, LuaTyped
<1> QED
  BY <1>3, <1>4, <1>5, <1>7, TypePartsNext DEF AllTyped

\* So does every step of flash.sh.
LEMMA FlashTypes == ASSUME TypeOK, NEW f \in Flash, FlashSh(f) PROVE TypeOK'
<1>0. FilesTyped /\ SystemTyped /\ WebTyped /\ ShTyped /\ LuaTyped /\ FlashTyped
  BY TypeParts DEF AllTyped
<1>1. FlashTyped'
  <2>1. ASSUME NEW from \in FlashPc, NEW to \in FlashPc, FlashStep(f, from, to) PROVE FlashTyped'
    BY <1>0, <2>1 DEF FlashStep, FlashTyped, FlashRecord
  <2>2. ASSUME NEW from \in FlashPc, FlashEnd(f, from) PROVE FlashTyped'
    <3>1. NoFlash \in FlashRecord
      BY DEF FlashRecord, NoFlash, Image, FlashPc
    <3> QED
      BY <3>1, <1>0, <2>2 DEF FlashEnd, FlashTyped
  <2>3. ASSUME NEW p \in Program, FlashKill(f, p) PROVE FlashTyped'
    BY <1>0, <2>3 DEF FlashKill, FlashTyped, FlashRecord
  <2>4. ASSUME FlashList(f) PROVE FlashTyped'
    <3>1. Running \in SUBSET Program /\ "kill" \in FlashPc
      BY RunningTyped DEF FlashPc
    <3>2. [flash[f] EXCEPT !.pc = "kill", !.list = Running] \in FlashRecord
      BY ONLY <3>1, <1>0 DEF FlashTyped, FlashRecord
    <3> QED
      BY <3>2, <1>0, <2>4 DEF FlashList, FlashTyped
  <2>5. ASSUME FlashKilled(f) PROVE FlashTyped'
    <3>1. [flash[f] EXCEPT !.pc = "commit", !.list = {}] \in FlashRecord
      BY ONLY <1>0 DEF FlashTyped, FlashRecord, FlashPc
    <3> QED
      BY <3>1, <1>0, <2>5 DEF FlashKilled, FlashTyped
  <2> QED
    BY <2>1, <2>2, <2>3, <2>4, <2>5 DEF FlashPc, FlashSh, FlashRefuse, FlashPass, FlashWrite,
       FlashCheckImage, FlashStop, FlashCommit, BurnFailed
<1>2. ASSUME FlashStop(f) PROVE WebTyped'
  <2>1. IdleWeb \in WebRecord
    BY DEF WebRecord, WebPc, IdleWeb, Image
  <2> QED
    BY <2>1, <1>2 DEF FlashStop, WebTyped
<1>3. ASSUME NEW p \in Program, FlashKill(f, p) PROVE ShTyped' /\ LuaTyped'
  BY <1>0, <1>3 DEF FlashKill, ShTyped, LuaTyped
<1> USE DEF FlashSh, FlashRefuse, FlashPass, FlashWrite, FlashCheckImage, FlashStop, FlashList, FlashKill,
            FlashKilled, FlashCommit, BurnFailed
<1>4. FilesTyped'
  <2>1. UNCHANGED image \/ Unlink(flash[f].image)
    BY DEF files
  <2>2. image' \in [Image -> Content]
    BY <2>1, <1>0, UnlinkTyped DEF FilesTyped, FlashTyped, FlashRecord
  <2>3. UNCHANGED lock /\ UNCHANGED cronPid /\ flashPid' \in Flash \cup {NoPid} /\ otaFlag' \in BOOLEAN
    BY <1>0 DEF files, FilesTyped
  <2> QED
    BY <2>2, <2>3, <1>0 DEF FilesTyped
<1>5. SystemTyped'
  BY <1>0 DEF SystemTyped, others
<1>6. /\ FlashStop(f) \/ UNCHANGED web
      /\ (\E p \in Program : FlashKill(f, p)) \/ UNCHANGED <<sh, lua>>
  BY DEF others
<1>7. WebTyped' /\ ShTyped' /\ LuaTyped'
  BY <1>0, <1>2, <1>3, <1>6 DEF WebTyped, ShTyped, LuaTyped
<1> QED
  BY <1>1, <1>4, <1>5, <1>7, TypePartsNext DEF AllTyped

\* So does a restart.
LEMMA BootTypes == Boot /\ TypeOK => TypeOK'
  BY DEF Boot, TypeOK, IdleWeb, NoFlash, Image, Content

\* The types hold at the start.
LEMMA InitTypes == Init => TypeOK
<1> SUFFICES ASSUME Init PROVE TypeOK
  OBVIOUS
<1>1. IdleWeb \in WebRecord /\ NoFlash \in FlashRecord
  BY DEF IdleWeb, WebRecord, WebPc, NoFlash, FlashRecord, FlashPc, Image
<1>2. FilesTyped /\ SystemTyped
  BY DEF Init, FilesTyped, SystemTyped, Content
<1>3. WebTyped /\ ShTyped /\ LuaTyped /\ FlashTyped
  BY <1>1 DEF Init, WebTyped, ShTyped, LuaTyped, FlashTyped
<1> QED
  BY <1>2, <1>3, TypeParts DEF AllTyped

\* No step breaks the types.
LEMMA TypeStep == TypeOK /\ [Next]_vars => TypeOK'
<1>1. TypeOK /\ BootCheck => TypeOK'
  BY DEF BootCheck, TypeOK, procs
<1>2. TypeOK /\ UNCHANGED vars => TypeOK'
  BY DEF vars, files, procs, TypeOK
<1> QED
  BY <1>1, <1>2, ArriveTypes, RequestTypes, CronTypes, OtaTypes, FlashTypes, BootTypes
     DEF Next, Burnt, PowerCycle

\* Every reachable state of RomUpgrade is well typed.
THEOREM TypeCorrect == Spec => []TypeOK
  BY InitTypes, TypeStep, PTL DEF Spec

-----------------------------------------------------------------------------
(***************************************************************************)
(* What a step does to the flash.sh processes and to crontab_rom.sh: most  *)
(* leave their program counters alone, a few start one.                    *)
(***************************************************************************)
FlashKept   == \A f \in Flash : /\ flash'[f].pc = flash[f].pc
                               /\ flash'[f].image = flash[f].image
                               /\ flash[f].list \ {Ota} \subseteq flash'[f].list
FlashForked == \E i \in Image, by \in Cron \cup {"ota", NoPid} : ForkFlash(i, by)

\* No change at all is the simplest case.
LEMMA FlashUnchanged == UNCHANGED flash => FlashKept
  BY DEF FlashKept

\* A step of a request starts a flash.sh, or leaves all of them where they are.
LEMMA RequestOnFlash == ASSUME TypeOK, NEW w \in Web, Request(w)
                        PROVE  (FlashKept \/ FlashForked) /\ UNCHANGED flashPid
<1>0. WebTyped /\ FlashTyped
  BY TypeParts DEF AllTyped
<1>1. ASSUME WebFork(w) PROVE FlashKept \/ FlashForked
  <2>1. CASE UNCHANGED flash
    BY <2>1, FlashUnchanged
  <2>2. CASE ForkFlash(web[w].image, NoPid)
    BY <1>0, <2>2 DEF FlashForked, WebTyped, WebRecord
  <2> QED
    BY <1>1, <2>1, <2>2 DEF WebFork
<1>2. ASSUME CancelKillLua(w) PROVE FlashKept
  BY <1>0, <1>2 DEF CancelKillLua, FlashKept, FlashTyped, FlashRecord
<1>3. UNCHANGED flash \/ WebFork(w) \/ CancelKillLua(w)
  BY DEF Request, GateUnlock, UpgradeDecide, FlashStatus, FlashVerify, FlashRemove,
         WebLock, UploadStore, UploadVerify, CancelPid, CancelLua, CancelKill,
         CancelAbort, CancelRelease
<1>4. UNCHANGED flashPid
  BY DEF Request, GateUnlock, UpgradeDecide, FlashStatus, FlashVerify, FlashRemove,
         WebLock, WebFork, UploadStore, UploadVerify, CancelPid, CancelLua, CancelKill,
         CancelKillLua, CancelAbort, CancelRelease, files
<1> QED
  BY <1>1, <1>2, <1>3, <1>4, FlashUnchanged

\* So does a step of the upgrade scripts ...
LEMMA CronOnFlash == ASSUME TypeOK, NEW c \in Cron,
                            CrontabRom(c) \/ CheckUpgrade(c) \/ LuaError(c)
                     PROVE  (FlashKept \/ FlashForked) /\ UNCHANGED flashPid
<1>1. UNCHANGED flash \/ LuaPermit(c)
  BY DEF CrontabRom, CronRefuse, CronPass, CronWrite, CronLua, CronEnd, CheckUpgrade,
         LuaStart, LuaAsk, LuaUrl, LuaFetch, LuaVerify, LuaFailed, LuaError
<1>2. LuaPermit(c) => FlashForked
  BY DEF LuaPermit, FlashForked, Image
<1>3. UNCHANGED flashPid
  BY DEF CrontabRom, CronRefuse, CronPass, CronWrite, CronLua, CronEnd, CheckUpgrade,
         LuaError, files
<1> QED
  BY <1>1, <1>2, <1>3, FlashUnchanged

\* ... and of otapredownload.
LEMMA OtaOnFlash == ASSUME TypeOK, CronJob \/ OtaPredownload
                    PROVE  (FlashKept \/ FlashForked) /\ UNCHANGED flashPid
<1>0. FlashTyped
  BY TypeParts DEF AllTyped
<1>1. UNCHANGED flash \/ OtaFork \/ FlashKept
  BY <1>0 DEF CronJob, OtaPredownload, OtaWake, OtaFetch, OtaVerify, OtaRecheck, OtaLock,
         OtaStatus, OtaOk, OtaFailed, FlashKept, FlashTyped, FlashRecord
<1>2. OtaFork => FlashForked
  BY DEF OtaFork, FlashForked, Image
<1>3. UNCHANGED flashPid
  BY DEF CronJob, OtaPredownload
<1> QED
  BY <1>1, <1>2, <1>3, FlashUnchanged

\* flash.sh changes by its own steps and by a restart; the rest only starts it.
LEMMA StepOnFlash == ASSUME TypeOK, [Next]_vars
                     PROVE  \/ (FlashKept \/ FlashForked) /\ UNCHANGED flashPid
                            \/ \E f \in Flash : FlashSh(f)
                            \/ Boot
<1>1. ASSUME NEW w \in Web, NEW kind \in Kinds, NEW i \in Image, Arrive(w, kind, i)
      PROVE  FlashKept /\ UNCHANGED flashPid
  BY <1>1, FlashUnchanged DEF Arrive, files
<1>2. BootCheck => FlashKept /\ UNCHANGED flashPid
  BY FlashUnchanged DEF BootCheck, procs
<1>3. UNCHANGED vars => FlashKept /\ UNCHANGED flashPid
  BY FlashUnchanged DEF vars, files, procs
<1> QED
  BY <1>1, <1>2, <1>3, RequestOnFlash, CronOnFlash, OtaOnFlash DEF Next, Burnt, PowerCycle

\* A flash.sh that was started is not yet past its guard.
LEMMA ForkedFlash == ASSUME TypeOK, FlashForked
                     PROVE  \A f \in Flash : flash'[f].pc # "check" => flash'[f] = flash[f]
<1>1. FlashTyped
  BY TypeParts DEF AllTyped
<1> QED
  BY <1>1 DEF FlashForked, ForkFlash, NoFlash, FlashTyped, FlashRecord

\* crontab_rom.sh changes by its own steps, a cancel, the kill of flash.sh and a
\* restart; the rest only starts it.
LEMMA StepOnCron == ASSUME [Next]_vars
                    PROVE  \/ (UNCHANGED sh \/ ForkCron) /\ UNCHANGED cronPid
                           \/ \E c \in Cron : CrontabRom(c)
                           \/ \E w \in Web : CancelKill(w)
                           \/ \E f \in Flash, p \in Program : FlashKill(f, p)
                           \/ Boot
<1>1. ASSUME NEW w \in Web, Request(w)
      PROVE  ((UNCHANGED sh \/ ForkCron) /\ UNCHANGED cronPid) \/ CancelKill(w)
  BY <1>1 DEF Request, GateUnlock, UpgradeDecide, FlashStatus, FlashVerify, FlashRemove,
         WebLock, WebFork, UploadStore, UploadVerify, CancelPid, CancelLua,
         CancelKillLua, CancelAbort, CancelRelease, files
<1>2. ASSUME NEW w \in Web, NEW kind \in Kinds, NEW i \in Image, Arrive(w, kind, i)
      PROVE  UNCHANGED <<sh, cronPid>>
  BY <1>2 DEF Arrive, files
<1>3. ASSUME NEW c \in Cron, CheckUpgrade(c) \/ LuaError(c)
      PROVE  UNCHANGED <<sh, cronPid>>
  BY <1>3 DEF CheckUpgrade, LuaStart, LuaAsk, LuaUrl, LuaFetch, LuaVerify, LuaPermit,
     LuaFailed, LuaError, files
<1>4. CronJob \/ OtaPredownload => UNCHANGED <<sh, cronPid>>
  BY DEF CronJob, OtaPredownload
<1>5. ASSUME NEW f \in Flash, FlashSh(f)
      PROVE  UNCHANGED <<sh, cronPid>> \/ \E p \in Program : FlashKill(f, p)
  BY <1>5 DEF FlashSh, FlashRefuse, FlashPass, FlashWrite, FlashCheckImage, FlashStop, FlashList,
     FlashKilled, FlashCommit, BurnFailed, files, others
<1>6. BootCheck => UNCHANGED <<sh, cronPid>>
  BY DEF BootCheck, procs
<1>7. UNCHANGED vars => UNCHANGED <<sh, cronPid>>
  BY DEF vars, files, procs
<1> QED
  BY <1>1, <1>2, <1>3, <1>4, <1>5, <1>6, <1>7 DEF Next, Burnt, PowerCycle

-----------------------------------------------------------------------------
(***************************************************************************)
(* Both scripts run behind a guard that behaves as PidGuard.               *)
(***************************************************************************)

\* The guard of flash.sh starts as PidGuard does.
LEMMA FlashGuardInit == Init => FG!Init
  BY DEF Init, FG!Init, NoFlash, guardPhase

\* Every step of the upgrade is a step of flash.sh's guard, or leaves it alone.
LEMMA FlashGuardStep == ASSUME TypeOK, [Next]_vars PROVE [FG!Next]_(FG!vars)
<1>0. FlashTyped
  BY TypeParts DEF AllTyped
<1>1. ASSUME FlashKept, UNCHANGED flashPid PROVE UNCHANGED FG!vars
  BY <1>1 DEF FlashKept, FG!vars
<1>2. ASSUME FlashForked, UNCHANGED flashPid PROVE FG!Next
  <2>1. PICK i \in Image, by \in Cron \cup {"ota", NoPid} : ForkFlash(i, by)
    BY <1>2 DEF FlashForked
  <2>2. PICK f \in Flash : /\ flash[f].pc = "none"
                           /\ Overlap \/ \A g \in Flash : ~FG!InGuard(g)
                           /\ flash' = [flash EXCEPT ![f] =
                                           [NoFlash EXCEPT !.pc = "check", !.image = i, !.by = by]]
    BY <2>1 DEF ForkFlash
  <2>3. FG!Start(f)
    BY <1>0, <1>2, <2>2 DEF FG!Start, FG!Become, guardPhase, FlashTyped, NoFlash
  <2> QED
    BY <2>3 DEF FG!Next
<1>3. ASSUME NEW f \in Flash, FlashSh(f) PROVE [FG!Next]_(FG!vars)
  <2>1. ASSUME FlashRefuse(f) PROVE FG!Refuse(f)
    BY <1>0, <2>1 DEF FlashRefuse, FlashEnd, NoFlash, files, FG!Refuse, FG!Become, guardPhase, FlashTyped
  <2>2. ASSUME FlashPass(f) PROVE FG!Pass(f)
    BY <1>0, <2>2 DEF FlashPass, FlashStep, files, FG!Pass, FG!Become, guardPhase, FlashTyped, FlashRecord
  <2>3. ASSUME FlashWrite(f) PROVE FG!Write(f)
    BY <1>0, <2>3 DEF FlashWrite, FlashStep, FG!Write, FG!Become, guardPhase, FlashTyped, FlashRecord
  <2>4. ASSUME NEW from \in {"verify", "burn"}, FlashEnd(f, from), UNCHANGED flashPid PROVE FG!Next
    <3>1. FG!Exit({f})
      BY <1>0, <2>4 DEF FlashEnd, NoFlash, FG!Exit, FG!InGuard, FG!Holding, guardPhase, FlashTyped
    <3> QED
      BY <3>1 DEF FG!Next
  <2>5. ASSUME NEW from \in {"verify", "stop", "commit"}, NEW to \in {"stop", "list", "burn"},
               FlashStep(f, from, to), UNCHANGED flashPid
        PROVE  UNCHANGED FG!vars
    BY <1>0, <2>5 DEF FlashStep, FG!vars, guardPhase, FlashTyped, FlashRecord
  <2>6. ASSUME NEW p \in Program, FlashKill(f, p) PROVE UNCHANGED FG!vars
    BY <1>0, <2>6 DEF FlashKill, files, FG!vars, guardPhase, FlashTyped, FlashRecord
  <2>7. ASSUME FlashList(f) \/ FlashKilled(f) PROVE UNCHANGED FG!vars
    BY <1>0, <2>7 DEF FlashList, FlashKilled, files, FG!vars, guardPhase, FlashTyped, FlashRecord
  <2> QED
    BY <1>3, <2>1, <2>2, <2>3, <2>4, <2>5, <2>6, <2>7
       DEF FlashSh, FlashCheckImage, FlashStop, FlashCommit, BurnFailed, files, FG!Next
<1>4. ASSUME Boot PROVE FG!Reboot
  BY <1>4 DEF Boot, FG!Reboot, NoFlash, guardPhase
<1> QED
  BY <1>1, <1>2, <1>3, <1>4, StepOnFlash DEF FG!Next

\* What starts flash.sh (a request, checkupgrade.lua, otapredownload), and what
\* ends it, keeps to the guard at its head.
THEOREM FlashRefinesGuard == Spec => FlashGuard
<1>1. TypeOK /\ [Next]_vars => [FG!Next]_(FG!vars)
  BY FlashGuardStep
<1> QED
  BY <1>1, FlashGuardInit, TypeCorrect, PTL DEF Spec, FlashGuard, FG!Spec

\* The guard of crontab_rom.sh starts as PidGuard does.
LEMMA CronGuardInit == Init => CG!Init
  BY DEF Init, CG!Init, guardPhase

\* Every step of the upgrade is a step of crontab_rom.sh's guard, or leaves it alone.
LEMMA CronGuardStep == ASSUME TypeOK, [Next]_vars PROVE [CG!Next]_(CG!vars)
<1>0. ShTyped /\ WebTyped
  BY TypeParts DEF AllTyped
<1>1. ASSUME UNCHANGED <<sh, cronPid>> PROVE UNCHANGED CG!vars
  BY <1>1 DEF CG!vars
<1>2. ASSUME ForkCron, UNCHANGED cronPid PROVE CG!Next
  <2>1. PICK c \in Cron : /\ sh[c] = "none"
                          /\ Overlap \/ \A d \in Cron : ~CG!InGuard(d)
                          /\ sh' = [sh EXCEPT ![c] = "check"]
    BY <1>2 DEF ForkCron
  <2>2. CG!Start(c)
    BY <1>0, <1>2, <2>1 DEF CG!Start, CG!Become, guardPhase, ShTyped
  <2> QED
    BY <2>2 DEF CG!Next
<1>3. ASSUME NEW c \in Cron, CrontabRom(c) PROVE [CG!Next]_(CG!vars)
  <2>1. ASSUME CronRefuse(c) PROVE CG!Refuse(c)
    BY <1>0, <2>1 DEF CronRefuse, ShStep, files, CG!Refuse, CG!Become, guardPhase, ShTyped
  <2>2. ASSUME CronPass(c) PROVE CG!Pass(c)
    BY <1>0, <2>2 DEF CronPass, ShStep, files, CG!Pass, CG!Become, guardPhase, ShTyped
  <2>3. ASSUME CronWrite(c) PROVE CG!Write(c)
    BY <1>0, <2>3 DEF CronWrite, ShStep, CG!Write, CG!Become, guardPhase, ShTyped
  <2>4. ASSUME CronLua(c) PROVE UNCHANGED CG!vars
    BY <1>0, <2>4 DEF CronLua, ShStep, files, CG!vars, guardPhase, ShTyped
  <2>5. ASSUME CronEnd(c) PROVE CG!Next
    <3>1. CG!Exit({c})
      BY <1>0, <2>5 DEF CronEnd, ShStep, files, CG!Exit, CG!InGuard, CG!Holding, guardPhase, ShTyped
    <3> QED
      BY <3>1 DEF CG!Next
  <2> QED
    BY <1>3, <2>1, <2>2, <2>3, <2>4, <2>5 DEF CrontabRom, CG!Next
<1>4. ASSUME NEW S \in SUBSET Cron, UNCHANGED cronPid,
             sh' = [c \in Cron |-> IF c \in S THEN "none" ELSE sh[c]]
      PROVE  [CG!Next]_(CG!vars)
  <2> DEFINE T == {c \in S : sh[c] # "none"}
  <2>1. CASE T = {}
    <3>1. sh' = sh
      BY <1>0, <1>4, <2>1 DEF ShTyped
    <3> QED
      BY <3>1, <1>1, <1>4
  <2>2. CASE T # {}
    <3>1. CG!Exit(T)
      BY <1>0, <1>4 DEF CG!Exit, CG!InGuard, CG!Holding, guardPhase, ShTyped
    <3> QED
      BY <3>1, <2>2 DEF CG!Next
  <2> QED
    BY <2>1, <2>2
<1>5. ASSUME NEW w \in Web, CancelKill(w) PROVE [CG!Next]_(CG!vars)
  <2>1. sh' = [c \in Cron |-> IF c \in {web[w].pid} \cap Cron THEN "none" ELSE sh[c]]
    BY <1>0, <1>5 DEF CancelKill, ShTyped
  <2>2. UNCHANGED cronPid
    BY <1>5 DEF CancelKill, files
  <2> QED
    BY <2>1, <2>2, <1>4
<1>6. ASSUME NEW f \in Flash, NEW p \in Program, FlashKill(f, p) PROVE [CG!Next]_(CG!vars)
  <2>1. /\ sh' = [c \in Cron |-> IF c \in {d \in Cron : p = <<"sh", d>>} THEN "none" ELSE sh[c]]
        /\ UNCHANGED cronPid
    BY <1>6 DEF FlashKill, files
  <2> QED
    BY <2>1, <1>4
<1>7. ASSUME Boot PROVE CG!Reboot
  BY <1>7 DEF Boot, CG!Reboot, guardPhase
<1> QED
  BY <1>1, <1>2, <1>3, <1>5, <1>6, <1>7, StepOnCron DEF CG!Next

\* What starts crontab_rom.sh, and whoever kills it, keeps to the guard at its
\* head.
THEOREM CronRefinesGuard == Spec => CronGuard
<1>1. TypeOK /\ [Next]_vars => [CG!Next]_(CG!vars)
  BY CronGuardStep
<1> QED
  BY <1>1, CronGuardInit, TypeCorrect, PTL DEF Spec, CronGuard, CG!Spec

(***************************************************************************)
(* So what is proved of the guard holds of both scripts.                   *)
(***************************************************************************)
FGP == INSTANCE PidGuardProofs WITH
        Pid <- Flash, pidFile <- flashPid,
        phase <- [f \in Flash |-> guardPhase(flash[f].pc)]

\* PidGuard's inductive invariant holds of flash.sh's guard after every step.
LEMMA FlashGuardKept == ASSUME ~Overlap, TypeOK, FGP!IInv, [Next]_vars PROVE FGP!IInv'
<1>1. [FGP!Next]_(FGP!vars)
  BY FlashGuardStep DEF FG!vars, FG!Next, FG!Start, FG!Refuse, FG!Pass, FG!Write, FG!Recycle,
     FG!OtherExit, FG!Exit, FG!Reboot, FG!Become, FG!InGuard, FG!Holding, FG!Alive,
     FGP!vars, FGP!Next, FGP!Start, FGP!Refuse, FGP!Pass, FGP!Write, FGP!Recycle, FGP!OtherExit,
     FGP!Exit, FGP!Reboot, FGP!Become, FGP!InGuard, FGP!Holding, FGP!Alive
<1>2. NoPid \notin Flash /\ Overlap \in BOOLEAN
  BY PidAssumption, BooleanAssumption
<1> QED
  BY <1>1, <1>2, FGP!StepIInv

CGP == INSTANCE PidGuardProofs WITH
        Pid <- Cron, pidFile <- cronPid,
        phase <- [c \in Cron |-> guardPhase(sh[c])]

\* PidGuard's inductive invariant holds of crontab_rom.sh's guard after every step.
LEMMA CronGuardKept == ASSUME ~Overlap, TypeOK, CGP!IInv, [Next]_vars PROVE CGP!IInv'
<1>1. [CGP!Next]_(CGP!vars)
  BY CronGuardStep DEF CG!vars, CG!Next, CG!Start, CG!Refuse, CG!Pass, CG!Write, CG!Recycle,
     CG!OtherExit, CG!Exit, CG!Reboot, CG!Become, CG!InGuard, CG!Holding, CG!Alive,
     CGP!vars, CGP!Next, CGP!Start, CGP!Refuse, CGP!Pass, CGP!Write, CGP!Recycle, CGP!OtherExit,
     CGP!Exit, CGP!Reboot, CGP!Become, CGP!InGuard, CGP!Holding, CGP!Alive
<1>2. NoPid \notin Cron /\ Overlap \in BOOLEAN
  BY PidAssumption, BooleanAssumption
<1> QED
  BY <1>1, <1>2, CGP!StepIInv

\* PidGuard's inductive invariant holds of both guards at the start.
LEMMA GuardsInit == Init => FGP!IInv /\ CGP!IInv
<1>1. NoPid \notin Cron /\ NoPid \notin Flash /\ Overlap \in BOOLEAN
  BY PidAssumption, BooleanAssumption
<1>2. Init => FGP!Init
  BY FlashGuardInit DEF FG!Init, FGP!Init
<1>3. Init => CGP!Init
  BY CronGuardInit DEF CG!Init, CGP!Init
<1> QED
  BY <1>1, <1>2, <1>3, FGP!InitIInv, CGP!InitIInv

\* Of each script at most one is past its guard, and its pid file names it.
Guarded == TypeOK /\ FGP!IInv /\ CGP!IInv

\* If starters do not overlap, both guards keep PidGuard's inductive invariant: who
\* is past one is named by its pid file.
THEOREM GuardsInvariant == ~Overlap /\ Spec => []Guarded
<1> SUFFICES ASSUME ~Overlap PROVE Spec => []Guarded
  OBVIOUS
<1>1. Init => Guarded
  BY InitTypes, GuardsInit DEF Guarded
<1>2. Guarded /\ [Next]_vars => Guarded'
  BY TypeStep, FlashGuardKept, CronGuardKept DEF Guarded
<1> QED
  BY <1>1, <1>2, PTL DEF Spec

\* The flash.sh past its guard is the one the pid file names.
LEMMA FlashNamed == ASSUME Guarded, NEW f \in Flash, flash[f].pc \notin {"none", "check", "write"}
                    PROVE  flashPid = f
  BY DEF Guarded, FGP!IInv, FGP!HolderIsNamed, FGP!Holding, guardPhase

\* The crontab_rom.sh past its guard is the one the pid file names.
LEMMA CronNamed == ASSUME Guarded, NEW c \in Cron, sh[c] \in {"hold", "wait"}
                   PROVE  cronPid = c
  BY DEF Guarded, CGP!IInv, CGP!HolderIsNamed, CGP!Holding, guardPhase

\* The flash partition has one writer: if starters of flash.sh do not overlap,
\* at most one flash.sh is past its guard.
THEOREM OneFlashOnly == ~Overlap /\ Spec => []OneFlash
<1>1. Guarded => OneFlash
  BY DEF Guarded, FGP!IInv, FGP!HolderIsNamed, FGP!Holding, OneFlash, FG!AtMostOneHolder, FG!Holding
<1> QED
  BY <1>1, GuardsInvariant, PTL

-----------------------------------------------------------------------------
(***************************************************************************)
(* From the commit on nothing starts.  That is not inductive: what could   *)
(* start a script or clear a flag is stopped in three steps before.  The   *)
(* web server goes first, so that no crontab_rom.sh is forked behind the   *)
(* list; the list then holds every crontab_rom.sh, crond and boot_check;   *)
(* and the kill is over when none of them runs.                            *)
(***************************************************************************)
WebStopped == /\ \A f \in Flash : flash[f].pc \in {"list", "kill", "commit", "burn"} => system # "up"
              /\ system # "up" => \A w \in Web : web[w].pc = "idle"
AllListed  == \A f \in Flash : flash[f].pc = "kill" =>
                  /\ \A c \in Cron : sh[c] # "none" => <<"sh", c>> \in flash[f].list
                  /\ system # "dead" => Rest \in flash[f].list
AllKilled  == \A f \in Flash : flash[f].pc \in {"commit", "burn"} =>
                  system = "dead" /\ \A c \in Cron : sh[c] = "none"
Quiet      == TypeOK /\ WebStopped /\ AllListed /\ AllKilled

\* otapredownload is neither a script nor the rest.
LEMMA OtaApart == Rest # Ota /\ \A c \in Cron : <<"sh", c>> # Ota
  BY DEF Rest, Ota

\* Nothing but flash.sh and a restart disturbs what flash.sh relies on.
LEMMA QuietFlashes == ASSUME Quiet, FlashKept \/ FlashForked, UNCHANGED system,
                             system # "up" => \A c \in Cron : sh'[c] # "none" => sh[c] # "none",
                             system # "up" => UNCHANGED web
                      PROVE  WebStopped' /\ AllListed' /\ AllKilled'
<1>1. ASSUME NEW f \in Flash, flash'[f].pc \in {"list", "kill", "commit", "burn"}
      PROVE  /\ flash[f].pc = flash'[f].pc
             /\ flash[f].list \ {Ota} \subseteq flash'[f].list
             /\ system # "up"
  BY <1>1, ForkedFlash DEF Quiet, WebStopped, FlashKept
<1>2. WebStopped'
  BY <1>1 DEF Quiet, WebStopped
<1>3. AllListed'
  <2>1. ASSUME NEW f \in Flash, flash'[f].pc = "kill", NEW p, p \in flash[f].list, p # Ota
        PROVE  p \in flash'[f].list
    BY <1>1, <2>1
  <2> QED
    BY <1>1, <2>1, OtaApart DEF Quiet, AllListed
<1>4. AllKilled'
  BY <1>1 DEF Quiet, AllKilled
<1> QED
  BY <1>2, <1>3, <1>4

\* A handler needs the web server, and flash.sh has stopped it.
LEMMA WebUp == ASSUME Quiet, NEW w \in Web,
                      Request(w) \/ \E kind \in Kinds, i \in Image : Arrive(w, kind, i)
               PROVE  system = "up" /\ system' = system
<1>1. ASSUME Request(w) PROVE web[w].pc # "idle" /\ system' = system
  BY <1>1 DEF Request, GateUnlock, UpgradeDecide, FlashStatus, FlashVerify, FlashRemove,
     WebLock, WebFork, UploadStore, UploadVerify, CancelPid, CancelLua, CancelKill,
     CancelKillLua, CancelAbort, CancelRelease
<1>2. ASSUME NEW kind \in Kinds, NEW i \in Image, Arrive(w, kind, i) PROVE system = "up" /\ system' = system
  BY ONLY <1>2 DEF Arrive
<1> QED
  BY <1>1, <1>2 DEF Quiet, WebStopped

\* So no request can be late.
LEMMA QuietWeb == ASSUME Quiet, NEW w \in Web,
                         Request(w) \/ \E kind \in Kinds, i \in Image : Arrive(w, kind, i)
                  PROVE  WebStopped' /\ AllListed' /\ AllKilled'
<1>1. CASE Request(w)
  <2>1. FlashKept \/ FlashForked
    BY <1>1, RequestOnFlash DEF Quiet
  <2> QED
    BY <2>1, WebUp, QuietFlashes
<1>2. ASSUME NEW kind \in Kinds, NEW i \in Image, Arrive(w, kind, i)
      PROVE  WebStopped' /\ AllListed' /\ AllKilled'
  <2>1. FlashKept
    BY ONLY <1>2, FlashUnchanged DEF Arrive
  <2> QED
    BY <2>1, WebUp, QuietFlashes
<1> QED
  BY <1>1, <1>2

\* The scripts start no crontab_rom.sh, and stop nothing.
LEMMA QuietScripts == ASSUME Quiet,
                             \/ \E c \in Cron : CrontabRom(c) \/ CheckUpgrade(c) \/ LuaError(c)
                             \/ CronJob \/ OtaPredownload \/ BootCheck \/ UNCHANGED vars
                      PROVE  /\ WebStopped' /\ AllListed' /\ AllKilled'
                             /\ UNCHANGED <<system, web>>
                             /\ \A c \in Cron : sh'[c] # "none" => sh[c] # "none"
<1>0. ShTyped
  BY TypeParts DEF AllTyped, Quiet
<1>1. UNCHANGED <<system, web>>
  BY DEF CrontabRom, CronRefuse, CronPass, CronWrite, CronLua, CronEnd, CheckUpgrade, LuaError,
         CronJob, OtaPredownload, BootCheck, procs, vars
<1>2. FlashKept \/ FlashForked
  BY CronOnFlash, OtaOnFlash, FlashUnchanged DEF BootCheck, procs, vars, Quiet
<1>3. \A c \in Cron : sh'[c] # "none" => sh[c] # "none"
  <2>1. ASSUME NEW c \in Cron, CrontabRom(c) PROVE \A d \in Cron : sh'[d] # "none" => sh[d] # "none"
    BY <1>0, <2>1 DEF CrontabRom, CronRefuse, CronPass, CronWrite, CronLua, CronEnd, ShStep, ShTyped
  <2>2. ASSUME NEW c \in Cron, CheckUpgrade(c) \/ LuaError(c) PROVE UNCHANGED sh
    BY <2>2 DEF CheckUpgrade, LuaStart, LuaAsk, LuaUrl, LuaFetch, LuaVerify, LuaPermit, LuaFailed, LuaError
  <2>3. CronJob \/ OtaPredownload \/ BootCheck \/ UNCHANGED vars => UNCHANGED sh
    BY DEF CronJob, OtaPredownload, BootCheck, procs, vars
  <2> QED
    BY <2>1, <2>2, <2>3
<1> QED
  BY <1>1, <1>2, <1>3, QuietFlashes

\* flash.sh's own steps: it stops the web server, lists, kills, then commits and burns.
LEMMA QuietFlashSh == ASSUME Quiet, NEW f \in Flash, FlashSh(f) PROVE WebStopped' /\ AllListed' /\ AllKilled'
<1>0. FlashTyped
  BY TypeParts DEF AllTyped, Quiet
<1> USE DEF Quiet, WebStopped, AllListed, AllKilled
<1>1. ASSUME NEW from \in FlashPc, FlashEnd(f, from), UNCHANGED <<system, others>>
      PROVE  WebStopped' /\ AllListed' /\ AllKilled'
  BY <1>0, <1>1 DEF FlashEnd, NoFlash, FlashTyped, others
<1>2. ASSUME NEW from \in {"check", "write", "verify"}, NEW to \in {"write", "verify", "stop"},
             FlashStep(f, from, to), UNCHANGED <<system, others>>
      PROVE  WebStopped' /\ AllListed' /\ AllKilled'
  BY <1>0, <1>2 DEF FlashStep, FlashTyped, FlashRecord, others
<1>3. ASSUME FlashStop(f) PROVE WebStopped' /\ AllListed' /\ AllKilled'
  <2>1. system' # "up" /\ (system' = "dead" <=> system = "dead") /\ UNCHANGED sh
    BY <1>3 DEF FlashStop
  <2>2. \A g \in Flash : flash'[g].pc \in {"kill", "commit", "burn"} => flash'[g] = flash[g]
    BY <1>0, <1>3 DEF FlashStop, FlashStep, FlashTyped, FlashRecord
  <2> QED
    BY <2>1, <2>2, <1>3 DEF FlashStop, IdleWeb
<1>4. ASSUME FlashList(f) PROVE WebStopped' /\ AllListed' /\ AllKilled'
  <2>1. \A g \in Flash : flash'[g] = IF g = f THEN [flash[f] EXCEPT !.pc = "kill", !.list = Running]
                                     ELSE flash[g]
    BY <1>0, <1>4 DEF FlashList, FlashTyped, FlashRecord
  <2>2. flash'[f].pc = "kill" /\ flash'[f].list = Running /\ flash[f].pc = "list"
    BY <2>1, <1>0, <1>4 DEF FlashList, FlashTyped, FlashRecord
  <2>3. /\ \A c \in Cron : sh[c] # "none" => <<"sh", c>> \in Running
        /\ system # "dead" => Rest \in Running
    BY DEF Running
  <2>4. UNCHANGED <<system, web, sh>>
    BY <1>4 DEF FlashList, others
  <2> QED
    BY <2>1, <2>2, <2>3, <2>4
<1>5. ASSUME NEW p \in Program, FlashKill(f, p) PROVE WebStopped' /\ AllListed' /\ AllKilled'
  <2>1. \A g \in Flash : flash'[g].pc = flash[g].pc /\ flash'[g].list = flash[g].list
    BY <1>0, <1>5 DEF FlashKill, FlashTyped, FlashRecord
  <2>2. \A c \in Cron : sh'[c] # "none" => sh[c] # "none"
    BY <1>5 DEF FlashKill
  <2>3. (system' = system \/ system' = "dead") /\ UNCHANGED web /\ flash[f].pc = "kill"
    BY <1>5 DEF FlashKill
  <2> QED
    BY <2>1, <2>2, <2>3
<1>6. ASSUME FlashKilled(f) PROVE WebStopped' /\ AllListed' /\ AllKilled'
  <2>1. flash[f].pc = "kill" /\ flash[f].list \cap Running = {} /\ UNCHANGED <<system, web, sh>>
    BY <1>6 DEF FlashKilled, others
  <2>0. /\ \A c \in Cron : sh[c] # "none" => <<"sh", c>> \in Running
        /\ system # "dead" => Rest \in Running
    BY DEF Running
  <2>2. system = "dead" /\ \A c \in Cron : sh[c] = "none"
    BY <2>0, <2>1
  <2>3. \A g \in Flash \ {f} : flash'[g] = flash[g]
    BY <1>0, <1>6 DEF FlashKilled, FlashTyped
  <2>4. flash'[f].pc = "commit"
    BY <1>0, <1>6 DEF FlashKilled, FlashTyped, FlashRecord
  <2> QED
    BY <2>1, <2>2, <2>3, <2>4
<1>7. ASSUME FlashCommit(f) PROVE WebStopped' /\ AllListed' /\ AllKilled'
  BY <1>0, <1>7 DEF FlashCommit, FlashStep, FlashTyped, FlashRecord, others
<1> QED
  BY <1>1, <1>2, <1>3, <1>4, <1>5, <1>6, <1>7
     DEF FlashSh, FlashRefuse, FlashPass, FlashWrite, FlashCheckImage, BurnFailed, FlashPc, files

\* After a restart no flash.sh is there.
LEMMA QuietBoot == Boot => WebStopped' /\ AllListed' /\ AllKilled'
  BY DEF Boot, WebStopped, AllListed, AllKilled, NoFlash, IdleWeb

\* A flash.sh past its stop runs without handlers, one that kills has every
\* crontab_rom.sh, crond and boot_check in its list, and one past its kill runs
\* without them, whether or not starters overlap.
THEOREM QuietInvariant == Spec => []Quiet
<1>1. Init => Quiet
  BY InitTypes DEF Init, Quiet, WebStopped, AllListed, AllKilled, NoFlash, IdleWeb
<1>2. Quiet /\ [Next]_vars => Quiet'
  BY TypeStep, QuietWeb, QuietScripts, QuietFlashSh, QuietBoot DEF Quiet, Next, Burnt, PowerCycle
<1> QED
  BY <1>1, <1>2, PTL DEF Spec

\* Programs that only end are no new ones.
LEMMA RunningLess == ASSUME \A c \in Cron : sh'[c] # "none" => sh[c] # "none",
                            \A c \in Cron : lua'[c] # "none" => lua[c] # "none",
                            ota' # "none" => ota # "none", system' # "dead" => system # "dead"
                     PROVE  Running' \subseteq Running
  BY DEF Running

\* What a step may not do from the commit on.
NothingNew == /\ Running' \subseteq Running
              /\ \A w \in Web : web[w].pc = "idle" => web'[w].pc = "idle"
              /\ otaFlag => otaFlag'

\* The scripts that were forked behind the list go on, and start nothing.
LEMMA LeftoversStartNothing ==
          ASSUME Quiet, Committed,
                 \/ \E c \in Cron : CrontabRom(c) \/ CheckUpgrade(c) \/ LuaError(c)
                 \/ CronJob \/ OtaPredownload \/ BootCheck \/ UNCHANGED vars
          PROVE  NothingNew
<1>0. LuaTyped /\ system = "dead" /\ \A c \in Cron : sh[c] = "none"
  BY TypeParts DEF AllTyped, Quiet, AllKilled, Committed
<1>1. ASSUME NEW c \in Cron PROVE ~CrontabRom(c)
  BY <1>0 DEF CrontabRom, CronRefuse, CronPass, CronWrite, CronLua, CronEnd, ShStep
<1>2. ~BootCheck /\ ~CronJob
  BY <1>0 DEF BootCheck, CronJob, OtaWake
<1>3. UNCHANGED <<system, web>> /\ \A c \in Cron : sh'[c] # "none" => sh[c] # "none"
  BY QuietScripts
<1>4. UNCHANGED otaFlag
  BY <1>1, <1>2 DEF CheckUpgrade, LuaError, OtaPredownload, vars, files
<1>5. \A c \in Cron : lua'[c] # "none" => lua[c] # "none"
  <2>1. ASSUME NEW d \in Cron, CheckUpgrade(d) \/ LuaError(d)
        PROVE  \A c \in Cron : lua'[c] # "none" => lua[c] # "none"
    BY <1>0, <2>1 DEF CheckUpgrade, LuaStart, LuaAsk, LuaUrl, LuaFetch, LuaVerify, LuaPermit, LuaFailed,
       LuaStep, LuaError, LuaTyped
  <2>2. OtaPredownload \/ UNCHANGED vars => UNCHANGED lua
    BY DEF OtaPredownload, vars, procs
  <2> QED
    BY <1>1, <1>2, <2>1, <2>2
<1>6. ota' # "none" => ota # "none"
  <2>1. OtaPredownload => ota # "none"
    BY DEF OtaPredownload, OtaFetch, OtaVerify, OtaRecheck, OtaLock, OtaStatus, OtaFork, OtaOk,
       OtaFailed, OtaStep
  <2>2. ASSUME NEW d \in Cron, CheckUpgrade(d) \/ LuaError(d) PROVE UNCHANGED ota
    BY <2>2 DEF CheckUpgrade, LuaError
  <2> QED
    BY <1>1, <1>2, <2>1, <2>2 DEF vars, procs
<1> QED
  BY <1>3, <1>4, <1>5, <1>6, RunningLess DEF NothingNew

\* No step of flash.sh starts one of the programs it has killed.
LEMMA FlashStartsNothing == ASSUME Quiet, NEW f \in Flash, FlashSh(f) PROVE NothingNew
<1>0. FilesTyped
  BY TypeParts DEF AllTyped, Quiet
<1>1. ASSUME NEW p \in Program, FlashKill(f, p) PROVE NothingNew
  <2>1. /\ \A c \in Cron : sh'[c] # "none" => sh[c] # "none"
        /\ \A c \in Cron : lua'[c] # "none" => lua[c] # "none"
        /\ ota' # "none" => ota # "none"
        /\ system' # "dead" => system # "dead"
        /\ UNCHANGED <<web, otaFlag>>
    BY <1>1 DEF FlashKill, files
  <2> QED
    BY <2>1, RunningLess DEF NothingNew
<1>2. ASSUME FlashStop(f) PROVE NothingNew
  <2>1. UNCHANGED <<sh, lua, ota, otaFlag>> /\ (system' # "dead" => system # "dead")
    BY <1>2 DEF FlashStop, files
  <2>2. \A w \in Web : web'[w].pc = "idle"
    BY <1>2 DEF FlashStop, IdleWeb
  <2> QED
    BY <2>1, <2>2, RunningLess DEF NothingNew
<1>3. ASSUME UNCHANGED <<system, others>>, otaFlag => otaFlag' PROVE NothingNew
  BY <1>3, RunningLess DEF NothingNew, others
<1> QED
  BY <1>1, <1>2, <1>3 DEF FlashSh, FlashRefuse, FlashPass, FlashWrite, FlashCheckImage, FlashList,
     FlashKilled, FlashCommit, BurnFailed, files

\* Whatever was under way when flash.sh began, and whatever was forked while it
\* killed: from its commit on no request, script or cron job starts, and nothing
\* clears the flag.  No assumption on overlaps, cancels or errors.
THEOREM AlwaysNothingStarts == Spec => NothingStarts
<1>1. ASSUME Quiet, Committed, Committed', [Next]_vars PROVE NothingNew
  <2>1. ASSUME NEW w \in Web PROVE ~(Request(w) \/ \E kind \in Kinds, i \in Image : Arrive(w, kind, i))
    BY <1>1, WebUp DEF Quiet, AllKilled, Committed
  <2>2. ~Boot
    BY <1>1 DEF Boot, Committed, NoFlash
  <2> QED
    BY <1>1, <2>1, <2>2, LeftoversStartNothing, FlashStartsNothing DEF Next, Burnt, PowerCycle
<1>2. Quiet /\ [Next]_vars => [Committed /\ Committed' => NothingNew]_vars
  BY <1>1
<1>3. [][Committed /\ Committed' => NothingNew]_vars => NothingStarts
  BY PTL DEF NothingStarts, NothingNew
<1> QED
  BY <1>2, <1>3, QuietInvariant, PTL DEF Spec

-----------------------------------------------------------------------------
(***************************************************************************)
(* As long as nobody cancels and the system is up, a checkupgrade.lua has  *)
(* the crontab_rom.sh that waits for it.                                   *)
(***************************************************************************)
HandlerPc == {"idle", "unlock", "decide", "lock", "fork", "status", "verify", "remove",
              "store", "check"}
NoCancels == \A w \in Web : web[w].pc \in HandlerPc
LuaHeld   == system = "up" => \A c \in Cron : lua[c] # "none" => sh[c] = "wait"
Uncancelled == Quiet /\ NoCancels /\ LuaHeld

\* A flash.sh that leaves the system up leaves the other programs alone.
LEMMA StillUp == ASSUME Quiet, NEW f \in Flash, FlashSh(f), system' = "up"
                 PROVE  UNCHANGED <<system, others>>
<1>1. ~FlashStop(f)
  BY DEF FlashStop
<1>2. \A p \in Program : ~FlashKill(f, p)
  BY DEF FlashKill, Quiet, WebStopped
<1> QED
  BY <1>1, <1>2 DEF FlashSh, FlashRefuse, FlashPass, FlashWrite, FlashCheckImage, FlashList,
     FlashKilled, FlashCommit, BurnFailed

\* The programs but flash.sh do not bring the system down or up.
LEMMA SystemKept ==
          ASSUME \/ \E w \in Web : Request(w) \/ \E kind \in Kinds, i \in Image : Arrive(w, kind, i)
                 \/ \E c \in Cron : CrontabRom(c) \/ CheckUpgrade(c) \/ LuaError(c)
                 \/ CronJob \/ OtaPredownload \/ BootCheck \/ UNCHANGED vars
          PROVE  UNCHANGED system
<1>1. ASSUME NEW w \in Web, Request(w) PROVE UNCHANGED system
  BY ONLY <1>1 DEF Request, GateUnlock, UpgradeDecide, FlashStatus, FlashVerify, FlashRemove,
     WebLock, WebFork, UploadStore, UploadVerify, CancelPid, CancelLua, CancelKill,
     CancelKillLua, CancelAbort, CancelRelease
<1>2. ASSUME NEW w \in Web, NEW kind \in Kinds, NEW i \in Image, Arrive(w, kind, i) PROVE UNCHANGED system
  BY ONLY <1>2 DEF Arrive
<1>3. ASSUME NEW c \in Cron, CrontabRom(c) \/ CheckUpgrade(c) \/ LuaError(c) PROVE UNCHANGED system
  BY ONLY <1>3 DEF CrontabRom, CronRefuse, CronPass, CronWrite, CronLua, CronEnd, CheckUpgrade, LuaError
<1>4. CronJob \/ OtaPredownload \/ BootCheck \/ UNCHANGED vars => UNCHANGED system
  BY ONLY DEF CronJob, OtaPredownload, BootCheck, procs, vars
<1> QED
  BY <1>1, <1>2, <1>3, <1>4

\* Without requests to cancel no handler is in the middle of one.
LEMMA NoCancelsKept == ASSUME "cancel" \notin Kinds, Uncancelled, [Next]_vars PROVE NoCancels'
<1>0. WebTyped
  BY TypeParts DEF AllTyped, Uncancelled, Quiet
<1>k. \A w \in Web : web[w].kind \in {"upgrade", "flash", "upload", "other"}
  BY <1>0, KindsAssumption DEF WebTyped, WebRecord
<1>f. \A k \in {"upgrade", "flash", "upload", "other"} : First[k] \in HandlerPc
  BY DEF First, HandlerPc
<1>1. ASSUME NEW w \in Web, NEW pc \in HandlerPc, Goto(w, pc)
      PROVE  NoCancels'
  BY <1>0, <1>1 DEF Goto, NoCancels, WebTyped, WebRecord, Uncancelled
<1>2. ASSUME NEW w \in Web, Answer(w) PROVE NoCancels'
  BY <1>0, <1>2 DEF Answer, IdleWeb, NoCancels, HandlerPc, WebTyped, Uncancelled
<1>3. ASSUME NEW w \in Web, Request(w) PROVE NoCancels'
  <2>1. ~(CancelPid(w) \/ CancelLua(w) \/ CancelKill(w) \/ CancelKillLua(w)
          \/ CancelAbort(w) \/ CancelRelease(w))
    BY DEF Uncancelled, NoCancels, HandlerPc, CancelPid, CancelLua, CancelKill, CancelKillLua,
       CancelAbort,
       CancelRelease
  <2>2. CASE GateUnlock(w)
    BY <1>1, <1>2, <1>k, <1>f, <2>2 DEF GateUnlock
  <2> QED
    BY <1>1, <1>2, <1>3, <2>1, <2>2 DEF Request, UpgradeDecide, FlashStatus, FlashVerify,
       FlashRemove, WebLock, WebFork, UploadStore, UploadVerify, HandlerPc
<1>4. ASSUME NEW w \in Web, NEW kind \in Kinds, NEW i \in Image, Arrive(w, kind, i) PROVE NoCancels'
  <2>1. kind \in {"upgrade", "flash", "upload", "other"}
    BY KindsAssumption
  <2>2. PICK pc \in HandlerPc :
                  web' = [web EXCEPT ![w].kind = kind, ![w].image = i, ![w].pc = pc]
    BY <1>4, <1>f, <2>1 DEF Arrive, HandlerPc
  <2>3. \A v \in Web : web'[v].pc = IF v = w THEN pc ELSE web[v].pc
    BY <1>0, <2>2 DEF WebTyped, WebRecord
  <2> QED
    BY <2>2, <2>3 DEF NoCancels, Uncancelled
<1>5. ASSUME UNCHANGED web PROVE NoCancels'
  BY <1>5 DEF NoCancels, Uncancelled
<1>6. ASSUME \A w \in Web : web'[w] = IdleWeb PROVE NoCancels'
  BY <1>6 DEF NoCancels, IdleWeb, HandlerPc
<1>7. ASSUME NEW f \in Flash, FlashSh(f) PROVE NoCancels'
  BY <1>7, <1>5, <1>6 DEF FlashSh, FlashRefuse, FlashPass, FlashWrite, FlashCheckImage, FlashStop,
     FlashList, FlashKill, FlashKilled, FlashCommit, BurnFailed, others
<1>8. ASSUME NEW c \in Cron, CrontabRom(c) \/ CheckUpgrade(c) \/ LuaError(c) PROVE NoCancels'
  BY <1>8, <1>5 DEF CrontabRom, CronRefuse, CronPass, CronWrite, CronLua, CronEnd, CheckUpgrade, LuaError
<1>9. CASE CronJob \/ OtaPredownload \/ BootCheck \/ UNCHANGED vars
  BY <1>9, <1>5 DEF CronJob, OtaPredownload, BootCheck, procs, vars
<1>10. CASE Boot
  BY <1>10, <1>6 DEF Boot
<1> QED
  BY <1>3, <1>4, <1>7, <1>8, <1>9, <1>10 DEF Next, Burnt, PowerCycle

\* What a step does to checkupgrade.lua and to crontab_rom.sh.
LEMMA LuaHeldKept == ASSUME "cancel" \notin Kinds, Uncancelled, [Next]_vars PROVE LuaHeld'
<1>0. ShTyped /\ LuaTyped
  BY TypeParts DEF AllTyped, Uncancelled, Quiet
<1>1. ASSUME UNCHANGED lua, UNCHANGED sh, UNCHANGED system PROVE LuaHeld'
  BY <1>1 DEF LuaHeld, Uncancelled
<1>2. ASSUME NEW w \in Web, Request(w) PROVE LuaHeld'
  <2>1. ~(CancelKill(w) \/ CancelKillLua(w))
    BY DEF Uncancelled, NoCancels, HandlerPc, CancelKill, CancelKillLua
  <2>2. UNCHANGED lua /\ (UNCHANGED sh \/ ForkCron)
    BY <1>2, <2>1 DEF Request, GateUnlock, UpgradeDecide, FlashStatus, FlashVerify,
       FlashRemove, WebLock, WebFork, UploadStore, UploadVerify, CancelPid, CancelLua,
       CancelAbort, CancelRelease
  <2>3. UNCHANGED system
    BY <1>2, SystemKept
  <2>4. ForkCron => LuaHeld'
    BY <1>0, <2>2, <2>3 DEF ForkCron, LuaHeld, ShTyped, Uncancelled
  <2> QED
    BY <2>2, <2>3, <2>4, <1>1
<1>3. ASSUME NEW c \in Cron, CrontabRom(c) PROVE LuaHeld'
  <2>1. UNCHANGED system
    BY <1>3, SystemKept
  <2> QED
    BY <2>1, <1>0, <1>3 DEF CrontabRom, CronRefuse, CronPass, CronWrite, CronLua, CronEnd, ShStep, LuaHeld,
       ShTyped, LuaTyped, Uncancelled
<1>4. ASSUME NEW c \in Cron, CheckUpgrade(c) \/ LuaError(c) PROVE LuaHeld'
  <2>1. UNCHANGED sh /\ UNCHANGED system
    BY <1>4 DEF CheckUpgrade, LuaStart, LuaAsk, LuaUrl, LuaFetch, LuaVerify, LuaPermit, LuaFailed,
       LuaError
  <2>2. lua[c] # "none" /\ \A d \in Cron \ {c} : lua'[d] = lua[d]
    BY <1>0, <1>4 DEF CheckUpgrade, LuaStart, LuaAsk, LuaUrl, LuaFetch, LuaVerify, LuaPermit, LuaFailed,
       LuaError, LuaStep, LuaTyped
  <2> QED
    BY <2>1, <2>2 DEF LuaHeld, Uncancelled
<1>5. ASSUME system' # "up" \/ \A c \in Cron : lua'[c] = "none" PROVE LuaHeld'
  BY <1>5 DEF LuaHeld
<1>6. ASSUME NEW f \in Flash, FlashSh(f) PROVE LuaHeld'
  BY <1>6, <1>1, <1>5, StillUp DEF Uncancelled, others
<1>7. CASE CronJob \/ OtaPredownload \/ BootCheck \/ UNCHANGED vars
  BY <1>7, <1>1 DEF CronJob, OtaPredownload, BootCheck, procs, vars
<1>8. ASSUME NEW w \in Web, NEW kind \in Kinds, NEW i \in Image, Arrive(w, kind, i) PROVE LuaHeld'
  BY <1>8, <1>1 DEF Arrive
<1>9. CASE Boot
  BY <1>9, <1>5 DEF Boot
<1> QED
  BY <1>2, <1>3, <1>4, <1>6, <1>7, <1>8, <1>9 DEF Next, Burnt, PowerCycle

\* If nobody cancels, whenever checkupgrade.lua runs the crontab_rom.sh that started
\* it waits for it, as long as the system is up.
THEOREM UncancelledInvariant == "cancel" \notin Kinds /\ Spec => []Uncancelled
<1> SUFFICES ASSUME "cancel" \notin Kinds PROVE Spec => []Uncancelled
  OBVIOUS
<1>1. Init => NoCancels /\ LuaHeld
  BY DEF Init, NoCancels, LuaHeld, IdleWeb, HandlerPc
<1>2. Uncancelled /\ [Next]_vars => NoCancels' /\ LuaHeld'
  BY NoCancelsKept, LuaHeldKept
<1>3. Uncancelled <=> Quiet /\ NoCancels /\ LuaHeld
  BY DEF Uncancelled
<1> QED
  BY <1>1, <1>2, <1>3, QuietInvariant, PTL DEF Spec

\* Two checkupgrade.lua at once are one.
LEMMA OneLua == ASSUME Guarded, Uncancelled, system = "up", NEW c \in Cron, NEW d \in Cron,
                       lua[c] # "none", lua[d] # "none"
                PROVE  c = d
  BY CronNamed DEF Uncancelled, LuaHeld

\* However many requests decide to upgrade before one of them takes the lock, one
\* checkupgrade.lua runs, if nobody cancels and starters do not overlap.
THEOREM AlwaysOneUpgrade == ~Overlap /\ "cancel" \notin Kinds /\ Spec => []OneUpgrade
<1>1. Guarded /\ Uncancelled => OneUpgrade
  BY OneLua DEF OneUpgrade
<1> QED
  BY <1>1, GuardsInvariant, UncancelledInvariant, PTL

-----------------------------------------------------------------------------
(***************************************************************************)
(* Status 3 and the download.  It can outlive the download only when       *)
(* flash.sh has killed checkupgrade.lua; then nobody is left to ask for    *)
(* the status.                                                             *)
(***************************************************************************)
StatusIsFetched == system = "up" /\ lock = 3 => \E c \in Cron : lua[c] \in {"fetch", "verify"}
Fetching == Uncancelled /\ StatusIsFetched

\* No handler writes status 3 or ends a download, as long as none cancels.
LEMMA FetchedWeb == ASSUME "cancel" \notin Kinds, Fetching, NEW w \in Web,
                           Request(w) \/ \E kind \in Kinds, i \in Image : Arrive(w, kind, i)
                    PROVE  StatusIsFetched'
<1>1. ~(CancelKillLua(w))
  BY DEF Fetching, Uncancelled, NoCancels, HandlerPc, CancelKillLua
<1>2. UNCHANGED <<lua, system>> /\ (lock' = lock \/ lock' = NoLock \/ lock' = touch)
  <2>1. ASSUME Request(w) PROVE UNCHANGED lua /\ (lock' = lock \/ lock' = NoLock \/ lock' = touch)
    BY ONLY <1>1, <2>1 DEF Request, GateUnlock, UpgradeDecide, FlashStatus, FlashVerify, FlashRemove,
       WebLock, WebFork, UploadStore, UploadVerify, CancelPid, CancelLua, CancelKill,
       CancelAbort, CancelRelease, files
  <2>2. ASSUME NEW kind \in Kinds, NEW i \in Image, Arrive(w, kind, i) PROVE UNCHANGED <<lua, lock>>
    BY ONLY <2>2 DEF Arrive, files
  <2> QED
    BY <2>1, <2>2, SystemKept
<1>3. lock' = 3 => lock = 3
  BY <1>2 DEF NoLock, touch
<1> QED
  BY <1>2, <1>3 DEF Fetching, StatusIsFetched

\* checkupgrade.lua writes status 3 as it begins to download, and another status or
\* none when it is through; without a lua error it does not skip that.
LEMMA FetchedCron == ASSUME ~LuaCrash, Fetching, NEW c \in Cron,
                            CrontabRom(c) \/ CheckUpgrade(c) \/ LuaError(c)
                     PROVE  StatusIsFetched'
<1>0. LuaTyped
  BY TypeParts DEF AllTyped, Fetching, Uncancelled, Quiet
<1>s. UNCHANGED system
  BY SystemKept
<1> SUFFICES ASSUME system = "up" PROVE StatusIsFetched'
  BY <1>s DEF StatusIsFetched
<1>1. ASSUME CrontabRom(c) PROVE StatusIsFetched'
  <2>1. sh[c] = "hold" => lua[c] = "none"
    BY DEF Fetching, Uncancelled, LuaHeld
  <2>2. \A d \in Cron : lua[d] \in {"fetch", "verify"} => lua'[d] = lua[d]
    BY <1>0, <1>1, <2>1 DEF CrontabRom, CronRefuse, CronPass, CronWrite, CronLua, CronEnd, ShStep,
       LuaTyped
  <2>3. UNCHANGED <<lock, system>>
    BY <1>1 DEF CrontabRom, CronRefuse, CronPass, CronWrite, CronLua, CronEnd, files
  <2> QED
    BY <2>2, <2>3 DEF Fetching, StatusIsFetched
<1>2. ASSUME CheckUpgrade(c), lock' = 3 PROVE \E d \in Cron : lua'[d] \in {"fetch", "verify"}
  <2>1. CASE LuaPermit(c)
    <3>1. UNCHANGED lock /\ lua[c] = "permit" /\ lua' = [lua EXCEPT ![c] = "flash"]
      BY <2>1 DEF LuaPermit, LuaStep
    <3>2. PICK d \in Cron : lua[d] \in {"fetch", "verify"}
      BY <1>2, <3>1 DEF Fetching, StatusIsFetched
    <3> QED
      BY <1>0, <3>1, <3>2 DEF LuaTyped
  <2>2. CASE LuaUrl(c) \/ LuaFetch(c)
    BY <1>0, <1>2, <2>2 DEF LuaUrl, LuaFetch, LuaStep, updateUpgradeStatus, LuaTyped
  <2> QED
    BY <1>2, <2>1, <2>2 DEF CheckUpgrade, LuaStart, LuaAsk, LuaVerify, LuaFailed, updateUpgradeStatus
<1> QED
  BY <1>1, <1>2 DEF LuaError, StatusIsFetched

\* Otherwise only flash.sh and a restart end downloads, and not with the system up.
LEMMA FetchedRest == ASSUME Fetching,
                            \/ CronJob \/ OtaPredownload \/ BootCheck \/ UNCHANGED vars \/ Boot
                            \/ \E f \in Flash : FlashSh(f)
                     PROVE  StatusIsFetched'
<1>1. ASSUME CronJob \/ OtaPredownload PROVE StatusIsFetched'
  <2>1. UNCHANGED <<lua, system>>
    BY <1>1 DEF CronJob, OtaPredownload
  <2>2. lock' = 3 => lock = 3
    BY <1>1 DEF CronJob, OtaPredownload, OtaWake, OtaFetch, OtaVerify, OtaRecheck, OtaLock, OtaStatus,
       OtaFork, OtaOk, OtaFailed, touch, updateUpgradeStatus
  <2> QED
    BY <2>1, <2>2 DEF Fetching, StatusIsFetched
<1>2. CASE BootCheck \/ UNCHANGED vars
  BY <1>2 DEF BootCheck, procs, vars, files, Fetching, StatusIsFetched
<1>3. CASE Boot
  BY <1>3 DEF Boot, NoLock, StatusIsFetched
<1>4. ASSUME NEW f \in Flash, FlashSh(f), system' = "up" PROVE StatusIsFetched'
  <2>1. UNCHANGED lock
    BY <1>4 DEF FlashSh, FlashRefuse, FlashPass, FlashWrite, FlashCheckImage, FlashStop, FlashList,
       FlashKill, FlashKilled, FlashCommit, BurnFailed, files
  <2>2. UNCHANGED <<system, lua>>
    BY <1>4, StillUp DEF Fetching, Uncancelled, others
  <2> QED
    BY <2>1, <2>2 DEF Fetching, StatusIsFetched
<1> QED
  BY <1>1, <1>2, <1>3, <1>4 DEF StatusIsFetched

\* Without cancels and lua errors, status 3 is in the lock file only while an image is
\* downloaded, as long as the system is up.
THEOREM FetchingInvariant == ~LuaCrash /\ "cancel" \notin Kinds /\ Spec => []Fetching
<1> SUFFICES ASSUME ~LuaCrash, "cancel" \notin Kinds PROVE Spec => []Fetching
  OBVIOUS
<1>1. Init => StatusIsFetched
  BY DEF Init, StatusIsFetched, NoLock
<1>2. Fetching /\ [Next]_vars => StatusIsFetched'
  BY FetchedWeb, FetchedCron, FetchedRest DEF Next, Burnt, PowerCycle
<1>3. Uncancelled /\ StatusIsFetched <=> Fetching
  BY DEF Fetching
<1> QED
  BY <1>1, <1>2, <1>3, UncancelledInvariant, PTL DEF Spec

\* Status 3 is shown only while something downloads, if checkupgrade.lua does not
\* die of an error and nobody cancels.
THEOREM AlwaysDownloading == ~LuaCrash /\ "cancel" \notin Kinds /\ Spec => []DownloadingIsTrue
<1>1. checkUpgradeStatus = 3 => lock = 3
  BY DEF checkUpgradeStatus, getUpgradeStatus, getFlashStatus, NoLock
<1>2. Fetching => DownloadingIsTrue
  BY <1>1 DEF DownloadingIsTrue, Fetching, StatusIsFetched
<1> QED
  BY <1>2, FetchingInvariant, PTL

-----------------------------------------------------------------------------
(***************************************************************************)
(* While checkupgrade.lua works the web interface says so.  The lock file  *)
(* may be gone or empty meanwhile; what it must not hold is the end of an  *)
(* earlier upgrade, and only one checkupgrade.lua writes it.               *)
(***************************************************************************)
AtWork     == {"ask", "url", "fetch", "verify", "permit", "flash"}
StatusFits == system = "up" /\ (\E c \in Cron : lua[c] \in AtWork) => lock \in 0 .. 5 \cup {NoLock}
Visible    == Guarded /\ Uncancelled /\ ota = "none" /\ StatusFits

\* otapredownload.lua does not come out of nowhere.
LEMMA NoOta == ASSUME ~OtaOn, ota = "none", [Next]_vars PROVE ota' = "none"
<1>1. ~(CronJob \/ OtaPredownload)
  BY DEF CronJob, OtaPredownload, OtaWake, OtaFetch, OtaVerify, OtaRecheck,
       OtaLock, OtaStatus, OtaFork, OtaOk, OtaFailed, OtaStep
<1>2. ASSUME NEW w \in Web, Request(w) PROVE UNCHANGED ota
  BY <1>2 DEF Request, GateUnlock, UpgradeDecide, FlashStatus, FlashVerify, FlashRemove,
     WebLock, WebFork, UploadStore, UploadVerify, CancelPid, CancelLua, CancelKill,
     CancelKillLua, CancelAbort, CancelRelease
<1>3. ASSUME NEW c \in Cron, CrontabRom(c) \/ CheckUpgrade(c) \/ LuaError(c) PROVE UNCHANGED ota
  BY <1>3 DEF CrontabRom, CronRefuse, CronPass, CronWrite, CronLua, CronEnd, CheckUpgrade, LuaError
<1>4. ASSUME NEW f \in Flash, FlashSh(f) PROVE UNCHANGED ota \/ ota' = "none"
  BY <1>4 DEF FlashSh, FlashRefuse, FlashPass, FlashWrite, FlashCheckImage, FlashStop, FlashList,
     FlashKill, FlashKilled, FlashCommit, BurnFailed, others
<1>5. ASSUME NEW w \in Web, NEW kind \in Kinds, NEW i \in Image, Arrive(w, kind, i) PROVE UNCHANGED ota
  BY ONLY <1>5 DEF Arrive
<1>6. Boot \/ BootCheck \/ UNCHANGED vars => ota' = "none"
  BY DEF Boot, BootCheck, procs, vars
<1> QED
  BY <1>1, <1>2, <1>3, <1>4, <1>5, <1>6 DEF Next, Burnt, PowerCycle

\* While checkupgrade.lua works, no step leaves the end of an earlier upgrade in the lock file.
LEMMA StatusFitsKept == ASSUME "cancel" \notin Kinds, ~OtaOn, Visible, [Next]_vars PROVE StatusFits'
<1>0. LuaTyped
  BY TypeParts DEF AllTyped, Guarded, Visible
<1>1. ASSUME lock' = lock \/ lock' = NoLock \/ lock' = touch,
             \A c \in Cron : lua'[c] \in AtWork => lua[c] \in AtWork,
             system' = "up" => system = "up"
      PROVE  StatusFits'
  <2>1. lock \in 0 .. 5 \cup {NoLock} => lock' \in 0 .. 5 \cup {NoLock}
    BY <1>1 DEF touch
  <2> QED
    BY <1>1, <2>1 DEF StatusFits, Visible
<1>2. ASSUME NEW w \in Web, Request(w) PROVE StatusFits'
  <2>1. ~CancelKillLua(w)
    BY DEF Visible, Uncancelled, NoCancels, HandlerPc, CancelKillLua
  <2>2. UNCHANGED lua /\ (lock' = lock \/ lock' = NoLock \/ lock' = touch)
    BY <1>2, <2>1 DEF Request, GateUnlock, UpgradeDecide, FlashStatus, FlashVerify, FlashRemove,
       WebLock, WebFork, UploadStore, UploadVerify, CancelPid, CancelLua, CancelKill,
       CancelAbort, CancelRelease, files
  <2> QED
    BY <2>2, <1>1, <1>2, SystemKept
<1>3. ASSUME NEW c \in Cron, CrontabRom(c) \/ LuaError(c) PROVE StatusFits'
  <2>1. UNCHANGED lock
    BY <1>3 DEF CrontabRom, CronRefuse, CronPass, CronWrite, CronLua, CronEnd, LuaError, files
  <2>2. \A d \in Cron : lua'[d] \in AtWork => lua[d] \in AtWork
    BY <1>0, <1>3 DEF CrontabRom, CronRefuse, CronPass, CronWrite, CronLua, CronEnd, LuaError, LuaTyped,
       AtWork
  <2> QED
    BY <2>1, <2>2, <1>1, <1>3, SystemKept
<1>4. ASSUME NEW c \in Cron, CheckUpgrade(c), system' = "up" PROVE StatusFits'
  <2>1. lua[c] # "none" /\ \A d \in Cron \ {c} : lua'[d] = lua[d]
    BY <1>0, <1>4 DEF CheckUpgrade, LuaStart, LuaAsk, LuaUrl, LuaFetch, LuaVerify, LuaPermit, LuaFailed,
       LuaStep, LuaTyped
  <2>2. \A d \in Cron \ {c} : lua'[d] = "none"
    BY <2>1, <1>4, SystemKept, OneLua DEF Visible
  <2>3. ASSUME lua'[c] \in AtWork PROVE lock' \in {1, 2, 3, 5} \/ (lock' = lock /\ lua[c] \in AtWork)
    BY <1>0, <1>4, <2>3 DEF CheckUpgrade, LuaStart, LuaAsk, LuaUrl, LuaFetch, LuaVerify, LuaPermit,
       LuaFailed,
       LuaStep, LuaTyped, updateUpgradeStatus, AtWork
  <2> QED
    BY <2>2, <2>3, <1>4, SystemKept DEF StatusFits, Visible, AtWork
<1>5. ASSUME \A c \in Cron : lua'[c] = "none" PROVE StatusFits'
  BY <1>5 DEF StatusFits, AtWork
<1>6. ASSUME NEW f \in Flash, FlashSh(f), system' = "up" PROVE StatusFits'
  <2>1. UNCHANGED lock
    BY <1>6 DEF FlashSh, FlashRefuse, FlashPass, FlashWrite, FlashCheckImage, FlashStop, FlashList,
       FlashKill, FlashKilled, FlashCommit, BurnFailed, files
  <2>2. UNCHANGED <<system, lua>>
    BY <1>6, StillUp DEF Visible, Uncancelled, others
  <2> QED
    BY <2>1, <2>2, <1>1
<1>7. ~(CronJob \/ OtaPredownload)
  BY DEF Visible, CronJob, OtaPredownload, OtaWake, OtaFetch, OtaVerify, OtaRecheck,
       OtaLock, OtaStatus, OtaFork, OtaOk, OtaFailed, OtaStep
<1>8. ASSUME BootCheck \/ UNCHANGED vars \/ \E w \in Web, kind \in Kinds, i \in Image : Arrive(w, kind, i)
      PROVE  StatusFits'
  <2>1. UNCHANGED <<lock, lua, system>>
    <3>1. ASSUME NEW w \in Web, NEW kind \in Kinds, NEW i \in Image, Arrive(w, kind, i)
          PROVE  UNCHANGED <<lock, lua, system>>
      BY ONLY <3>1 DEF Arrive, files
    <3> QED
      BY <1>8, <3>1 DEF BootCheck, procs, vars, files
  <2> QED
    BY <2>1, <1>1
<1>9. CASE Boot
  BY <1>9, <1>5 DEF Boot
<1>10. system' # "up" => StatusFits'
  BY DEF StatusFits
<1> QED
  BY <1>2, <1>3, <1>4, <1>6, <1>7, <1>8, <1>9, <1>10 DEF Next, Burnt, PowerCycle

\* Without overlapping starters, cancels and the nightly update, the lock file never
\* holds the end of an earlier upgrade while checkupgrade.lua works.
THEOREM VisibleInvariant == ~Overlap /\ ~OtaOn /\ "cancel" \notin Kinds /\ Spec => []Visible
<1> SUFFICES ASSUME ~Overlap, ~OtaOn, "cancel" \notin Kinds PROVE Spec => []Visible
  OBVIOUS
<1>1. Spec => [](Guarded /\ Uncancelled)
  BY GuardsInvariant, UncancelledInvariant, PTL
<1>2. Init => ota = "none" /\ StatusFits
  BY DEF Init, StatusFits, AtWork
<1>3. Visible /\ [Next]_vars => (ota = "none")' /\ StatusFits'
  BY NoOta, StatusFitsKept DEF Visible
<1>4. Visible <=> (Guarded /\ Uncancelled) /\ ota = "none" /\ StatusFits
  BY DEF Visible
<1> QED
  BY <1>1, <1>2, <1>3, <1>4, PTL DEF Spec

\* Without cancels and the hourly job no stale status, removed lock or second
\* request hides an upgrade that runs.
THEOREM AlwaysVisible == ~Overlap /\ ~OtaOn /\ "cancel" \notin Kinds /\ Spec => []UpgradeVisible
<1>1. ASSUME Visible, system = "up", NEW c \in Cron, lua[c] \notin {"none", "start"}, ~otaFlag
      PROVE  isUpgrading
  <2>0. lua[c] \in AtWork
    BY <1>1, TypeParts DEF AllTyped, Visible, Guarded, LuaTyped, AtWork
  <2>1. CrontabRunning
    BY <1>1 DEF CrontabRunning, Visible, Uncancelled, LuaHeld
  <2>2. lock \in 0 .. 5 \cup {NoLock}
    BY <1>1, <2>0 DEF Visible, StatusFits
  <2>3. checkUpgradeStatus = IF getUpgradeStatus = 0 THEN 1 ELSE getUpgradeStatus
    BY <1>1, <2>1 DEF checkUpgradeStatus
  <2>4. getUpgradeStatus \in 0 .. 5
    BY <2>2 DEF getUpgradeStatus, NoLock
  <2> QED
    BY <2>3, <2>4 DEF isUpgrading
<1>2. Visible => UpgradeVisible
  BY <1>1 DEF UpgradeVisible
<1> QED
  BY <1>2, VisibleInvariant, PTL
=============================================================================
