---------------------------- MODULE RomDownload ----------------------------
(***************************************************************************)
(* How a firmware image is fetched (XQDownloadUtil.lua): by the router's   *)
(* download daemon, after the user's own downloads were paused, or by wget *)
(* if that fails.  An upgrade (checkupgrade.lua) and the hourly one        *)
(* (otapredownload) may fetch the same image at the same time; both see it *)
(* in the daemon as one hidden download, called Rom here, and each pauses  *)
(* what it finds running, also the other's.  What was paused is noted in a *)
(* local variable and in the preference PAUSED_IDS, for cancelUpgrade,     *)
(* which kills the upgrade and tidies up after it.                         *)
(***************************************************************************)
EXTENDS Naturals, FiniteSets

CONSTANTS
    Task,       \* the user's downloads
    Rom,        \* the download of the image
    None,       \* no preference
    Size,       \* the size of the image (a bound)
    Limit,      \* how many polls without news are too many (60 in the code)
    Errors,     \* answers of the daemon that may be errors
    Scenarios,  \* see Scenario
    InGap       \* may a cancel hit between the daemon's answer and the note of the id?

\* who downloads; how many times each; how often users cancel and switch a
\* download of their own (bounds)
Scenario == [who : SUBSET {"upgrade", "ota"}, starts : Nat, cancels : Nat, toggles : Nat]

ASSUME TaskAssumption == Rom \notin Task /\ None \notin Task \cup {Rom}
ASSUME LimitAssumption == Size \in Nat \ {0} /\ Limit \in Nat \ {0} /\ InGap \in BOOLEAN
ASSUME ErrorAssumption == Errors \subseteq {"list", "add", "redo", "job"}
ASSUME ScenarioAssumption == Scenarios \subseteq Scenario

Who == {"upgrade", "ota"}

VARIABLES
    st,         \* downloadStatus of every download in the daemon
    size,       \* fileDownloadedSize of Rom
    want,       \* does the user want a download of his to run? (history)
    dtype,      \* preference DOWNLOAD_TYPE: 0 (none yet), 1 (daemon), 2 (wget)
    pausedIds,  \* preference PAUSED_IDS
    downloadId, \* preference ROM_DOWNLOAD_ID
    dl,         \* the downloaders: next statement, and local variables
    cancel,     \* cancelUpgrade: next statement
    left        \* what is left of the scenario

daemon == <<st, size>>
prefs  == <<dtype, pausedIds, downloadId>>
vars   == <<daemon, want, prefs, dl, cancel, left>>

Job    == Task \cup {Rom}
Status == {"absent", "run", "paused", "done", "failed"}
Idle   == [pc |-> "idle", ids |-> {}, hit |-> FALSE, nodata |-> 0, nomatch |-> 0, last |-> 0]
Quiet  == (\A d \in Who : dl[d].pc = "idle") /\ cancel = "idle"

TypeOK ==
    /\ st \in [Job -> Status] /\ size \in 0 .. Size
    /\ want \in [Task -> {"run", "paused"}]
    /\ dtype \in 0 .. 2 /\ pausedIds \subseteq Job /\ downloadId \in {Rom, None}
    /\ dl \in [Who -> [pc : {"idle", "type", "list", "note", "pause", "add", "redo", "id", "poll",
                             "resume", "giveup", "delete", "wget", "fetch"},
                       ids : SUBSET Job, hit : BOOLEAN, nodata : 0 .. Limit + 1,
                       nomatch : 0 .. Limit + 1, last : 0 .. Size]]
    /\ cancel \in {"idle", "abort", "delete"}
    /\ left \in Scenario

Init ==
    /\ \E w \in [Task -> {"run", "paused"}] :
          want = w /\ st = [j \in Job |-> IF j = Rom THEN "absent" ELSE w[j]]
    /\ size = 0 /\ dtype = 0 /\ pausedIds = {} /\ downloadId = None
    /\ dl = [d \in Who |-> Idle] /\ cancel = "idle"
    /\ left \in Scenarios

At(d, p)   == dl[d].pc = p
Goto(d, p) == dl' = [dl EXCEPT ![d].pc = p]
May(e)     == e \in Errors

Running         == {j \in Job : st[j] = "run"}
Pause(ids)      == [j \in Job |-> IF j \in ids /\ st[j] = "run" THEN "paused" ELSE st[j]]
Resume(ids)     == [j \in Job |-> IF j \in ids /\ st[j] = "paused" THEN "run" ELSE st[j]]
SetRom(s)       == [st EXCEPT ![Rom] = s]

-----------------------------------------------------------------------------
(***************************************************************************)
(* A download, up to the daemon's work.                                    *)
(***************************************************************************)
\* checkupgrade.lua forgets the id of the last download, otapredownload does
\* not.  An upgrade waits for a cancel, which gives up the system lock last.
Start(d) ==
    /\ At(d, "idle") /\ d \in left.who /\ left.starts > 0
    /\ d = "upgrade" => cancel = "idle"
    /\ left' = [left EXCEPT !.starts = @ - 1]
    /\ downloadId' = IF d = "upgrade" THEN None ELSE downloadId
    /\ Goto(d, "type")
    /\ UNCHANGED <<daemon, want, dtype, pausedIds, cancel>>

Type(d) ==
    /\ At(d, "type") /\ dtype' = 1 /\ Goto(d, "list")
    /\ UNCHANGED <<daemon, want, pausedIds, downloadId, cancel, left>>

\* api 503: what is running, and whether the image is there already.
List(d) ==
    /\ At(d, "list")
    /\ \/ May("list") /\ Goto(d, "wget")
       \/ dl' = [dl EXCEPT ![d] = [Idle EXCEPT !.pc = "note", !.ids = Running,
                                               !.hit = (st[Rom] = "done")]]
    /\ UNCHANGED <<daemon, want, prefs, cancel, left>>

\* _pauseDownload notes the ids first,
Note(d) ==
    /\ At(d, "note") /\ pausedIds' = dl[d].ids /\ Goto(d, "pause")
    /\ UNCHANGED <<daemon, want, dtype, downloadId, cancel, left>>
\* then pauses (api 505).
PauseAll(d) ==
    /\ At(d, "pause") /\ st' = Pause(dl[d].ids) /\ Goto(d, "add")
    /\ UNCHANGED <<size, want, prefs, cancel, left>>

\* api 504: a new download, or code 2010 for one that the daemon knows, and whose
\* file, if it was complete, may still be there.
Add(d) ==
    /\ At(d, "add")
    /\ \/ May("add") /\ Goto(d, "wget") /\ UNCHANGED daemon
       \/ st[Rom] = "absent" /\ st' = SetRom("run") /\ size' = 0 /\ Goto(d, "id")
       \/ st[Rom] # "absent" /\ UNCHANGED daemon /\ Goto(d, "redo")
       \/ dl[d].hit /\ st[Rom] = "done" /\ UNCHANGED daemon /\ Goto(d, "id")
    /\ UNCHANGED <<want, prefs, cancel, left>>

\* api 504 again, with redownload.
Redo(d) ==
    /\ At(d, "redo")
    /\ \/ May("redo") /\ Goto(d, "wget") /\ UNCHANGED daemon
       \/ st' = SetRom("run") /\ size' = 0 /\ Goto(d, "id")
    /\ UNCHANGED <<want, prefs, cancel, left>>

NoteId(d) ==
    /\ At(d, "id") /\ downloadId' = Rom /\ Goto(d, "poll")
    /\ UNCHANGED <<daemon, want, dtype, pausedIds, cancel, left>>

-----------------------------------------------------------------------------
(***************************************************************************)
(* The loop: api 503 every 3 s, and one of several ends.                   *)
(***************************************************************************)
NoData(d)  == IF dl[d].last = size THEN dl[d].nodata + 1 ELSE 0
NextStep(d) == CASE st[Rom] = "done"                         -> "resume"
                 [] st[Rom] = "failed" \/ NoData(d) > Limit -> "giveup"
                 [] OTHER                                    -> "poll"
Seen(d) ==
    /\ At(d, "poll") /\ st[Rom] # "absent"
    /\ dl' = [dl EXCEPT ![d].pc = NextStep(d), ![d].nodata = NoData(d), ![d].last = size]
    /\ UNCHANGED <<daemon, want, prefs, cancel, left>>
\* datacenterErrorCode
Broken(d) ==
    /\ At(d, "poll") /\ st[Rom] # "absent" /\ May("job")
    /\ dl' = [dl EXCEPT ![d].pc = "giveup", ![d].last = size]
    /\ UNCHANGED <<daemon, want, prefs, cancel, left>>
\* mutation: a download that is not there is waited for
UnseenForEver(d) ==
    /\ At(d, "poll") /\ (st[Rom] = "absent" \/ May("list"))
    /\ dl' = [dl EXCEPT ![d].nomatch = @ + 1]
    /\ UNCHANGED <<daemon, want, prefs, cancel, left>>
\* mutation: a daemon that does not answer is no news, good or bad
UnseenResets(d) ==
    /\ At(d, "poll") /\ (st[Rom] = "absent" \/ May("list"))
    /\ dl' = [dl EXCEPT ![d].nodata = 0,
                        ![d].nomatch = IF st[Rom] = "absent" THEN @ + 1 ELSE @,
                        ![d].pc = IF st[Rom] = "absent" /\ dl[d].nomatch + 1 > Limit THEN "giveup" ELSE "poll"]
    /\ UNCHANGED <<daemon, want, prefs, cancel, left>>
\* It is not in the lists, or there are none.
Unseen(d) ==
    /\ At(d, "poll") /\ (st[Rom] = "absent" \/ May("list"))
    /\ dl' = [dl EXCEPT ![d].nomatch = @ + 1,
                        ![d].pc = IF dl[d].nomatch + 1 > Limit THEN "giveup" ELSE "poll"]
    /\ UNCHANGED <<daemon, want, prefs, cancel, left>>

\* _resumeDownload, then success; or _resumeDownload and _deleteDownload.
Succeed(d) ==
    /\ At(d, "resume") /\ st' = Resume(dl[d].ids) /\ dl' = [dl EXCEPT ![d] = Idle]
    /\ UNCHANGED <<size, want, prefs, cancel, left>>
\* mutation: only a download that succeeds gives the others back
GiveUpOnly(d) ==
    /\ At(d, "giveup") /\ Goto(d, "delete")
    /\ UNCHANGED <<daemon, want, prefs, cancel, left>>
GiveUp(d) ==
    /\ At(d, "giveup") /\ st' = Resume(dl[d].ids) /\ Goto(d, "delete")
    /\ UNCHANGED <<size, want, prefs, cancel, left>>
\* mutation: the failed download stays in the daemon
DeleteNothing(d) ==
    /\ At(d, "delete")
    /\ dl' = [dl EXCEPT ![d] = IF dl[d].last = 0 THEN [Idle EXCEPT !.pc = "wget"] ELSE Idle]
    /\ UNCHANGED <<daemon, want, prefs, cancel, left>>
\* syncDownload tries wget if not a byte has come.
Delete(d) ==
    /\ At(d, "delete") /\ st' = SetRom("absent") /\ size' = 0
    /\ dl' = [dl EXCEPT ![d] = IF dl[d].last = 0 THEN [Idle EXCEPT !.pc = "wget"] ELSE Idle]
    /\ UNCHANGED <<want, prefs, cancel, left>>

\* _wgetDownload, from the check of the url on.
Wget(d) ==
    /\ At(d, "wget")
    /\ \/ dl' = [dl EXCEPT ![d] = Idle] /\ UNCHANGED dtype
       \/ dtype' = 2 /\ dl' = [dl EXCEPT ![d] = [Idle EXCEPT !.pc = "fetch"]]
    /\ UNCHANGED <<daemon, want, pausedIds, downloadId, cancel, left>>
\* wget has limits of its own (-t3 -T30).
Fetch(d) ==
    /\ At(d, "fetch") /\ dl' = [dl EXCEPT ![d] = Idle]
    /\ UNCHANGED <<daemon, want, prefs, cancel, left>>

-----------------------------------------------------------------------------
(***************************************************************************)
(* cancelUpgrade kills the upgrade, then cancelDownload asks the           *)
(* preferences what there is to tidy up.                                   *)
(***************************************************************************)
Kill ==
    /\ cancel = "idle" /\ left.cancels > 0 /\ ~At("upgrade", "idle")
    /\ InGap \/ ~At("upgrade", "id")
    /\ left' = [left EXCEPT !.cancels = @ - 1]
    /\ dl' = [dl EXCEPT !["upgrade"] = Idle] /\ cancel' = "abort"
    /\ UNCHANGED <<daemon, want, prefs>>
\* _cancelXunleiDownload resumes PAUSED_IDS; _cancelWgetDownload kills every wget.
Abort ==
    /\ cancel = "abort"
    /\ st' = IF dtype = 1 THEN Resume(pausedIds) ELSE st
    /\ dl' = IF dtype = 2 THEN [d \in Who |-> IF At(d, "fetch") THEN Idle ELSE dl[d]] ELSE dl
    /\ cancel' = IF dtype = 1 /\ downloadId # None THEN "delete" ELSE "idle"
    /\ UNCHANGED <<size, want, prefs, left>>
\* api 507
CancelDelete ==
    /\ cancel = "delete" /\ cancel' = "idle"
    /\ st' = SetRom("absent") /\ size' = 0
    /\ UNCHANGED <<want, prefs, dl, left>>

-----------------------------------------------------------------------------
(***************************************************************************)
(* The daemon and the user.                                                *)
(***************************************************************************)
Progress ==
    /\ st[Rom] = "run"
    /\ IF size < Size THEN size' = size + 1 /\ UNCHANGED st
                      ELSE st' = SetRom("done") /\ UNCHANGED size
    /\ UNCHANGED <<want, prefs, dl, cancel, left>>
Fail ==
    /\ st[Rom] = "run" /\ May("job") /\ st' = SetRom("failed")
    /\ UNCHANGED <<size, want, prefs, dl, cancel, left>>
\* Users look after their downloads between upgrades.
Toggle(t) ==
    /\ Quiet /\ left.toggles > 0
    /\ want' = [want EXCEPT ![t] = IF @ = "run" THEN "paused" ELSE "run"]
    /\ st' = [st EXCEPT ![t] = want'[t]]
    /\ left' = [left EXCEPT !.toggles = @ - 1]
    /\ UNCHANGED <<size, prefs, dl, cancel>>

Poll(d)     == Seen(d) \/ Broken(d) \/ Unseen(d)
Download(d) == \/ Type(d) \/ List(d) \/ Note(d) \/ PauseAll(d) \/ Add(d) \/ Redo(d) \/ NoteId(d)
               \/ Poll(d) \/ Succeed(d) \/ GiveUp(d) \/ Delete(d) \/ Wget(d) \/ Fetch(d)
Cancel      == Abort \/ CancelDelete

Next == \/ \E d \in Who : Start(d) \/ Download(d)
        \/ Kill \/ Cancel \/ Progress \/ Fail
        \/ \E t \in Task : Toggle(t)

Spec == Init /\ [][Next]_vars
\* Programs that have begun go on.  The daemon need not make any progress.
FairSpec == Spec /\ (\A d \in Who : WF_vars(Download(d))) /\ WF_vars(Cancel)

-----------------------------------------------------------------------------
(***************************************************************************)
(* Properties.                                                             *)
(***************************************************************************)
\* When nobody fetches an image any more, the user's downloads run again:
\* after success, every kind of failure in the loop, and a cancel at any step
\* (_resumeDownload, _cancelXunleiDownload).
DownloadsGivenBack == Quiet => \A t \in Task : want[t] = "run" => st[t] = "run"

\* Neither a failure nor a cancel leaves a hidden download behind, which
\* nobody would see and nobody would delete (_deleteDownload).
NothingLeftRunning == Quiet => st[Rom] \notin {"run", "paused", "failed"}

\* A download of the image that was paused, by another one's upgrade or by a
\* restart of the daemon, ends for lack of news: syncDownload always returns.
DownloadEnds == \A d \in Who : ~At(d, "idle") ~> At(d, "idle")

=============================================================================
