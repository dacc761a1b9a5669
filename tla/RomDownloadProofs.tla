------------------------- MODULE RomDownloadProofs -------------------------
(***************************************************************************)
(* Proofs about RomDownload, for any downloads of the user, any size of    *)
(* the image, any limit and any scenarios: its types, that the user gets   *)
(* his downloads back, and that no hidden download is left behind.         *)
(***************************************************************************)
EXTENDS RomDownload, TLAPS

-----------------------------------------------------------------------------
(***************************************************************************)
(* Types.  The counters are bounded because the loop gives up when one of  *)
(* them passes the limit.                                                  *)
(***************************************************************************)
Pc == {"idle", "type", "list", "note", "pause", "add", "redo", "id", "poll",
       "resume", "giveup", "delete", "wget", "fetch"}
Downloader == [pc : Pc, ids : SUBSET Job, hit : BOOLEAN, nodata : 0 .. Limit + 1,
               nomatch : 0 .. Limit + 1, last : 0 .. Size]

Bounded(r) == r.pc \notin {"resume", "giveup", "delete"} => r.nodata <= Limit /\ r.nomatch <= Limit

DaemonTyped == st \in [Job -> Status] /\ size \in 0 .. Size
UserTyped   == want \in [Task -> {"run", "paused"}]
PrefsTyped  == dtype \in 0 .. 2 /\ pausedIds \subseteq Job /\ downloadId \in {Rom, None}
DlTyped     == dl \in [Who -> Downloader] /\ \A d \in Who : Bounded(dl[d])
CancelTyped == cancel \in {"idle", "abort", "delete"}
LeftTyped   == left \in Scenario
AllTyped    == DaemonTyped /\ UserTyped /\ PrefsTyped /\ DlTyped /\ CancelTyped /\ LeftTyped

\* What is proved by parts is the type invariant, and the bound of the counters.
LEMMA AllTypedTyped == AllTyped => TypeOK
  BY DEF AllTyped, DaemonTyped, UserTyped, PrefsTyped, DlTyped, CancelTyped, LeftTyped, TypeOK,
         Downloader, Pc

\* A downloader that does nothing.
LEMMA IdleTyped == Idle \in Downloader /\ Bounded(Idle) /\ Idle.pc = "idle"
  BY LimitAssumption DEF Idle, Downloader, Bounded, Pc

\* One downloader changes.
LEMMA DlChanged == ASSUME DlTyped, NEW d \in Who, NEW r \in Downloader, Bounded(r),
                          dl' = [dl EXCEPT ![d] = r]
                   PROVE  DlTyped'
  BY DEF DlTyped

\* One downloader goes on, within the loop's bounds or out of the loop.
LEMMA DlGone == ASSUME DlTyped, NEW d \in Who, NEW pc \in Pc, Goto(d, pc),
                       dl[d].pc \notin {"resume", "giveup", "delete"} \/ pc \in {"resume", "giveup", "delete"}
                PROVE  DlTyped'
<1> DEFINE r == [dl[d] EXCEPT !.pc = pc]
<1>1. dl[d] \in Downloader /\ Bounded(dl[d])
  BY DEF DlTyped
<1>2. r \in Downloader /\ r.pc = pc /\ r.nodata = dl[d].nodata /\ r.nomatch = dl[d].nomatch
  BY <1>1 DEF Downloader
<1>3. dl' = [dl EXCEPT ![d] = r]
  BY DEF Goto
<1> HIDE DEF r
<1>4. Bounded(r)
  BY <1>1, <1>2 DEF Bounded
<1> QED
  BY <1>2, <1>3, <1>4, DlChanged

\* Whatever is paused, resumed, added or deleted, a download has a status.
LEMMA StChanged == ASSUME DaemonTyped
                   PROVE  /\ \A ids : Pause(ids) \in [Job -> Status] /\ Resume(ids) \in [Job -> Status]
                          /\ \A s \in Status : SetRom(s) \in [Job -> Status]
  BY DEF DaemonTyped, Pause, Resume, SetRom, Status, Job

\* The steps of a download up to the loop keep the types.
LEMMA BeginTypes == ASSUME AllTyped, NEW d \in Who,
                           \/ Start(d) \/ Type(d) \/ List(d) \/ Note(d) \/ PauseAll(d)
                           \/ Add(d) \/ Redo(d) \/ NoteId(d)
                    PROVE  AllTyped'
<1> USE DEF AllTyped
<1>1. CASE Start(d)
  <2>1. DlTyped'
    BY <1>1, DlGone DEF Start, At, Pc
  <2>2. LeftTyped'
    BY <1>1 DEF Start, LeftTyped, Scenario
  <2> QED
    BY <1>1, <2>1, <2>2 DEF Start, DaemonTyped, UserTyped, PrefsTyped, CancelTyped, daemon
<1>2. CASE Type(d)
  <2>1. DlTyped'
    BY <1>2, DlGone DEF Type, At, Pc
  <2> QED
    BY <1>2, <2>1 DEF Type, DaemonTyped, UserTyped, PrefsTyped, CancelTyped, LeftTyped, daemon
<1>3. CASE List(d)
  <2>1. DlTyped'
    <3>1. CASE Goto(d, "wget")
      BY <1>3, <3>1, DlGone DEF List, At, Pc
    <3>2. CASE ~Goto(d, "wget")
      <4> DEFINE r == [Idle EXCEPT !.pc = "note", !.ids = Running, !.hit = (st[Rom] = "done")]
      <4>1. dl' = [dl EXCEPT ![d] = r]
        BY <1>3, <3>2 DEF List
      <4>2. r \in Downloader /\ r.nodata = 0 /\ r.nomatch = 0
        BY IdleTyped DEF Downloader, Pc, Running, Idle
      <4> HIDE DEF r
      <4>3. Bounded(r)
        BY <4>2, LimitAssumption DEF Bounded
      <4> QED
        BY <4>1, <4>2, <4>3, DlChanged
    <3> QED
      BY <3>1, <3>2
  <2> QED
    BY <1>3, <2>1 DEF List, DaemonTyped, UserTyped, PrefsTyped, CancelTyped, LeftTyped, daemon, prefs
<1>4. CASE Note(d)
  <2>1. DlTyped'
    BY <1>4, DlGone DEF Note, At, Pc
  <2>2. PrefsTyped'
    BY <1>4 DEF Note, PrefsTyped, DlTyped, Downloader
  <2> QED
    BY <1>4, <2>1, <2>2 DEF Note, DaemonTyped, UserTyped, CancelTyped, LeftTyped, daemon
<1>5. CASE PauseAll(d)
  <2>1. DlTyped'
    BY <1>5, DlGone DEF PauseAll, At, Pc
  <2>2. DaemonTyped'
    BY <1>5, StChanged DEF PauseAll, DaemonTyped
  <2> QED
    BY <1>5, <2>1, <2>2 DEF PauseAll, UserTyped, PrefsTyped, CancelTyped, LeftTyped, prefs
<1>6. CASE Add(d)
  <2>1. DlTyped'
    BY <1>6, DlGone DEF Add, At, Pc
  <2>2. DaemonTyped'
    BY <1>6, StChanged, LimitAssumption DEF Add, DaemonTyped, daemon, Status
  <2> QED
    BY <1>6, <2>1, <2>2 DEF Add, UserTyped, PrefsTyped, CancelTyped, LeftTyped, prefs
<1>7. CASE Redo(d)
  <2>1. DlTyped'
    BY <1>7, DlGone DEF Redo, At, Pc
  <2>2. DaemonTyped'
    BY <1>7, StChanged, LimitAssumption DEF Redo, DaemonTyped, daemon, Status
  <2> QED
    BY <1>7, <2>1, <2>2 DEF Redo, UserTyped, PrefsTyped, CancelTyped, LeftTyped, prefs
<1>8. CASE NoteId(d)
  <2>1. DlTyped'
    BY <1>8, DlGone DEF NoteId, At, Pc
  <2> QED
    BY <1>8, <2>1 DEF NoteId, DaemonTyped, UserTyped, PrefsTyped, CancelTyped, LeftTyped, daemon
<1> QED
  BY <1>1, <1>2, <1>3, <1>4, <1>5, <1>6, <1>7, <1>8

\* So do those of the loop, which counts no further than the limit,
LEMMA PollTypes == ASSUME AllTyped, NEW d \in Who, Poll(d) PROVE AllTyped'
<1> USE DEF AllTyped
<1>0. dl[d] \in Downloader /\ Bounded(dl[d]) /\ size \in 0 .. Size /\ Limit \in Nat
  BY LimitAssumption DEF DlTyped, DaemonTyped
<1>1. dl[d].pc = "poll" => dl[d].nodata <= Limit /\ dl[d].nomatch <= Limit
  BY <1>0 DEF Bounded
<1>2. CASE Seen(d)
  <2> DEFINE r == [dl[d] EXCEPT !.pc = NextStep(d), !.nodata = NoData(d), !.last = size]
  <2>1. dl' = [dl EXCEPT ![d] = r]
    BY <1>2 DEF Seen
  <2>2. NoData(d) \in 0 .. Limit + 1
    BY <1>0, <1>1, <1>2 DEF Seen, At, NoData, Downloader
  <2>3. NextStep(d) \in {"poll", "resume", "giveup"} /\ (NextStep(d) = "poll" => NoData(d) <= Limit)
    BY <1>0, <2>2 DEF NextStep
  <2>4. /\ r \in Downloader /\ r.pc = NextStep(d)
        /\ r.nodata = NoData(d) /\ r.nomatch = dl[d].nomatch
    BY <1>0, <2>2, <2>3 DEF Downloader, Pc
  <2> HIDE DEF r
  <2>5. Bounded(r)
    BY <1>1, <1>2, <2>3, <2>4 DEF Bounded, Seen, At
  <2>6. DlTyped'
    BY <2>1, <2>4, <2>5, DlChanged
  <2> QED
    BY <1>2, <2>6 DEF Seen, DaemonTyped, UserTyped, PrefsTyped, CancelTyped, LeftTyped, daemon, prefs
<1>3. CASE Broken(d)
  <2> DEFINE r == [dl[d] EXCEPT !.pc = "giveup", !.last = size]
  <2>1. dl' = [dl EXCEPT ![d] = r]
    BY <1>3 DEF Broken
  <2>2. r \in Downloader /\ r.pc = "giveup"
    BY <1>0 DEF Downloader, Pc
  <2> HIDE DEF r
  <2>3. DlTyped'
    BY <2>1, <2>2, DlChanged DEF Bounded
  <2> QED
    BY <1>3, <2>3 DEF Broken, DaemonTyped, UserTyped, PrefsTyped, CancelTyped, LeftTyped, daemon, prefs
<1>4. CASE Unseen(d)
  <2> DEFINE n == dl[d].nomatch + 1
             p == IF dl[d].nomatch + 1 > Limit THEN "giveup" ELSE "poll"
             r == [dl[d] EXCEPT !.nomatch = n, !.pc = p]
  <2>1. dl' = [dl EXCEPT ![d] = r]
    BY <1>4 DEF Unseen
  <2>2. n \in 0 .. Limit + 1 /\ p \in Pc /\ (p = "poll" => n <= Limit) /\ p \in {"giveup", "poll"}
    BY <1>0, <1>1, <1>4 DEF Unseen, At, Downloader, Pc
  <2> HIDE DEF n, p
  <2>3. r \in Downloader /\ r.pc = p /\ r.nomatch = n /\ r.nodata = dl[d].nodata
    BY <1>0, <2>2 DEF Downloader
  <2> HIDE DEF r
  <2>4. Bounded(r)
    BY <1>1, <1>4, <2>2, <2>3 DEF Bounded, Unseen, At
  <2>5. DlTyped'
    BY <2>1, <2>3, <2>4, DlChanged
  <2> QED
    BY <1>4, <2>5 DEF Unseen, DaemonTyped, UserTyped, PrefsTyped, CancelTyped, LeftTyped, daemon, prefs
<1> QED
  BY <1>2, <1>3, <1>4 DEF Poll

\* and those of every end.
LEMMA EndTypes == ASSUME AllTyped, NEW d \in Who,
                         Succeed(d) \/ GiveUp(d) \/ Delete(d) \/ Wget(d) \/ Fetch(d)
                  PROVE  AllTyped'
<1> USE DEF AllTyped
<1>0. ASSUME NEW pc \in {"wget", "fetch"}
      PROVE  [Idle EXCEPT !.pc = pc] \in Downloader /\ Bounded([Idle EXCEPT !.pc = pc])
  <2> DEFINE r == [Idle EXCEPT !.pc = pc]
  <2>1. r \in Downloader /\ r.nodata = 0 /\ r.nomatch = 0
    BY <1>0, IdleTyped DEF Idle, Downloader, Pc
  <2> HIDE DEF r
  <2>2. r \in Downloader /\ Bounded(r)
    BY <2>1, LimitAssumption DEF Bounded
  <2> QED
    BY <2>2 DEF r
<1>1. CASE Succeed(d)
  <2>1. DlTyped'
    BY <1>1, IdleTyped, DlChanged DEF Succeed
  <2>2. DaemonTyped'
    BY <1>1, StChanged DEF Succeed, DaemonTyped
  <2> QED
    BY <1>1, <2>1, <2>2 DEF Succeed, UserTyped, PrefsTyped, CancelTyped, LeftTyped, prefs
<1>2. CASE GiveUp(d)
  <2>1. DlTyped'
    BY <1>2, DlGone DEF GiveUp, At, Pc
  <2>2. DaemonTyped'
    BY <1>2, StChanged DEF GiveUp, DaemonTyped
  <2> QED
    BY <1>2, <2>1, <2>2 DEF GiveUp, UserTyped, PrefsTyped, CancelTyped, LeftTyped, prefs
<1>3. CASE Delete(d)
  <2>1. DlTyped'
    BY <1>0, <1>3, IdleTyped, DlChanged DEF Delete
  <2>2. DaemonTyped'
    BY <1>3, StChanged, LimitAssumption DEF Delete, DaemonTyped, Status
  <2> QED
    BY <1>3, <2>1, <2>2 DEF Delete, UserTyped, PrefsTyped, CancelTyped, LeftTyped, prefs
<1>4. CASE Wget(d)
  <2>1. DlTyped'
    BY <1>0, <1>4, IdleTyped, DlChanged DEF Wget
  <2> QED
    BY <1>4, <2>1 DEF Wget, DaemonTyped, UserTyped, PrefsTyped, CancelTyped, LeftTyped, daemon
<1>5. CASE Fetch(d)
  <2>1. DlTyped'
    BY <1>5, IdleTyped, DlChanged DEF Fetch
  <2> QED
    BY <1>5, <2>1 DEF Fetch, DaemonTyped, UserTyped, PrefsTyped, CancelTyped, LeftTyped, daemon, prefs
<1> QED
  BY <1>1, <1>2, <1>3, <1>4, <1>5

\* A cancel, the daemon, the user, and no step at all.
LEMMA OtherTypes == ASSUME AllTyped,
                           \/ Kill \/ Cancel \/ Progress \/ Fail \/ UNCHANGED vars
                           \/ \E t \in Task : Toggle(t)
                    PROVE  AllTyped'
<1> USE DEF AllTyped
<1>1. CASE Kill
  <2>1. DlTyped'
    BY <1>1, IdleTyped, DlChanged DEF Kill, Who
  <2>2. LeftTyped'
    BY <1>1 DEF Kill, LeftTyped, Scenario
  <2> QED
    BY <1>1, <2>1, <2>2 DEF Kill, DaemonTyped, UserTyped, PrefsTyped, CancelTyped, daemon, prefs
<1>2. CASE Abort
  <2>1. DlTyped'
    BY <1>2, IdleTyped DEF Abort, DlTyped
  <2>2. DaemonTyped'
    BY <1>2, StChanged DEF Abort, DaemonTyped
  <2> QED
    BY <1>2, <2>1, <2>2 DEF Abort, UserTyped, PrefsTyped, CancelTyped, LeftTyped, prefs
<1>3. CASE CancelDelete
  <2>1. DaemonTyped'
    BY <1>3, StChanged, LimitAssumption DEF CancelDelete, DaemonTyped, Status
  <2> QED
    BY <1>3, <2>1 DEF CancelDelete, UserTyped, PrefsTyped, DlTyped, CancelTyped, LeftTyped, prefs
<1>4. CASE Progress \/ Fail
  <2>1. st' \in [Job -> Status]
    BY <1>4, StChanged DEF Progress, Fail, DaemonTyped, Status
  <2>2. size' \in 0 .. Size
    BY <1>4, LimitAssumption DEF Progress, Fail, DaemonTyped
  <2>3. DaemonTyped'
    BY <2>1, <2>2 DEF DaemonTyped
  <2> QED
    BY <1>4, <2>3 DEF Progress, Fail, UserTyped, PrefsTyped, DlTyped, CancelTyped, LeftTyped, prefs
<1>5. ASSUME NEW t \in Task, Toggle(t) PROVE AllTyped'
  <2>1. UserTyped'
    BY <1>5 DEF Toggle, UserTyped
  <2>2. DaemonTyped'
    <3>1. want'[t] \in Status
      BY <2>1 DEF UserTyped, Status
    <3> QED
      BY <1>5, <3>1 DEF Toggle, DaemonTyped
  <2>3. LeftTyped'
    BY <1>5 DEF Toggle, LeftTyped, Scenario
  <2> QED
    BY <1>5, <2>1, <2>2, <2>3 DEF Toggle, PrefsTyped, DlTyped, CancelTyped, prefs
<1>6. CASE UNCHANGED vars
  BY <1>6 DEF vars, daemon, prefs, DaemonTyped, UserTyped, PrefsTyped, DlTyped, CancelTyped, LeftTyped
<1> QED
  BY <1>1, <1>2, <1>3, <1>4, <1>5, <1>6 DEF Cancel

\* The types hold at the start.
LEMMA TypedInit == Init => AllTyped
<1> SUFFICES ASSUME Init PROVE AllTyped
  OBVIOUS
<1>1. DaemonTyped /\ UserTyped
  BY LimitAssumption, TaskAssumption DEF Init, DaemonTyped, UserTyped, Job, Status
<1>2. DlTyped
  BY IdleTyped DEF Init, DlTyped
<1> QED
  BY <1>1, <1>2, ScenarioAssumption DEF Init, AllTyped, PrefsTyped, CancelTyped, LeftTyped

\* No step breaks them.
LEMMA TypedNext == AllTyped /\ [Next]_vars => AllTyped'
  BY BeginTypes, PollTypes, EndTypes, OtherTypes DEF Next, Download

\* Every variable has its type, and the loop's counters their bounds.
THEOREM TypedInvariant == Spec => []AllTyped
  BY TypedInit, TypedNext, PTL DEF Spec

\* Every reachable state of RomDownload is well typed: among others no counter
\* of the loop passes its limit by more than one.
THEOREM TypeCorrect == Spec => []TypeOK
  BY TypedInvariant, AllTypedTyped, PTL

-----------------------------------------------------------------------------
(***************************************************************************)
(* What one step of a downloader does to it.                               *)
(***************************************************************************)
Working == {"add", "redo", "id", "poll", "resume", "giveup"}

\* Where each statement leads, and that the ids it has paused stay with it.
LEMMA Steps == ASSUME AllTyped, NEW d \in Who
               PROVE  /\ Type(d)     => dl'[d].pc = "list"
                      /\ List(d)     => dl'[d].pc \in {"note", "wget"}
                      /\ Note(d)     => dl'[d].pc = "pause" /\ dl'[d].ids = dl[d].ids
                      /\ PauseAll(d) => dl'[d].pc = "add" /\ dl'[d].ids = dl[d].ids
                      /\ Add(d)      => /\ dl'[d].pc \in {"id", "redo"} \/ (May("add") /\ dl'[d].pc = "wget" /\ st' = st)
                                        /\ dl'[d].ids = dl[d].ids
                      /\ Redo(d)     => /\ dl'[d].pc = "id" \/ (May("redo") /\ dl'[d].pc = "wget" /\ st' = st)
                                        /\ dl'[d].ids = dl[d].ids
                      /\ NoteId(d)   => dl'[d].pc = "poll" /\ dl'[d].ids = dl[d].ids
                      /\ Poll(d)     => /\ dl'[d].pc \in {"poll", "giveup"} \/ (dl'[d].pc = "resume" /\ st[Rom] = "done")
                                        /\ dl'[d].ids = dl[d].ids
                      /\ GiveUp(d)   => dl'[d].pc = "delete"
                      /\ Succeed(d) \/ Delete(d) \/ Wget(d) \/ Fetch(d) => dl'[d].pc \in {"idle", "wget", "fetch"}
<1>0. dl \in [Who -> Downloader]
  BY DEF AllTyped, DlTyped
<1>g. ASSUME NEW pc, Goto(d, pc) PROVE dl'[d].pc = pc /\ dl'[d].ids = dl[d].ids
  BY <1>0, <1>g DEF Goto, Downloader
<1>1. Type(d) => dl'[d].pc = "list"
  BY <1>g DEF Type
<1>2. List(d) => dl'[d].pc \in {"note", "wget"}
  <2>1. ASSUME NEW i, NEW h, dl' = [dl EXCEPT ![d] = [Idle EXCEPT !.pc = "note", !.ids = i, !.hit = h]]
        PROVE  dl'[d].pc = "note"
    BY <1>0, <2>1 DEF Idle
  <2> QED
    BY <1>g, <2>1 DEF List
<1>3. /\ Note(d)     => dl'[d].pc = "pause" /\ dl'[d].ids = dl[d].ids
      /\ PauseAll(d) => dl'[d].pc = "add" /\ dl'[d].ids = dl[d].ids
      /\ NoteId(d)   => dl'[d].pc = "poll" /\ dl'[d].ids = dl[d].ids
      /\ GiveUp(d)   => dl'[d].pc = "delete"
  BY <1>g DEF Note, PauseAll, NoteId, GiveUp
<1>4. Add(d) => /\ dl'[d].pc \in {"id", "redo"} \/ (May("add") /\ dl'[d].pc = "wget" /\ st' = st)
                /\ dl'[d].ids = dl[d].ids
  BY <1>g DEF Add, daemon
<1>5. Redo(d) => /\ dl'[d].pc = "id" \/ (May("redo") /\ dl'[d].pc = "wget" /\ st' = st)
                 /\ dl'[d].ids = dl[d].ids
  BY <1>g DEF Redo, daemon
<1>6. Poll(d) => /\ dl'[d].pc \in {"poll", "giveup"} \/ (dl'[d].pc = "resume" /\ st[Rom] = "done")
                 /\ dl'[d].ids = dl[d].ids
  <2>1. NextStep(d) \in {"poll", "giveup"} \/ (NextStep(d) = "resume" /\ st[Rom] = "done")
    BY DEF NextStep
  <2>2. Seen(d) => dl'[d].pc = NextStep(d) /\ dl'[d].ids = dl[d].ids
    BY <1>0 DEF Seen, Downloader
  <2>3. Broken(d) => dl'[d].pc = "giveup" /\ dl'[d].ids = dl[d].ids
    BY <1>0 DEF Broken, Downloader
  <2>4. Unseen(d) => dl'[d].pc \in {"poll", "giveup"} /\ dl'[d].ids = dl[d].ids
    BY <1>0 DEF Unseen, Downloader
  <2> QED
    BY <2>1, <2>2, <2>3, <2>4 DEF Poll
<1>7. Succeed(d) \/ Delete(d) \/ Wget(d) \/ Fetch(d) => dl'[d].pc \in {"idle", "wget", "fetch"}
  <2>1. ASSUME NEW r \in {Idle, [Idle EXCEPT !.pc = "wget"], [Idle EXCEPT !.pc = "fetch"]},
               dl' = [dl EXCEPT ![d] = r]
        PROVE  dl'[d].pc \in {"idle", "wget", "fetch"}
    BY <1>0, <2>1 DEF Idle
  <2> QED
    BY <2>1 DEF Succeed, Delete, Wget, Fetch
<1> QED
  BY <1>1, <1>2, <1>3, <1>4, <1>5, <1>6, <1>7

\* A downloader at work leaves the other one, the user and a cancel alone.
LEMMA OneSteps == ASSUME AllTyped, NEW d \in Who, Download(d)
                  PROVE  /\ \A e \in Who \ {d} : dl'[e] = dl[e]
                         /\ want' = want /\ cancel' = cancel /\ left' = left /\ ~At(d, "idle")
<1>1. ASSUME NEW r, dl' = [dl EXCEPT ![d] = r] PROVE \A e \in Who \ {d} : dl'[e] = dl[e]
  BY <1>1 DEF AllTyped, DlTyped
<1>2. ASSUME NEW pc, Goto(d, pc) PROVE \A e \in Who \ {d} : dl'[e] = dl[e]
  BY <1>2 DEF AllTyped, DlTyped, Goto
<1>3. ASSUME Poll(d) PROVE \A e \in Who \ {d} : dl'[e] = dl[e]
  BY <1>3 DEF AllTyped, DlTyped, Poll, Seen, Broken, Unseen
<1>4. want' = want /\ cancel' = cancel /\ left' = left /\ ~At(d, "idle")
  BY DEF Download, Type, List, Note, PauseAll, Add, Redo, NoteId, Poll, Seen, Broken, Unseen,
         Succeed, GiveUp, Delete, Wget, Fetch, At
<1> QED
  BY <1>1, <1>2, <1>3, <1>4 DEF Download, Type, List, Note, PauseAll, Add, Redo, NoteId,
     Succeed, GiveUp, Delete, Wget, Fetch

-----------------------------------------------------------------------------
(***************************************************************************)
(* Where users can cancel only the upgrade downloads, and while they do    *)
(* nobody does; so a cancel finds in the preferences what that upgrade put *)
(* there.  An hourly download at the same time would overwrite them.       *)
(***************************************************************************)
Uncrossed == \A s \in Scenarios : Who \subseteq s.who => s.cancels = 0

Alone ==
    /\ cancel # "idle" \/ left.cancels > 0 => ~(Who \subseteq left.who)
    /\ \A d \in Who : ~At(d, "idle") => d \in left.who
    /\ cancel # "idle" => "upgrade" \in left.who /\ At("upgrade", "idle")

Tidy    == {"poll", "resume", "giveup", "delete"}
Marked  == LET u == dl["upgrade"] IN left.cancels > 0 =>
               /\ u.pc \in {"list", "note", "pause", "delete"} \cup Working => dtype = 1
               /\ u.pc \in {"pause"} \cup Working => pausedIds = u.ids
               /\ u.pc \in Tidy => downloadId = Rom

\* Whoever downloads, starts or is killed does so with no cancel under way.
LEMMA NoCancel == ASSUME AllTyped, Alone, NEW d \in Who, Start(d) \/ Download(d) PROVE cancel = "idle"
<1>1. d \in left.who
  BY OneSteps DEF Alone, Start
<1>2. CASE Start(d)
  BY <1>1, <1>2 DEF Alone, Start, Who
<1>3. CASE Download(d)
  BY <1>1, <1>3, OneSteps DEF Alone, Who
<1> QED
  BY <1>2, <1>3

\* With a cancel still possible, or under way, the hourly download is idle when
\* the upgrade is not, or the cancel is not through.
LEMMA OtaIdle == ASSUME AllTyped, Alone, cancel # "idle" \/ (left.cancels > 0 /\ ~At("upgrade", "idle"))
                 PROVE  At("ota", "idle") /\ "upgrade" \in left.who
  BY DEF Alone, Who

\* Downloads start for who is in the scenario, and cancels are for who runs.
LEMMA AloneNext == AllTyped /\ Alone /\ [Next]_vars => Alone'
<1> SUFFICES ASSUME AllTyped, Alone, [Next]_vars PROVE Alone'
  OBVIOUS
<1>0. dl \in [Who -> Downloader] /\ left \in Scenario
  BY DEF AllTyped, DlTyped, LeftTyped
<1>1. ASSUME NEW d \in Who, Start(d) PROVE Alone'
  <2>1. cancel = "idle" /\ cancel' = "idle"
    BY <1>1, NoCancel DEF Start
  <2>2. left'.who = left.who /\ left'.cancels = left.cancels /\ d \in left.who
    BY <1>0, <1>1 DEF Start, Scenario
  <2>3. \A e \in Who \ {d} : dl'[e] = dl[e]
    BY <1>0, <1>1 DEF Start, Goto
  <2> QED
    BY <2>1, <2>2, <2>3 DEF Alone, At
<1>2. ASSUME NEW d \in Who, Download(d) PROVE Alone'
  <2>1. cancel = "idle"
    BY <1>2, NoCancel
  <2> QED
    BY <1>2, <2>1, OneSteps DEF Alone, At
<1>3. CASE Kill
  <2>1. /\ left'.who = left.who /\ left.cancels > 0 /\ cancel' = "abort" /\ ~At("upgrade", "idle")
        /\ dl'["upgrade"] = Idle /\ dl'["ota"] = dl["ota"]
    BY <1>0, <1>3 DEF Kill, Scenario, Who
  <2> QED
    BY <2>1, IdleTyped DEF Alone, At, Who
<1>4. CASE Cancel
  <2>1. left' = left /\ cancel # "idle"
    BY <1>4 DEF Cancel, Abort, CancelDelete
  <2>2. \A d \in Who : dl'[d] = dl[d] \/ dl'[d] = Idle
    BY <1>0, <1>4 DEF Cancel, Abort, CancelDelete
  <2> QED
    BY <2>1, <2>2, IdleTyped DEF Alone, At, Who
<1>5. CASE Progress \/ Fail \/ UNCHANGED vars
  BY <1>5 DEF Progress, Fail, vars, Alone, At
<1>6. ASSUME NEW t \in Task, Toggle(t) PROVE Alone'
  <2>1. left'.who = left.who /\ left'.cancels = left.cancels /\ dl' = dl /\ cancel' = cancel
    BY <1>0, <1>6 DEF Toggle, Scenario
  <2> QED
    BY <2>1 DEF Alone, At
<1> QED
  BY <1>1, <1>2, <1>3, <1>4, <1>5, <1>6 DEF Next

\* The preferences are those of the upgrade that a cancel may hit.
LEMMA MarkedNext == AllTyped /\ Alone /\ Marked /\ [Next]_vars => Marked'
<1> SUFFICES ASSUME AllTyped, Alone, Marked, [Next]_vars, left'.cancels > 0 PROVE Marked'
  BY DEF Marked
<1>0. dl \in [Who -> Downloader] /\ left \in Scenario /\ "upgrade" \in Who /\ "ota" \in Who
  BY DEF AllTyped, DlTyped, LeftTyped, Who
<1>i. ASSUME dl'["upgrade"].pc \in {"idle", "type", "wget", "fetch"} PROVE Marked'
  BY <1>i DEF Marked, Working, Tidy
<1>1. ASSUME NEW d \in Who, Start(d) PROVE Marked'
  <2>1. d \in left.who /\ left.cancels > 0 /\ dl' = [dl EXCEPT ![d].pc = "type"]
    BY <1>0, <1>1 DEF Start, Scenario, Goto
  <2>2. CASE d = "upgrade"
    BY <1>0, <1>i, <2>1, <2>2 DEF Downloader
  <2>3. CASE d = "ota"
    <3>1. dl'["upgrade"] = dl["upgrade"] /\ At("upgrade", "idle")
      BY <1>0, <2>1, <2>3 DEF Alone, Who
    <3> QED
      BY <1>i, <3>1 DEF At
  <2> QED
    BY <2>2, <2>3 DEF Who
<1>2. ASSUME Download("ota") PROVE Marked'
  <2>1. dl'["upgrade"] = dl["upgrade"] /\ ~At("ota", "idle") /\ left' = left
    BY <1>0, <1>2, OneSteps
  <2>2. At("upgrade", "idle")
    BY <2>1, OtaIdle
  <2> QED
    BY <1>i, <2>1, <2>2 DEF At
<1>3. ASSUME Download("upgrade") PROVE Marked'
  <2>0. left.cancels > 0
    BY <1>0, <1>3, OneSteps
  <2>1. CASE Type("upgrade")
    BY <1>0, <2>1, Steps DEF Type, Marked, Working, Tidy
  <2>2. CASE List("upgrade")
    BY <1>0, <2>0, <2>2, Steps DEF List, At, prefs, Marked, Working, Tidy
  <2>3. CASE Note("upgrade")
    BY <1>0, <2>0, <2>3, Steps DEF Note, At, Marked, Working, Tidy
  <2>4. CASE PauseAll("upgrade") \/ Add("upgrade") \/ Redo("upgrade")
    BY <1>0, <2>0, <2>4, Steps DEF PauseAll, Add, Redo, At, prefs, Marked, Working, Tidy
  <2>5. CASE NoteId("upgrade")
    BY <1>0, <2>0, <2>5, Steps DEF NoteId, At, Marked, Working, Tidy
  <2>6. CASE Poll("upgrade")
    <3>1. UNCHANGED prefs /\ dl["upgrade"].pc = "poll"
      BY <2>6 DEF Poll, Seen, Broken, Unseen, At
    <3> QED
      BY <1>0, <2>0, <2>6, <3>1, Steps DEF prefs, Marked, Working, Tidy
  <2>7. CASE GiveUp("upgrade")
    BY <1>0, <2>0, <2>7, Steps DEF GiveUp, At, prefs, Marked, Working, Tidy
  <2>8. CASE Succeed("upgrade") \/ Delete("upgrade") \/ Wget("upgrade") \/ Fetch("upgrade")
    BY <1>0, <1>i, <2>8, Steps
  <2> QED
    BY <1>3, <2>1, <2>2, <2>3, <2>4, <2>5, <2>6, <2>7, <2>8 DEF Download
<1>4. CASE Kill
  BY <1>0, <1>4, <1>i, IdleTyped DEF Kill
<1>5. CASE Cancel
  <2>1. left' = left /\ UNCHANGED prefs /\ (dl'["upgrade"] = dl["upgrade"] \/ dl'["upgrade"] = Idle)
    BY <1>0, <1>5 DEF Cancel, Abort, CancelDelete
  <2> QED
    BY <1>i, <2>1, IdleTyped DEF Marked, prefs
<1>6. CASE Progress \/ Fail \/ UNCHANGED vars
  BY <1>6 DEF Progress, Fail, vars, prefs, Marked
<1>7. ASSUME NEW t \in Task, Toggle(t) PROVE Marked'
  BY <1>0, <1>7 DEF Toggle, prefs, Scenario, Marked
<1> QED
  BY <1>1, <1>2, <1>3, <1>4, <1>5, <1>6, <1>7 DEF Next, Who

-----------------------------------------------------------------------------
(***************************************************************************)
(* DownloadsGivenBack.  A download that the user wants and that does not   *)
(* run is paused, and someone still knows it: a downloader on the way to   *)
(* one of its two resumes, or the cancel of one, by PAUSED_IDS.  An error  *)
(* of api 504 would go on with wget, which forgets what was paused.        *)
(***************************************************************************)
Holds(t)  == \E d \in Who : t \in dl[d].ids /\ dl[d].pc \in Working
Noted(t)  == cancel = "abort" /\ dtype = 1 /\ t \in pausedIds
Given     == \A t \in Task : want[t] = "run" /\ st[t] # "run" => st[t] = "paused" /\ (Holds(t) \/ Noted(t))

\* What a downloader pauses it knows, and what it forgets it has resumed.
LEMMA GivenDownload == ASSUME Errors \cap {"add", "redo"} = {}, AllTyped, Alone, Given,
                              NEW d \in Who, Download(d), NEW t \in Task, want'[t] = "run", st'[t] # "run"
                       PROVE  st'[t] = "paused" /\ Holds(t)'
<1>0. /\ dl \in [Who -> Downloader] /\ st \in [Job -> Status] /\ t \in Job /\ t # Rom
      /\ cancel = "idle" /\ want' = want /\ \A e \in Who \ {d} : dl'[e] = dl[e]
  BY TaskAssumption, NoCancel, OneSteps DEF AllTyped, DlTyped, DaemonTyped, Job
<1>1. st[t] # "run" => st[t] = "paused" /\ Holds(t)
  BY <1>0 DEF Given, Noted
<1>2. ASSUME Holds(t), dl'[d].pc \in Working \/ dl[d].pc \notin Working,
             dl'[d].ids = dl[d].ids \/ dl[d].pc \notin Working
      PROVE  Holds(t)'
  BY <1>0, <1>2 DEF Holds
<1>3. ASSUME st' = st \/ \E s \in Status : st' = SetRom(s) PROVE st'[t] = st[t]
  BY <1>0, <1>3 DEF SetRom
<1>4. CASE Type(d) \/ List(d) \/ Note(d) \/ Delete(d) \/ Wget(d) \/ Fetch(d)
  <2>1. st'[t] = st[t]
    BY <1>3, <1>4 DEF Type, List, Note, Delete, Wget, Fetch, daemon, Status
  <2>2. dl[d].pc \notin Working
    BY <1>4 DEF Type, List, Note, Delete, Wget, Fetch, At, Working
  <2> QED
    BY <1>1, <1>2, <2>1, <2>2
<1>5. CASE PauseAll(d)
  <2>1. dl'[d].pc = "add" /\ dl'[d].ids = dl[d].ids /\ dl[d].pc = "pause"
    BY <1>5, Steps DEF PauseAll, At
  <2>2. st'[t] = IF t \in dl[d].ids /\ st[t] = "run" THEN "paused" ELSE st[t]
    BY <1>0, <1>5 DEF PauseAll, Pause
  <2>3. CASE st[t] = "run"
    BY <2>1, <2>2, <2>3 DEF Holds, Working
  <2>4. CASE st[t] # "run"
    BY <1>1, <1>2, <2>1, <2>2, <2>4 DEF Working
  <2> QED
    BY <2>3, <2>4
<1>6. CASE Add(d) \/ Redo(d) \/ NoteId(d) \/ Poll(d)
  <2>1. dl'[d].pc \in Working /\ dl'[d].ids = dl[d].ids
    BY <1>6, Steps DEF May, Working
  <2>2. st'[t] = st[t]
    BY <1>3, <1>6 DEF Add, Redo, NoteId, Poll, Seen, Broken, Unseen, daemon, Status
  <2> QED
    BY <1>1, <1>2, <2>1, <2>2
<1>7. CASE Succeed(d) \/ GiveUp(d)
  <2>1. st'[t] = IF t \in dl[d].ids /\ st[t] = "paused" THEN "run" ELSE st[t]
    BY <1>0, <1>7 DEF Succeed, GiveUp, Resume
  <2>2. st'[t] = st[t] /\ st[t] = "paused" /\ Holds(t) /\ t \notin dl[d].ids
    BY <1>1, <2>1
  <2> QED
    BY <1>0, <2>2 DEF Holds
<1> QED
  BY <1>4, <1>5, <1>6, <1>7 DEF Download

\* Every step keeps someone who knows each paused download.
LEMMA GivenNext == ASSUME Errors \cap {"add", "redo"} = {}
                   PROVE  AllTyped /\ Alone /\ Marked /\ Given /\ [Next]_vars => Given'
<1> SUFFICES ASSUME AllTyped, Alone, Marked, Given, [Next]_vars,
                    NEW t \in Task, want'[t] = "run", st'[t] # "run"
             PROVE  st'[t] = "paused" /\ (Holds(t)' \/ Noted(t)')
  BY DEF Given
<1>0. /\ dl \in [Who -> Downloader] /\ st \in [Job -> Status] /\ want \in [Task -> {"run", "paused"}]
      /\ t \in Job /\ t # Rom /\ "upgrade" \in Who /\ "ota" \in Who
  BY TaskAssumption DEF AllTyped, DlTyped, DaemonTyped, UserTyped, Job, Who
<1>1. ASSUME NEW d \in Who, Start(d) PROVE st'[t] = "paused" /\ Holds(t)'
  <2>1. cancel = "idle" /\ want' = want /\ st' = st /\ dl' = [dl EXCEPT ![d].pc = "type"] /\ dl[d].pc = "idle"
    BY <1>1, NoCancel DEF Start, daemon, Goto, At
  <2>2. st[t] = "paused" /\ Holds(t)
    BY <2>1 DEF Given, Noted
  <2>3. \A e \in Who \ {d} : dl'[e] = dl[e]
    BY <1>0, <2>1
  <2> QED
    BY <2>1, <2>2, <2>3 DEF Holds, Working
<1>2. ASSUME NEW d \in Who, Download(d) PROVE st'[t] = "paused" /\ Holds(t)'
  BY <1>2, GivenDownload
<1>3. CASE Kill
  <2>1. /\ left.cancels > 0 /\ ~At("upgrade", "idle") /\ want' = want /\ st' = st
        /\ dtype' = dtype /\ pausedIds' = pausedIds /\ cancel = "idle" /\ cancel' = "abort"
    BY <1>3 DEF Kill, daemon, prefs
  <2>2. At("ota", "idle")
    BY <2>1, OtaIdle
  <2>3. st[t] = "paused" /\ Holds(t)
    BY <2>1 DEF Given, Noted
  <2>4. t \in dl["upgrade"].ids /\ dl["upgrade"].pc \in Working
    BY <2>2, <2>3 DEF Holds, Who, At, Working
  <2>5. dtype = 1 /\ pausedIds = dl["upgrade"].ids
    BY <2>1, <2>4 DEF Marked
  <2> QED
    BY <2>1, <2>3, <2>4, <2>5 DEF Noted
<1>4. CASE Cancel
  <2>1. cancel # "idle" /\ want' = want
    BY <1>4 DEF Cancel, Abort, CancelDelete
  <2>2. ~Holds(t)
    BY <2>1, OtaIdle DEF Alone, Holds, At, Working, Who
  <2>3. CASE Abort
    <3>1. st[t] # "run" => dtype = 1 /\ t \in pausedIds /\ st[t] = "paused"
      BY <2>1, <2>2 DEF Given, Noted
    <3>2. st'[t] = IF dtype = 1 /\ t \in pausedIds /\ st[t] = "paused" THEN "run" ELSE st[t]
      BY <1>0, <2>3 DEF Abort, Resume
    <3> QED
      BY <3>1, <3>2
  <2>4. CASE CancelDelete
    <3>1. st'[t] = st[t] /\ cancel = "delete"
      BY <1>0, <2>4 DEF CancelDelete, SetRom
    <3> QED
      BY <2>1, <2>2, <3>1 DEF Given, Noted
  <2> QED
    BY <1>4, <2>3, <2>4 DEF Cancel
<1>5. CASE Progress \/ Fail \/ UNCHANGED vars
  <2>1. /\ st'[t] = st[t] /\ want' = want /\ dl' = dl /\ cancel' = cancel
        /\ dtype' = dtype /\ pausedIds' = pausedIds
    BY <1>0, <1>5 DEF Progress, Fail, vars, SetRom, daemon, prefs
  <2> QED
    BY <2>1 DEF Given, Holds, Noted
<1>6. ASSUME NEW u \in Task, Toggle(u) PROVE FALSE
  <2>1. /\ \A d \in Who : dl[d].pc = "idle"
        /\ cancel = "idle"
    BY <1>6 DEF Toggle, Quiet
  <2>2. ~Holds(t) /\ ~Noted(t)
    BY <2>1 DEF Holds, Noted, Working
  <2>3. CASE u = t
    BY <1>0, <1>6, <2>3 DEF Toggle
  <2>4. CASE u # t
    BY <1>0, <1>6, <2>2, <2>4 DEF Toggle, Given
  <2> QED
    BY <2>3, <2>4
<1> QED
  BY <1>1, <1>2, <1>3, <1>4, <1>5, <1>6 DEF Next

\* At the start nobody downloads, and who wants a download to run has it run.
LEMMA StartsClean == ASSUME Uncrossed PROVE Init => Alone /\ Marked /\ Given
<1> SUFFICES ASSUME Init PROVE Alone /\ Marked /\ Given
  OBVIOUS
<1>1. (\A d \in Who : At(d, "idle")) /\ cancel = "idle" /\ left \in Scenarios
  BY IdleTyped DEF Init, At
<1>2. Alone
  <2>1. Who \subseteq left.who => ~(left.cancels > 0)
    BY <1>1 DEF Uncrossed
  <2> QED
    BY <1>1, <2>1 DEF Alone, Who
<1>3. Marked
  BY <1>1 DEF Marked, At, Who, Working, Tidy
<1>4. Given
  BY TaskAssumption DEF Init, Given, Job
<1> QED
  BY <1>2, <1>3, <1>4

\* If an upgrade that can be cancelled is the only downloader, and the daemon
\* takes new downloads, then whenever nobody fetches an image the user's
\* downloads run that he wants to run.
THEOREM AlwaysGivenBack == ASSUME Uncrossed, Errors \cap {"add", "redo"} = {}
                           PROVE  Spec => []DownloadsGivenBack
<1>1. Init => Alone /\ Marked /\ Given
  BY StartsClean
<1>2. AllTyped /\ Alone /\ Marked /\ Given /\ [Next]_vars => Given'
  BY GivenNext
<1>3. Given => DownloadsGivenBack
  BY DEF Given, DownloadsGivenBack, Quiet, Holds, Noted, Working
<1> QED
  BY <1>1, <1>2, <1>3, AloneNext, MarkedNext, TypedInvariant, PTL DEF Spec

-----------------------------------------------------------------------------
(***************************************************************************)
(* NothingLeftRunning.  A hidden download that is not done has a           *)
(* downloader that will see it done or delete it, or a cancel that will.   *)
(***************************************************************************)
Minding(d) == dl[d].pc \in {"id", "poll", "giveup", "delete"}
Unfinished == st[Rom] \in {"run", "paused", "failed"}
Fetched    == Unfinished => \/ \E d \in Who : Minding(d)
                            \/ cancel = "abort" /\ dtype = 1 /\ downloadId = Rom
                            \/ cancel = "delete"

\* Whoever starts the hidden download minds it until it is done or deleted.
LEMMA FetchedDownload == ASSUME AllTyped, Alone, Fetched, NEW d \in Who, Download(d), Unfinished'
                         PROVE  \E e \in Who : Minding(e)'
<1>0. /\ dl \in [Who -> Downloader] /\ st \in [Job -> Status] /\ Rom \in Job
      /\ cancel = "idle" /\ \A e \in Who \ {d} : dl'[e] = dl[e]
  BY NoCancel, OneSteps DEF AllTyped, DlTyped, DaemonTyped, Job
<1>1. ASSUME Unfinished, Minding(d) => Minding(d)' PROVE \E e \in Who : Minding(e)'
  BY <1>0, <1>1 DEF Fetched, Minding
<1>2. CASE Type(d) \/ List(d) \/ Note(d) \/ Wget(d) \/ Fetch(d)
  <2>1. st' = st
    BY <1>2 DEF Type, List, Note, Wget, Fetch, daemon
  <2>2. ~Minding(d)
    BY <1>2 DEF Type, List, Note, Wget, Fetch, At, Minding
  <2> QED
    BY <1>1, <2>1, <2>2 DEF Unfinished
<1>3. CASE PauseAll(d)
  BY <1>0, <1>1, <1>3 DEF PauseAll, Pause, At, Minding, Unfinished
<1>4. CASE Add(d)
  <2>1. CASE st' = st
    BY <1>1, <1>4, <2>1 DEF Add, At, Minding, Unfinished
  <2>2. CASE st' # st
    <3>1. Goto(d, "id")
      BY <1>4, <2>2 DEF Add, daemon
    <3> QED
      BY <1>0, <3>1 DEF Goto, Minding, Downloader
  <2> QED
    BY <2>1, <2>2
<1>5. CASE Redo(d)
  <2>1. CASE st' = st
    BY <1>1, <1>5, <2>1 DEF Redo, At, Minding, Unfinished
  <2>2. CASE st' # st
    BY <1>5, <2>2, Steps DEF Minding
  <2> QED
    BY <2>1, <2>2
<1>6. CASE NoteId(d)
  BY <1>6, Steps DEF Minding
<1>7. CASE Poll(d)
  <2>1. st' = st
    BY <1>7 DEF Poll, Seen, Broken, Unseen, daemon
  <2> QED
    BY <1>7, <2>1, Steps DEF Minding, Unfinished
<1>8. CASE Succeed(d)
  BY <1>0, <1>1, <1>8 DEF Succeed, Resume, At, Minding, Unfinished
<1>9. CASE GiveUp(d)
  BY <1>9, Steps DEF Minding
<1>10. CASE Delete(d)
  BY <1>0, <1>10 DEF Delete, SetRom, Unfinished
<1> QED
  BY <1>2, <1>3, <1>4, <1>5, <1>6, <1>7, <1>8, <1>9, <1>10 DEF Download

\* Every step keeps someone who minds the hidden download.
LEMMA FetchedNext == ASSUME ~InGap PROVE AllTyped /\ Alone /\ Marked /\ Fetched /\ [Next]_vars => Fetched'
<1> SUFFICES ASSUME AllTyped, Alone, Marked, Fetched, [Next]_vars, Unfinished'
             PROVE  \/ \E d \in Who : Minding(d)'
                    \/ cancel' = "abort" /\ dtype' = 1 /\ downloadId' = Rom
                    \/ cancel' = "delete"
  BY DEF Fetched
<1>0. /\ dl \in [Who -> Downloader] /\ st \in [Job -> Status] /\ Rom \in Job
      /\ "upgrade" \in Who /\ "ota" \in Who
  BY DEF AllTyped, DlTyped, DaemonTyped, Job, Who
<1>1. ASSUME NEW d \in Who, Start(d) PROVE \E e \in Who : Minding(e)'
  <2>1. cancel = "idle" /\ st' = st /\ dl' = [dl EXCEPT ![d].pc = "type"] /\ dl[d].pc = "idle"
    BY <1>1, NoCancel DEF Start, daemon, Goto, At
  <2>2. \E e \in Who : Minding(e)
    BY <2>1 DEF Fetched, Unfinished
  <2>3. \A e \in Who \ {d} : dl'[e] = dl[e]
    BY <1>0, <2>1
  <2> QED
    BY <2>1, <2>2, <2>3 DEF Minding
<1>2. ASSUME NEW d \in Who, Download(d) PROVE \E e \in Who : Minding(e)'
  BY <1>2, FetchedDownload
<1>3. CASE Kill
  <2>1. /\ left.cancels > 0 /\ ~At("upgrade", "idle") /\ ~At("upgrade", "id") /\ st' = st
        /\ dtype' = dtype /\ downloadId' = downloadId /\ cancel = "idle" /\ cancel' = "abort"
    BY <1>3 DEF Kill, daemon, prefs
  <2>2. Minding("upgrade")
    BY <2>1, OtaIdle DEF Fetched, Unfinished, Minding, Who, At
  <2>3. dtype = 1 /\ downloadId = Rom
    BY <2>1, <2>2 DEF Marked, Minding, At, Working, Tidy
  <2> QED
    BY <2>1, <2>3
<1>4. CASE Cancel
  <2>1. cancel # "idle" /\ \A d \in Who : ~Minding(d)
    <3>1. cancel # "idle"
      BY <1>4 DEF Cancel, Abort, CancelDelete
    <3> QED
      BY <3>1, OtaIdle DEF Alone, Minding, At, Who
  <2>2. CASE Abort
    <3>1. Unfinished
      BY <1>0, <2>2 DEF Abort, Resume, Unfinished
    <3>2. dtype = 1 /\ downloadId = Rom
      BY <2>1, <2>2, <3>1 DEF Fetched, Abort
    <3> QED
      BY <2>2, <3>2, TaskAssumption DEF Abort
  <2>3. CASE CancelDelete
    BY <1>0, <2>3 DEF CancelDelete, SetRom, Unfinished
  <2> QED
    BY <1>4, <2>2, <2>3 DEF Cancel
<1>5. CASE Progress \/ Fail \/ UNCHANGED vars
  <2>1. /\ dl' = dl /\ cancel' = cancel /\ dtype' = dtype /\ downloadId' = downloadId
        /\ Unfinished
    BY <1>5 DEF Progress, Fail, vars, daemon, prefs, Unfinished
  <2> QED
    BY <2>1 DEF Fetched, Minding
<1>6. ASSUME NEW u \in Task, Toggle(u)
      PROVE  \/ \E d \in Who : Minding(d)'
             \/ cancel' = "abort" /\ dtype' = 1 /\ downloadId' = Rom
             \/ cancel' = "delete"
  <2>1. /\ dl' = dl /\ cancel' = cancel /\ dtype' = dtype /\ downloadId' = downloadId
        /\ st'[Rom] = st[Rom]
    BY <1>0, <1>6, TaskAssumption DEF Toggle, prefs
  <2> QED
    BY <2>1 DEF Fetched, Minding, Unfinished
<1> QED
  BY <1>1, <1>2, <1>3, <1>4, <1>5, <1>6 DEF Next

\* If an upgrade that can be cancelled is the only downloader, and no cancel
\* hits it between the daemon's answer and the note of the id, then whenever
\* nobody fetches an image no hidden download is left unfinished.
THEOREM AlwaysTidy == ASSUME Uncrossed, ~InGap PROVE Spec => []NothingLeftRunning
<1>1. Init => Alone /\ Marked /\ Fetched
  <2>1. Init => Fetched
    BY DEF Init, Fetched, Unfinished, Job
  <2> QED
    BY <2>1, StartsClean
<1>2. AllTyped /\ Alone /\ Marked /\ Fetched /\ [Next]_vars => Fetched'
  BY FetchedNext
<1>3. Fetched => NothingLeftRunning
  BY DEF Fetched, Unfinished, NothingLeftRunning, Quiet, Minding
<1> QED
  BY <1>1, <1>2, <1>3, AloneNext, MarkedNext, TypedInvariant, PTL DEF Spec
=============================================================================
