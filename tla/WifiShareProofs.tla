-------------------------- MODULE WifiShareProofs --------------------------
(***************************************************************************)
(* Proofs about WifiShare, for any devices, processes and times.           *)
(***************************************************************************)
EXTENDS WifiShare, SequenceTheorems, WellFoundedInduction, TLAPS

(***************************************************************************)
(* Lists of macs.                                                          *)
(***************************************************************************)

\* the order of the numbers, as a relation
Less == {ss \in Nat \X Nat : ss[1] < ss[2]}

\* Induction, of a set of numbers.
LEMMA SetInduction ==
    ASSUME NEW S, 0 \in S, \A n \in Nat : n \in S => n + 1 \in S
    PROVE  Nat \subseteq S
<1> DEFINE T == Nat \ S
<1>1. IsWellFoundedOn(Less, Nat)
  <2>1. OpToRel(<, Nat) = Less
    BY DEF OpToRel, Less
  <2> QED
    BY <2>1, NatLessThanWellFounded
<1> SUFFICES ASSUME T # {} PROVE FALSE
  OBVIOUS
<1>2. PICK x \in T : \A y \in T : ~(<<y, x>> \in Less)
  <2> HIDE DEF T
  <2>1. T \subseteq Nat
    BY DEF T
  <2> QED
    BY <1>1, <2>1, WFMin
<1>3. x # 0 /\ x \in Nat /\ x - 1 \in Nat /\ (x - 1) + 1 = x
  OBVIOUS
<1>4. x - 1 \in T /\ <<x - 1, x>> \in Less
  BY <1>3 DEF Less
<1> QED
  BY <1>2, <1>4

\* what is left of the first n macs of t
Left(f, n, t, u) == f = [k \in 0 .. n |-> IF k = 0 THEN << >>
                                          ELSE IF t[k] \in Range(u) THEN f[k - 1]
                                          ELSE Append(f[k - 1], t[k])]

\* It can be computed, mac by mac.
LEMMA LeftExists == ASSUME NEW t, NEW u, NEW n \in Nat PROVE \E f : Left(f, n, t, u)
<1> DEFINE S == {k \in Nat : \E f : Left(f, k, t, u)}
<1>1. 0 \in S
  <2>1. Left([k \in 0 .. 0 |-> << >>], 0, t, u)
    BY DEF Left
  <2> QED
    BY <2>1
<1>2. ASSUME NEW k \in Nat, k \in S PROVE k + 1 \in S
  <2>1. PICK f : Left(f, k, t, u)
    BY <1>2
  <2> DEFINE last == IF t[k + 1] \in Range(u) THEN f[k] ELSE Append(f[k], t[k + 1])
             g == [j \in 0 .. k + 1 |-> IF j = k + 1 THEN last ELSE f[j]]
  <2>2. ASSUME NEW j \in 0 .. k + 1
        PROVE  g[j] = IF j = 0 THEN << >> ELSE IF t[j] \in Range(u) THEN g[j - 1] ELSE Append(g[j - 1], t[j])
    <3>1. CASE j = 0
      BY <2>1, <3>1 DEF Left
    <3>2. CASE j = k + 1
      <4>1. j - 1 = k /\ k \in 0 .. k + 1 /\ k # k + 1 /\ g[k] = f[k]
        BY <3>2
      <4> QED
        BY <3>2, <4>1
    <3>3. CASE j # 0 /\ j # k + 1
      <4>1. j \in 0 .. k /\ j - 1 \in 0 .. k /\ j - 1 # k + 1
        BY <3>3
      <4>2. f[j] = IF t[j] \in Range(u) THEN f[j - 1] ELSE Append(f[j - 1], t[j])
        BY <2>1, <3>3, <4>1 DEF Left
      <4>3. g[j] = f[j] /\ g[j - 1] = f[j - 1]
        BY <3>3, <4>1
      <4> QED
        BY <3>3, <4>2, <4>3
    <3> QED
      BY <3>1, <3>2, <3>3
  <2>3. Left(g, k + 1, t, u)
    BY <2>2 DEF Left
  <2> QED
    BY <2>3
<1>3. Nat \subseteq S
  <2> HIDE DEF S
  <2> QED
    BY <1>1, <1>2, SetInduction
<1> QED
  BY <1>3

\* What is left of a list of macs is a list of macs.
LEMMA OthersTyped == ASSUME NEW t \in Seq(Entry), NEW u PROVE Others(t, u) \in Seq(Entry)
<1> DEFINE n == Len(t)
           f == CHOOSE f : f = [k \in 0 .. n |-> IF k = 0 THEN << >>
                                                 ELSE IF t[k] \in Range(u) THEN f[k - 1]
                                                 ELSE Append(f[k - 1], t[k])]
<1>1. n \in Nat /\ \A k \in 1 .. n : t[k] \in Entry
  OBVIOUS
<1>2. Left(f, n, t, u)
  <2>1. \E g : Left(g, n, t, u)
    BY <1>1, LeftExists
  <2> HIDE DEF n
  <2>2. f = CHOOSE g : Left(g, n, t, u)
    BY DEF Left
  <2> HIDE DEF f
  <2> QED
    BY <2>1, <2>2
<1>3. Others(t, u) = f[n]
  BY DEF Others
<1> HIDE DEF f, n
<1> DEFINE S == {k \in Nat : k <= n => f[k] \in Seq(Entry)}
<1>4. 0 \in S
  BY <1>1, <1>2 DEF Left
<1>5. ASSUME NEW k \in Nat, k \in S PROVE k + 1 \in S
  <2> SUFFICES ASSUME k + 1 <= n PROVE f[k + 1] \in Seq(Entry)
    OBVIOUS
  <2>1. k + 1 \in 1 .. n /\ k + 1 \in 0 .. n /\ k + 1 # 0 /\ (k + 1) - 1 = k /\ k <= n
    BY <1>1
  <2>2. f[k + 1] = IF t[k + 1] \in Range(u) THEN f[k] ELSE Append(f[k], t[k + 1])
    BY <1>2, <2>1 DEF Left
  <2>3. f[k] \in Seq(Entry) /\ t[k + 1] \in Entry
    BY <1>1, <1>5, <2>1
  <2> QED
    BY <2>2, <2>3
<1>6. Nat \subseteq S
  <2> HIDE DEF S
  <2> QED
    BY <1>4, <1>5, SetInduction
<1> QED
  BY <1>1, <1>3, <1>6

\* Whatever is put on a list or taken off it, it is a list of macs.
LEMMA MergeTyped == ASSUME NEW t \in Seq(Entry), NEW u \in Seq(Entry), NEW opt
                    PROVE  merge(t, u, opt) \in Seq(Entry)
<1>1. Others(t, u) \in Seq(Entry) /\ Others(u, t) \in Seq(Entry)
  BY OthersTyped
<1> QED
  BY <1>1 DEF merge

\* The devices of a list are devices.
LEMMA DevicesTyped == ASSUME NEW list \in Seq(Entry) PROVE Devices(list) \subseteq Mac
<1>1. Range(list) \subseteq Entry
  BY DEF Range
<1> QED
  BY <1>1 DEF Devices, Entry

-----------------------------------------------------------------------------
(***************************************************************************)
(* Types, and what the processes are for: which commands a process has,    *)
(* and where it can be with them.                                          *)
(***************************************************************************)
Pc  == {"idle", "commit", "sleep", "start", "lock", "timeout", "edit", "editcommit", "hwstart"}
Cmd == {"none", "allow", "deny", "prepare", "+", "-", "on", "off", "block_apply"}
ProcRecord == [pc : Pc, cmd : Cmd, mac : Mac \cup {NoOne}, info : Device, list : Seq(Entry),
               direct : BOOLEAN, blocked : Seq(Entry)]

Shape(p, q) ==
    /\ q.pc = "idle" => q = Idle
    /\ q.cmd = "none" => q.pc = "idle"
    /\ q.cmd \in {"allow", "deny"} => p \in Admin /\ q.pc \in {"commit", "start", "lock", "timeout", "edit"}
    /\ q.cmd \in {"+", "-"} => p \in Admin /\ q.pc = "editcommit"
    /\ q.cmd = "prepare" => p \in Guest /\ q.pc \in {"start", "lock", "timeout"}
    /\ q.cmd \in {"on", "block_apply"} => p \in Job /\ q.pc \in {"sleep", "lock"}
    /\ q.cmd = "off" => p \in Job /\ q.pc \in {"sleep", "lock", "hwstart"}
    /\ q.direct => q.cmd = "deny"
    /\ q.cmd \in {"allow", "deny", "prepare"} => q.mac \in Mac

ProcOK == proc \in [Proc -> ProcRecord] /\ \A p \in Proc : Shape(p, proc[p])
RestOK == /\ now \in 0 .. MaxTime
          /\ {disabled, open, include, installed, hwOff} \subseteq BOOLEAN
          /\ dev \in [Mac -> Device]
          /\ black \in Seq(Entry)
          /\ chain \subseteq Mac /\ (chain # {} => installed)
          /\ rule \in [Mac -> Time \cup {None}]
          /\ lock \in Proc \cup {NoOne}
Shaped == RestOK /\ ProcOK

\* Shaped says more than TypeOK.
LEMMA ShapedTyped == Shaped => TypeOK
  BY DEF Shaped, RestOK, ProcOK, TypeOK, ProcRecord, Pc, Cmd

\* A process that does nothing has the shape of any process.
LEMMA IdleShape == /\ Idle \in ProcRecord
                   /\ \A p \in Proc : Shape(p, Idle)
                   /\ NoDev \in Device
<1>1. /\ Idle.pc = "idle" /\ Idle.cmd = "none" /\ Idle.direct = FALSE /\ Idle.blocked = << >>
      /\ Idle.info = NoDev /\ Idle.mac = NoOne /\ Idle.list = << >>
  BY DEF Idle
<1>2. NoDev \in Device
  BY DEF NoDev, Device
<1>3. Idle \in ProcRecord
  BY <1>2 DEF Idle, ProcRecord, Pc, Cmd
<1> QED
  BY <1>1, <1>2, <1>3 DEF Shape

\* One process moves.
LEMMA Moved == ASSUME ProcOK, NEW p \in Proc, NEW r \in ProcRecord, Shape(p, r),
                      proc' = [proc EXCEPT ![p] = r]
               PROVE  ProcOK'
  BY DEF ProcOK

\* One process goes on and keeps what it works on.
LEMMA MovedOn == ASSUME ProcOK, NEW p \in Proc, NEW pc \in Pc, Goto(p, pc),
                        Shape(p, [proc[p] EXCEPT !.pc = pc])
                 PROVE  ProcOK'
<1> DEFINE r == [proc[p] EXCEPT !.pc = pc]
<1>1. r \in ProcRecord
  BY DEF ProcOK, ProcRecord
<1>2. proc' = [proc EXCEPT ![p] = r]
  BY DEF Goto
<1> QED
  BY <1>1, <1>2, Moved

\* One process ends.
LEMMA Ended == ASSUME ProcOK, NEW p \in Proc, End(p) PROVE ProcOK'
  BY IdleShape, Moved DEF End

\* A handler ends and forks a script.
LEMMA ForkedShape == ASSUME ProcOK, NEW a \in Admin, NEW cmd \in {"on", "off", "block_apply"}, Fork(a, Idle, cmd)
                     PROVE  /\ ProcOK'
                            /\ \E j \in Job : /\ proc[j].pc = "idle"
                                              /\ proc'[j].cmd = cmd /\ proc'[j].pc = "sleep"
                                              /\ proc'[a] = Idle
                                              /\ \A p \in Proc \ {a, j} : proc'[p] = proc[p]
<1>1. PICK j \in Job : /\ proc[j].pc = "idle"
                       /\ proc' = [proc EXCEPT ![a] = Idle, ![j] = [Idle EXCEPT !.pc = "sleep", !.cmd = cmd]]
  BY DEF Fork
<1>2. a \in Proc /\ j \in Proc /\ a # j
  BY SetAssumption DEF Proc
<1> DEFINE r == [Idle EXCEPT !.pc = "sleep", !.cmd = cmd]
<1>3. /\ r \in ProcRecord
      /\ r.pc = "sleep" /\ r.cmd = cmd /\ r.direct = FALSE /\ r.blocked = << >>
  BY IdleShape DEF Idle, ProcRecord, Pc, Cmd
<1>4. r \in ProcRecord /\ Shape(j, r)
  <2> HIDE DEF r
  <2> QED
    BY <1>3 DEF Shape
<1>5. /\ proc'[j] = r /\ proc'[a] = Idle
      /\ \A p \in Proc \ {a, j} : proc'[p] = proc[p]
      /\ proc' \in [Proc -> ProcRecord]
  BY <1>1, <1>2, <1>4, IdleShape DEF ProcOK
<1>6. ProcOK'
  BY <1>2, <1>4, <1>5, IdleShape DEF ProcOK
<1> QED
  BY <1>1, <1>3, <1>5, <1>6

-----------------------------------------------------------------------------
(***************************************************************************)
(* Every step keeps the types.                                             *)
(***************************************************************************)

AdminStep(a) ==
    \/ \E m \in Mac, cmd \in {"allow", "deny"}, direct \in BOOLEAN : Access(a, m, cmd, direct)
    \/ \E list \in Lists, cmd \in {"+", "-"} : Edit(a, list, cmd)
    \/ \E on, guest \in BOOLEAN : set_wifi_share(a, on, guest)
    \/ Handler(a)

\* What a handler of an admin puts in its place.
LEMMA HandlerTypes == ASSUME Shaped, NEW a \in Admin, AdminStep(a) PROVE Shaped'
<1>0. a \in Proc
  BY DEF Proc
<1>1. ASSUME NEW m \in Mac, NEW cmd \in {"allow", "deny"}, NEW direct \in BOOLEAN,
             Access(a, m, cmd, direct)
      PROVE  Shaped'
  <2> DEFINE r == [Idle EXCEPT !.pc = "commit", !.cmd = cmd, !.mac = m, !.direct = direct,
                       !.info = [grant |-> IF cmd = "allow" THEN "yes" ELSE "no",
                                 stop  |-> dev[m].stop]]
  <2>1. [grant |-> IF cmd = "allow" THEN "yes" ELSE "no", stop  |-> dev[m].stop] \in Device
    BY DEF Shaped, RestOK, Device
  <2>2. /\ r \in ProcRecord
        /\ r.pc = "commit" /\ r.cmd = cmd /\ r.mac = m /\ r.direct = direct /\ r.blocked = << >>
    BY <2>1, IdleShape DEF Idle, ProcRecord, Pc, Cmd
  <2>3. proc' = [proc EXCEPT ![a] = r] /\ (direct => cmd = "deny")
    BY <1>1 DEF Access
  <2> HIDE DEF r
  <2>4. Shape(a, r)
    BY <2>2, <2>3 DEF Shape
  <2>5. RestOK'
    BY <1>1 DEF Access, Shaped, RestOK, config, firewall
  <2> QED
    BY <1>0, <2>2, <2>3, <2>4, <2>5, Moved DEF Shaped
<1>2. ASSUME NEW list \in Lists, NEW opt \in {"+", "-"}, Edit(a, list, opt) PROVE Shaped'
  <2> DEFINE r == [Idle EXCEPT !.pc = "editcommit", !.cmd = opt, !.list = list, !.blocked = black]
  <2>1. black \in Seq(Entry) /\ list \in Seq(Entry)
    BY RequestAssumption DEF Shaped, RestOK
  <2>2. r \in ProcRecord /\ r.pc = "editcommit" /\ r.cmd = opt /\ r.direct = FALSE
    BY <2>1, IdleShape DEF Idle, ProcRecord, Pc, Cmd
  <2>3. proc' = [proc EXCEPT ![a] = r]
    BY <1>2 DEF Edit
  <2> HIDE DEF r
  <2>4. Shape(a, r)
    BY <2>2 DEF Shape
  <2>5. RestOK'
    BY <1>2 DEF Edit, Shaped, RestOK, config, firewall
  <2> QED
    BY <1>0, <2>2, <2>3, <2>4, <2>5, Moved DEF Shaped
<1>3. ASSUME NEW on \in BOOLEAN, NEW guest \in BOOLEAN, set_wifi_share(a, on, guest) PROVE Shaped'
  <2>1. ProcOK'
    BY <1>3, ForkedShape DEF set_wifi_share, Shaped
  <2>2. RestOK'
    BY <1>3 DEF set_wifi_share, Shaped, RestOK, firewall
  <2> QED
    BY <2>1, <2>2 DEF Shaped
<1>4. CASE AccessCommit(a)
  <2> DEFINE r == [proc[a] EXCEPT !.pc = "start", !.info = NoDev]
  <2>1. proc[a] \in ProcRecord /\ Shape(a, proc[a]) /\ proc[a].pc = "commit"
    BY <1>0, <1>4 DEF AccessCommit, Shaped, ProcOK
  <2>2. proc[a].cmd \in {"allow", "deny"} /\ proc[a].mac \in Mac
    BY <2>1 DEF Shape, ProcRecord, Cmd
  <2>3. /\ r \in ProcRecord /\ r.pc = "start" /\ r.cmd = proc[a].cmd /\ r.mac = proc[a].mac
        /\ r.direct = proc[a].direct /\ r.blocked = proc[a].blocked
    BY <2>1, IdleShape DEF ProcRecord, Pc
  <2>4. proc' = [proc EXCEPT ![a] = r]
    BY <1>4, <1>0, <2>1 DEF AccessCommit, Shaped, ProcOK, ProcRecord
  <2> HIDE DEF r
  <2>5. Shape(a, r)
    BY <2>1, <2>2, <2>3 DEF Shape
  <2>6. dev' \in [Mac -> Device]
    BY <1>4, <2>1, <2>2 DEF AccessCommit, Shaped, RestOK, ProcRecord, Device
  <2>7. RestOK'
    BY <1>4, <2>6 DEF AccessCommit, Shaped, RestOK, firewall
  <2> QED
    BY <1>0, <2>3, <2>4, <2>5, <2>7, Moved DEF Shaped
<1>5. CASE EditDenied(a)
  <2>1. PICK e \in Entry : proc' = [proc EXCEPT ![a] = [Idle EXCEPT !.pc = "editcommit", !.cmd = "+",
                                                          !.list = <<e>>, !.blocked = black]]
    BY <1>5 DEF EditDenied
  <2> DEFINE r == [Idle EXCEPT !.pc = "editcommit", !.cmd = "+", !.list = <<e>>, !.blocked = black]
  <2>2. black \in Seq(Entry) /\ <<e>> \in Seq(Entry)
    BY DEF Shaped, RestOK
  <2>3. r \in ProcRecord /\ r.pc = "editcommit" /\ r.cmd = "+" /\ r.direct = FALSE
    BY <2>2, IdleShape DEF Idle, ProcRecord, Pc, Cmd
  <2>4. proc' = [proc EXCEPT ![a] = r]
    BY <2>1
  <2> HIDE DEF r
  <2>5. Shape(a, r)
    BY <2>3, <1>0 DEF Shape
  <2>6. RestOK'
    BY <1>5 DEF EditDenied, Shaped, RestOK, config, firewall
  <2> QED
    BY <1>0, <2>3, <2>4, <2>5, <2>6, Moved DEF Shaped
<1>6. CASE EditCommit(a)
  <2>1. proc[a] \in ProcRecord
    BY <1>0, <1>6 DEF EditCommit, Shaped, ProcOK
  <2>2. proc[a].list \in Seq(Entry) /\ proc[a].blocked \in Seq(Entry)
    BY <2>1 DEF ProcRecord
  <2>3. black' \in Seq(Entry)
    BY <1>6, <2>2, MergeTyped DEF EditCommit
  <2>4. RestOK'
    BY <1>6, <2>3 DEF EditCommit, Shaped, RestOK, firewall
  <2>5. ProcOK'
    BY <1>6, ForkedShape DEF EditCommit, Shaped
  <2> QED
    BY <2>4, <2>5 DEF Shaped
<1> QED
  BY <1>1, <1>2, <1>3, <1>4, <1>5, <1>6 DEF AdminStep, Handler

\* What a guest puts in its place.
LEMMA PrepareTypes == ASSUME Shaped, NEW g \in Guest, NEW m \in Mac, Prepare(g, m) PROVE Shaped'
<1> DEFINE r == [Idle EXCEPT !.pc = "start", !.cmd = "prepare", !.mac = m]
<1>1. /\ r \in ProcRecord
      /\ r.pc = "start" /\ r.cmd = "prepare" /\ r.mac = m /\ r.direct = FALSE /\ r.blocked = << >>
  BY IdleShape DEF Idle, ProcRecord, Pc, Cmd
<1>2. proc' = [proc EXCEPT ![g] = r] /\ g \in Proc
  BY DEF Prepare, Proc
<1> HIDE DEF r
<1>3. Shape(g, r)
  BY <1>1 DEF Shape
<1>4. RestOK'
  BY DEF Prepare, Shaped, RestOK, config, firewall
<1> QED
  BY <1>1, <1>2, <1>3, <1>4, Moved DEF Shaped

\* A script that goes on keeps its command, its mac and its list.
LEMMA WentOn == ASSUME Shaped, NEW p \in Proc, NEW pc \in Pc, Goto(p, pc), pc # "idle",
                       \/ proc[p].cmd \in {"allow", "deny"} /\ pc \in {"timeout", "edit"}
                       \/ proc[p].cmd = "prepare" /\ pc = "timeout"
                       \/ proc[p].cmd = "off" /\ pc = "hwstart"
                PROVE  ProcOK'
<1> DEFINE r == [proc[p] EXCEPT !.pc = pc]
<1>1. proc[p] \in ProcRecord /\ Shape(p, proc[p])
  BY DEF Shaped, ProcOK
<1>2. /\ r.pc = pc /\ r.cmd = proc[p].cmd /\ r.mac = proc[p].mac
      /\ r.direct = proc[p].direct /\ r.blocked = proc[p].blocked
  BY <1>1 DEF ProcRecord
<1> HIDE DEF r
<1>3. Shape(p, r)
  BY <1>1, <1>2 DEF Shape
<1> QED
  BY <1>3, MovedOn DEF Shaped, r

\* Before the lock a script only reads the list.
LEMMA StartTypes == ASSUME Shaped, NEW p \in Proc, Start(p) PROVE Shaped'
<1> DEFINE read == IF proc[p].cmd \in {"deny", "off"} THEN << >> ELSE black
           r == [proc[p] EXCEPT !.pc = "lock", !.blocked = read]
<1>1. proc[p] \in ProcRecord /\ Shape(p, proc[p]) /\ proc[p].pc \in {"start", "sleep"}
  BY DEF Start, Shaped, ProcOK
<1>2. read \in Seq(Entry)
  BY DEF Shaped, RestOK
<1>3. /\ r \in ProcRecord /\ r.pc = "lock" /\ r.cmd = proc[p].cmd /\ r.mac = proc[p].mac
      /\ r.direct = proc[p].direct /\ r.blocked = read
  BY <1>1, <1>2 DEF ProcRecord, Pc
<1>4. proc' = [proc EXCEPT ![p] = r] \/ End(p)
  <2>1. r = [proc[p] EXCEPT !.pc = "lock",
                 !.blocked = IF proc[p].cmd \in {"deny", "off"} THEN << >> ELSE black]
    OBVIOUS
  <2> QED
    BY <2>1 DEF Start
<1> HIDE DEF r, read
<1>5. Shape(p, r)
  BY <1>1, <1>2, <1>3 DEF Shape
<1>6. ProcOK'
  BY <1>3, <1>4, <1>5, Moved, Ended DEF Shaped
<1>7. RestOK'
  BY DEF Start, Shaped, RestOK, config, firewall
<1> QED
  BY <1>6, <1>7 DEF Shaped

\* Whatever a script does under the lock, or after it.
LEMMA LockedTypes == ASSUME Shaped, NEW p \in Proc,
                            Locked(p) \/ share_access_timeout(p) \/ hwnat_start(p)
                     PROVE  Shaped'
<1>0. proc[p] \in ProcRecord /\ Shape(p, proc[p])
  BY DEF Shaped, ProcOK
<1>t. \A d \in 0 .. Timeout : now + d \in Time
  BY TimeAssumption DEF Shaped, RestOK, Time
<1>1. CASE share_access_prepare(p)
  <2>1. now + AuthTime \in Time
    BY <1>t, TimeAssumption
  <2>2. rule' \in [Mac -> Time \cup {None}]
    BY <1>1, <2>1 DEF share_access_prepare, Shaped, RestOK
  <2>3. RestOK'
    BY <1>1, <2>2 DEF share_access_prepare, Shaped, RestOK, config
  <2>4. ProcOK'
    BY <1>1, <1>0, WentOn DEF share_access_prepare, In, Pc
  <2> QED
    BY <2>3, <2>4 DEF Shaped
<1>2. CASE share_access_allow(p)
  <2>1. proc[p].mac \in Mac
    BY <1>0, <1>2 DEF share_access_allow, In, Shape
  <2>2. rule' \in [Mac -> Time \cup {None}]
    BY <1>2, <1>t, TimeAssumption DEF share_access_allow, Shaped, RestOK
  <2>3. dev' \in [Mac -> Device]
    <3>1. dev[proc[p].mac] \in Device /\ now + Timeout \in Time
      BY <2>1, <1>t, TimeAssumption DEF Shaped, RestOK
    <3>2. ASSUME NEW g \in {"yes", "no", "absent"}
          PROVE  [dev EXCEPT ![proc[p].mac].stop = now + Timeout, ![proc[p].mac].grant = g] \in [Mac -> Device]
      BY <2>1, <3>1 DEF Shaped, RestOK, Device
    <3>3. (IF dev[proc[p].mac].grant = "absent" THEN "yes" ELSE dev[proc[p].mac].grant) \in {"yes", "no", "absent"}
      BY <3>1 DEF Device
    <3> QED
      BY <1>2, <3>2, <3>3 DEF share_access_allow, Shaped, RestOK
  <2>4. RestOK'
    BY <1>2, <2>2, <2>3 DEF share_access_allow, Shaped, RestOK
  <2>5. ProcOK'
    BY <1>2, <1>0, WentOn DEF share_access_allow, In, Pc
  <2> QED
    BY <2>4, <2>5 DEF Shaped
<1>3. CASE share_access_remove(p)
  <2>1. rule' \in [Mac -> Time \cup {None}]
    BY <1>3 DEF share_access_remove, Shaped, RestOK
  <2>2. RestOK'
    BY <1>3, <2>1 DEF share_access_remove, Shaped, RestOK, config
  <2>3. ProcOK'
    BY <1>3, <1>0, WentOn DEF share_access_remove, In, Pc
  <2> QED
    BY <2>2, <2>3 DEF Shaped
<1>4. CASE share_block_apply(p)
  <2>1. Devices(black) \subseteq Mac
    BY DevicesTyped DEF Shaped, RestOK
  <2>2. chain' \subseteq Mac /\ (chain' # {} => installed') /\ rule' \in [Mac -> Time \cup {None}]
    BY <1>4, <2>1 DEF share_block_apply, Shaped, RestOK
  <2>3. RestOK'
    BY <1>4, <2>2 DEF share_block_apply, Shaped, RestOK, config
  <2> QED
    BY <1>4, <2>3, Ended DEF share_block_apply, Shaped
<1>5. CASE share_start(p)
  <2>1. RestOK'
    <3>1. CASE include
      BY <1>5, <3>1 DEF share_start, Shaped, RestOK, firewall
    <3>2. CASE ~include
      <4>1. include' = TRUE /\ share_reload(proc[p].blocked)
        BY <1>5, <3>2 DEF share_start
      <4>2. chain' \subseteq Mac /\ installed' = TRUE
        BY <4>1, DevicesTyped DEF share_reload, Shaped, RestOK
      <4>3. rule' \in [Mac -> Time \cup {None}]
        BY <4>1 DEF share_reload, Shaped, RestOK, Device
      <4> QED
        BY <1>5, <4>1, <4>2, <4>3 DEF share_start, Shaped, RestOK
    <3> QED
      BY <3>1, <3>2 DEF Shaped, RestOK
  <2> QED
    BY <1>5, <2>1, Ended DEF share_start, Shaped
<1>6. CASE share_stop(p)
  <2>1. RestOK'
    BY <1>6 DEF share_stop, Flush, Shaped, RestOK
  <2>2. ProcOK'
    BY <1>6, <1>0, WentOn DEF share_stop, In, Pc
  <2> QED
    BY <2>1, <2>2 DEF Shaped
<1>7. CASE share_access_timeout(p)
  <2>1. rule' \in [Mac -> Time \cup {None}] /\ dev' \in [Mac -> Device]
    BY <1>7, IdleShape DEF share_access_timeout, Shaped, RestOK
  <2>2. RestOK'
    BY <1>7, <2>1 DEF share_access_timeout, Shaped, RestOK
  <2>3. ProcOK'
    <3>1. CASE proc[p].direct
      BY <1>7, <1>0, <3>1, WentOn DEF share_access_timeout, Shape, Pc
    <3>2. CASE ~proc[p].direct
      BY <1>7, <3>2, Ended DEF share_access_timeout, Shaped
    <3> QED
      BY <3>1, <3>2 DEF share_access_timeout
  <2> QED
    BY <2>2, <2>3 DEF Shaped
<1>8. CASE hwnat_start(p)
  <2>1. RestOK'
    BY <1>8 DEF hwnat_start, Shaped, RestOK, config, firewall
  <2> QED
    BY <1>8, <2>1, Ended DEF hwnat_start, Shaped
<1> QED
  BY <1>1, <1>2, <1>3, <1>4, <1>5, <1>6, <1>7, <1>8 DEF Locked

\* A restart of the firewall, the clock, and no step at all.
LEMMA OtherTypes == ASSUME Shaped, FirewallRestart \/ Tick \/ UNCHANGED vars PROVE Shaped'
<1>1. CASE FirewallRestart
  <2>1. CASE include
    <3>1. chain' \subseteq Mac /\ installed' = TRUE
      BY <1>1, <2>1, DevicesTyped DEF FirewallRestart, share_reload, Shaped, RestOK
    <3>2. rule' \in [Mac -> Time \cup {None}]
      BY <1>1, <2>1 DEF FirewallRestart, share_reload, Shaped, RestOK, Device
    <3> QED
      BY <1>1, <3>1, <3>2 DEF FirewallRestart, Shaped, RestOK, ProcOK, config
  <2>2. CASE ~include
    BY <1>1, <2>2 DEF FirewallRestart, Flush, Shaped, RestOK, ProcOK, config
  <2> QED
    BY <2>1, <2>2
<1>2. CASE Tick
  BY <1>2, TimeAssumption DEF Tick, Shaped, RestOK, ProcOK, config, firewall
<1>3. CASE UNCHANGED vars
  BY <1>3 DEF vars, Shaped, RestOK, ProcOK, config, firewall
<1> QED
  BY <1>1, <1>2, <1>3

\* At the start every process is idle.
LEMMA ShapedInit == Init => Shaped
<1> SUFFICES ASSUME Init PROVE Shaped
  OBVIOUS
<1>1. ProcOK
  BY IdleShape DEF Init, ProcOK
<1>2. now \in 0 .. MaxTime
  BY TimeAssumption DEF Init
<1>3. black \in Seq(Entry)
  BY DEF Init
<1>4. /\ dev \in [Mac -> Device] /\ rule \in [Mac -> Time \cup {None}]
      /\ chain \subseteq Mac /\ (chain # {} => installed) /\ lock \in Proc \cup {NoOne}
      /\ {disabled, open, include, installed, hwOff} \subseteq BOOLEAN
  BY IdleShape DEF Init
<1>5. RestOK
  BY <1>2, <1>3, <1>4 DEF RestOK
<1> QED
  BY <1>1, <1>5 DEF Shaped

\* No step breaks the shape.
LEMMA ShapedNext == Shaped /\ [Next]_vars => Shaped'
<1> SUFFICES ASSUME Shaped, [Next]_vars PROVE Shaped'
  OBVIOUS
<1>1. CASE \E a \in Admin : AdminStep(a)
  BY <1>1, HandlerTypes
<1>2. CASE \E g \in Guest, m \in Mac : Prepare(g, m)
  BY <1>2, PrepareTypes
<1>3. CASE \E p \in Proc : Script(p)
  BY <1>3, StartTypes, LockedTypes DEF Script
<1> QED
  BY <1>1, <1>2, <1>3, OtherTypes DEF Next, AdminStep

\* Every variable has its type, and a process is where its command can be.
THEOREM ShapeInvariant == Spec => []Shaped
  BY ShapedInit, ShapedNext, PTL DEF Spec

\* Every reachable state of WifiShare is well typed.
THEOREM TypeCorrect == Spec => []TypeOK
  BY ShapeInvariant, ShapedTyped, PTL

-----------------------------------------------------------------------------
(***************************************************************************)
(* BlacklistApplied.  Only three kinds of steps touch the list or the      *)
(* chains: an edit, which leaves a script behind that will apply it; that  *)
(* script; and whatever builds the firewall or takes it down as a whole.   *)
(***************************************************************************)

Rebuilt   == include' = TRUE /\ installed' = TRUE /\ chain' = Devices(black) /\ black' = black
TakenDown == include' = FALSE /\ installed' = FALSE /\ black' = black

\* What a step may do to the blacklist, its chains and the include section.
LEMMA FirewallSteps == ASSUME Shaped, [Next]_vars
                       PROVE  \/ \E p \in Proc : share_block_apply(p)
                              \/ \E a \in Admin : EditCommit(a)
                              \/ UNCHANGED <<installed, chain, include, black>>
                              \/ Rebuilt \/ TakenDown
<1>0. include \in BOOLEAN
  BY DEF Shaped, RestOK
<1>1. ASSUME NEW a \in Admin, AdminStep(a), ~EditCommit(a)
      PROVE  UNCHANGED <<installed, chain, include, black>>
  BY <1>1 DEF AdminStep, Handler, Access, Edit, set_wifi_share, AccessCommit, EditDenied, config, firewall
<1>2. ASSUME NEW g \in Guest, NEW m \in Mac, Prepare(g, m)
      PROVE  UNCHANGED <<installed, chain, include, black>>
  BY <1>2 DEF Prepare, config, firewall
<1>3. ASSUME NEW p \in Proc, Script(p), ~share_block_apply(p)
      PROVE  UNCHANGED <<installed, chain, include, black>> \/ Rebuilt \/ TakenDown
  <2>1. CASE Start(p)
    BY <2>1 DEF Start, config, firewall
  <2>2. CASE share_access_prepare(p) \/ share_access_allow(p) \/ share_access_remove(p)
    BY <2>2 DEF share_access_prepare, share_access_allow, share_access_remove, config
  <2>3. CASE share_start(p)
    BY <2>3 DEF share_start, share_reload, Rebuilt, firewall
  <2>4. CASE share_stop(p)
    BY <2>4 DEF share_stop, Flush, TakenDown
  <2>5. CASE share_access_timeout(p) \/ hwnat_start(p)
    BY <2>5 DEF share_access_timeout, hwnat_start, config, firewall
  <2> QED
    BY <1>3, <2>1, <2>2, <2>3, <2>4, <2>5 DEF Script, Locked
<1>4. CASE FirewallRestart
  BY <1>0, <1>4 DEF FirewallRestart, share_reload, Flush, Rebuilt, TakenDown, config
<1>5. CASE Tick \/ UNCHANGED vars
  BY <1>5 DEF Tick, vars, config, firewall
<1> QED
  BY <1>1, <1>2, <1>3, <1>4, <1>5 DEF Next, AdminStep

\* A script keeps its command and its mac until it ends.
LEMMA ScriptSteps == ASSUME Shaped, NEW p \in Proc, Script(p)
                     PROVE  /\ \A q \in Proc \ {p} : proc'[q] = proc[q]
                            /\ \/ End(p) /\ proc'[p] = Idle
                               \/ /\ proc'[p].cmd = proc[p].cmd /\ proc'[p].mac = proc[p].mac
                                  /\ proc'[p].pc \in {"lock", "timeout", "edit", "hwstart"}
                                  /\ proc'[p].pc = "lock" <=> Start(p)
<1>0. proc \in [Proc -> ProcRecord]
  BY DEF Shaped, ProcOK
<1>1. ASSUME NEW pc \in Pc, Goto(p, pc)
      PROVE  /\ \A q \in Proc \ {p} : proc'[q] = proc[q]
             /\ proc'[p].cmd = proc[p].cmd /\ proc'[p].mac = proc[p].mac /\ proc'[p].pc = pc
  BY <1>0, <1>1 DEF Goto, ProcRecord
<1>2. ASSUME End(p) PROVE proc'[p] = Idle /\ \A q \in Proc \ {p} : proc'[q] = proc[q]
  BY <1>0, <1>2 DEF End
<1>3. CASE Start(p)
  <2>1. ASSUME NEW l, proc' = [proc EXCEPT ![p] = [proc[p] EXCEPT !.pc = "lock", !.blocked = l]]
        PROVE  /\ \A q \in Proc \ {p} : proc'[q] = proc[q]
               /\ proc'[p].cmd = proc[p].cmd /\ proc'[p].mac = proc[p].mac /\ proc'[p].pc = "lock"
    BY <1>0, <2>1 DEF ProcRecord
  <2> QED
    BY <1>2, <1>3, <2>1 DEF Start
<1>4. ASSUME Start(p) PROVE proc[p].pc \notin {"lock", "timeout", "hwstart"}
  BY <1>4 DEF Start
<1>5. CASE share_access_prepare(p) \/ share_access_allow(p) \/ share_access_remove(p)
  BY <1>1, <1>4, <1>5 DEF share_access_prepare, share_access_allow, share_access_remove, In, Pc
<1>6. CASE share_block_apply(p) \/ share_start(p) \/ hwnat_start(p)
  BY <1>2, <1>6 DEF share_block_apply, share_start, hwnat_start
<1>7. CASE share_stop(p)
  BY <1>1, <1>4, <1>7 DEF share_stop, In, Pc
<1>8. CASE share_access_timeout(p)
  BY <1>1, <1>2, <1>4, <1>8 DEF share_access_timeout, Pc
<1> QED
  BY <1>3, <1>5, <1>6, <1>7, <1>8 DEF Script, Locked

\* A handler changes its own process and, when it forks, an idle one.
LEMMA HandlerSteps == ASSUME Shaped, NEW a \in Admin, AdminStep(a)
                      PROVE  \A q \in Proc \ {a} : q \notin Job \/ proc[q].pc # "idle" => proc'[q] = proc[q]
<1>0. proc \in [Proc -> ProcRecord]
  BY DEF Shaped, ProcOK
<1>1. CASE EditCommit(a) \/ \E on, guest \in BOOLEAN : set_wifi_share(a, on, guest)
  <2>1. \E cmd \in {"on", "off", "block_apply"} : Fork(a, Idle, cmd)
    BY <1>1 DEF EditCommit, set_wifi_share
  <2> QED
    BY <2>1, ForkedShape DEF Shaped
<1>2. CASE \/ \E m \in Mac, cmd \in {"allow", "deny"}, direct \in BOOLEAN : Access(a, m, cmd, direct)
           \/ \E list \in Lists, cmd \in {"+", "-"} : Edit(a, list, cmd)
           \/ AccessCommit(a) \/ EditDenied(a)
  <2>1. ASSUME NEW r, proc' = [proc EXCEPT ![a] = r] PROVE \A q \in Proc \ {a} : proc'[q] = proc[q]
    BY <1>0, <2>1
  <2>2. CASE AccessCommit(a)
    BY <1>0, <2>2 DEF AccessCommit
  <2> QED
    BY <1>2, <2>1, <2>2 DEF Access, Edit, EditDenied
<1> QED
  BY <1>1, <1>2 DEF AdminStep, Handler

\* A script that applies the blacklist goes on until it has.
LEMMA ApplyingStays == ASSUME Shaped, [Next]_vars, Applying, ~\E p \in Proc : share_block_apply(p)
                       PROVE  Applying'
<1>1. PICK q \in Proc : proc[q].cmd = "block_apply"
  BY DEF Applying
<1>2. q \in Job /\ proc[q].pc \in {"sleep", "lock"} /\ q \notin Admin \cup Guest
  BY <1>1, SetAssumption DEF Shaped, ProcOK, Shape
<1>3. SUFFICES proc'[q].cmd = "block_apply"
  BY DEF Applying
<1>4. CASE \E a \in Admin : AdminStep(a)
  BY <1>1, <1>2, <1>4, HandlerSteps
<1>5. CASE \E g \in Guest, m \in Mac : Prepare(g, m)
  BY <1>1, <1>2, <1>5 DEF Prepare, Shaped, ProcOK
<1>6. CASE \E p \in Proc : Script(p)
  <2> PICK p \in Proc : Script(p)
    BY <1>6
  <2>1. CASE p # q
    BY <1>1, <2>1, ScriptSteps
  <2>2. CASE p = q
    <3>1. ~End(p)
      <4>1. proc[p].cmd = "block_apply" /\ proc[p].pc \in {"sleep", "lock"}
        BY <1>1, <1>2, <2>2
      <4>2. Start(p)
        BY <4>1 DEF Script, Locked, In, share_access_prepare, share_access_allow, share_access_remove,
                    share_start, share_stop, share_access_timeout, hwnat_start
      <4>3. proc' = [proc EXCEPT ![p] = [proc[p] EXCEPT !.pc = "lock", !.blocked = black]]
        BY <4>1, <4>2 DEF Start
      <4> QED
        BY <4>3 DEF End, Idle, Shaped, ProcOK
    <3> QED
      BY <1>1, <2>2, <3>1, ScriptSteps
  <2> QED
    BY <2>1, <2>2
<1>7. CASE FirewallRestart \/ Tick \/ UNCHANGED vars
  BY <1>1, <1>7 DEF FirewallRestart, Tick, vars
<1> QED
  BY <1>4, <1>5, <1>6, <1>7 DEF Next, AdminStep

Applied == installed => chain = Devices(black) \/ Applying

\* An edit leaves a script behind, the script applies the list of the moment, and
\* whatever rebuilds the chains takes that list too.
LEMMA AppliedNext == Shaped /\ Applied /\ [Next]_vars => Applied'
<1> SUFFICES ASSUME Shaped, Applied, [Next]_vars PROVE Applied'
  OBVIOUS
<1>1. CASE \E p \in Proc : share_block_apply(p)
  BY <1>1 DEF share_block_apply, Applied, config
<1>2. CASE \E a \in Admin : EditCommit(a)
  <2> PICK a \in Admin : EditCommit(a)
    BY <1>2
  <2>1. PICK j \in Job : proc'[j].cmd = "block_apply"
    BY ForkedShape DEF EditCommit, Shaped
  <2> QED
    BY <2>1 DEF Applied, Applying, Proc
<1>3. CASE UNCHANGED <<installed, chain, include, black>> /\ ~\E p \in Proc : share_block_apply(p)
  BY <1>3, ApplyingStays DEF Applied
<1>4. CASE Rebuilt \/ TakenDown
  BY <1>4 DEF Rebuilt, TakenDown, Applied
<1> QED
  BY <1>1, <1>2, <1>3, <1>4, FirewallSteps

\* When no change of the blacklist is under way the block chains hold exactly
\* the blacklist: whatever edits, switches and restarts of the firewall came,
\* in whatever order their scripts got the lock.
THEOREM ChainsAreBlacklist == Spec => []BlacklistApplied
<1>1. Init => Applied
  BY DEF Init, Applied, Devices, Range
<1>2. Applied => BlacklistApplied
  BY DEF Applied, BlacklistApplied
<1> QED
  BY <1>1, <1>2, AppliedNext, ShapeInvariant, PTL DEF Spec

-----------------------------------------------------------------------------
(***************************************************************************)
(* AdmittedIsRecorded.  The rule and the record of a device are written    *)
(* together by share_access_allow, and a reload copies the one from the    *)
(* other; but a handler writes back the record it has read, and between    *)
(* a deny's record and its script the rule is still there.  So what holds  *)
(* at any moment is Recorded, and it needs that a handler about to write   *)
(* has not missed an allow, which two requests for one device can do.      *)
(***************************************************************************)
Asking(a)  == proc[a].cmd \in {"allow", "deny"}
OneAtATime == \A a, b \in Admin : Asking(a) /\ Asking(b) /\ a # b => proc[a].mac # proc[b].mac

Denying(m) == \E a \in Admin : proc[a].mac = m /\ proc[a].cmd = "deny" /\ proc[a].pc \in {"start", "lock"}
Recorded   == \A m \in Mac : Admitted(m) =>
                  dev[m].stop = rule[m] /\ (dev[m].grant = "yes" \/ Denying(m))
ReadBy(a)  == LET m == proc[a].mac
                  i == proc[a].info
              IN  /\ proc[a].pc = "commit" =>
                        /\ dev[m].stop = i.stop \/ dev[m].stop = None
                        /\ i.grant = IF proc[a].cmd = "allow" THEN "yes" ELSE "no"
                  /\ proc[a].cmd = "allow" /\ proc[a].pc \in {"start", "lock"} =>
                        dev[m].grant \in {"yes", "absent"}
ReadOK     == \A a \in Admin : ReadBy(a)

\* A record is written by two steps only; otherwise it stays or runs out.
LEMMA DevSteps == ASSUME Shaped, [Next]_vars, NEW m \in Mac
                  PROVE  \/ dev'[m] = dev[m] \/ dev'[m] = NoDev
                         \/ \E a \in Admin : proc[a].mac = m /\ AccessCommit(a)
                         \/ \E p \in Proc : proc[p].mac = m /\ share_access_allow(p)
<1>0. dev \in [Mac -> Device]
  BY DEF Shaped, RestOK
<1>1. ASSUME NEW a \in Admin, AdminStep(a)
      PROVE  dev'[m] = dev[m] \/ (proc[a].mac = m /\ AccessCommit(a))
  <2>1. CASE AccessCommit(a)
    BY <1>0, <2>1 DEF AccessCommit
  <2> QED
    BY <1>1, <2>1 DEF AdminStep, Handler, Access, Edit, set_wifi_share, EditDenied, EditCommit, config
<1>2. ASSUME NEW g \in Guest, NEW n \in Mac, Prepare(g, n) PROVE dev'[m] = dev[m]
  BY <1>2 DEF Prepare, config
<1>3. ASSUME NEW p \in Proc, Script(p)
      PROVE  dev'[m] = dev[m] \/ dev'[m] = NoDev \/ (proc[p].mac = m /\ share_access_allow(p))
  <2>1. CASE share_access_allow(p)
    <3>1. ASSUME proc[p].mac # m PROVE dev'[m] = dev[m]
      BY <1>0, <2>1, <3>1 DEF share_access_allow
    <3> QED
      BY <2>1, <3>1
  <2>2. CASE share_access_timeout(p)
    BY <2>2 DEF share_access_timeout
  <2> QED
    BY <1>3, <2>1, <2>2 DEF Script, Locked, Start, share_access_prepare, share_access_remove,
                            share_block_apply, share_start, share_stop, hwnat_start, config
<1>4. ASSUME FirewallRestart \/ Tick \/ UNCHANGED vars PROVE dev'[m] = dev[m]
  BY <1>4 DEF FirewallRestart, Tick, vars, config
<1> QED
  BY <1>1, <1>2, <1>3, <1>4 DEF Next, AdminStep, Proc

\* Who is where with which command.
LEMMA WhoAsks == ASSUME Shaped, NEW a \in Proc
                 PROVE  /\ proc[a] \in ProcRecord /\ Shape(a, proc[a])
                        /\ Asking(a) => a \in Admin /\ proc[a].mac \in Mac
                        /\ proc[a].pc = "commit" => Asking(a)
<1>1. proc[a] \in ProcRecord /\ Shape(a, proc[a])
  BY DEF Shaped, ProcOK
<1>2. proc[a].cmd \in Cmd
  BY <1>1 DEF ProcRecord
<1> QED
  BY <1>1, <1>2 DEF Shape, Asking, Cmd

\* What one handler has read stays true while others work for other devices.
LEMMA ReadOthers == ASSUME Shaped, OneAtATime, ReadOK, [Next]_vars, NEW b \in Admin, proc'[b] = proc[b],
                           ~AccessCommit(b), ~share_access_allow(b)
                    PROVE  ReadBy(b)'
<1>1. b \in Proc
  BY DEF Proc
<1>2. CASE ~Asking(b)
  BY <1>1, <1>2, WhoAsks DEF ReadBy, Asking
<1>3. CASE Asking(b)
  <2> DEFINE m == proc[b].mac
  <2>1. m \in Mac /\ ReadBy(b)
    BY <1>1, <1>3, WhoAsks DEF ReadOK
  <2>2. dev'[m] = dev[m] \/ dev'[m] = NoDev
    <3>1. ASSUME NEW a \in Proc, proc[a].mac = m, (a \in Admin /\ AccessCommit(a)) \/ share_access_allow(a)
          PROVE  FALSE
      <4>1. Asking(a)
        BY <3>1, WhoAsks DEF AccessCommit, share_access_allow, In, Asking
      <4> QED
        BY <1>3, <3>1, <4>1, WhoAsks DEF OneAtATime
    <3> QED
      BY <2>1, <3>1, DevSteps DEF Proc
  <2> QED
    BY <2>1, <2>2 DEF ReadBy, NoDev
<1> QED
  BY <1>2, <1>3

\* What a handler read when it read it, and what it has when it has written.
LEMMA ReadNext == Shaped /\ OneAtATime /\ ReadOK /\ [Next]_vars => ReadOK'
<1> SUFFICES ASSUME Shaped, OneAtATime, ReadOK, [Next]_vars, NEW b \in Admin PROVE ReadBy(b)'
  BY DEF ReadOK
<1>0. b \in Proc /\ b \notin Guest /\ b \notin Job /\ proc \in [Proc -> ProcRecord] /\ dev \in [Mac -> Device]
  BY SetAssumption DEF Proc, Shaped, ProcOK, RestOK
<1>b. ReadBy(b) /\ proc[b] \in ProcRecord /\ Shape(b, proc[b])
  BY <1>0, WhoAsks DEF ReadOK
<1>1. ASSUME proc'[b].cmd \notin {"allow", "deny"}, proc'[b].pc # "commit" PROVE ReadBy(b)'
  BY <1>1 DEF ReadBy
<1>2. CASE \E a \in Admin : AdminStep(a)
  <2> PICK a \in Admin : AdminStep(a)
    BY <1>2
  <2>1. CASE a # b
    <3>1. proc'[b] = proc[b]
      BY <1>0, <2>1, HandlerSteps
    <3>2. ~AccessCommit(b)
      <4>1. ASSUME AccessCommit(b) PROVE proc'[b].pc = "start" /\ proc[b].pc = "commit"
        BY <1>0, <4>1 DEF AccessCommit, ProcRecord
      <4> QED
        BY <3>1, <4>1
    <3>3. ~share_access_allow(b)
      <4>1. ASSUME share_access_allow(b) PROVE proc'[b].pc = "timeout" /\ proc[b].pc = "lock"
        BY <1>0, <4>1 DEF share_access_allow, In, Goto, ProcRecord
      <4> QED
        BY <3>1, <4>1
    <3> QED
      BY <3>1, <3>2, <3>3, ReadOthers
  <2>2. CASE a = b
    <3>1. ASSUME NEW m \in Mac, NEW cmd \in {"allow", "deny"}, NEW direct \in BOOLEAN, Access(b, m, cmd, direct)
          PROVE  ReadBy(b)'
      <4>1. /\ proc'[b].pc = "commit" /\ proc'[b].cmd = cmd /\ proc'[b].mac = m
            /\ proc'[b].info = [grant |-> IF cmd = "allow" THEN "yes" ELSE "no", stop  |-> dev[m].stop]
            /\ dev' = dev
        BY <1>0, <3>1 DEF Access, Idle, config
      <4> QED
        BY <4>1 DEF ReadBy
    <3>2. ASSUME NEW list \in Lists, NEW cmd \in {"+", "-"}, Edit(b, list, cmd) PROVE ReadBy(b)'
      <4>1. proc'[b].pc = "editcommit" /\ proc'[b].cmd = cmd
        BY <1>0, <3>2 DEF Edit, Idle
      <4> QED
        BY <1>1, <4>1
    <3>3. ASSUME EditCommit(b) \/ \E on, guest \in BOOLEAN : set_wifi_share(b, on, guest) PROVE ReadBy(b)'
      <4>1. \E cmd \in {"on", "off", "block_apply"} : Fork(b, Idle, cmd)
        BY <3>3 DEF EditCommit, set_wifi_share
      <4>2. proc'[b] = Idle
        BY <4>1, ForkedShape DEF Shaped
      <4> QED
        BY <1>1, <4>2 DEF Idle
    <3>4. CASE AccessCommit(b)
      <4>1. /\ proc[b].pc = "commit" /\ proc'[b].pc = "start"
            /\ proc'[b].cmd = proc[b].cmd /\ proc'[b].mac = proc[b].mac /\ proc[b].mac \in Mac
        BY <1>0, <1>b, <3>4, WhoAsks DEF AccessCommit, ProcRecord
      <4>2. dev'[proc[b].mac].grant = proc[b].info.grant
        BY <1>0, <1>b, <3>4, <4>1 DEF AccessCommit, ProcRecord, Device
      <4> QED
        BY <1>b, <4>1, <4>2 DEF ReadBy
    <3>5. CASE EditDenied(b)
      <4>1. proc'[b].pc = "editcommit" /\ proc'[b].cmd = "+"
        BY <1>0, <3>5 DEF EditDenied, Idle
      <4> QED
        BY <1>1, <4>1
    <3> QED
      BY <2>2, <3>1, <3>2, <3>3, <3>4, <3>5 DEF AdminStep, Handler
  <2> QED
    BY <2>1, <2>2
<1>3. CASE \E g \in Guest, m \in Mac : Prepare(g, m)
  <2>1. proc'[b] = proc[b] /\ dev' = dev
    BY <1>0, <1>3 DEF Prepare, config
  <2> QED
    BY <1>b, <2>1 DEF ReadBy
<1>4. CASE \E p \in Proc : Script(p)
  <2> PICK p \in Proc : Script(p)
    BY <1>4
  <2>1. CASE p # b
    <3>1. proc'[b] = proc[b]
      BY <1>0, <2>1, ScriptSteps
    <3>2. ~AccessCommit(b)
      <4>1. ASSUME AccessCommit(b) PROVE proc'[b].pc = "start" /\ proc[b].pc = "commit"
        BY <1>0, <4>1 DEF AccessCommit, ProcRecord
      <4> QED
        BY <3>1, <4>1
    <3>3. ~share_access_allow(b)
      <4>1. ASSUME share_access_allow(b) PROVE proc'[b].pc = "timeout" /\ proc[b].pc = "lock"
        BY <1>0, <4>1 DEF share_access_allow, In, Goto, ProcRecord
      <4> QED
        BY <3>1, <4>1
    <3> QED
      BY <3>1, <3>2, <3>3, ReadOthers
  <2>2. CASE p = b /\ proc'[b] = Idle
    BY <1>1, <2>2 DEF Idle
  <2>3. CASE p = b /\ proc'[b] # Idle
    <3>1. /\ proc'[b].cmd = proc[b].cmd /\ proc'[b].mac = proc[b].mac
          /\ proc'[b].pc \in {"lock", "timeout", "edit", "hwstart"}
          /\ proc'[b].pc = "lock" => Start(b)
      BY <2>3, ScriptSteps
    <3>2. CASE ~Start(b)
      BY <3>1, <3>2 DEF ReadBy
    <3>3. CASE Start(b)
      <4>1. dev' = dev /\ proc[b].pc \in {"start", "sleep"}
        BY <3>3 DEF Start, config
      <4>2. proc[b].cmd = "allow" => proc[b].pc = "start"
        BY <1>b, <4>1 DEF Shape
      <4> QED
        BY <1>b, <3>1, <4>1, <4>2 DEF ReadBy
    <3> QED
      BY <3>2, <3>3
  <2> QED
    BY <2>1, <2>2, <2>3
<1>5. CASE FirewallRestart \/ Tick \/ UNCHANGED vars
  <2>1. proc' = proc /\ dev' = dev
    BY <1>5 DEF FirewallRestart, Tick, vars, config
  <2> QED
    BY <1>b, <2>1 DEF ReadBy
<1> QED
  BY <1>2, <1>3, <1>4, <1>5 DEF Next, AdminStep

\* A deny that is not carried out yet still is not, but for the step that does.
LEMMA DenyingStays == ASSUME Shaped, [Next]_vars, NEW m, Denying(m),
                             ~\E p \in Proc : proc[p].mac = m /\ share_access_remove(p)
                      PROVE  Denying(m)'
<1>1. PICK b \in Admin : proc[b].mac = m /\ proc[b].cmd = "deny" /\ proc[b].pc \in {"start", "lock"}
  BY DEF Denying
<1>2. b \in Proc /\ b \notin Guest /\ b \notin Job /\ proc \in [Proc -> ProcRecord]
  BY SetAssumption DEF Proc, Shaped, ProcOK
<1>3. SUFFICES proc'[b].mac = m /\ proc'[b].cmd = "deny" /\ proc'[b].pc \in {"start", "lock"}
  BY DEF Denying
<1>4. CASE \E a \in Admin : AdminStep(a)
  <2> PICK a \in Admin : AdminStep(a)
    BY <1>4
  <2>1. ASSUME a = b PROVE FALSE
    BY <1>1, <2>1 DEF AdminStep, Handler, Access, Edit, set_wifi_share, AccessCommit, EditDenied,
       EditCommit
  <2> QED
    BY <1>1, <1>2, <2>1, HandlerSteps
<1>5. CASE \E g \in Guest, n \in Mac : Prepare(g, n)
  BY <1>1, <1>2, <1>5 DEF Prepare
<1>6. CASE \E p \in Proc : Script(p)
  <2> PICK p \in Proc : Script(p)
    BY <1>6
  <2>1. CASE p # b
    BY <1>1, <1>2, <2>1, ScriptSteps
  <2>2. CASE p = b
    <3>1. Start(b)
      BY <1>1, <1>2, <2>2 DEF Script, Locked, In, share_access_prepare, share_access_allow,
         share_block_apply, share_start, share_stop, share_access_timeout, hwnat_start
    <3>2. proc'[b] # Idle
      <4>1. PICK l : proc' = [proc EXCEPT ![b] = [proc[b] EXCEPT !.pc = "lock", !.blocked = l]]
        BY <1>1, <3>1 DEF Start
      <4>2. proc'[b].pc = "lock"
        BY <1>2, <4>1 DEF ProcRecord
      <4> QED
        BY <4>2 DEF Idle
    <3> QED
      BY <1>1, <2>2, <3>1, <3>2, ScriptSteps
  <2> QED
    BY <2>1, <2>2
<1>7. CASE FirewallRestart \/ Tick \/ UNCHANGED vars
  BY <1>1, <1>7 DEF FirewallRestart, Tick, vars
<1> QED
  BY <1>4, <1>5, <1>6, <1>7 DEF Next, AdminStep

\* A step that neither denies m nor writes its record wrongly leaves it as
\* Recorded says.
Fits(m) == \/ ~Admitted(m)'
           \/ Admitted(m) /\ rule'[m] = rule[m] /\ dev'[m] = dev[m]
           \/ dev'[m].stop = rule'[m] /\ (dev'[m].grant = "yes" \/ Denying(m)')

\* A step that leaves the record, and the rule or removes it, fits.
LEMMA Tell == ASSUME Shaped, Shaped', now' >= now, NEW m \in Mac, dev'[m] = dev[m],
                     rule'[m] \in {rule[m], None}
              PROVE  Fits(m)
  BY TimeAssumption DEF Fits, Admitted, None, Shaped, RestOK, Time

\* What a reload puts in the firewall is what the records say.
LEMMA ReloadFits == ASSUME Shaped, NEW list, share_reload(list), dev' = dev, now' = now, NEW m \in Mac
                    PROVE  Fits(m)
<1>1. rule'[m] = IF Listed(m, list) /\ m \notin Capitals(black) THEN dev[m].stop ELSE None
  BY DEF share_reload
<1>2. CASE Listed(m, list) /\ m \notin Capitals(black)
  BY <1>1, <1>2 DEF Fits, Listed
<1>3. CASE ~(Listed(m, list) /\ m \notin Capitals(black))
  BY <1>1, <1>3, TimeAssumption DEF Fits, Admitted, None, Shaped, RestOK
<1> QED
  BY <1>2, <1>3

\* Every step fits, the one that writes a record back included.
LEMMA AllFit == ASSUME Shaped, Shaped', Recorded, ReadOK, [Next]_vars, NEW m \in Mac
                PROVE  Fits(m)
<1>0. /\ dev \in [Mac -> Device] /\ rule \in [Mac -> Time \cup {None}] /\ now \in Nat
      /\ proc \in [Proc -> ProcRecord] /\ Time \subseteq Nat /\ AuthTime \in Nat /\ Timeout \in Nat
  BY TimeAssumption DEF Shaped, RestOK, ProcOK, Time
<1>m. rule[m] \in Int
  <2>1. rule[m] \in Time \cup {None}
    BY <1>0
  <2>2. None \in Int /\ \A t \in Time : t \in Int
    BY <1>0 DEF None
  <2> QED
    BY <2>1, <2>2
<1>1. CASE \E a \in Admin : AdminStep(a)
  <2> PICK a \in Admin : AdminStep(a)
    BY <1>1
  <2>1. rule' = rule /\ now' = now
    BY DEF AdminStep, Handler, Access, Edit, set_wifi_share, AccessCommit, EditDenied, EditCommit,
       firewall
  <2>2. CASE AccessCommit(a) /\ proc[a].mac = m
    <3>1. /\ a \in Proc /\ a \notin Guest \cup Job /\ proc[a].pc = "commit"
          /\ proc[a].info \in Device /\ proc[a].cmd \in {"allow", "deny"}
      BY <1>0, <2>2, WhoAsks, SetAssumption DEF AccessCommit, Proc, ProcRecord, Asking
    <3>2. /\ dev'[m].grant = proc[a].info.grant
          /\ dev'[m].stop = IF proc[a].info.stop = None THEN dev[m].stop ELSE proc[a].info.stop
      BY <1>0, <2>2, <3>1 DEF AccessCommit, Device
    <3>3. /\ dev[m].stop = proc[a].info.stop \/ dev[m].stop = None
          /\ proc[a].info.grant = IF proc[a].cmd = "allow" THEN "yes" ELSE "no"
      BY <2>2, <3>1 DEF ReadOK, ReadBy
    <3>4. ASSUME Admitted(m) PROVE dev'[m].stop = rule[m]
      <4>1. dev[m].stop = rule[m] /\ rule[m] # None
        BY <1>0, <3>4 DEF Recorded, Admitted, None
      <4> QED
        BY <3>2, <3>3, <4>1
    <3>5. proc[a].cmd = "deny" => Denying(m)'
      <4>1. proc'[a].mac = m /\ proc'[a].cmd = proc[a].cmd /\ proc'[a].pc = "start"
        BY <1>0, <2>2, <3>1 DEF AccessCommit, ProcRecord
      <4> QED
        BY <4>1 DEF Denying
    <3> QED
      BY <2>1, <3>1, <3>2, <3>3, <3>4, <3>5 DEF Fits, Admitted
  <2>3. CASE ~(AccessCommit(a) /\ proc[a].mac = m)
    <3>1. dev'[m] = dev[m]
      <4>1. CASE AccessCommit(a)
        BY <1>0, <2>3, <4>1 DEF AccessCommit
      <4> QED
        BY <4>1 DEF AdminStep, Handler, Access, Edit, set_wifi_share, EditDenied, EditCommit, config
    <3> QED
      BY <1>0, <2>1, <3>1, Tell
  <2> QED
    BY <2>2, <2>3
<1>2. CASE \E g \in Guest, n \in Mac : Prepare(g, n)
  BY <1>0, <1>2, Tell DEF Prepare, config, firewall
<1>3. CASE \E p \in Proc : Script(p)
  <2> PICK p \in Proc : Script(p)
    BY <1>3
  <2>0. proc[p] \in ProcRecord /\ Shape(p, proc[p]) /\ now' = now
    BY WhoAsks DEF Script, Locked, Start, share_access_prepare, share_access_allow, share_access_remove,
       share_block_apply, share_start, share_stop, share_access_timeout, hwnat_start
  <2>1. CASE Start(p) \/ hwnat_start(p)
    BY <1>0, <2>0, <2>1, Tell DEF Start, hwnat_start, config, firewall
  <2>2. CASE share_access_prepare(p)
    <3>1. rule'[m] = rule[m] \/ rule'[m] = now + AuthTime
      BY <1>0, <2>2 DEF share_access_prepare
    <3>2. dev' = dev
      BY <2>2 DEF share_access_prepare, config
    <3>3. rule'[m] = now + AuthTime => ~Admitted(m)'
      BY <1>0, <2>0 DEF Admitted
    <3> QED
      BY <1>0, <2>0, <3>1, <3>2, <3>3, Tell DEF Fits
  <2>3. CASE share_access_allow(p)
    <3>1. proc[p].mac \in Mac /\ p \in Admin /\ proc[p].pc = "lock" /\ proc[p].cmd = "allow"
      BY <2>0, <2>3 DEF share_access_allow, In, Shape
    <3>2. CASE Keeps(p)
      BY <1>0, <2>0, <2>3, <3>2, Tell DEF share_access_allow
    <3>3. CASE ~Keeps(p) /\ proc[p].mac # m
      BY <1>0, <2>0, <2>3, <3>1, <3>3, Tell DEF share_access_allow
    <3>4. CASE ~Keeps(p) /\ proc[p].mac = m
      <4>1. dev[m].grant \in {"yes", "absent"}
        BY <3>1, <3>4 DEF ReadOK, ReadBy
      <4>2. dev'[m].stop = now + Timeout /\ dev'[m].grant = "yes" /\ rule'[m] = now + Timeout
        BY <1>0, <2>3, <3>4, <4>1 DEF share_access_allow, Device
      <4> QED
        BY <4>2 DEF Fits
    <3> QED
      BY <3>2, <3>3, <3>4
  <2>4. CASE share_access_remove(p) \/ share_block_apply(p)
    <3>1. rule'[m] \in {rule[m], None} /\ dev'[m] = dev[m]
      BY <1>0, <2>4 DEF share_access_remove, share_block_apply, config
    <3> QED
      BY <1>0, <2>0, <3>1, Tell
  <2>5. CASE share_start(p)
    BY <1>0, <2>0, <2>5, ReloadFits, Tell DEF share_start, firewall
  <2>6. CASE share_stop(p)
    <3>1. rule'[m] = None /\ dev' = dev
      BY <2>6 DEF share_stop, Flush
    <3> QED
      BY <1>0, <2>0, <3>1, Tell
  <2>7. CASE share_access_timeout(p)
    <3>1. /\ rule'[m] = IF rule[m] < now /\ m \notin EarlyLetter THEN None ELSE rule[m]
          /\ dev'[m] = IF dev[m].stop < now THEN NoDev ELSE dev[m]
      BY <2>7 DEF share_access_timeout
    <3>2. CASE Admitted(m)
      <4>1. rule[m] > now /\ dev[m].stop = rule[m]
        BY <1>0, <1>m, <3>2 DEF Admitted, Recorded
      <4>2. ~(rule[m] < now) /\ ~(dev[m].stop < now)
        BY <1>0, <1>m, <4>1
      <4> QED
        BY <3>1, <3>2, <4>2 DEF Fits
    <3>3. CASE ~Admitted(m)
      <4>1. ~Admitted(m)'
        BY <1>0, <2>0, <3>1, <3>3 DEF Admitted, None
      <4> QED
        BY <4>1 DEF Fits
    <3> QED
      BY <3>2, <3>3
  <2> QED
    BY <2>1, <2>2, <2>3, <2>4, <2>5, <2>6, <2>7 DEF Script, Locked
<1>4. CASE FirewallRestart
  <2>1. CASE include
    BY <1>4, <2>1, ReloadFits DEF FirewallRestart, config
  <2>2. CASE ~include
    <3>1. rule'[m] = None /\ dev' = dev /\ now' = now
      BY <1>4, <2>2 DEF FirewallRestart, Flush, config
    <3> QED
      BY <1>0, <3>1, Tell
  <2> QED
    BY <2>1, <2>2
<1>5. CASE Tick \/ UNCHANGED vars
  <2>1. rule' = rule /\ dev' = dev /\ now' >= now
    BY <1>0, <1>5 DEF Tick, vars, config, firewall
  <2> QED
    BY <2>1, Tell
<1> QED
  BY <1>1, <1>2, <1>3, <1>4, <1>5 DEF Next, AdminStep

\* Every step keeps the rules and the records together.
LEMMA RecordedNext == Shaped /\ Shaped' /\ Recorded /\ ReadOK /\ [Next]_vars => Recorded'
<1> SUFFICES ASSUME Shaped, Shaped', Recorded, ReadOK, [Next]_vars, NEW m \in Mac, Admitted(m)'
             PROVE  dev'[m].stop = rule'[m] /\ (dev'[m].grant = "yes" \/ Denying(m)')
  BY DEF Recorded
<1>1. CASE Admitted(m) /\ rule'[m] = rule[m] /\ dev'[m] = dev[m]
  <2>1. ~\E p \in Proc : proc[p].mac = m /\ share_access_remove(p)
    <3>1. ASSUME NEW p \in Proc, proc[p].mac = m, share_access_remove(p) PROVE FALSE
      <4>1. rule'[m] = None /\ now' = now
        BY <3>1 DEF share_access_remove, Shaped, RestOK
      <4> QED
        BY <4>1, TimeAssumption DEF Admitted, None, Shaped, RestOK
    <3> QED
      BY <3>1
  <2> QED
    BY <1>1, <2>1, DenyingStays DEF Recorded
<1>2. CASE ~(Admitted(m) /\ rule'[m] = rule[m] /\ dev'[m] = dev[m])
  BY <1>2, AllFit DEF Fits
<1> QED
  BY <1>1, <1>2

\* At the start nobody is let in and nobody asks.
LEMMA RecordedInit == Init => Recorded /\ ReadOK
<1>1. ASSUME Init PROVE Recorded /\ ReadOK
  <2>1. /\ now = 0 /\ rule = [m \in Mac |-> None]
        /\ \A p \in Proc : proc[p].pc = "idle" /\ proc[p].cmd = "none"
    BY <1>1 DEF Init, Idle
  <2>2. \A m \in Mac : ~Admitted(m)
    BY <2>1, TimeAssumption DEF Admitted, None
  <2> QED
    BY <2>1, <2>2 DEF Recorded, ReadOK, ReadBy, Proc
<1> QED
  BY <1>1

\* If no two requests for one device are handled at the same time, the rules
\* that let devices in for a day are those of the records: a device that was
\* denied has none, whatever restarts of the firewall, timeouts, prepares,
\* blacklist edits and switches come in between.
THEOREM AdmittedAreRecorded == Spec /\ []OneAtATime => []AdmittedIsRecorded
<1>1. Recorded => AdmittedIsRecorded
  <2> SUFFICES ASSUME Recorded, NEW m \in Mac, Admitted(m), ~Busy(m)
               PROVE  dev[m].grant = "yes" /\ dev[m].stop = rule[m]
    BY DEF AdmittedIsRecorded
  <2> QED
    BY DEF Recorded, Denying, Busy, Proc
<1> QED
  BY <1>1, RecordedInit, RecordedNext, ReadNext, ShapeInvariant, PTL DEF Spec

-----------------------------------------------------------------------------
(***************************************************************************)
(* SwitchSettled.  The include section and the chains change together;     *)
(* hardware NAT follows before or after, and meanwhile the script that has *)
(* it to do is there.  That script must be the only one: two switches that *)
(* overlap leave whatever the last steps of each left.                     *)
(***************************************************************************)
Switch(j)  == proc[j].cmd \in {"on", "off"}
SwitchedOn == \E j \in Job : proc[j].cmd = "on" /\ proc[j].pc = "lock"
ToSwitch   == \E j \in Job : proc[j].cmd = "off" /\ proc[j].pc = "hwstart"

Switching ==
    /\ \A j, k \in Job : Switch(j) /\ Switch(k) => j = k
    /\ \A j \in Job : /\ proc[j].cmd = "on"  => ~disabled /\ (proc[j].pc = "lock" => hwOff)
                      /\ proc[j].cmd = "off" => disabled /\ (proc[j].pc = "hwstart" => ~include)
    /\ hwOff = include \/ SwitchedOn \/ ToSwitch
    /\ disabled => ~include \/ SwitchPending

\* The chains are in the firewall when the include section is in uci.
Together == installed = include

\* Every step changes both or none.
LEMMA TogetherNext == Shaped /\ Shaped' /\ Together /\ [Next]_vars => Together'
<1> SUFFICES ASSUME Shaped, Shaped', installed = include, [Next]_vars PROVE installed' = include'
  BY DEF Together
<1>0. installed' \in BOOLEAN /\ include' \in BOOLEAN
  BY DEF Shaped, RestOK
<1>1. ASSUME NEW p \in Proc, share_block_apply(p) PROVE installed' = include'
  BY <1>1 DEF share_block_apply, config
<1>2. ASSUME NEW a \in Admin, EditCommit(a) PROVE installed' = include'
  BY <1>2 DEF EditCommit, firewall
<1>3. CASE installed' = installed /\ include' = include
  BY <1>3
<1>4. CASE Rebuilt \/ TakenDown
  BY <1>0, <1>4 DEF Rebuilt, TakenDown
<1> QED
  BY <1>1, <1>2, <1>3, <1>4, FirewallSteps

\* A step that leaves the switch's flags and its scripts alone.
LEMMA SwitchKept == ASSUME Switching, disabled' = disabled, include' = include, hwOff' = hwOff,
                           \A j \in Job : proc'[j] = proc[j] \/ (~Switch(j) /\ ~Switch(j)')
                    PROVE  Switching'
  BY DEF Switching, Switch, SwitchedOn, ToSwitch, SwitchPending

\* Other scripts touch neither the flags nor the script of a switch.
LEMMA OtherScripts == ASSUME Shaped, Switching, NEW p \in Proc, Script(p), proc[p].cmd \notin {"on", "off"}
                      PROVE  Switching'
<1>1. ~share_start(p) /\ ~share_stop(p) /\ ~hwnat_start(p)
  <2>1. proc[p].pc # "hwstart"
    BY WhoAsks DEF Shape, ProcRecord, Cmd
  <2> QED
    BY <2>1 DEF share_start, share_stop, hwnat_start, In
<1>2. disabled' = disabled /\ include' = include /\ hwOff' = hwOff
  BY <1>1 DEF Script, Locked, Start, share_access_prepare, share_access_allow, share_access_remove,
              share_block_apply, share_access_timeout, config
<1>3. \A j \in Job : proc'[j] = proc[j] \/ (~Switch(j) /\ ~Switch(j)')
  <2>1. ASSUME NEW j \in Job, j = p PROVE ~Switch(j) /\ ~Switch(j)'
    BY <2>1, ScriptSteps DEF Idle, Switch
  <2> QED
    BY <2>1, ScriptSteps DEF Proc
<1> QED
  BY <1>2, <1>3, SwitchKept

\* The script of the one switch that is under way goes on.
LEMMA SwitchScript == ASSUME Shaped, Shaped', Switching, NEW p \in Proc, Script(p), proc[p].cmd \in {"on", "off"}
                      PROVE  Switching'
<1>0. /\ p \in Job /\ proc[p] \in ProcRecord /\ proc \in [Proc -> ProcRecord] /\ Job \subseteq Proc
      /\ proc[p].cmd = "on" => proc[p].pc \in {"sleep", "lock"}
      /\ proc[p].cmd = "off" => proc[p].pc \in {"sleep", "lock", "hwstart"}
      /\ include \in BOOLEAN /\ hwOff \in BOOLEAN /\ disabled \in BOOLEAN
  BY WhoAsks DEF Shape, Proc, Shaped, ProcOK, RestOK
<1>1. \A j \in Job \ {p} : proc'[j] = proc[j] /\ ~Switch(j) /\ ~Switch(j)'
  BY <1>0, ScriptSteps DEF Switching, Switch
<1>2. \A j, k \in Job : Switch(j)' /\ Switch(k)' => j = k
  BY <1>1
<1>3. /\ SwitchedOn <=> (proc[p].cmd = "on" /\ proc[p].pc = "lock")
      /\ ToSwitch <=> (proc[p].cmd = "off" /\ proc[p].pc = "hwstart")
      /\ SwitchPending
  BY <1>0, <1>1 DEF SwitchedOn, ToSwitch, SwitchPending, Switch
<1>4. /\ (proc'[p].cmd = "on" /\ proc'[p].pc = "lock") => SwitchedOn'
      /\ (proc'[p].cmd = "off" /\ proc'[p].pc = "hwstart") => ToSwitch'
      /\ proc'[p].cmd \in {"on", "off"} => SwitchPending'
  BY <1>0 DEF SwitchedOn, ToSwitch, SwitchPending
<1>b. include' \in BOOLEAN /\ hwOff' \in BOOLEAN /\ disabled' \in BOOLEAN
  BY DEF Shaped, RestOK
<1>s. /\ proc[p].cmd = "on"  => ~disabled /\ (proc[p].pc = "lock" => hwOff)
      /\ proc[p].cmd = "off" => disabled /\ (proc[p].pc = "hwstart" => ~include)
      /\ proc[p].pc = "sleep" => (hwOff <=> include)
  <2>1. (hwOff <=> include) \/ SwitchedOn \/ ToSwitch
    BY DEF Switching
  <2>2. /\ proc[p].cmd = "on"  => ~disabled /\ (proc[p].pc = "lock" => hwOff)
        /\ proc[p].cmd = "off" => disabled /\ (proc[p].pc = "hwstart" => ~include)
    <3>1. p \in Job
      BY <1>0
    <3> QED
      BY <3>1, Zenon DEF Switching
  <2> QED
    BY <1>3, <2>1, <2>2
<1>5. SUFFICES /\ proc'[p].cmd = "on"  => ~disabled' /\ (proc'[p].pc = "lock" => hwOff')
               /\ proc'[p].cmd = "off" => disabled' /\ (proc'[p].pc = "hwstart" => ~include')
               /\ (hwOff' <=> include') \/ SwitchedOn' \/ ToSwitch'
               /\ disabled' => ~include' \/ SwitchPending'
  <2>1. (hwOff' <=> include') <=> (hwOff' = include')
    BY <1>b
  <2> QED
    BY <1>1, <1>2, <2>1 DEF Switching, Switch
<1>i. ASSUME proc'[p] = Idle PROVE proc'[p].cmd \notin {"on", "off"}
  BY <1>i DEF Idle
<1>6. CASE Start(p)
  <2>1. (disabled' <=> disabled) /\ (include' <=> include) /\ proc[p].pc = "sleep"
    BY <1>0, <1>6 DEF Start, config
  <2>2. CASE End(p)
    <3>1. proc'[p] = Idle /\ proc[p].cmd = "on" /\ (hwOff' <=> hwOff)
      <4>1. proc'[p] = Idle
        BY <1>0, <2>2 DEF End
      <4>2. proc'[p].pc # "lock"
        BY <4>1 DEF Idle
      <4>3. ASSUME NEW l, proc' = [proc EXCEPT ![p] = [proc[p] EXCEPT !.pc = "lock", !.blocked = l]] PROVE FALSE
        BY <1>0, <4>2, <4>3 DEF ProcRecord
      <4> QED
        BY <1>6, <4>1, <4>3 DEF Start
    <3> QED
      BY <1>s, <1>i, <2>1, <3>1
  <2>3. CASE ~End(p)
    <3>1. proc'[p].cmd = proc[p].cmd /\ proc'[p].pc = "lock"
      BY <1>6, <2>3, ScriptSteps
    <3>2. CASE proc[p].cmd = "on"
      <4>1. hwOff'
        BY <1>6, <2>3, <3>2 DEF Start
      <4> QED
        BY <1>s, <1>4, <2>1, <3>1, <3>2, <4>1
    <3>3. CASE proc[p].cmd = "off"
      <4>1. hwOff' <=> hwOff
        BY <1>6, <3>3 DEF Start
      <4> QED
        BY <1>s, <1>4, <2>1, <3>1, <3>3, <4>1
    <3> QED
      BY <3>2, <3>3
  <2> QED
    BY <2>2, <2>3
<1>7. CASE share_start(p)
  <2>1. /\ proc[p].cmd = "on" /\ proc[p].pc = "lock" /\ include'
        /\ (disabled' <=> disabled) /\ (hwOff' <=> hwOff) /\ proc'[p] = Idle
    BY <1>0, <1>7 DEF share_start, In, End
  <2> QED
    BY <1>s, <1>i, <2>1
<1>8. CASE share_stop(p)
  <2>1. /\ proc[p].cmd = "off" /\ ~include' /\ (disabled' <=> disabled)
        /\ proc'[p].cmd = "off" /\ proc'[p].pc = "hwstart"
    BY <1>0, <1>8 DEF share_stop, In, Goto, ProcRecord
  <2> QED
    BY <1>s, <1>4, <2>1
<1>9. CASE hwnat_start(p)
  <2>1. /\ proc[p].cmd = "off" /\ proc[p].pc = "hwstart" /\ (include' <=> include) /\ ~hwOff'
        /\ (disabled' <=> disabled) /\ proc'[p] = Idle
    BY <1>0, <1>9 DEF hwnat_start, End, config
  <2> QED
    BY <1>s, <1>i, <2>1
<1> QED
  BY <1>0, <1>6, <1>7, <1>8, <1>9 DEF Script, Locked, In, share_access_prepare, share_access_allow,
     share_access_remove, share_block_apply, share_access_timeout

\* Switching is not hasty: a request to switch waits for the last one's script.
LEMMA SwitchingNext == ASSUME ~Hasty PROVE Shaped /\ Shaped' /\ Switching /\ [Next]_vars => Switching'
<1> SUFFICES ASSUME Shaped, Shaped', Switching, [Next]_vars PROVE Switching'
  OBVIOUS
<1>0. Job \subseteq Proc /\ Job \cap (Admin \cup Guest) = {} /\ proc \in [Proc -> ProcRecord]
  BY SetAssumption DEF Proc, Shaped, ProcOK
<1>1. CASE \E a \in Admin : AdminStep(a)
  <2> PICK a \in Admin : AdminStep(a)
    BY <1>1
  <2>1. ASSUME NEW on \in BOOLEAN, NEW guest \in BOOLEAN, set_wifi_share(a, on, guest) PROVE Switching'
    <3> DEFINE cmd == IF on THEN "on" ELSE "off"
    <3>1. ~SwitchPending /\ disabled' = ~on /\ include' = include /\ hwOff' = hwOff /\ Fork(a, Idle, cmd)
      BY <2>1 DEF set_wifi_share
    <3>2. PICK j \in Job : /\ proc'[j].cmd = cmd /\ proc'[j].pc = "sleep"
                           /\ \A q \in Proc \ {a, j} : proc'[q] = proc[q]
      BY <3>1, ForkedShape DEF Shaped
    <3>3. \A k \in Job : ~Switch(k) /\ (k # j => ~Switch(k)')
      BY <1>0, <3>1, <3>2 DEF SwitchPending, Switch
    <3>4. hwOff = include /\ SwitchPending'
      BY <3>2, <3>3 DEF Switching, SwitchedOn, ToSwitch, SwitchPending, Switch
    <3> QED
      BY <3>1, <3>2, <3>3, <3>4 DEF Switching, Switch
  <2>2. CASE EditCommit(a)
    <3>1. disabled' = disabled /\ include' = include /\ hwOff' = hwOff /\ Fork(a, Idle, "block_apply")
      BY <2>2 DEF EditCommit
    <3>2. PICK j \in Job : /\ proc[j].pc = "idle" /\ proc'[j].cmd = "block_apply"
                           /\ \A q \in Proc \ {a, j} : proc'[q] = proc[q]
      BY <3>1, ForkedShape DEF Shaped
    <3>3. ~Switch(j) /\ ~Switch(j)'
      BY <1>0, <3>2, WhoAsks DEF Shape, Idle, Switch
    <3>4. \A k \in Job : proc'[k] = proc[k] \/ (~Switch(k) /\ ~Switch(k)')
      BY <1>0, <3>2, <3>3
    <3> QED
      BY <3>1, <3>4, SwitchKept
  <2>3. CASE ~EditCommit(a) /\ ~\E on, guest \in BOOLEAN : set_wifi_share(a, on, guest)
    <3>1. disabled' = disabled /\ include' = include /\ hwOff' = hwOff
      BY <2>3 DEF AdminStep, Handler, Access, Edit, AccessCommit, EditDenied, config
    <3>2. \A j \in Job : proc'[j] = proc[j]
      <4>1. ASSUME NEW r, proc' = [proc EXCEPT ![a] = r] PROVE \A j \in Job : proc'[j] = proc[j]
        BY <1>0, <4>1
      <4>2. CASE AccessCommit(a)
        BY <1>0, <4>2 DEF AccessCommit
      <4> QED
        BY <2>3, <4>1, <4>2 DEF AdminStep, Handler, Access, Edit, EditDenied
    <3> QED
      BY <3>1, <3>2, SwitchKept
  <2> QED
    BY <2>1, <2>2, <2>3
<1>2. CASE \E g \in Guest, m \in Mac : Prepare(g, m)
  <2>1. disabled' = disabled /\ include' = include /\ hwOff' = hwOff /\ \A j \in Job : proc'[j] = proc[j]
    BY <1>0, <1>2 DEF Prepare, config
  <2> QED
    BY <2>1, SwitchKept
<1>3. CASE \E p \in Proc : Script(p)
  BY <1>3, OtherScripts, SwitchScript
<1>4. CASE FirewallRestart \/ Tick \/ UNCHANGED vars
  <2>1. disabled' = disabled /\ include' = include /\ hwOff' = hwOff /\ proc' = proc
    BY <1>4 DEF FirewallRestart, Tick, vars, config
  <2> QED
    BY <2>1, SwitchKept
<1> QED
  BY <1>1, <1>2, <1>3, <1>4 DEF Next, AdminStep

\* The chains and the include section agree at every moment.
THEOREM ChainsFollowInclude == Spec => []Together
<1>1. Init => Together
  BY DEF Init, Together
<1> QED
  BY <1>1, TogetherNext, ShapeInvariant, PTL DEF Spec

\* If sharing is not switched while a switch is pending, then whenever none is
\* the firewall, its include section and hardware NAT agree, and off is off.
THEOREM SwitchesSettle == ASSUME ~Hasty PROVE Spec => []SwitchSettled
<1>1. Init => Switching
  BY DEF Init, Switching, Switch, SwitchedOn, ToSwitch, Idle, Proc
<1>2. Switching /\ Together => SwitchSettled
  BY DEF Together, Switching, SwitchSettled, SwitchedOn, ToSwitch, SwitchPending
<1>3. Shaped /\ Shaped' /\ Switching /\ [Next]_vars => Switching'
  BY SwitchingNext
<1> QED
  BY <1>1, <1>2, <1>3, ChainsFollowInclude, ShapeInvariant, PTL DEF Spec
=============================================================================
