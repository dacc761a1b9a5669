---------------------------- MODULE LoginProofs ----------------------------
(***************************************************************************)
(* Proofs about Login, for any tabs on any devices, any number of          *)
(* requests, seconds and power cuts.                                       *)
(***************************************************************************)
EXTENDS Login, TLAPS

\* A device sends one request with a nonce at a time, one request at a time sets
\* the password, and the wizard is not sent to a router that is set up.
Patient == ~Overlaps /\ ~Again

\* A request waits with no step before it.
LEMMA IdleType ==
    /\ Idle.pc = "idle" /\ Idle.kind = "page" /\ Idle.got = 0 /\ Idle.since = 0 /\ Idle.value = Default
    /\ Idle \in Request
  BY BoundAssumption DEF Idle, Request, PCs, Kinds, Passwords

\* The parts of a request are of their types.
LEMMA RequestParts ==
    ASSUME TypeOK, NEW p \in Tabs
    PROVE  /\ req[p] \in Request
           /\ req[p].pc \in PCs /\ req[p].kind \in Kinds
           /\ req[p].token \in Tokens \cup {None} /\ req[p].at \in Tokens \cup {None}
           /\ req[p].got \in 0 .. MaxUptime /\ req[p].since \in 0 .. MaxUptime
           /\ req[p].scan \in SUBSET Tokens
           /\ req[p].time \in 0 .. MaxTime /\ req[p].old \in Passwords \cup {None}
           /\ req[p].new \in Passwords /\ req[p].value \in Passwords /\ req[p].ssid \in BOOLEAN
           /\ DeviceOf[p] \in Devices
  BY DEF TypeOK, Request, Devices

\* All requests but p's are as they were.
Others(p) == \A q \in Tabs \ {p} : req'[q] = req[q]
\* p's request goes on with the step pc.
Moved(p, pc) ==
    /\ Others(p) /\ req' \in [Tabs -> Request]
    /\ req'[p].pc = pc /\ req'[p].kind = req[p].kind /\ req'[p].token = req[p].token
    /\ req'[p].at = req[p].at /\ req'[p].scan = req[p].scan
    /\ req'[p].time = req[p].time /\ req'[p].old = req[p].old /\ req'[p].new = req[p].new
    /\ req'[p].value = req[p].value /\ req'[p].ssid = req[p].ssid
\* p's request is over.
Ended(p) == Others(p) /\ req' \in [Tabs -> Request] /\ req'[p].pc = "idle" /\ req'[p].kind = "page"

\* What a step within a read does to a typed state.
LEMMA StepMoves ==
    ASSUME TypeOK, NEW p \in Tabs, NEW pc \in PCs, NEW g \in 0 .. MaxUptime, NEW s \in 0 .. MaxUptime,
           Step(p, pc, g, s)
    PROVE  Moved(p, pc) /\ req'[p].got = g /\ req'[p].since = s
<1> DEFINE new_ == [[[req[p] EXCEPT !.pc = pc] EXCEPT !.got = g] EXCEPT !.since = s]
<1>1. req[p] \in Request /\ req \in [Tabs -> Request]
  BY DEF TypeOK
<1>2. /\ new_ \in Request /\ new_.pc = pc /\ new_.got = g /\ new_.since = s
      /\ new_.kind = req[p].kind /\ new_.token = req[p].token /\ new_.at = req[p].at
      /\ new_.scan = req[p].scan /\ new_.time = req[p].time /\ new_.old = req[p].old
      /\ new_.new = req[p].new /\ new_.value = req[p].value /\ new_.ssid = req[p].ssid
  BY <1>1 DEF Request
<1>3. req' = [req EXCEPT ![p] = new_]
  BY <1>1 DEF Step
<1> HIDE DEF new_
<1> QED
  BY <1>1, <1>2, <1>3 DEF Moved, Others

\* What Goto does to a typed state.
LEMMA GotoMoves ==
    ASSUME TypeOK, NEW p \in Tabs, NEW pc \in PCs, Goto(p, pc)
    PROVE  Moved(p, pc)
<1>1. 0 \in 0 .. MaxUptime
  BY BoundAssumption
<1> QED
  BY <1>1, StepMoves DEF Goto

\* What End does to a typed state.
LEMMA EndEnds ==
    ASSUME TypeOK, NEW p \in Tabs, End(p)
    PROVE  Ended(p)
<1>1. req'[p] = Idle /\ Others(p)
  BY DEF TypeOK, End, Others
<1>2. req' \in [Tabs -> Request]
  BY <1>1, IdleType DEF TypeOK, End
<1> QED
  BY <1>1, <1>2, IdleType DEF Ended

\* What a request that arrives brings.
LEMMA Arrives ==
    ASSUME TypeOK, NEW p \in Tabs, Arrive(p)
    PROVE  \E r \in Request :
              /\ Start(p, r) /\ r.got = 0
              /\ r.kind \in Nonced => r.time > 0
              /\ r.kind \in {"page", "logout", "change", "wizard"} => r.token \in issued
              /\ r.kind \in Setters => r.new \in Chosen
<1> USE DEF Kinds, Nonced, Setters
<1>0. /\ Idle \in Request /\ issued \subseteq Tokens /\ Given \subseteq issued
      /\ Chosen \subseteq Passwords /\ Default \in Passwords
  BY IdleType DEF TypeOK, Passwords, Given
<1>1. CASE Start(p, [Idle EXCEPT !.kind = "hello"])
  <2> DEFINE r == [Idle EXCEPT !.kind = "hello"]
  <2>1. r \in Request /\ r.kind = "hello" /\ r.got = 0
    BY <1>0, IdleType DEF Request
  <2> QED
    BY <1>1, <2>1
<1>2. CASE \E time \in 1 .. MaxTime, old \in Chosen \cup {Default} :
              Start(p, [Idle EXCEPT !.kind = "login", !.time = time, !.old = old])
  <2>1. PICK time \in 1 .. MaxTime, old \in Chosen \cup {Default} :
                Start(p, [Idle EXCEPT !.kind = "login", !.time = time, !.old = old])
    BY <1>2
  <2> DEFINE r == [Idle EXCEPT !.kind = "login", !.time = time, !.old = old]
  <2>2. time \in 0 .. MaxTime /\ time > 0 /\ old \in Passwords \cup {None}
    BY <1>0, BoundAssumption
  <2>3. r \in Request /\ r.kind = "login" /\ r.got = 0 /\ r.time = time
    BY <1>0, <2>2, IdleType DEF Request
  <2> QED
    BY <2>1, <2>2, <2>3
<1>3. CASE \E t \in Given, kind \in {"page", "logout"} : Start(p, [Idle EXCEPT !.kind = kind, !.token = t])
  <2>1. PICK t \in Given, kind \in {"page", "logout"} : Start(p, [Idle EXCEPT !.kind = kind, !.token = t])
    BY <1>3
  <2> DEFINE r == [Idle EXCEPT !.kind = kind, !.token = t]
  <2>2. r \in Request /\ r.kind = kind /\ r.got = 0 /\ r.token = t /\ t \in issued
    BY <1>0, IdleType DEF Request
  <2> QED
    BY <2>1, <2>2
<1>4. CASE \E t \in Given, time \in 1 .. MaxTime, old, new \in Chosen :
              old # new /\ Start(p, [Idle EXCEPT !.kind = "change", !.token = t, !.time = time,
                                                 !.old = old, !.new = new])
  <2>1. PICK t \in Given, time \in 1 .. MaxTime, old \in Chosen, new \in Chosen :
                Start(p, [Idle EXCEPT !.kind = "change", !.token = t, !.time = time,
                                           !.old = old, !.new = new])
    BY <1>4
  <2> DEFINE r == [Idle EXCEPT !.kind = "change", !.token = t, !.time = time, !.old = old, !.new = new]
  <2>2. time \in 0 .. MaxTime /\ time > 0 /\ t \in issued
    BY <1>0, BoundAssumption
  <2>3. r \in Request /\ r.kind = "change" /\ r.got = 0 /\ r.time = time /\ r.token = t /\ r.new = new
    BY <1>0, <2>2, IdleType DEF Request
  <2> QED
    BY <2>1, <2>2, <2>3
<1>5. CASE \E t \in Given, time \in 1 .. MaxTime, new \in Chosen, ssid \in BOOLEAN :
              Start(p, [Idle EXCEPT !.kind = "wizard", !.token = t, !.time = time,
                                         !.new = new, !.ssid = ssid])
  <2>1. PICK t \in Given, time \in 1 .. MaxTime, new \in Chosen, ssid \in BOOLEAN :
                Start(p, [Idle EXCEPT !.kind = "wizard", !.token = t, !.time = time,
                                         !.new = new, !.ssid = ssid])
    BY <1>5
  <2> DEFINE r == [Idle EXCEPT !.kind = "wizard", !.token = t, !.time = time, !.new = new, !.ssid = ssid]
  <2>2. time \in 0 .. MaxTime /\ time > 0 /\ t \in issued
    BY <1>0, BoundAssumption
  <2>3. r \in Request /\ r.kind = "wizard" /\ r.got = 0 /\ r.time = time /\ r.token = t /\ r.new = new
    BY <1>0, <2>2, IdleType DEF Request
  <2> QED
    BY <2>1, <2>2, <2>3
<1> QED
  BY <1>1, <1>2, <1>3, <1>4, <1>5 DEF Arrive

\* A request that arrives brings its form and moves nobody else.
LEMMA StartMoves ==
    ASSUME TypeOK, NEW p \in Tabs, NEW r \in Request, Start(p, r)
    PROVE  /\ Others(p) /\ req' \in [Tabs -> Request]
           /\ req'[p].pc = First(r.kind) /\ req'[p].at = r.token
           /\ req'[p].kind = r.kind /\ req'[p].token = r.token /\ req'[p].time = r.time
           /\ req'[p].old = r.old /\ req'[p].new = r.new /\ req'[p].got = r.got
<1> DEFINE new_ == [[r EXCEPT !.pc = First(r.kind)] EXCEPT !.at = r.token]
<1>1. First(r.kind) \in PCs
  BY DEF First, PCs
<1>2. new_ \in Request
  BY <1>1 DEF Request
<1>3. /\ new_.pc = First(r.kind) /\ new_.at = r.token
      /\ new_.kind = r.kind /\ new_.token = r.token /\ new_.time = r.time
      /\ new_.old = r.old /\ new_.new = r.new /\ new_.got = r.got
  BY DEF Request
<1>4. req' = [req EXCEPT ![p] = new_] /\ req \in [Tabs -> Request]
  BY DEF Start, TypeOK
<1> HIDE DEF new_
<1> QED
  BY <1>2, <1>3, <1>4 DEF Others

\* A read that finds no session ends the request, goes on reaping, or goes on as a login.
LEMMA NilMoves ==
    ASSUME TypeOK, NEW p \in Tabs, ReadNil(p)
    PROVE  \/ Ended(p)
           \/ req[p].kind = "login" /\ Moved(p, "reap")
           \/ /\ req[p].kind \in Setters /\ Others(p) /\ req' \in [Tabs -> Request]
              /\ req'[p].pc = "nonce" /\ req'[p].kind = "login" /\ req'[p].time = req[p].time
<1>1. req[p] \in Request /\ req \in [Tabs -> Request] /\ req[p].time \in 0 .. MaxTime
  BY RequestParts DEF TypeOK
<1>2. CASE req[p].kind = "login"
  BY <1>2, GotoMoves DEF ReadNil, PCs
<1>3. CASE req[p].kind \in Setters
  <2> DEFINE new_ == [Idle EXCEPT !.pc = "nonce", !.kind = "login", !.time = req[p].time, !.old = None]
  <2>1. new_ \in Request /\ new_.pc = "nonce" /\ new_.kind = "login" /\ new_.time = req[p].time
    <3>1. Idle \in Request /\ "nonce" \in PCs /\ "login" \in Kinds /\ None \in Passwords \cup {None}
      BY IdleType DEF PCs, Kinds
    <3> QED
      BY <1>1, <3>1 DEF Request
  <2>2. req' = [req EXCEPT ![p] = new_]
    BY <1>3 DEF ReadNil, Setters
  <2> HIDE DEF new_
  <2> QED
    BY <1>1, <1>3, <2>1, <2>2 DEF Others
<1>4. CASE req[p].kind \notin Setters \cup {"login"}
  BY <1>4, EndEnds DEF ReadNil, Setters
<1> QED
  BY <1>2, <1>3, <1>4

\* A session that is there is loaded, and only the loading request moves.
LEMMA LoadMoves ==
    ASSUME TypeOK, NEW p \in Tabs, Load(p), req[p].at \in Tokens, file[req[p].at] # None
    PROVE  Moved(p, "check") /\ req'[p].got = file[req[p].at] /\ req'[p].since = uptime
<1>1. file[req[p].at] \in 0 .. MaxUptime /\ uptime \in 0 .. MaxUptime
  BY DEF TypeOK
<1>2. Step(p, "check", file[req[p].at], uptime)
  BY DEF Load
<1> QED
  BY <1>1, <1>2, StepMoves DEF PCs

\* A session is found out of time and removed, or its reader goes on to write it.
LEMMA CheckMoves ==
    ASSUME TypeOK, NEW p \in Tabs, Check(p)
    PROVE  \/ req[p].got + SessionTime < uptime /\ Unlink(p, req[p].at) /\ ReadNil(p)
           \/ Moved(p, "write") /\ req'[p].since = req[p].since /\ UNCHANGED <<file, dead>>
<1>1. req[p].since \in 0 .. MaxUptime /\ 0 \in 0 .. MaxUptime
  BY RequestParts, BoundAssumption
<1> QED
  BY <1>1, StepMoves DEF Check, PCs

\* The time a session gets is that of the stamp.
LEMMA StampMoves ==
    ASSUME TypeOK, NEW p \in Tabs, Stamp(p)
    PROVE  Moved(p, "store") /\ req'[p].got = uptime /\ req'[p].since = req[p].since
<1>1. req[p].since \in 0 .. MaxUptime /\ uptime \in 0 .. MaxUptime
  BY RequestParts DEF TypeOK
<1> QED
  BY <1>1, StepMoves DEF Stamp, PCs

\* A login makes up a token that was never given out.
LEMMA TokenMoves ==
    ASSUME TypeOK, NEW p \in Tabs, Token(p)
    PROVE  \E t \in Tokens \ issued :
              /\ issued' = issued \cup {t}
              /\ Others(p) /\ req' \in [Tabs -> Request]
              /\ req'[p].pc = "new" /\ req'[p].at = t /\ req'[p].got = uptime /\ req'[p].since = uptime
              /\ req'[p].kind = req[p].kind /\ req'[p].token = req[p].token
              /\ req'[p].time = req[p].time /\ req'[p].new = req[p].new
<1>1. req[p] \in Request /\ req \in [Tabs -> Request] /\ uptime \in 0 .. MaxUptime
  BY DEF TypeOK
<1>2. PICK t \in Tokens \ issued :
           /\ issued' = issued \cup {t}
           /\ req' = [req EXCEPT ![p].pc = "new", ![p].at = t, ![p].got = uptime, ![p].since = uptime]
  BY DEF Token
<1> DEFINE new_ == [[[[req[p] EXCEPT !.pc = "new"] EXCEPT !.at = t] EXCEPT !.got = uptime]
                           EXCEPT !.since = uptime]
<1>3. /\ new_ \in Request /\ new_.pc = "new" /\ new_.at = t /\ new_.got = uptime /\ new_.since = uptime
      /\ new_.kind = req[p].kind /\ new_.token = req[p].token
      /\ new_.time = req[p].time /\ new_.new = req[p].new
  BY <1>1 DEF Request, PCs
<1>4. req' = [req EXCEPT ![p] = new_]
  BY <1>1, <1>2
<1> HIDE DEF new_
<1>5. req'[p] = new_ /\ Others(p) /\ req' \in [Tabs -> Request]
  BY <1>1, <1>3, <1>4 DEF Others
<1> QED
  BY <1>2, <1>3, <1>5

\* reap goes on to the new token, or to a session that is left.
LEMMA ReapMoves ==
    ASSUME TypeOK, NEW p \in Tabs, Reap(p)
    PROVE  \/ Moved(p, "token")
           \/ /\ Others(p) /\ req' \in [Tabs -> Request]
              /\ req'[p].pc \in {"reap", "load"} /\ req'[p].kind = req[p].kind /\ req'[p].at \in Tokens
              /\ req'[p].token = req[p].token /\ req'[p].time = req[p].time /\ req'[p].new = req[p].new
<1>1. req[p] \in Request /\ req \in [Tabs -> Request] /\ req[p].scan \subseteq Tokens
  BY RequestParts DEF TypeOK
<1>2. CASE req[p].scan = {}
  BY <1>2, GotoMoves DEF Reap, PCs
<1>3. CASE req[p].scan # {}
  <2>1. PICK t \in req[p].scan : req' = [req EXCEPT ![p].pc = IF file[t] = None THEN "reap" ELSE "load",
                                                    ![p].at = t, ![p].scan = @ \ {t}]
    BY <1>3 DEF Reap
  <2> DEFINE new_ == [[[req[p] EXCEPT !.pc = IF file[t] = None THEN "reap" ELSE "load"]
                              EXCEPT !.at = t] EXCEPT !.scan = @ \ {t}]
  <2>2. /\ new_ \in Request /\ new_.pc \in {"reap", "load"} /\ new_.kind = req[p].kind /\ new_.at \in Tokens
        /\ new_.token = req[p].token /\ new_.time = req[p].time /\ new_.new = req[p].new
    BY <1>1 DEF Request, PCs
  <2>3. req' = [req EXCEPT ![p] = new_]
    BY <1>1, <2>1
  <2> HIDE DEF new_
  <2> QED
    BY <1>1, <2>2, <2>3 DEF Others
<1> QED
  BY <1>2, <1>3

\* A login whose password is right goes on to reap.
LEMMA UserMoves ==
    ASSUME TypeOK, NEW p \in Tabs, req[p].kind = "login", CheckUser(p)
    PROVE  \/ Ended(p)
           \/ /\ Others(p) /\ req' \in [Tabs -> Request]
              /\ req'[p].pc = "reap" /\ req'[p].kind = req[p].kind
              /\ req'[p].token = req[p].token /\ req'[p].time = req[p].time /\ req'[p].new = req[p].new
<1>1. req[p] \in Request /\ req \in [Tabs -> Request]
  BY DEF TypeOK
<1>2. CASE account # req[p].old
  BY <1>2, EndEnds DEF CheckUser, Fail
<1>3. CASE account = req[p].old
  <2> DEFINE new_ == [[req[p] EXCEPT !.pc = "reap"] EXCEPT !.scan = {t \in Tokens : file[t] # None}]
  <2>1. /\ new_ \in Request /\ new_.pc = "reap" /\ new_.kind = req[p].kind
        /\ new_.token = req[p].token /\ new_.time = req[p].time /\ new_.new = req[p].new
    BY <1>1 DEF Request, PCs
  <2>2. req' = [req EXCEPT ![p] = new_]
    BY <1>1, <1>3 DEF CheckUser
  <2> HIDE DEF new_
  <2> QED
    BY <1>1, <2>1, <2>2 DEF Others
<1> QED
  BY <1>2, <1>3

\* Decryption under the right key gives the new password, and may fail under another.
LEMMA DecryptMoves ==
    ASSUME TypeOK, NEW p \in Tabs, Decrypt(p)
    PROVE  \/ account # req[p].old /\ Fail(p)
           \/ /\ Others(p) /\ req' \in [Tabs -> Request] /\ req'[p].pc = "set"
              /\ req'[p].kind = req[p].kind /\ req'[p].token = req[p].token /\ req'[p].time = req[p].time
              /\ req'[p].old = req[p].old /\ req'[p].new = req[p].new
              /\ account = req[p].old => req'[p].value = req[p].new
<1>1. req[p] \in Request /\ req \in [Tabs -> Request] /\ req[p].new \in Passwords
  BY RequestParts DEF TypeOK
<1>2. CASE account # req[p].old /\ Fail(p)
  BY <1>2
<1>3. CASE ~(account # req[p].old /\ Fail(p))
  <2>1. PICK v \in Passwords : /\ req' = [req EXCEPT ![p].pc = "set", ![p].value = v]
                               /\ account = req[p].old => v = req[p].new
    BY <1>1, <1>3 DEF Decrypt, Passwords
  <2> DEFINE new_ == [[req[p] EXCEPT !.pc = "set"] EXCEPT !.value = v]
  <2>2. /\ new_ \in Request /\ new_.pc = "set" /\ new_.kind = req[p].kind /\ new_.token = req[p].token
        /\ new_.time = req[p].time /\ new_.old = req[p].old /\ new_.new = req[p].new /\ new_.value = v
    BY <1>1 DEF Request, PCs
  <2>3. req' = [req EXCEPT ![p] = new_]
    BY <1>1, <2>1
  <2> HIDE DEF new_
  <2> QED
    BY <1>1, <2>1, <2>2, <2>3 DEF Others
<1> QED
  BY <1>2, <1>3

\* Types are kept whatever happens.
LEMMA TypeKept == ASSUME TypeOK, Steps, Next PROVE TypeOK'
<1> USE BoundAssumption
<1>1. ASSUME NEW p \in Tabs, Arrive(p) PROVE TypeOK'
  <2>1. PICK r \in Request : Start(p, r) /\ (r.kind \in Nonced => r.time > 0)
    BY <1>1, Arrives
  <2>2. req' \in [Tabs -> Request]
    BY <2>1, StartMoves
  <2>3. r.time \in 0 .. MaxTime
    BY DEF Request
  <2>4. clock' \in [Devices -> 1 .. MaxTime]
    <3> DEFINE c == IF r.kind \in Nonced THEN r.time ELSE clock[DeviceOf[p]]
    <3>1. DeviceOf[p] \in Devices /\ clock \in [Devices -> 1 .. MaxTime]
      BY RequestParts DEF TypeOK
    <3>2. c \in 1 .. MaxTime
      BY <2>1, <2>3, <3>1
    <3>3. clock' = [clock EXCEPT ![DeviceOf[p]] = c]
      BY <2>1, <3>1 DEF Start
    <3> QED
      BY <3>1, <3>2, <3>3
  <2>5. left' \in 0 .. MaxRequests /\ told' \in Passwords \cup {None}
    BY <2>1 DEF Start, TypeOK
  <2> QED
    BY <2>1, <2>2, <2>4, <2>5 DEF Start, TypeOK, flash, uses
<1>2. ASSUME NEW p \in Tabs, Sane(p) PROVE TypeOK'
  <2>1. req' \in [Tabs -> Request]
    BY <1>2, NilMoves, GotoMoves DEF Sane, Moved, Ended, PCs
  <2> QED
    BY <1>2, <2>1, RequestParts DEF Sane, TypeOK, flash, uses
<1>3. ASSUME NEW p \in Tabs, Load(p) PROVE TypeOK'
  <2>1. req' \in [Tabs -> Request]
    <3>1. req[p].at \in Tokens
      BY <1>3 DEF Load, At, Steps, Fits
    <3> QED
      BY <1>3, <3>1, EndEnds, LoadMoves DEF Ended, Moved, Load
  <2> QED
    BY <1>3, <2>1 DEF Load, TypeOK, flash, uses
<1>4. ASSUME NEW p \in Tabs, Check(p) PROVE TypeOK'
  <2>1. req' \in [Tabs -> Request]
    BY <1>4, CheckMoves, NilMoves DEF Moved, Ended
  <2>2. req[p].at \in Tokens
    BY <1>4 DEF Check, At, Steps, Fits, InHand
  <2> QED
    BY <1>4, <2>1, <2>2, RequestParts DEF Check, TypeOK, flash, uses, Unlink
<1>5. ASSUME NEW p \in Tabs, Write(p) \/ Give(p) PROVE TypeOK'
  <2>1. req' \in [Tabs -> Request]
    BY <1>5, EndEnds, GotoMoves DEF Write, Give, ReadOk, Moved, Ended, PCs
  <2>2. req[p].at \in Tokens /\ req[p].got \in 0 .. MaxUptime
    BY <1>5, RequestParts DEF Write, Give, At, Steps, Fits, InHand
  <2>3. file' \in [Tokens -> 0 .. MaxUptime \cup {None}] /\ last' \in [Tokens -> 0 .. MaxUptime]
    <3>1. file' = [file EXCEPT ![req[p].at] = req[p].got] /\ last' = [last EXCEPT ![req[p].at] = uptime]
      BY <1>5 DEF Write, Give, Save
    <3> QED
      BY <2>2, <3>1 DEF TypeOK
  <2>4. steady' \subseteq Tokens
    BY <1>5, <2>2 DEF Write, Give, TypeOK
  <2> QED
    BY <1>5, <2>1, <2>3, <2>4 DEF Write, Give, TypeOK, flash
<1>6. ASSUME NEW p \in Tabs, Kill(p) PROVE TypeOK'
  <2>1. req' \in [Tabs -> Request]
    BY <1>6, EndEnds DEF Kill, Ended
  <2>2. req[p].token \in Tokens
    BY <1>6 DEF Kill, At, Steps, Fits, TypeOK
  <2> QED
    BY <1>6, <2>1, <2>2, RequestParts DEF Kill, TypeOK, flash, uses, Unlink
<1>7. ASSUME NEW p \in Tabs, ReadNonce(p) PROVE TypeOK'
  <2>1. req' \in [Tabs -> Request]
    BY <1>7, EndEnds, GotoMoves DEF ReadNonce, Fail, Moved, Ended, PCs
  <2> QED
    BY <1>7, <2>1, RequestParts DEF ReadNonce, TypeOK, flash, uses
<1>8. ASSUME NEW p \in Tabs, WriteNonce(p) PROVE TypeOK'
  <2>1. req' \in [Tabs -> Request]
    BY <1>8, GotoMoves DEF WriteNonce, Moved, PCs
  <2>2. DeviceOf[p] \in Devices /\ req[p].time \in 1 .. MaxTime
    BY <1>8, RequestParts DEF WriteNonce, At, Steps, Fits
  <2>3. mark' \in [Devices -> 1 .. MaxTime \cup {None}]
    BY <1>8, <2>2 DEF WriteNonce, TypeOK
  <2>4. taken' \in [Devices -> [1 .. MaxTime -> Nat]]
    BY <1>8, <2>2 DEF WriteNonce, TypeOK
  <2> QED
    BY <1>8, <2>1, <2>3, <2>4 DEF WriteNonce, TypeOK, flash, uses
<1>9. ASSUME NEW p \in Tabs, CheckUser(p) PROVE TypeOK'
  <2>1. req' \in [Tabs -> Request]
    BY <1>9, UserMoves, EndEnds, GotoMoves DEF CheckUser, Fail, Moved, Ended, PCs
  <2> QED
    BY <1>9, <2>1, RequestParts DEF CheckUser, TypeOK, flash, uses
<1>10. ASSUME NEW p \in Tabs, Reap(p) PROVE TypeOK'
  <2>1. req' \in [Tabs -> Request]
    BY <1>10, ReapMoves DEF Reap, Moved
  <2> QED
    BY <1>10, <2>1, RequestParts DEF Reap, TypeOK, flash, uses
<1>11. ASSUME NEW p \in Tabs, Token(p) PROVE TypeOK'
  <2>1. req' \in [Tabs -> Request] /\ issued' \subseteq Tokens
    BY <1>11, TokenMoves DEF TypeOK
  <2> QED
    BY <1>11, <2>1 DEF Token, TypeOK, flash, uses
<1>12. ASSUME NEW p \in Tabs, Decrypt(p) PROVE TypeOK'
  <2>1. req' \in [Tabs -> Request]
    BY <1>12, DecryptMoves, EndEnds, GotoMoves DEF Decrypt, Fail, Moved, Ended, PCs
  <2> QED
    BY <1>12, <2>1, RequestParts DEF Decrypt, TypeOK, flash, uses
<1>13. ASSUME NEW p \in Tabs, SetPassword(p) PROVE TypeOK'
  <2>1. req' \in [Tabs -> Request]
    BY <1>13, GotoMoves DEF SetPassword, Moved, PCs
  <2> QED
    BY <1>13, <2>1, RequestParts DEF SetPassword, TypeOK, flash, uses
<1>14. ASSUME NEW p \in Tabs, SetNvram(p) PROVE TypeOK'
  <2>1. req' \in [Tabs -> Request]
    BY <1>14, GotoMoves, EndEnds DEF SetNvram, Moved, Ended, PCs
  <2> QED
    BY <1>14, <2>1, RequestParts DEF SetNvram, TypeOK, flash, uses
<1>15. ASSUME NEW p \in Tabs, Finish(p) PROVE TypeOK'
  <2>1. req' \in [Tabs -> Request]
    BY <1>15, GotoMoves, EndEnds DEF Finish, Succeed, Fail, Moved, Ended, PCs
  <2> QED
    BY <1>15, <2>1, RequestParts DEF Finish, TypeOK, flash, uses, Succeed
<1>16. ASSUME NEW p \in Tabs, Hello(p) PROVE TypeOK'
  <2>1. req' \in [Tabs -> Request]
    BY <1>16, GotoMoves, EndEnds DEF Hello, Moved, Ended, PCs
  <2> QED
    BY <1>16, <2>1, RequestParts DEF Hello, TypeOK, flash, uses
<1>17. ASSUME NEW p \in Tabs, SetDefault(p) PROVE TypeOK'
  <2>1. req' \in [Tabs -> Request]
    BY <1>17, GotoMoves DEF SetDefault, Moved, PCs
  <2> QED
    BY <1>17, <2>1, RequestParts DEF SetDefault, TypeOK, flash, uses, Passwords
<1>18. ASSUME NEW p \in Tabs, DefaultNvram(p) PROVE TypeOK'
  <2>1. req' \in [Tabs -> Request]
    BY <1>18, EndEnds DEF DefaultNvram, Ended
  <2> QED
    BY <1>18, <2>1, RequestParts DEF DefaultNvram, TypeOK, flash, uses, Passwords
<1>19. CASE Second
  BY <1>19 DEF Second, TypeOK, flash, uses
<1>20. CASE PowerCut
  <2>1. req' \in [Tabs -> Request]
    BY <1>20, IdleType DEF PowerCut
  <2>2. /\ file' \in [Tokens -> 0 .. MaxUptime \cup {None}] /\ last' \in [Tokens -> 0 .. MaxUptime]
        /\ uptime' \in 0 .. MaxUptime
    BY <1>20 DEF PowerCut
  <2>3. /\ mark' \in [Devices -> 1 .. MaxTime \cup {None}] /\ taken' \in [Devices -> [1 .. MaxTime -> Nat]]
    BY <1>20 DEF PowerCut
  <2>4. ended' \subseteq Tokens /\ steady' \subseteq Tokens /\ dead' \subseteq Tokens /\ greeted' \in BOOLEAN
    BY <1>20 DEF PowerCut, TypeOK
  <2>6. cuts' \in 0 .. MaxCuts
    <3>1. cuts \in 0 .. MaxCuts /\ cuts < MaxCuts /\ cuts' = cuts + 1
      BY <1>20 DEF PowerCut, TypeOK
    <3> QED
      BY <3>1
  <2>5. UNCHANGED <<account, nvpwd, inited, clock, issued, left, told>>
    BY <1>20 DEF PowerCut, flash, uses
  <2> QED
    BY <2>1, <2>2, <2>3, <2>4, <2>5, <2>6 DEF TypeOK
<1>21. ASSUME NEW p \in Tabs, Stamp(p) PROVE TypeOK'
  <2>1. req' \in [Tabs -> Request]
    BY <1>21, StampMoves DEF Moved
  <2> QED
    BY <1>21, <2>1 DEF Stamp, TypeOK, flash, uses
<1> QED
  BY <1>1, <1>2, <1>3, <1>4, <1>5, <1>6, <1>7, <1>8, <1>9, <1>10, <1>11, <1>12, <1>13, <1>14, <1>15,
     <1>16, <1>17, <1>18, <1>19, <1>20, <1>21 DEF Next, Read, Auth, Password

\* What does not move fits as before.
LEMMA OthersFit ==
    ASSUME TypeOK, Steps, NEW p \in Tabs, Others(p), issued \subseteq issued', Fits(p)'
    PROVE  Steps'
  BY DEF Steps, Fits, Others

\* A request over fits anywhere.
LEMMA EndedFits == ASSUME NEW p \in Tabs, Ended(p) PROVE Fits(p)'
  BY DEF Ended, Fits, Setters, Nonced, InHand

\* A request only comes to the steps that are its kind's.
LEMMA StepsKept == ASSUME TypeOK, Steps, Next PROVE Steps'
<1> USE DEF At, PCs, Setters, Nonced, InHand
<1>0. \A p \in Tabs : Fits(p) /\ req[p].kind \in Kinds
  BY RequestParts DEF Steps
<1>1. ASSUME NEW p \in Tabs, Arrive(p) PROVE Steps'
  <2>1. PICK r \in Request :
              /\ Start(p, r)
              /\ r.kind \in Nonced => r.time > 0
              /\ r.kind \in {"page", "logout", "change", "wizard"} => r.token \in issued
              /\ r.kind \in Setters => r.new \in Chosen
    BY <1>1, Arrives
  <2>2. issued' = issued /\ issued \subseteq Tokens /\ r.kind \in Kinds
    BY <2>1 DEF Start, TypeOK, Request
  <2>3. Fits(p)'
    BY <2>1, <2>2, StartMoves DEF Fits, First, Kinds
  <2> QED
    BY <2>1, <2>2, <2>3, StartMoves, OthersFit
<1>2. ASSUME NEW p \in Tabs, Sane(p) PROVE Steps'
  <2>1. Others(p) /\ issued' = issued
    BY <1>2, NilMoves, GotoMoves DEF Sane, Moved, Ended
  <2>2. Fits(p)'
    BY <1>0, <1>2, <2>1, NilMoves, GotoMoves, EndedFits DEF Sane, Moved, Fits, Kinds
  <2> QED
    BY <2>1, <2>2, OthersFit
<1>3. ASSUME NEW p \in Tabs, Check(p) PROVE Steps'
  <2>1. Others(p) /\ issued' = issued
    BY <1>3, CheckMoves, NilMoves DEF Check, Moved, Ended
  <2>2. Fits(p)'
    BY <1>0, <1>3, <2>1, CheckMoves, NilMoves, EndedFits DEF Check, Moved, Fits, Kinds
  <2> QED
    BY <2>1, <2>2, OthersFit
<1>4. ASSUME NEW p \in Tabs, Write(p) PROVE Steps'
  <2>1. Others(p) /\ issued' = issued
    BY <1>4, EndEnds, GotoMoves DEF Write, ReadOk, Moved, Ended
  <2>2. Fits(p)'
    BY <1>0, <1>4, <2>1, EndEnds, GotoMoves, EndedFits DEF Write, ReadOk, Moved, Fits, Kinds
  <2> QED
    BY <2>1, <2>2, OthersFit
<1>5. ASSUME NEW p \in Tabs, Kill(p) PROVE Steps'
  <2>1. Others(p) /\ issued' = issued
    BY <1>5, EndEnds DEF Kill, Ended
  <2>2. Fits(p)'
    BY <1>0, <1>5, <2>1, EndEnds, EndedFits DEF Kill, Fits
  <2> QED
    BY <2>1, <2>2, OthersFit
<1>6. ASSUME NEW p \in Tabs, ReadNonce(p) PROVE Steps'
  <2>1. Others(p) /\ issued' = issued
    BY <1>6, EndEnds, GotoMoves DEF ReadNonce, Fail, Moved, Ended
  <2>2. Fits(p)'
    BY <1>0, <1>6, <2>1, EndEnds, GotoMoves, EndedFits DEF ReadNonce, Fail, Moved, Fits
  <2> QED
    BY <2>1, <2>2, OthersFit
<1>7. ASSUME NEW p \in Tabs, WriteNonce(p) PROVE Steps'
  <2>1. Others(p) /\ issued' = issued
    BY <1>7, GotoMoves DEF WriteNonce, Moved
  <2>2. Fits(p)'
    BY <1>0, <1>7, <2>1, GotoMoves DEF WriteNonce, Moved, Fits
  <2> QED
    BY <2>1, <2>2, OthersFit
<1>8. ASSUME NEW p \in Tabs, Reap(p) PROVE Steps'
  <2>1. Others(p) /\ issued' = issued
    BY <1>8, ReapMoves DEF Reap, Moved
  <2>2. Fits(p)'
    BY <1>0, <1>8, <2>1, ReapMoves DEF Reap, Moved, Fits
  <2> QED
    BY <2>1, <2>2, OthersFit
<1>9. ASSUME NEW p \in Tabs, Decrypt(p) PROVE Steps'
  <2>1. Others(p) /\ issued' = issued
    BY <1>9, DecryptMoves, EndEnds, GotoMoves DEF Decrypt, Fail, Moved, Ended
  <2>2. Fits(p)'
    BY <1>0, <1>9, <2>1, DecryptMoves, EndEnds, GotoMoves, EndedFits DEF Decrypt, Fail, Moved, Fits
  <2> QED
    BY <2>1, <2>2, OthersFit
<1>10. ASSUME NEW p \in Tabs, SetPassword(p) PROVE Steps'
  <2>1. Others(p) /\ issued' = issued
    BY <1>10, GotoMoves DEF SetPassword, Moved
  <2>2. Fits(p)'
    BY <1>0, <1>10, <2>1, GotoMoves DEF SetPassword, Moved, Fits
  <2> QED
    BY <2>1, <2>2, OthersFit
<1>11. ASSUME NEW p \in Tabs, SetNvram(p) PROVE Steps'
  <2>1. Others(p) /\ issued' = issued
    BY <1>11, GotoMoves, EndEnds DEF SetNvram, Moved, Ended
  <2>2. Fits(p)'
    BY <1>0, <1>11, <2>1, GotoMoves, EndEnds, EndedFits DEF SetNvram, Moved, Fits
  <2> QED
    BY <2>1, <2>2, OthersFit
<1>12. ASSUME NEW p \in Tabs, Finish(p) PROVE Steps'
  <2>1. Others(p) /\ issued' = issued
    BY <1>12, GotoMoves, EndEnds DEF Finish, Succeed, Fail, Moved, Ended
  <2>2. Fits(p)'
    BY <1>0, <1>12, <2>1, GotoMoves, EndEnds, EndedFits DEF Finish, Succeed, Fail, Moved, Fits
  <2> QED
    BY <2>1, <2>2, OthersFit
<1>13. ASSUME NEW p \in Tabs, Hello(p) PROVE Steps'
  <2>1. Others(p) /\ issued' = issued
    BY <1>13, GotoMoves, EndEnds DEF Hello, Moved, Ended
  <2>2. Fits(p)'
    BY <1>0, <1>13, <2>1, GotoMoves, EndEnds, EndedFits DEF Hello, Moved, Fits
  <2> QED
    BY <2>1, <2>2, OthersFit
<1>14. ASSUME NEW p \in Tabs, SetDefault(p) PROVE Steps'
  <2>1. Others(p) /\ issued' = issued
    BY <1>14, GotoMoves DEF SetDefault, Moved
  <2>2. Fits(p)'
    BY <1>0, <1>14, <2>1, GotoMoves DEF SetDefault, Moved, Fits
  <2> QED
    BY <2>1, <2>2, OthersFit
<1>15. ASSUME NEW p \in Tabs, DefaultNvram(p) PROVE Steps'
  <2>1. Others(p) /\ issued' = issued
    BY <1>15, EndEnds DEF DefaultNvram, Ended
  <2>2. Fits(p)'
    BY <1>0, <1>15, <2>1, EndEnds, EndedFits DEF DefaultNvram, Fits
  <2> QED
    BY <2>1, <2>2, OthersFit
<1>16. ASSUME NEW p \in Tabs, Load(p) PROVE Steps'
  <2>1. req[p].at \in Tokens /\ issued' = issued
    BY <1>0, <1>16 DEF Load, Fits
  <2>2. Others(p) /\ Fits(p)'
    BY <1>0, <1>16, <2>1, LoadMoves, EndEnds, EndedFits DEF Load, Fits, Ended, Moved
  <2> QED
    BY <2>1, <2>2, OthersFit
<1>17. ASSUME NEW p \in Tabs, CheckUser(p) PROVE Steps'
  <2>1. issued' = issued /\ req[p].kind \in Nonced
    BY <1>0, <1>17 DEF CheckUser, Fits
  <2>2. Others(p) /\ Fits(p)'
    <3>1. CASE req[p].kind = "login"
      BY <1>0, <1>17, <2>1, <3>1, UserMoves, EndedFits DEF Fits, Ended
    <3>2. CASE req[p].kind # "login"
      BY <1>0, <1>17, <2>1, <3>2, GotoMoves, EndEnds, EndedFits DEF CheckUser, Fail, Fits, Moved, Ended
    <3> QED
      BY <3>1, <3>2
  <2> QED
    BY <2>1, <2>2, OthersFit
<1>18. ASSUME NEW p \in Tabs, Token(p) PROVE Steps'
  <2>1. PICK t \in Tokens : /\ issued' = issued \cup {t} /\ Others(p)
                            /\ req'[p].pc = "new" /\ req'[p].at = t /\ req'[p].kind = req[p].kind
                            /\ req'[p].time = req[p].time
    BY <1>18, TokenMoves
  <2>2. req[p].kind = "login" /\ req[p].time > 0
    BY <1>0, <1>18 DEF Token, Fits
  <2>3. Fits(p)'
    BY <2>1, <2>2 DEF Fits
  <2> QED
    BY <2>1, <2>3, OthersFit
<1>19. CASE Second
  BY <1>0, <1>19 DEF Second, Steps, Fits
<1>20. CASE PowerCut
  BY <1>20, IdleType DEF PowerCut, Steps, Fits
<1>21. ASSUME NEW p \in Tabs, Stamp(p) PROVE Steps'
  <2>1. Others(p) /\ issued' = issued
    BY <1>21, StampMoves DEF Stamp, Moved
  <2>2. Fits(p)'
    BY <1>0, <1>21, <2>1, StampMoves DEF Stamp, Moved, Fits
  <2> QED
    BY <2>1, <2>2, OthersFit
<1>22. ASSUME NEW p \in Tabs, Give(p) PROVE Steps'
  <2>1. Others(p) /\ issued' = issued /\ Fits(p)'
    BY <1>22, EndEnds, EndedFits DEF Give, Ended
  <2> QED
    BY <2>1, OthersFit
<1> QED
  BY <1>1, <1>2, <1>3, <1>4, <1>5, <1>6, <1>7, <1>8, <1>9, <1>10, <1>11, <1>12, <1>13, <1>14, <1>15,
     <1>16, <1>17, <1>18, <1>19, <1>20, <1>21, <1>22 DEF Next, Read, Auth, Password

\* The state of the sessions, and that a step leaves it alone.
Leaves == UNCHANGED <<file, issued, uptime, last, steady, ended, dead>>
Reads(pc) == pc \in InHand

\* A step that neither touches sessions, nor begins or ends to hold one.
LEMMA SessionsLeft ==
    ASSUME Sessions, NEW p \in Tabs, Others(p), Leaves, ~Reads(req[p].pc), ~Reads(req'[p].pc)
    PROVE  Sessions'
<1> USE DEF Holds, Others, Leaves, Reads
<1>1. \A q \in Tabs, t \in Tokens : Holds(q, t)' = Holds(q, t)
  OBVIOUS
<1>2. \A q \in Tabs : Reading(q)'
  BY DEF Sessions, Reading, InHand
<1>3. issued \subseteq Tokens => DeadStays'
  BY <1>1 DEF Sessions, DeadStays
<1> QED
  BY <1>1, <1>2 DEF Sessions, DeadStays, SessionKept, InTime

\* A step of a request that goes on holding its session.
LEMMA HoldsOn ==
    ASSUME Sessions, NEW p \in Tabs, Others(p), Leaves, Reads(req[p].pc), req'[p].pc \in {"write", "store"},
           req'[p].at = req[p].at, Reading(p)'
    PROVE  Sessions'
<1>1. \A q \in Tabs : \A t : Holds(q, t)' <=> Holds(q, t)
  BY DEF Holds, Others, Reads, InHand
<1>2. \A q \in Tabs : Reading(q)'
  BY <1>1 DEF Sessions, Reading, Holds, Others, Leaves
<1>3. DeadStays'
  BY <1>1 DEF Sessions, DeadStays, Leaves
<1> QED
  BY <1>2, <1>3 DEF Sessions, SessionKept, InTime, Leaves

\* What a removal does to the sessions that stay ended.
LEMMA UnlinkDead ==
    ASSUME TypeOK, Sessions, NEW p \in Tabs, NEW t \in issued, Others(p), Unlink(p, t), issued' = issued,
           Reads(req[p].pc) => req[p].at = t, ~Reads(req'[p].pc)
    PROVE  DeadStays' /\ dead' \subseteq issued
<1>1. /\ t \in Tokens /\ file'[t] = None /\ \A u \in Tokens \ {t} : file'[u] = file[u]
      /\ dead' = IF \E q \in Tabs \ {p} : Holds(q, t) THEN dead ELSE dead \cup {t}
  BY DEF Unlink, TypeOK
<1>2. \A q \in Tabs, u \in Tokens : Holds(q, u)' <=> Holds(q, u) /\ q # p
  BY DEF Holds, Others, Reads
<1>3. \A u \in Tokens : Holds(p, u) => u = t
  BY DEF Holds, Reads
<1>4. dead' \subseteq issued /\ issued \subseteq Tokens
  BY <1>1 DEF Sessions, TypeOK
<1>5. ASSUME NEW u \in dead' PROVE file'[u] = None /\ \A q \in Tabs : ~Holds(q, u)'
  BY <1>1, <1>2, <1>4, <1>5 DEF Sessions, DeadStays
<1>6. ASSUME NEW u \in issued, file'[u] = None PROVE u \in dead' \/ \E q \in Tabs : Holds(q, u)'
  <2>1. u \in Tokens
    BY <1>4
  <2>2. CASE u = t
    BY <1>1, <1>2, <2>1, <2>2
  <2>3. CASE u # t
    <3>1. u \in dead \/ \E q \in Tabs : Holds(q, u)
      BY <1>1, <1>6, <2>1, <2>3 DEF Sessions, DeadStays
    <3> QED
      BY <1>1, <1>2, <1>3, <2>1, <2>3, <3>1
  <2> QED
    BY <2>2, <2>3
<1> QED
  BY <1>4, <1>5, <1>6 DEF DeadStays

\* A removal of a session nobody in time has lost, or of one that was logged out.
LEMMA UnlinkKeeps ==
    ASSUME TypeOK, Sessions, NEW p \in Tabs, NEW t \in issued, Others(p), Unlink(p, t),
           UNCHANGED <<issued, last, steady, uptime>>, ended \subseteq ended',
           Reads(req[p].pc) => req[p].at = t, ~Reads(req'[p].pc),
           t \in steady \ ended' => ~InTime(t)
    PROVE  Sessions'
<1>1. DeadStays' /\ dead' \subseteq issued
  BY UnlinkDead
<1>2. /\ t \in Tokens /\ file'[t] = None /\ \A u \in Tokens \ {t} : file'[u] = file[u]
      /\ dead' = IF \E q \in Tabs \ {p} : Holds(q, t) THEN dead ELSE dead \cup {t}
  BY DEF Unlink, TypeOK
<1>3. SessionKept'
  BY <1>2 DEF Sessions, SessionKept, InTime, TypeOK
<1>4. \A q \in Tabs \ {p} : Holds(q, t) => t \notin dead'
  BY <1>2 DEF Sessions, Reading, Holds
<1>5. ASSUME NEW q \in Tabs PROVE Reading(q)'
  <2>1. CASE q = p
    BY <2>1 DEF Reading, Holds, Reads, InHand
  <2>2. CASE q # p
    <3>1. req'[q] = req[q] /\ Reading(q) /\ \A u \in Tabs \ {q}, v \in Tokens : Holds(u, v)' => Holds(u, v)
      BY <2>2 DEF Sessions, Others, Holds, Reads
    <3>2. Holds(q, req[q].at) => req[q].at \in issued \ dead'
      BY <1>2, <1>4, <2>2, <3>1 DEF Reading
    <3>3. req[q].pc = "new" => req[q].at \in Tokens /\ file'[req[q].at] = None
      BY <1>2, <3>1 DEF Reading, Holds, InHand, Sessions, TypeOK
    <3> QED
      BY <3>1, <3>2, <3>3 DEF Reading, Holds, InHand
  <2> QED
    BY <2>1, <2>2
<1> QED
  BY <1>1, <1>2, <1>3, <1>5 DEF Sessions, TypeOK

\* A session that is written, by p, which held it.
LEMMA SaveKeeps ==
    ASSUME TypeOK, Sessions, NEW p \in Tabs, NEW t \in issued, Holds(p, t), req[p].pc \in {"store", "new"},
           Others(p), Save(p, t), UNCHANGED <<issued, uptime, ended, dead>>, ~Reads(req'[p].pc),
           \/ req[p].pc = "store" /\ steady' = IF InTime(t) THEN steady ELSE steady \ {t}
           \/ req[p].pc = "new" /\ steady' = steady \cup {t}
    PROVE  Sessions'
<1>0. /\ t \in Tokens /\ uptime \in Nat /\ Delay \in Nat /\ SessionTime \in Nat /\ req[p].got \in Nat
      /\ req[p].since \in Nat /\ None \notin Nat /\ req[p].at = t /\ \A u \in Tokens : last[u] \in Nat
      /\ issued \subseteq Tokens
  BY RequestParts, BoundAssumption, NoneAssumption DEF TypeOK, Holds
<1>1. /\ file'[t] = req[p].got /\ last'[t] = uptime
      /\ \A u \in Tokens \ {t} : file'[u] = file[u] /\ last'[u] = last[u]
  BY <1>0 DEF Save, TypeOK
<1>2. t \notin dead /\ uptime <= req[p].since + Delay /\ req[p].since <= req[p].got /\ req[p].got <= uptime
  BY <1>0 DEF Sessions, Reading
<1>3. \A q \in Tabs, u \in Tokens : Holds(q, u)' <=> Holds(q, u) /\ q # p
  BY DEF Holds, Others, Reads
<1>4. \A u \in Tokens : Holds(p, u) => u = t
  BY <1>0 DEF Holds
<1>5. \A u \in Tokens \ {t} : u \in steady' => u \in steady
  OBVIOUS
<1>6. DeadStays'
  <2>1. ASSUME NEW u \in dead PROVE file'[u] = None /\ \A q \in Tabs : ~Holds(q, u)'
    BY <1>0, <1>1, <1>2, <1>3, <2>1 DEF Sessions, DeadStays
  <2>2. ASSUME NEW u \in issued, file'[u] = None PROVE u \in dead \/ \E q \in Tabs : Holds(q, u)'
    <3>1. u # t /\ u \in Tokens
      BY <1>0, <1>1, <2>2
    <3>2. u \in dead \/ \E q \in Tabs : Holds(q, u)
      BY <1>1, <2>2, <3>1 DEF Sessions, DeadStays
    <3> QED
      BY <1>3, <1>4, <3>1, <3>2
  <2> QED
    BY <2>1, <2>2 DEF DeadStays
<1>7. SessionKept'
  <2>1. ASSUME NEW u \in steady' \ ended, InTime(u)' PROVE file'[u] # None
    <3>1. CASE u = t
      BY <1>0, <1>1, <3>1
    <3>2. CASE u # t
      <4>1. u \in Tokens /\ u \in steady /\ file'[u] = file[u] /\ last'[u] = last[u]
        BY <1>0, <1>1, <1>5, <2>1, <3>2 DEF TypeOK
      <4>2. InTime(u)
        BY <2>1, <4>1 DEF InTime
      <4> QED
        BY <2>1, <4>1, <4>2 DEF Sessions, SessionKept
    <3> QED
      BY <3>1, <3>2
  <2> QED
    BY <2>1 DEF SessionKept
<1>8. ASSUME NEW q \in Tabs PROVE Reading(q)'
  <2>1. CASE q = p
    BY <2>1 DEF Reading, Holds, Reads, InHand
  <2>2. CASE q # p
    <3> DEFINE u == req[q].at
    <3>1. /\ req'[q] = req[q] /\ Reading(q) /\ req[q].got \in Nat /\ req[q].since \in Nat
          /\ \A v \in Tokens, x \in Tabs \ {q} : Holds(x, v)' => Holds(x, v)
      BY <1>3, <2>2, RequestParts DEF Sessions, Others
    <3>2. Holds(q, u) => /\ u \in Tokens /\ u \in issued \ dead
                         /\ req[q].since <= uptime /\ uptime <= req[q].since + Delay
      BY <1>0, <3>1 DEF Reading
    <3>3. ASSUME req[q].pc = "check", u \in steady'
          PROVE  last'[u] <= req[q].got + Delay \/ req[q].since + Delay <= req[q].got + SessionTime
      <4>0. Holds(q, u) /\ u \in Tokens /\ req[q].since <= uptime
        BY <3>2, <3>3 DEF Holds, InHand
      <4>1. CASE u = t
        <5>1. req[p].pc = "store"
          BY <1>0, <2>2, <4>0, <4>1 DEF Sessions, Reading
        <5>2. InTime(t) /\ t \in steady
          BY <3>3, <4>1, <5>1
        <5>3. last[t] <= req[q].got + Delay \/ req[q].since + Delay <= req[q].got + SessionTime
          BY <3>1, <3>3, <4>1, <5>2 DEF Reading
        <5> QED
          BY <1>0, <3>1, <4>0, <4>1, <5>2, <5>3 DEF InTime
      <4>2. CASE u # t
        BY <1>1, <1>5, <3>1, <3>3, <4>0, <4>2 DEF Reading
      <4> QED
        BY <4>1, <4>2
    <3>4. req[q].pc = "new" => u \in Tokens /\ u # t /\ file'[u] = None
      <4>1. req[q].pc = "new" => Holds(q, u)
        BY DEF Holds, InHand
      <4> QED
        BY <1>1, <2>2, <3>1, <3>2, <4>1 DEF Reading
    <3> HIDE DEF u
    <3> QED
      BY <3>1, <3>2, <3>3, <3>4 DEF Reading, Holds, InHand, u
  <2> QED
    BY <2>1, <2>2
<1>9. \A u \in Tokens :
         last'[u] <= uptime /\ (file'[u] # None => u \in issued /\ last'[u] <= file'[u] + Delay)
  <2>1. ASSUME NEW u \in Tokens
        PROVE  last'[u] <= uptime /\ (file'[u] # None => u \in issued /\ last'[u] <= file'[u] + Delay)
    <3>1. CASE u = t
      BY <1>0, <1>1, <1>2, <3>1
    <3>2. CASE u # t
      BY <1>1, <3>2 DEF Sessions
    <3> QED
      BY <3>1, <3>2
  <2> QED
    BY <2>1
<1>10. dead \subseteq issued /\ steady' \subseteq issued
  BY DEF Sessions
<1> QED
  BY <1>6, <1>7, <1>8, <1>9, <1>10 DEF Sessions

\* A reader's session is loaded, judged and written within the Delay.
LEMMA SessionsKept == ASSUME TypeOK, Steps, Sessions, Next PROVE Sessions'
<1> USE DEF At, PCs
<1>0. \A p \in Tabs : Fits(p)
  BY DEF Steps
<1>1. ASSUME NEW p \in Tabs, Arrive(p) PROVE Sessions'
  <2>1. PICK r \in Request : Start(p, r)
    BY <1>1, Arrives
  <2>2. Others(p) /\ ~Reads(req[p].pc) /\ ~Reads(req'[p].pc) /\ Leaves
    <3>1. ~Reads(First(r.kind))
      BY DEF First, Reads, InHand
    <3>2. Others(p) /\ req'[p].pc = First(r.kind)
      BY <2>1, StartMoves
    <3>3. req[p].pc = "idle" /\ Leaves
      BY <2>1 DEF Start, Leaves, uses
    <3> QED
      BY <3>1, <3>2, <3>3 DEF Reads, InHand
  <2> QED
    BY <2>2, SessionsLeft
<1>2. ASSUME NEW p \in Tabs, Sane(p) PROVE Sessions'
  <2>1. Others(p) /\ ~Reads(req[p].pc) /\ ~Reads(req'[p].pc) /\ Leaves
    BY <1>2, NilMoves, GotoMoves DEF Sane, Moved, Ended, Reads, InHand, Leaves, uses
  <2> QED
    BY <2>1, SessionsLeft
<1>3. ASSUME NEW p \in Tabs, ReadNonce(p) PROVE Sessions'
  <2>1. Others(p) /\ ~Reads(req[p].pc) /\ ~Reads(req'[p].pc) /\ Leaves
    BY <1>3, EndEnds, GotoMoves DEF ReadNonce, Fail, Moved, Ended, Reads, InHand, Leaves, uses
  <2> QED
    BY <2>1, SessionsLeft
<1>4. ASSUME NEW p \in Tabs, WriteNonce(p) PROVE Sessions'
  <2>1. Others(p) /\ ~Reads(req[p].pc) /\ ~Reads(req'[p].pc) /\ Leaves
    BY <1>4, GotoMoves DEF WriteNonce, Moved, Reads, InHand, Leaves, uses
  <2> QED
    BY <2>1, SessionsLeft
<1>5. ASSUME NEW p \in Tabs, Reap(p) PROVE Sessions'
  <2>1. req[p].pc = "reap" /\ Leaves
    BY <1>5 DEF Reap, Leaves, uses
  <2>2. Others(p) /\ req'[p].pc \in {"token", "reap", "load"}
    BY <1>5, ReapMoves DEF Moved
  <2>3. ~Reads(req[p].pc) /\ ~Reads(req'[p].pc)
    BY <2>1, <2>2 DEF Reads, InHand
  <2> QED
    BY <2>1, <2>2, <2>3, SessionsLeft
<1>6. ASSUME NEW p \in Tabs, Decrypt(p) PROVE Sessions'
  <2>1. Others(p) /\ ~Reads(req[p].pc) /\ ~Reads(req'[p].pc) /\ Leaves
    BY <1>6, DecryptMoves, EndEnds, GotoMoves DEF Decrypt, Fail, Moved, Ended, Reads, InHand, Leaves, uses
  <2> QED
    BY <2>1, SessionsLeft
<1>7. ASSUME NEW p \in Tabs, SetPassword(p) PROVE Sessions'
  <2>1. Others(p) /\ ~Reads(req[p].pc) /\ ~Reads(req'[p].pc) /\ Leaves
    BY <1>7, GotoMoves DEF SetPassword, Moved, Reads, InHand, Leaves, uses
  <2> QED
    BY <2>1, SessionsLeft
<1>8. ASSUME NEW p \in Tabs, SetNvram(p) PROVE Sessions'
  <2>1. Others(p) /\ ~Reads(req[p].pc) /\ ~Reads(req'[p].pc) /\ Leaves
    BY <1>8, GotoMoves, EndEnds DEF SetNvram, Moved, Ended, Reads, InHand, Leaves, uses
  <2> QED
    BY <2>1, SessionsLeft
<1>9. ASSUME NEW p \in Tabs, Finish(p) PROVE Sessions'
  <2>1. Others(p) /\ ~Reads(req[p].pc) /\ ~Reads(req'[p].pc) /\ Leaves
    BY <1>9, GotoMoves, EndEnds DEF Finish, Succeed, Fail, Moved, Ended, Reads, InHand, Leaves, uses
  <2> QED
    BY <2>1, SessionsLeft
<1>10. ASSUME NEW p \in Tabs, Hello(p) PROVE Sessions'
  <2>1. Others(p) /\ ~Reads(req[p].pc) /\ ~Reads(req'[p].pc) /\ Leaves
    BY <1>10, GotoMoves, EndEnds DEF Hello, Moved, Ended, Reads, InHand, Leaves, uses
  <2> QED
    BY <2>1, SessionsLeft
<1>11. ASSUME NEW p \in Tabs, SetDefault(p) PROVE Sessions'
  <2>1. Others(p) /\ ~Reads(req[p].pc) /\ ~Reads(req'[p].pc) /\ Leaves
    BY <1>11, GotoMoves DEF SetDefault, Moved, Reads, InHand, Leaves, uses
  <2> QED
    BY <2>1, SessionsLeft
<1>12. ASSUME NEW p \in Tabs, DefaultNvram(p) PROVE Sessions'
  <2>1. Others(p) /\ ~Reads(req[p].pc) /\ ~Reads(req'[p].pc) /\ Leaves
    BY <1>12, EndEnds DEF DefaultNvram, Ended, Reads, InHand, Leaves, uses
  <2> QED
    BY <2>1, SessionsLeft
<1>13. ASSUME NEW p \in Tabs, CheckUser(p) PROVE Sessions'
  <2>1. Others(p) /\ ~Reads(req'[p].pc)
    <3>1. CASE req[p].kind = "login"
      BY <1>13, <3>1, UserMoves DEF Ended, Reads, InHand
    <3>2. CASE req[p].kind # "login"
      BY <1>13, <3>2, GotoMoves, EndEnds DEF CheckUser, Fail, Moved, Ended, Reads, InHand
    <3> QED
      BY <3>1, <3>2
  <2> QED
    BY <1>13, <2>1, SessionsLeft DEF CheckUser, Leaves, uses, Reads, InHand
<1>14. ASSUME NEW p \in Tabs, Load(p) PROVE Sessions'
  <2> DEFINE t == req[p].at
  <2>1. t \in Tokens /\ Leaves /\ ~Reads(req[p].pc)
    BY <1>0, <1>14 DEF Load, Fits, Leaves, uses, Reads, InHand
  <2>2. CASE file[t] = None
    BY <1>14, <2>1, <2>2, EndEnds, SessionsLeft DEF Load, Ended, Reads, InHand
  <2>3. CASE file[t] # None
    <3>1. /\ Others(p) /\ req'[p].pc = "check" /\ req'[p].at = t
          /\ req'[p].got = file[t] /\ req'[p].since = uptime
      BY <1>14, <2>1, <2>3, LoadMoves DEF Moved
    <3>2. t \in issued \ dead /\ last[t] <= file[t] + Delay /\ uptime \in Nat /\ Delay \in Nat
      BY <2>1, <2>3, BoundAssumption DEF Sessions, DeadStays, TypeOK
    <3>3. Reading(p)'
      BY <2>1, <3>1, <3>2 DEF Reading, Holds, Leaves
    <3>4. \A q \in Tabs, u \in Tokens : Holds(q, u)' <=> Holds(q, u) \/ (q = p /\ u = t)
      BY <2>1, <3>1 DEF Holds, Others, Reads, InHand
    <3>5. ASSUME NEW q \in Tabs PROVE Reading(q)'
      <4>1. CASE q = p
        BY <3>3, <4>1
      <4>2. CASE q # p
        <5>1. Reading(q) /\ req'[q] = req[q]
          BY <3>1, <4>2 DEF Sessions, Others
        <5>2. req[q].pc = "new" => req[q].at \in Tokens /\ req[q].at # t
          BY <2>3, <5>1 DEF Reading, Holds, InHand, Sessions, TypeOK
        <5> QED
          BY <2>1, <3>4, <4>2, <5>1, <5>2 DEF Reading, Holds, Leaves
      <4> QED
        BY <4>1, <4>2
    <3>6. DeadStays'
      BY <2>1, <3>2, <3>4 DEF Sessions, DeadStays, Leaves, TypeOK
    <3> QED
      BY <2>1, <3>5, <3>6 DEF Sessions, SessionKept, InTime, Leaves
  <2> QED
    BY <2>2, <2>3
<1>15. ASSUME NEW p \in Tabs, Check(p) PROVE Sessions'
  <2> DEFINE t == req[p].at
  <2>1. /\ t \in issued \ dead /\ t \in Tokens /\ req[p].pc = "check" /\ Reads(req[p].pc)
        /\ uptime <= req[p].since + Delay /\ req[p].since <= uptime
        /\ t \in steady => \/ last[t] <= req[p].got + Delay
                           \/ req[p].since + Delay <= req[p].got + SessionTime
        /\ last[t] \in Nat /\ req[p].got \in Nat /\ req[p].since \in Nat
        /\ uptime \in Nat /\ SessionTime \in Nat /\ Delay \in Nat
    <3>1. req[p].pc = "check" /\ Holds(p, t) /\ t \in Tokens
      BY <1>0, <1>15 DEF Check, Holds, Fits, InHand
    <3> QED
      BY <3>1, RequestParts, BoundAssumption DEF Sessions, Reading, TypeOK, Reads, InHand
  <2>2. CASE req[p].got + SessionTime < uptime /\ Unlink(p, t) /\ ReadNil(p)
    <3>1. Others(p) /\ ~Reads(req'[p].pc)
      BY <2>2, NilMoves DEF Moved, Ended, Reads, InHand
    <3>2. t \in steady => ~InTime(t)
      BY <2>1, <2>2 DEF InTime
    <3>3. UNCHANGED <<last, steady, issued, ended, uptime>>
      BY <1>15 DEF Check
    <3> QED
      BY <2>1, <2>2, <3>1, <3>2, <3>3, UnlinkKeeps
  <2>3. CASE Moved(p, "write") /\ req'[p].since = req[p].since /\ UNCHANGED <<file, dead>>
    <3>1. UNCHANGED <<last, steady, issued, ended, uptime>>
      BY <1>15 DEF Check
    <3>2. Reading(p)'
      BY <2>1, <2>3, <3>1 DEF Moved, Reading, Holds
    <3> QED
      BY <2>1, <2>3, <3>1, <3>2, HoldsOn DEF Moved, Leaves
  <2> QED
    BY <1>15, <2>2, <2>3, CheckMoves
<1>16. ASSUME NEW p \in Tabs, Write(p) \/ Give(p) PROVE Sessions'
  <2> DEFINE t == req[p].at
  <2>1. Holds(p, t) /\ req[p].pc \in {"store", "new"}
    BY <1>16 DEF Write, Give, Holds, InHand
  <2>2. t \in issued
    BY <2>1 DEF Sessions, Reading
  <2>3. Others(p) /\ ~Reads(req'[p].pc)
    BY <1>16, GotoMoves, EndEnds DEF Write, Give, ReadOk, Moved, Ended, Reads, InHand
  <2>4. Save(p, t) /\ UNCHANGED <<issued, uptime, ended, dead>>
    BY <1>16 DEF Write, Give
  <2>5. \/ req[p].pc = "store" /\ steady' = IF InTime(t) THEN steady ELSE steady \ {t}
        \/ req[p].pc = "new" /\ steady' = steady \cup {t}
    BY <1>16 DEF Write, Give
  <2> HIDE DEF t
  <2> QED
    BY <2>1, <2>2, <2>3, <2>4, <2>5, SaveKeeps
<1>17. ASSUME NEW p \in Tabs, Kill(p) PROVE Sessions'
  <2> DEFINE t == req[p].token
  <2>1. t \in issued /\ ~Reads(req[p].pc)
    BY <1>0, <1>17 DEF Kill, Fits, Reads, InHand
  <2>2. Others(p) /\ ~Reads(req'[p].pc)
    BY <1>17, EndEnds DEF Kill, Ended, Reads, InHand
  <2>3. Unlink(p, t) /\ UNCHANGED <<last, steady, issued, uptime>> /\ ended' = ended \cup {t}
    BY <1>17 DEF Kill
  <2> QED
    BY <2>1, <2>2, <2>3, UnlinkKeeps
<1>18. ASSUME NEW p \in Tabs, Token(p) PROVE Sessions'
  <2>1. PICK t \in Tokens \ issued :
             /\ issued' = issued \cup {t} /\ Others(p)
             /\ req'[p].pc = "new" /\ req'[p].at = t /\ req'[p].got = uptime /\ req'[p].since = uptime
    BY <1>18, TokenMoves
  <2>2. UNCHANGED <<file, uptime, last, steady, ended, dead>> /\ ~Reads(req[p].pc)
    BY <1>18 DEF Token, uses, Reads, InHand
  <2>3. /\ file[t] = None /\ t \notin dead /\ t \notin steady /\ \A q \in Tabs : ~Holds(q, t)
        /\ uptime \in Nat /\ Delay \in Nat /\ issued \subseteq Tokens
    BY <2>1, BoundAssumption DEF Sessions, Reading, Holds, TypeOK
  <2>4. \A q \in Tabs, u \in Tokens : Holds(q, u)' <=> Holds(q, u) \/ (q = p /\ u = t)
    BY <2>1, <2>2 DEF Holds, Others, Reads, InHand
  <2>5. Reading(p)'
    BY <2>1, <2>2, <2>3, <2>4 DEF Reading, Holds
  <2>6. ASSUME NEW q \in Tabs PROVE Reading(q)'
    <3>1. CASE q = p
      BY <2>5, <3>1
    <3>2. CASE q # p
      <4>1. Reading(q) /\ req'[q] = req[q]
        BY <2>1, <3>2 DEF Sessions, Others
      <4>2. req[q].pc = "new" => req[q].at \in issued
        BY <4>1 DEF Reading, Holds, InHand
      <4> QED
        BY <2>1, <2>2, <2>3, <2>4, <3>2, <4>1, <4>2 DEF Reading, Holds
    <3> QED
      BY <3>1, <3>2
  <2>7. DeadStays'
    BY <2>1, <2>2, <2>3, <2>4 DEF Sessions, DeadStays
  <2> QED
    BY <2>1, <2>2, <2>3, <2>6, <2>7 DEF Sessions, SessionKept, InTime
<1>19. CASE Second
  <2>1. /\ \A q \in Tabs : req[q].pc \in InHand => uptime < req[q].since + Delay
        /\ uptime' = uptime + 1 /\ UNCHANGED <<req, file, last, steady, issued, ended, dead>>
    BY <1>19 DEF Second, uses
  <2>2. uptime \in Nat /\ Delay \in Nat /\ SessionTime \in Nat /\ \A t \in Tokens : last[t] \in Nat
    BY BoundAssumption DEF TypeOK
  <2>3. ASSUME NEW q \in Tabs PROVE Reading(q)'
    <3>1. req[q].since \in Nat /\ req[q].got \in Nat /\ Reading(q)
      BY RequestParts DEF Sessions
    <3> QED
      BY <2>1, <2>2, <3>1 DEF Reading, Holds
  <2>4. SessionKept'
    BY <2>1, <2>2 DEF Sessions, SessionKept, InTime, TypeOK
  <2>5. DeadStays'
    BY <2>1 DEF Sessions, DeadStays, Holds
  <2>6. \A t \in Tokens : last'[t] <= uptime'
    BY <2>1, <2>2 DEF Sessions
  <2> QED
    BY <2>1, <2>3, <2>4, <2>5, <2>6 DEF Sessions
<1>20. CASE PowerCut
  <2>1. /\ \A q \in Tabs : req'[q].pc = "idle"
        /\ \A t \in Tokens : file'[t] = None /\ last'[t] <= uptime'
        /\ steady' = {} /\ dead' = issued /\ issued' = issued /\ issued \subseteq Tokens
    BY <1>20, IdleType DEF PowerCut, TypeOK
  <2>2. \A q \in Tabs : Reading(q)'
    BY <2>1 DEF Reading, Holds, InHand
  <2>3. DeadStays' /\ SessionKept'
    BY <2>1 DEF DeadStays, SessionKept, Holds, InHand
  <2> QED
    BY <2>1, <2>2, <2>3 DEF Sessions
<1>21. ASSUME NEW p \in Tabs, Stamp(p) PROVE Sessions'
  <2> DEFINE t == req[p].at
  <2>1. /\ Leaves /\ Moved(p, "store") /\ req'[p].got = uptime /\ req'[p].since = req[p].since
        /\ req[p].pc = "write" /\ Reads(req[p].pc)
    BY <1>21, StampMoves DEF Stamp, Leaves, uses, Reads, InHand
  <2>2. t \in issued \ dead /\ uptime <= req[p].since + Delay /\ req[p].since <= uptime /\ uptime \in Nat
    BY <2>1 DEF Sessions, Reading, Holds, Reads, TypeOK
  <2>3. Reading(p)'
    BY <2>1, <2>2 DEF Moved, Reading, Holds, Leaves
  <2> QED
    BY <2>1, <2>3, HoldsOn DEF Moved
<1> QED
  BY <1>1, <1>2, <1>3, <1>4, <1>5, <1>6, <1>7, <1>8, <1>9, <1>10, <1>11, <1>12, <1>13, <1>14, <1>15,
     <1>16, <1>17, <1>18, <1>19, <1>20, <1>21 DEF Next, Read, Auth, Password

\* A request with a nonce.
Asks(q) == Busy(q) /\ req[q].kind \in Nonced

\* A step that takes no nonce and begins no request with one.
LEMMA NoncesLeft ==
    ASSUME Nonces, NEW p \in Tabs, Others(p), UNCHANGED <<mark, taken>>,
           req'[p].pc # "mark", Asks(p)' => Asks(p)
    PROVE  Nonces'
<1>1. OneNonced'
  <2>1. \A q \in Tabs : Asks(q)' => Asks(q)
    BY DEF Others, Asks, Busy, At
  <2> QED
    BY <2>1 DEF Nonces, OneNonced, Asks
<1>2. \A q \in Tabs : At(q, "mark")' => At(q, "mark") /\ req'[q] = req[q]
  BY DEF Others, At
<1> QED
  BY <1>1, <1>2 DEF Nonces, NonceOnce

\* The marks of a device only grow, and with them what was accepted.
LEMMA NoncesKept == ASSUME Patient, TypeOK, Steps, Nonces, Next PROVE Nonces'
<1> USE DEF At, PCs
<1>0. \A p \in Tabs : Fits(p)
  BY DEF Steps
<1>1. ASSUME NEW p \in Tabs, Arrive(p) PROVE Nonces'
  <2>1. PICK r \in Request : Start(p, r)
    BY <1>1, Arrives
  <2>2. Others(p) /\ req'[p].pc # "mark" /\ req'[p].kind = r.kind /\ UNCHANGED <<mark, taken>>
    <3>1. First(r.kind) # "mark"
      BY DEF First
    <3> QED
      BY <2>1, <3>1, StartMoves DEF Start
  <2>3. CASE r.kind \notin Nonced
    BY <2>2, <2>3, NoncesLeft DEF Asks
  <2>4. CASE r.kind \in Nonced
    <3>1. \A q \in Tabs \ {p} : DeviceOf[p] = DeviceOf[q] => ~Asks(q)
      BY <2>1, <2>4 DEF Start, Serial, Patient, Asks, Busy
    <3>2. \A q \in Tabs \ {p} : Asks(q)' = Asks(q)
      BY <2>2 DEF Others, Asks, Busy
    <3>3. OneNonced'
      BY <3>1, <3>2 DEF Nonces, OneNonced, Asks
    <3>4. \A q \in Tabs : At(q, "mark")' => At(q, "mark") /\ req'[q] = req[q]
      BY <2>2 DEF Others
    <3> QED
      BY <2>2, <3>3, <3>4 DEF Nonces, NonceOnce
  <2> QED
    BY <2>3, <2>4
<1>2. ASSUME NEW p \in Tabs, Sane(p) PROVE Nonces'
  <2>1. Others(p) /\ UNCHANGED <<mark, taken>>
    BY <1>2, NilMoves, GotoMoves DEF Sane, Moved, Ended
  <2>2. req'[p].pc # "mark" /\ (Asks(p)' => Asks(p))
    BY <1>0, <1>2, NilMoves, GotoMoves DEF Sane, Moved, Ended, Asks, Busy, Nonced, Setters, Fits
  <2> QED
    BY <2>1, <2>2, NoncesLeft
<1>3. ASSUME NEW p \in Tabs, Check(p) PROVE Nonces'
  <2>1. Others(p) /\ UNCHANGED <<mark, taken>>
    BY <1>3, CheckMoves, NilMoves DEF Check, Moved, Ended
  <2>2. req'[p].pc # "mark" /\ (Asks(p)' => Asks(p))
    BY <1>0, <1>3, CheckMoves, NilMoves DEF Check, Moved, Ended, Asks, Busy, Nonced, Setters, Fits
  <2> QED
    BY <2>1, <2>2, NoncesLeft
<1>4. ASSUME NEW p \in Tabs, Write(p) PROVE Nonces'
  <2>1. Others(p) /\ UNCHANGED <<mark, taken>>
    BY <1>4, EndEnds, GotoMoves DEF Write, ReadOk, Moved, Ended
  <2>2. req'[p].pc # "mark" /\ (Asks(p)' => Asks(p))
    BY <1>0, <1>4, EndEnds, GotoMoves DEF Write, ReadOk, Moved, Ended, Asks, Busy, Nonced, Setters, Fits
  <2> QED
    BY <2>1, <2>2, NoncesLeft
<1>5. ASSUME NEW p \in Tabs, Kill(p) PROVE Nonces'
  <2>1. Others(p) /\ UNCHANGED <<mark, taken>>
    BY <1>5, EndEnds DEF Kill, Ended
  <2>2. req'[p].pc # "mark" /\ (Asks(p)' => Asks(p))
    BY <1>0, <1>5, EndEnds DEF Kill, Ended, Asks, Busy, Nonced, Setters, Fits
  <2> QED
    BY <2>1, <2>2, NoncesLeft
<1>6. ASSUME NEW p \in Tabs, Reap(p) PROVE Nonces'
  <2>1. Others(p) /\ UNCHANGED <<mark, taken>>
    BY <1>6, ReapMoves DEF Reap, Moved
  <2>2. req'[p].pc # "mark" /\ (Asks(p)' => Asks(p))
    BY <1>0, <1>6, ReapMoves DEF Reap, Moved, Asks, Busy, Nonced, Setters, Fits
  <2> QED
    BY <2>1, <2>2, NoncesLeft
<1>7. ASSUME NEW p \in Tabs, Token(p) PROVE Nonces'
  <2>1. UNCHANGED <<mark, taken>> /\ req[p].pc = "token"
    BY <1>7 DEF Token
  <2>2. Others(p) /\ req'[p].pc = "new" /\ req'[p].kind = req[p].kind
    BY <1>7, TokenMoves
  <2>3. req'[p].pc # "mark" /\ (Asks(p)' => Asks(p))
    BY <2>1, <2>2 DEF Asks, Busy
  <2> QED
    BY <2>1, <2>2, <2>3, NoncesLeft
<1>8. ASSUME NEW p \in Tabs, Decrypt(p) PROVE Nonces'
  <2>1. Others(p) /\ UNCHANGED <<mark, taken>>
    BY <1>8, DecryptMoves, EndEnds, GotoMoves DEF Decrypt, Fail, Moved, Ended
  <2>2. req'[p].pc # "mark" /\ (Asks(p)' => Asks(p))
    BY <1>0, <1>8, DecryptMoves, EndEnds, GotoMoves DEF Decrypt, Fail, Moved, Ended, Asks, Busy, Nonced,
       Setters, Fits
  <2> QED
    BY <2>1, <2>2, NoncesLeft
<1>9. ASSUME NEW p \in Tabs, SetPassword(p) PROVE Nonces'
  <2>1. Others(p) /\ UNCHANGED <<mark, taken>>
    BY <1>9, GotoMoves DEF SetPassword, Moved
  <2>2. req'[p].pc # "mark" /\ (Asks(p)' => Asks(p))
    BY <1>0, <1>9, GotoMoves DEF SetPassword, Moved, Asks, Busy, Nonced, Setters, Fits
  <2> QED
    BY <2>1, <2>2, NoncesLeft
<1>10. ASSUME NEW p \in Tabs, SetNvram(p) PROVE Nonces'
  <2>1. Others(p) /\ UNCHANGED <<mark, taken>>
    BY <1>10, GotoMoves, EndEnds DEF SetNvram, Moved, Ended
  <2>2. req'[p].pc # "mark" /\ (Asks(p)' => Asks(p))
    BY <1>0, <1>10, GotoMoves, EndEnds DEF SetNvram, Moved, Ended, Asks, Busy, Nonced, Setters, Fits
  <2> QED
    BY <2>1, <2>2, NoncesLeft
<1>11. ASSUME NEW p \in Tabs, Finish(p) PROVE Nonces'
  <2>1. Others(p) /\ UNCHANGED <<mark, taken>>
    BY <1>11, GotoMoves, EndEnds DEF Finish, Succeed, Fail, Moved, Ended
  <2>2. req'[p].pc # "mark" /\ (Asks(p)' => Asks(p))
    BY <1>0, <1>11, GotoMoves, EndEnds DEF Finish, Succeed, Fail, Moved, Ended, Asks, Busy, Nonced,
       Setters, Fits
  <2> QED
    BY <2>1, <2>2, NoncesLeft
<1>12. ASSUME NEW p \in Tabs, Hello(p) PROVE Nonces'
  <2>1. Others(p) /\ UNCHANGED <<mark, taken>>
    BY <1>12, GotoMoves, EndEnds DEF Hello, Moved, Ended
  <2>2. req'[p].pc # "mark" /\ (Asks(p)' => Asks(p))
    BY <1>0, <1>12, GotoMoves, EndEnds DEF Hello, Moved, Ended, Asks, Busy, Nonced, Setters, Fits
  <2> QED
    BY <2>1, <2>2, NoncesLeft
<1>13. ASSUME NEW p \in Tabs, SetDefault(p) PROVE Nonces'
  <2>1. Others(p) /\ UNCHANGED <<mark, taken>>
    BY <1>13, GotoMoves DEF SetDefault, Moved
  <2>2. req'[p].pc # "mark" /\ (Asks(p)' => Asks(p))
    BY <1>0, <1>13, GotoMoves DEF SetDefault, Moved, Asks, Busy, Nonced, Setters, Fits
  <2> QED
    BY <2>1, <2>2, NoncesLeft
<1>14. ASSUME NEW p \in Tabs, DefaultNvram(p) PROVE Nonces'
  <2>1. Others(p) /\ UNCHANGED <<mark, taken>>
    BY <1>14, EndEnds DEF DefaultNvram, Ended
  <2>2. req'[p].pc # "mark" /\ (Asks(p)' => Asks(p))
    BY <1>0, <1>14, EndEnds DEF DefaultNvram, Ended, Asks, Busy, Nonced, Setters, Fits
  <2> QED
    BY <2>1, <2>2, NoncesLeft
<1>15. ASSUME NEW p \in Tabs, Load(p) PROVE Nonces'
  <2>1. UNCHANGED <<mark, taken>> /\ req[p].at \in Tokens
    BY <1>0, <1>15 DEF Load, Fits
  <2>2. Others(p) /\ req'[p].pc # "mark" /\ (Asks(p)' => Asks(p))
    BY <1>15, <2>1, LoadMoves, EndEnds DEF Load, Moved, Ended, Asks, Busy
  <2> QED
    BY <2>1, <2>2, NoncesLeft
<1>16. ASSUME NEW p \in Tabs, CheckUser(p) PROVE Nonces'
  <2>1. Others(p) /\ req'[p].pc # "mark" /\ (Asks(p)' => Asks(p))
    <3>1. CASE req[p].kind = "login"
      BY <1>16, <3>1, UserMoves DEF CheckUser, Ended, Asks, Busy
    <3>2. CASE req[p].kind # "login"
      BY <1>16, <3>2, GotoMoves, EndEnds DEF CheckUser, Fail, Moved, Ended, Asks, Busy
    <3> QED
      BY <3>1, <3>2
  <2> QED
    BY <1>16, <2>1, NoncesLeft DEF CheckUser
<1>17. ASSUME NEW p \in Tabs, ReadNonce(p) PROVE Nonces'
  <2>1. UNCHANGED <<mark, taken>>
    BY <1>17 DEF ReadNonce
  <2>2. CASE Stale(req[p].time, mark[DeviceOf[p]])
    <3>1. Others(p) /\ req'[p].pc # "mark" /\ (Asks(p)' => Asks(p))
      BY <1>17, <2>2, GotoMoves, EndEnds DEF ReadNonce, Fail, Moved, Ended, Asks, Busy
    <3> QED
      BY <2>1, <3>1, NoncesLeft
  <2>3. CASE ~Stale(req[p].time, mark[DeviceOf[p]])
    <3>1. Moved(p, "mark")
      BY <1>17, <2>3, GotoMoves DEF ReadNonce
    <3>2. \A q \in Tabs : Asks(q)' => Asks(q)
      BY <1>17, <3>1 DEF ReadNonce, Moved, Others, Asks, Busy
    <3>3. OneNonced'
      BY <3>2 DEF Nonces, OneNonced, Asks
    <3>4. \A q \in Tabs : At(q, "mark")' => ~Stale(req'[q].time, mark[DeviceOf[q]])
      BY <2>3, <3>1 DEF Moved, Others, Nonces
    <3> QED
      BY <2>1, <3>3, <3>4 DEF Nonces, NonceOnce, Stale
  <2> QED
    BY <2>2, <2>3
<1>18. ASSUME NEW p \in Tabs, WriteNonce(p) PROVE Nonces'
  <2> DEFINE d == DeviceOf[p]
  <2> DEFINE n == req[p].time
  <2>1. d \in Devices /\ n \in 1 .. MaxTime /\ req[p].kind \in Nonced /\ Asks(p)
    BY <1>0, <1>18, RequestParts DEF WriteNonce, Fits, Asks, Busy
  <2>2. mark[d] = None \/ mark[d] < n
    BY <1>18, <2>1, BoundAssumption DEF WriteNonce, Nonces, Stale, TypeOK
  <2>3. Moved(p, "user")
    BY <1>18, GotoMoves DEF WriteNonce
  <2>4. /\ mark' = [mark EXCEPT ![d] = n] /\ taken' = [taken EXCEPT ![d][n] = @ + 1]
    BY <1>18 DEF WriteNonce
  <2>5. /\ mark'[d] = n /\ \A e \in Devices : e # d => mark'[e] = mark[e] /\ taken'[e] = taken[e]
        /\ taken'[d][n] = taken[d][n] + 1 /\ \A m \in 1 .. MaxTime : m # n => taken'[d][m] = taken[d][m]
    BY <2>1, <2>4 DEF TypeOK
  <2>6. \A m \in 1 .. MaxTime : m >= n => taken[d][m] = 0
    BY <2>1, <2>2 DEF Nonces, TypeOK
  <2>7. NonceOnce'
    BY <2>1, <2>5, <2>6 DEF Nonces, NonceOnce
  <2>8. \A e \in Devices, m \in 1 .. MaxTime : mark'[e] = None \/ m > mark'[e] => taken'[e][m] = 0
    BY <2>1, <2>5, <2>6, NoneAssumption DEF Nonces
  <2>9. \A q \in Tabs : Asks(q)' => Asks(q)
    BY <2>1, <2>3 DEF Moved, Others, Asks, Busy
  <2>10. OneNonced'
    BY <2>9 DEF Nonces, OneNonced, Asks
  <2>11. ASSUME NEW q \in Tabs, req'[q].pc = "mark" PROVE ~Stale(req'[q].time, mark'[DeviceOf[q]])
    <3>1. q # p /\ req'[q] = req[q]
      BY <2>3, <2>11 DEF Moved, Others
    <3>2. Asks(q) /\ ~Stale(req[q].time, mark[DeviceOf[q]]) /\ DeviceOf[q] \in Devices
      BY <1>0, <2>11, <3>1, RequestParts DEF Nonces, Fits, Asks, Busy
    <3>3. DeviceOf[q] # d
      BY <2>1, <3>1, <3>2 DEF Nonces, OneNonced, Asks
    <3> QED
      BY <2>5, <3>1, <3>2, <3>3
  <2> QED
    BY <2>7, <2>8, <2>10, <2>11 DEF Nonces
<1>19. CASE Second
  BY <1>19 DEF Second, Nonces, OneNonced, NonceOnce, Busy
<1>20. CASE PowerCut
  <2>1. /\ \A q \in Tabs : req'[q].pc = "idle"
        /\ \A e \in Devices, m \in 1 .. MaxTime : taken'[e][m] = 0
    BY <1>20, IdleType DEF PowerCut
  <2> QED
    BY <2>1 DEF Nonces, OneNonced, NonceOnce, Busy
<1>21. ASSUME NEW p \in Tabs, Stamp(p) PROVE Nonces'
  <2>1. Moved(p, "store") /\ UNCHANGED <<mark, taken>> /\ req[p].pc = "write"
    BY <1>21, StampMoves DEF Stamp
  <2>2. Others(p) /\ req'[p].pc # "mark" /\ (Asks(p)' => Asks(p))
    BY <2>1 DEF Moved, Asks, Busy
  <2> QED
    BY <2>1, <2>2, NoncesLeft
<1>22. ASSUME NEW p \in Tabs, Give(p) PROVE Nonces'
  <2>1. Ended(p) /\ UNCHANGED <<mark, taken>>
    BY <1>22, EndEnds DEF Give
  <2>2. Others(p) /\ req'[p].pc # "mark" /\ (Asks(p)' => Asks(p))
    BY <2>1 DEF Ended, Asks, Busy
  <2> QED
    BY <2>1, <2>2, NoncesLeft
<1> QED
  BY <1>1, <1>2, <1>3, <1>4, <1>5, <1>6, <1>7, <1>8, <1>9, <1>10, <1>11, <1>12, <1>13, <1>14, <1>15,
     <1>16, <1>17, <1>18, <1>19, <1>20, <1>21, <1>22 DEF Next, Read, Auth, Password

\* What the passwords are, and that a step leaves them alone.
Still == UNCHANGED <<account, nvpwd, inited, told, greeted>>

\* Who does not set the password is at no step that does.
LEMMA NotWriting ==
    ASSUME NEW q \in Tabs, Fits(q), ~Writing(q)
    PROVE  /\ req[q].pc \notin {"dec", "set", "nv", "wifi", "default", "defnv"}
           /\ req[q].kind \notin {"wizard", "change"}
  BY DEF Fits, Writing, Busy, At, Writers, Setters

\* When one request sets it, the others have nothing in progress.
LEMMA OthersProgress ==
    ASSUME Steps, NEW p \in Tabs, Others(p), \A q \in Tabs \ {p} : ~Writing(q)
    PROVE  \A q \in Tabs \ {p} : Progress(q)' /\ ~Writing(q)'
<1> SUFFICES ASSUME NEW q \in Tabs \ {p} PROVE Progress(q)' /\ ~Writing(q)'
  OBVIOUS
<1>1. req'[q] = req[q] /\ Fits(q) /\ ~Writing(q)
  BY DEF Others, Steps
<1> QED
  BY <1>1, NotWriting DEF Progress, Writing, Busy, At

\* A step that writes nothing and begins no request that does.
LEMMA SettingLeft ==
    ASSUME Setting, NEW p \in Tabs, Others(p), Still, Writing(p)' => Writing(p), Progress(p)',
           req[p].pc \notin {"nv", "wifi", "default"}
    PROVE  Setting'
<1>1. \A q \in Tabs \ {p} : req'[q] = req[q]
  BY DEF Others
<1>2. \A q \in Tabs : Progress(q)' /\ (Writing(q)' => Writing(q))
  BY <1>1 DEF Setting, Progress, Still, Writing, Busy, At
<1>3. OneWriter'
  BY <1>2 DEF Setting, OneWriter
<1>4. (\A q \in Tabs : req'[q].pc \notin {"nv", "wifi", "default"})
          => \A q \in Tabs : req[q].pc \notin {"nv", "wifi", "default"}
  BY <1>1
<1> QED
  BY <1>2, <1>3, <1>4 DEF Setting, InitedIsChosen, ToldIsSet, Still

\* The password, the copy and what is noted go together, whatever is cut off.
LEMMA SettingKept == ASSUME Patient, TypeOK, Steps, Setting, Next PROVE Setting'
<1> USE DEF At, PCs
<1>0. \A p \in Tabs : Fits(p) /\ Progress(p)
  BY DEF Steps, Setting
<1>1. ASSUME NEW p \in Tabs, Arrive(p) PROVE Setting'
  <2>1. PICK r \in Request : Start(p, r)
    BY <1>1, Arrives
  <2>2. /\ Others(p) /\ req[p].pc = "idle" /\ req'[p].kind = r.kind
        /\ req'[p].pc \in {"hello", "nonce", "sane"} /\ UNCHANGED <<account, nvpwd, inited, greeted>>
    <3>1. First(r.kind) \in {"hello", "nonce", "sane"}
      BY DEF First
    <3> QED
      BY <2>1, <3>1, StartMoves DEF Start, flash
  <2>3. Progress(p)'
    BY <2>1, <2>2 DEF Start, Patient, Progress
  <2>4. CASE r.kind \notin Writers
    <3>1. Still /\ ~Writing(p)'
      BY <2>1, <2>2, <2>4 DEF Start, Still, Writing, flash
    <3> QED
      BY <2>2, <2>3, <3>1, SettingLeft
  <2>5. CASE r.kind \in Writers
    <3>1. told' = None /\ \A q \in Tabs \ {p} : ~Writing(q)
      BY <2>1, <2>5 DEF Start, Serial, Patient, Writing
    <3>2. \A q \in Tabs \ {p} : Progress(q)' /\ ~Writing(q)'
      BY <2>2, <3>1, OthersProgress
    <3>3. OneWriter'
      BY <3>2 DEF OneWriter
    <3>4. (\A q \in Tabs : req'[q].pc \notin {"nv", "wifi", "default"})
              => \A q \in Tabs : req[q].pc \notin {"nv", "wifi", "default"}
      BY <2>2 DEF Others
    <3> QED
      BY <2>2, <2>3, <3>1, <3>2, <3>3, <3>4 DEF Setting, InitedIsChosen, ToldIsSet
  <2> QED
    BY <2>4, <2>5
<1>2. ASSUME NEW p \in Tabs, Sane(p) PROVE Setting'
  <2>1. Others(p) /\ Still
    BY <1>2, NilMoves, GotoMoves DEF Sane, Moved, Ended, Still, flash
  <2>2. (Writing(p)' => Writing(p)) /\ req[p].pc \notin {"nv", "wifi", "default"}
    BY <1>0, <1>2, NilMoves, GotoMoves DEF Sane, Moved, Ended, Writing, Busy, Writers, Setters, Fits
  <2>3. Progress(p)'
    BY <1>0, <1>2, <2>1, NilMoves, GotoMoves DEF Sane, Moved, Ended, Still, Progress, Setters, Fits
  <2> QED
    BY <2>1, <2>2, <2>3, SettingLeft
<1>3. ASSUME NEW p \in Tabs, Check(p) PROVE Setting'
  <2>1. Others(p) /\ Still
    BY <1>3, CheckMoves, NilMoves DEF Check, Moved, Ended, Still, flash
  <2>2. (Writing(p)' => Writing(p)) /\ req[p].pc \notin {"nv", "wifi", "default"}
    BY <1>0, <1>3, CheckMoves, NilMoves DEF Check, Moved, Ended, Writing, Busy, Writers, Setters, Fits
  <2>3. Progress(p)'
    BY <1>0, <1>3, <2>1, CheckMoves, NilMoves DEF Check, Moved, Ended, Still, Progress, Setters, Fits
  <2> QED
    BY <2>1, <2>2, <2>3, SettingLeft
<1>4. ASSUME NEW p \in Tabs, Write(p) PROVE Setting'
  <2>1. Others(p) /\ Still
    BY <1>4, EndEnds, GotoMoves DEF Write, ReadOk, Moved, Ended, Still, flash
  <2>2. (Writing(p)' => Writing(p)) /\ req[p].pc \notin {"nv", "wifi", "default"}
    BY <1>0, <1>4, EndEnds, GotoMoves DEF Write, ReadOk, Moved, Ended, Writing, Busy, Writers, Setters,
       Fits
  <2>3. Progress(p)'
    BY <1>0, <1>4, <2>1, EndEnds, GotoMoves DEF Write, ReadOk, Moved, Ended, Still, Progress, Setters,
       Fits
  <2> QED
    BY <2>1, <2>2, <2>3, SettingLeft
<1>5. ASSUME NEW p \in Tabs, Kill(p) PROVE Setting'
  <2>1. Others(p) /\ Still
    BY <1>5, EndEnds DEF Kill, Ended, Still, flash
  <2>2. (Writing(p)' => Writing(p)) /\ req[p].pc \notin {"nv", "wifi", "default"}
    BY <1>0, <1>5, EndEnds DEF Kill, Ended, Writing, Busy, Writers, Setters, Fits
  <2>3. Progress(p)'
    BY <1>0, <1>5, <2>1, EndEnds DEF Kill, Ended, Still, Progress, Setters, Fits
  <2> QED
    BY <2>1, <2>2, <2>3, SettingLeft
<1>6. ASSUME NEW p \in Tabs, ReadNonce(p) PROVE Setting'
  <2>1. Others(p) /\ Still
    BY <1>6, EndEnds, GotoMoves DEF ReadNonce, Fail, Moved, Ended, Still, flash
  <2>2. (Writing(p)' => Writing(p)) /\ req[p].pc \notin {"nv", "wifi", "default"}
    BY <1>0, <1>6, EndEnds, GotoMoves DEF ReadNonce, Fail, Moved, Ended, Writing, Busy, Writers, Setters,
       Fits
  <2>3. Progress(p)'
    BY <1>0, <1>6, <2>1, EndEnds, GotoMoves DEF ReadNonce, Fail, Moved, Ended, Still, Progress, Setters,
       Fits
  <2> QED
    BY <2>1, <2>2, <2>3, SettingLeft
<1>7. ASSUME NEW p \in Tabs, WriteNonce(p) PROVE Setting'
  <2>1. Others(p) /\ Still
    BY <1>7, GotoMoves DEF WriteNonce, Moved, Still, flash
  <2>2. (Writing(p)' => Writing(p)) /\ req[p].pc \notin {"nv", "wifi", "default"}
    BY <1>0, <1>7, GotoMoves DEF WriteNonce, Moved, Writing, Busy, Writers, Setters, Fits
  <2>3. Progress(p)'
    BY <1>0, <1>7, <2>1, GotoMoves DEF WriteNonce, Moved, Still, Progress, Setters, Fits
  <2> QED
    BY <2>1, <2>2, <2>3, SettingLeft
<1>8. ASSUME NEW p \in Tabs, Reap(p) PROVE Setting'
  <2>1. Others(p) /\ Still
    BY <1>8, ReapMoves DEF Reap, Moved, Still, flash
  <2>2. (Writing(p)' => Writing(p)) /\ req[p].pc \notin {"nv", "wifi", "default"}
    BY <1>0, <1>8, ReapMoves DEF Reap, Moved, Writing, Busy, Writers, Setters, Fits
  <2>3. Progress(p)'
    BY <1>0, <1>8, <2>1, ReapMoves DEF Reap, Moved, Still, Progress, Setters, Fits
  <2> QED
    BY <2>1, <2>2, <2>3, SettingLeft
<1>9. ASSUME NEW p \in Tabs, Token(p) PROVE Setting'
  <2>1. Still /\ req[p].pc = "token" /\ req[p].kind = "login"
    BY <1>0, <1>9 DEF Token, Still, flash, Fits
  <2>2. Others(p) /\ req'[p].pc = "new" /\ req'[p].kind = req[p].kind
    BY <1>9, TokenMoves
  <2>3. (Writing(p)' => Writing(p)) /\ Progress(p)'
    BY <2>1, <2>2 DEF Writing, Busy, Progress
  <2> QED
    BY <2>1, <2>2, <2>3, SettingLeft
<1>10. ASSUME NEW p \in Tabs, Hello(p) PROVE Setting'
  <2>1. Others(p) /\ Still
    BY <1>10, GotoMoves, EndEnds DEF Hello, Moved, Ended, Still, flash
  <2>2. (Writing(p)' => Writing(p)) /\ req[p].pc \notin {"nv", "wifi", "default"}
    BY <1>0, <1>10, GotoMoves, EndEnds DEF Hello, Moved, Ended, Writing, Busy, Writers, Setters, Fits
  <2>3. Progress(p)'
    BY <1>0, <1>10, <2>1, GotoMoves, EndEnds DEF Hello, Moved, Ended, Still, Progress, Setters, Fits
  <2> QED
    BY <2>1, <2>2, <2>3, SettingLeft
<1>11. ASSUME NEW p \in Tabs, Load(p) PROVE Setting'
  <2>1. Still /\ req[p].at \in Tokens /\ req[p].pc = "load"
    BY <1>0, <1>11 DEF Load, Fits, Still, flash
  <2>2. Others(p) /\ (Writing(p)' => Writing(p)) /\ Progress(p)'
    BY <1>0, <1>11, <2>1, LoadMoves, EndEnds DEF Load, Moved, Ended, Writing, Busy, Progress, Still
  <2> QED
    BY <2>1, <2>2, SettingLeft
<1>12. ASSUME NEW p \in Tabs, CheckUser(p) PROVE Setting'
  <2>1. Still /\ req[p].pc = "user"
    BY <1>12 DEF CheckUser, Still, flash
  <2>2. Others(p) /\ (Writing(p)' => Writing(p)) /\ Progress(p)'
    <3>1. CASE req[p].kind = "login"
      BY <1>0, <1>12, <2>1, <3>1, UserMoves DEF Ended, Writing, Busy, Progress, Still
    <3>2. CASE req[p].kind # "login"
      BY <1>0, <1>12, <2>1, <3>2, GotoMoves, EndEnds
      DEF CheckUser, Fail, Moved, Ended, Writing, Busy, Progress, Still
    <3> QED
      BY <3>1, <3>2
  <2> QED
    BY <2>1, <2>2, SettingLeft
<1>13. ASSUME NEW p \in Tabs, Decrypt(p) PROVE Setting'
  <2>1. Still /\ req[p].pc = "dec" /\ account = req[p].old /\ req[p].kind \in Setters /\ req[p].new \in Chosen
    BY <1>0, <1>13 DEF Decrypt, Still, flash, Progress, Fits
  <2>2. /\ Others(p) /\ req'[p].pc = "set" /\ req'[p].kind = req[p].kind /\ req'[p].value \in Chosen
    BY <1>13, <2>1, DecryptMoves
  <2>3. (Writing(p)' => Writing(p)) /\ Progress(p)'
    BY <1>0, <2>1, <2>2 DEF Writing, Busy, Progress, Still
  <2> QED
    BY <2>1, <2>2, <2>3, SettingLeft
\* from here on p sets the password, and nobody else does
<1>14. ASSUME NEW p \in Tabs, Writing(p), Others(p)
       PROVE  told = None /\ \A q \in Tabs \ {p} : ~Writing(q) /\ Progress(q)' /\ ~Writing(q)'
  <2>1. told = None /\ \A q \in Tabs \ {p} : ~Writing(q)
    BY <1>14 DEF Setting, OneWriter
  <2> QED
    BY <1>14, <2>1, OthersProgress
<1>15. ASSUME NEW p \in Tabs, SetPassword(p) PROVE Setting'
  <2>1. /\ Moved(p, "nv") /\ Others(p) /\ account' = req[p].value
        /\ UNCHANGED <<nvpwd, inited, told, greeted>>
        /\ Writing(p) /\ req[p].value \in Chosen
    BY <1>0, <1>15, GotoMoves
    DEF SetPassword, Moved, Writing, Busy, Writers, Setters, Fits, Progress
  <2>2. Progress(p)'
    BY <1>0, <2>1 DEF Moved, Progress
  <2> QED
    BY <1>14, <2>1, <2>2 DEF Moved, Setting, OneWriter, InitedIsChosen, ToldIsSet
<1>16. ASSUME NEW p \in Tabs, SetNvram(p) PROVE Setting'
  <2>1. /\ req[p].pc = "nv" /\ req[p].kind \in Setters /\ Writing(p) /\ req[p].value \in Chosen
        /\ account = req[p].value /\ nvpwd' = req[p].value /\ UNCHANGED <<account, inited, greeted>>
    BY <1>0, <1>16 DEF SetNvram, Writing, Busy, Writers, Setters, Fits, Progress
  <2>2. CASE req[p].kind = "wizard"
    <3>1. Moved(p, "wifi") /\ Others(p) /\ told' = told
      BY <1>16, <2>2, GotoMoves DEF SetNvram, Moved
    <3>2. Progress(p)'
      BY <1>0, <2>1, <3>1 DEF Moved, Progress
    <3> QED
      BY <1>14, <2>1, <3>1, <3>2 DEF Moved, Setting, OneWriter, InitedIsChosen, ToldIsSet
  <2>3. CASE req[p].kind # "wizard"
    <3>1. Ended(p) /\ Others(p) /\ told' = req[p].value /\ inited
      BY <1>0, <1>16, <2>1, <2>3, EndEnds DEF SetNvram, Ended, Progress, Setters
    <3>2. Progress(p)' /\ ~Writing(p)'
      BY <3>1 DEF Ended, Progress, Writing, Busy
    <3> QED
      BY <1>14, <2>1, <3>1, <3>2 DEF Setting, OneWriter, InitedIsChosen, ToldIsSet
  <2> QED
    BY <2>2, <2>3
<1>17. ASSUME NEW p \in Tabs, Finish(p) PROVE Setting'
  <2>1. /\ req[p].pc = "wifi" /\ req[p].kind = "wizard" /\ Writing(p) /\ req[p].value \in Chosen
        /\ account = req[p].value /\ nvpwd = req[p].value /\ UNCHANGED <<account, nvpwd, greeted>>
    BY <1>0, <1>17 DEF Finish, Writing, Busy, Writers, Fits, Progress
  <2>2. CASE req[p].ssid
    <3>1. Ended(p) /\ Others(p) /\ told' = req[p].value /\ inited'
      BY <1>17, <2>2, EndEnds DEF Finish, Succeed, Ended
    <3>2. Progress(p)' /\ ~Writing(p)'
      BY <3>1 DEF Ended, Progress, Writing, Busy
    <3> QED
      BY <1>14, <2>1, <3>1, <3>2 DEF Setting, OneWriter, InitedIsChosen, ToldIsSet
  <2>3. CASE ~req[p].ssid
    <3>1. Moved(p, "default") /\ Others(p) /\ UNCHANGED <<inited, told>>
      BY <1>17, <2>1, <2>3, GotoMoves DEF Finish, Fail, Moved
    <3>2. Progress(p)'
      BY <1>0, <2>1, <3>1 DEF Moved, Progress
    <3> QED
      BY <1>14, <2>1, <3>1, <3>2 DEF Moved, Setting, OneWriter, InitedIsChosen, ToldIsSet
  <2> QED
    BY <2>2, <2>3
<1>18. ASSUME NEW p \in Tabs, SetDefault(p) PROVE Setting'
  <2>1. /\ Moved(p, "defnv") /\ Others(p) /\ Writing(p) /\ ~inited
        /\ account' = Default /\ UNCHANGED <<nvpwd, inited, told, greeted>>
    BY <1>0, <1>18, GotoMoves DEF SetDefault, Moved, Writing, Busy, Writers, Fits, Progress
  <2>2. Progress(p)'
    BY <1>0, <2>1 DEF Moved, Progress
  <2> QED
    BY <1>14, <2>1, <2>2 DEF Moved, Setting, OneWriter, InitedIsChosen, ToldIsSet
<1>19. ASSUME NEW p \in Tabs, DefaultNvram(p) PROVE Setting'
  <2>1. /\ Ended(p) /\ Others(p) /\ Writing(p) /\ ~inited
        /\ account = Default /\ UNCHANGED <<account, inited, told>>
    BY <1>0, <1>19, EndEnds DEF DefaultNvram, Ended, Writing, Busy, Writers, Fits, Progress
  <2>2. Progress(p)' /\ ~Writing(p)'
    BY <2>1 DEF Ended, Progress, Writing, Busy
  <2> QED
    BY <1>14, <2>1, <2>2 DEF Setting, OneWriter, InitedIsChosen, ToldIsSet
<1>20. CASE Second
  BY <1>20 DEF Second, flash, Setting, OneWriter, InitedIsChosen, ToldIsSet, Progress, Writing, Busy
<1>21. CASE PowerCut
  <2>1. /\ \A q \in Tabs : req'[q].pc = "idle" /\ req'[q].kind = "page"
        /\ ~greeted' /\ UNCHANGED <<account, nvpwd, inited, told>>
    BY <1>21, IdleType DEF PowerCut, flash
  <2> QED
    BY <2>1 DEF Setting, OneWriter, InitedIsChosen, ToldIsSet, Progress, Writing, Busy
<1>22. ASSUME NEW p \in Tabs, Stamp(p) PROVE Setting'
  <2>1. Moved(p, "store") /\ Still /\ req[p].pc = "write"
    BY <1>22, StampMoves DEF Stamp, Still, flash
  <2>2. Others(p) /\ (Writing(p)' => Writing(p)) /\ Progress(p)'
    BY <1>0, <2>1 DEF Moved, Writing, Busy, Progress, Still
  <2> QED
    BY <2>1, <2>2, SettingLeft
<1>23. ASSUME NEW p \in Tabs, Give(p) PROVE Setting'
  <2>1. Ended(p) /\ Still /\ req[p].pc = "new"
    BY <1>23, EndEnds DEF Give, Still, flash
  <2>2. Others(p) /\ (Writing(p)' => Writing(p)) /\ Progress(p)'
    BY <2>1 DEF Ended, Writing, Busy, Progress
  <2> QED
    BY <2>1, <2>2, SettingLeft
<1> QED
  BY <1>1, <1>2, <1>3, <1>4, <1>5, <1>6, <1>7, <1>8, <1>9, <1>10, <1>11, <1>12, <1>13, <1>15,
     <1>16, <1>17, <1>18, <1>19, <1>20, <1>21, <1>22, <1>23 DEF Next, Read, Auth, Password

-----------------------------------------------------------------------------
\* The state a router is started in for the first time.
LEMMA InitIInv == ASSUME Init PROVE IInv
<1> USE BoundAssumption
<1>1. TypeOK
  <2>1. req \in [Tabs -> Request]
    BY IdleType DEF Init
  <2>2. /\ file \in [Tokens -> 0 .. MaxUptime \cup {None}] /\ mark \in [Devices -> 1 .. MaxTime \cup {None}]
        /\ last \in [Tokens -> 0 .. MaxUptime] /\ clock \in [Devices -> 1 .. MaxTime]
        /\ taken \in [Devices -> [1 .. MaxTime -> Nat]] /\ uptime \in 0 .. MaxUptime
    BY DEF Init
  <2>3. left \in 0 .. MaxRequests /\ cuts \in 0 .. MaxCuts
    BY DEF Init
  <2>4. /\ account \in Passwords /\ nvpwd \in Passwords /\ inited \in BOOLEAN /\ greeted \in BOOLEAN
        /\ issued \subseteq Tokens /\ steady \subseteq Tokens
        /\ ended \subseteq Tokens /\ dead \subseteq Tokens
        /\ told \in Passwords \cup {None}
    BY DEF Init, Passwords
  <2> QED
    BY <2>1, <2>2, <2>3, <2>4 DEF TypeOK
<1>2. \A p \in Tabs : req[p] = Idle
  BY DEF Init
<1>3. Steps
  BY <1>2, IdleType DEF Steps, Fits, Setters, Nonced, InHand
<1>4. Sessions
  BY <1>2, IdleType DEF Init, Sessions, DeadStays, SessionKept, Reading, Holds, InHand
<1>5. Nonces
  BY <1>2, IdleType DEF Init, Nonces, OneNonced, NonceOnce, Busy, At, Devices
<1>6. Setting
  BY <1>2, IdleType DEF Init, Setting, OneWriter, InitedIsChosen, ToldIsSet, Progress, Writing, Busy, At
<1> QED
  BY <1>1, <1>3, <1>4, <1>5, <1>6 DEF IInv

\* A step that changes nothing.
LEMMA NothingMoves ==
    ASSUME UNCHANGED vars
    PROVE  /\ TypeOK => TypeOK'
           /\ Steps => Steps'
           /\ Sessions => Sessions'
           /\ Nonces => Nonces'
           /\ Setting => Setting'
<1> USE DEF vars, flash, uses
<1>1. TypeOK => TypeOK'
  BY DEF TypeOK
<1>2. Steps => Steps'
  BY DEF Steps, Fits
<1>3. Sessions => Sessions'
  BY DEF Sessions, DeadStays, SessionKept, InTime, Reading, Holds
<1>4. Nonces => Nonces'
  BY DEF Nonces, OneNonced, NonceOnce, Busy, At
<1>5. Setting => Setting'
  BY DEF Setting, OneWriter, InitedIsChosen, ToldIsSet, Progress, Writing, Busy, At
<1> QED
  BY <1>1, <1>2, <1>3, <1>4, <1>5

\* What the steps of a read rely on, and what they leave of the sessions, holds
\* however requests overlap, if none takes longer than the Delay with a session.
THEOREM SessionInvariant == Spec => [](TypeOK /\ Steps /\ Sessions)
<1>1. Init => TypeOK /\ Steps /\ Sessions
  BY InitIInv DEF IInv
<1>2. TypeOK /\ Steps /\ Sessions /\ [Next]_vars => (TypeOK /\ Steps /\ Sessions)'
  BY TypeKept, StepsKept, SessionsKept, NothingMoves
<1> QED
  BY <1>1, <1>2, PTL DEF Spec

\* Every reachable state is well typed.
THEOREM TypeCorrect == Spec => []TypeOK
  BY SessionInvariant, PTL

\* A session without a file is dead for good, or in the hand of a request that had
\* loaded it before it was removed: only such a request brings one back.
THEOREM DeadStaysDead == Spec => []DeadStays
<1>1. Sessions => DeadStays
  BY DEF Sessions
<1> QED
  BY <1>1, SessionInvariant, PTL

\* No request that judges or writes an old atime loses a session that is used at
\* intervals of the session time less twice the Delay, whatever the Delay is.
THEOREM UsedIsKept == Spec => []SessionKept
<1>1. Sessions => SessionKept
  BY DEF Sessions
<1> QED
  BY <1>1, SessionInvariant, PTL

\* Requests that come as the pages send them keep the whole invariant.
THEOREM LoginInvariant == Patient /\ Spec => []IInv
<1> SUFFICES ASSUME Patient PROVE Spec => []IInv
  OBVIOUS
<1>1. Init => IInv
  BY InitIInv
<1>2. IInv /\ [Next]_vars => IInv'
  BY TypeKept, StepsKept, SessionsKept, NoncesKept, SettingKept, NothingMoves DEF IInv
<1> QED
  BY <1>1, <1>2, PTL DEF Spec

\* checkNonce accepts no nonce of a device twice.
THEOREM NoncesAreTakenOnce == Patient /\ Spec => []NonceOnce
<1>1. IInv => NonceOnce
  BY DEF IInv, Nonces
<1> QED
  BY <1>1, LoginInvariant, PTL

\* A router that is set up never has the default password.
THEOREM SetUpIsChosen == Patient /\ Spec => []InitedIsChosen
<1>1. IInv => InitedIsChosen
  BY DEF IInv, Setting
<1> QED
  BY <1>1, LoginInvariant, PTL

\* The wizard can be finished, wherever it failed or was cut off.
THEOREM AlwaysCanFinish == Patient /\ Spec => []CanFinish
<1>1. IInv => CanFinish
  <2> SUFFICES ASSUME IInv, ~inited, greeted, \A p \in Tabs : Busy(p) => req[p].kind \notin Writers
               PROVE  account = Default
    BY DEF CanFinish
  <2>1. \A p \in Tabs : req[p].pc \notin {"nv", "wifi", "default"}
    BY DEF IInv, Steps, Fits, Busy, At, Writers, Setters
  <2> QED
    BY <2>1 DEF IInv, Setting
<1> QED
  BY <1>1, LoginInvariant, PTL

\* Account and nvram hold the password the user was told is set.
THEOREM ToldIsAlwaysSet == Patient /\ Spec => []ToldIsSet
<1>1. IInv => ToldIsSet
  BY DEF IInv, Setting
<1> QED
  BY <1>1, LoginInvariant, PTL
=============================================================================
