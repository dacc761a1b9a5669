------------------------------- MODULE Login -------------------------------
(***************************************************************************)
(* Who may use the router: the session files in /tmp, the marks against    *)
(* repeated requests, the password of the administrator, and the set-up    *)
(* wizard that sets it first.                                              *)
(*                                                                         *)
(* Every request is a process of its own; they share files and nothing     *)
(* locks them.  Reading a session also refreshes it: the file is looked    *)
(* for, loaded, judged, stamped and written again, in five steps, and      *)
(* seconds pass between any two of them.                                   *)
(***************************************************************************)
EXTENDS Naturals, FiniteSets

CONSTANTS
    Tabs,           \* where requests come from: one at a time from each
    DeviceOf,       \* the device a tab is on
    Tokens,         \* session ids
    Chosen,         \* passwords users choose
    Default,        \* "admin"
    Garbage,        \* what a ciphertext may decrypt to under the wrong key
    None,
    SessionTime,    \* seconds without use until a session ends
    Delay,          \* the seconds a request may take from loading a session until
                    \* it is written again
    Forms,          \* the kinds of requests that come
    Overlaps,       \* may requests overlap that set the password, or that come
                    \* with nonces of the same device?
    Again,          \* may the wizard be sent once more when the router is set up?
    MaxRequests, MaxTime, MaxUptime, MaxCuts    \* bounds

ASSUME PasswordAssumption ==
    /\ Default \notin Chosen /\ Garbage \notin Chosen \cup {Default}
    /\ None \notin Chosen \cup {Default, Garbage}
ASSUME NoneAssumption == None \notin Tokens /\ None \notin Nat
ASSUME BoundAssumption ==
    /\ SessionTime \in Nat /\ Delay \in Nat
    /\ MaxRequests \in Nat /\ MaxTime \in Nat \ {0} /\ MaxUptime \in Nat /\ MaxCuts \in Nat
    /\ Overlaps \in BOOLEAN /\ Again \in BOOLEAN

Devices   == {DeviceOf[p] : p \in Tabs}
Passwords == Chosen \cup {Default, Garbage}
Kinds     == {"hello", "login", "page", "logout", "change", "wizard"}
Writers   == {"hello", "change", "wizard"}
Nonced    == {"login", "change", "wizard"}
ASSUME FormsAssumption == Forms \subseteq Kinds

VARIABLES
    account,    \* the password in /etc/config/account
    nvpwd,      \* the copy in nvram, committed
    inited,     \* the preference INITTED
    file,       \* of each token: the atime in its file, or None
    mark,       \* of each device: the time of the last nonce taken, or None
    uptime,
    clock,      \* of each device, as its nonces show it
    req,        \* of each tab: the request under way
    issued,     \* tokens that were given out
    left, cuts, \* bounds: requests still to come, power cuts that happened
    \* what was observed
    last,       \* of each token: when its file was last written
    steady,     \* tokens that have been used often enough, since they were given out
    ended,      \* tokens that were logged out or lost in a power cut
    dead,       \* tokens killed while nobody else had them in hand, or lost in a power cut
    taken,      \* of each device and time: how often a nonce was accepted
    greeted,    \* has the welcome page been answered since the start?
    told        \* the password a user was last told is set, or None

flash == <<account, nvpwd, inited>>
uses  == <<last, steady, ended, dead>>
vars  == <<flash, file, mark, uptime, clock, req, issued, left, cuts, uses, taken, greeted, told>>

\* pc: the next step; kind; token: in the url; at: the session being read; got:
\* its atime, or the one it is to get; since: when it was loaded; scan: sessions
\* still to be read; time, old, new: the form; value: the password to be set;
\* ssid: is the name one that is accepted?
Idle == [pc |-> "idle", kind |-> "page", token |-> None, at |-> None, got |-> 0, since |-> 0,
         scan |-> {}, time |-> 0, old |-> Default, new |-> Default, value |-> Default, ssid |-> TRUE]
PCs  == {"idle", "sane", "load", "check", "write", "store", "kill", "nonce", "mark", "user", "reap", "token",
         "new", "dec", "set", "nv", "wifi", "hello", "default", "defnv"}

Request == [pc : PCs, kind : Kinds, token : Tokens \cup {None}, at : Tokens \cup {None},
            got : 0 .. MaxUptime, since : 0 .. MaxUptime, scan : SUBSET Tokens, time : 0 .. MaxTime,
            old : Passwords \cup {None}, new : Passwords, value : Passwords, ssid : BOOLEAN]

TypeOK ==
    /\ account \in Passwords /\ nvpwd \in Passwords /\ inited \in BOOLEAN
    /\ file \in [Tokens -> 0 .. MaxUptime \cup {None}]
    /\ mark \in [Devices -> 1 .. MaxTime \cup {None}]
    /\ uptime \in 0 .. MaxUptime /\ clock \in [Devices -> 1 .. MaxTime]
    /\ req \in [Tabs -> Request]
    /\ issued \subseteq Tokens
    /\ steady \subseteq Tokens /\ ended \subseteq Tokens /\ dead \subseteq Tokens
    /\ left \in 0 .. MaxRequests /\ cuts \in 0 .. MaxCuts
    /\ last \in [Tokens -> 0 .. MaxUptime] /\ taken \in [Devices -> [1 .. MaxTime -> Nat]]
    /\ greeted \in BOOLEAN /\ told \in Passwords \cup {None}

Init ==
    /\ account = Default /\ nvpwd = Default /\ inited = FALSE
    /\ file = [t \in Tokens |-> None] /\ mark = [d \in Devices |-> None]
    /\ uptime = 0 /\ clock = [d \in Devices |-> 1] /\ req = [p \in Tabs |-> Idle]
    /\ issued = {} /\ left = MaxRequests /\ cuts = 0
    /\ last = [t \in Tokens |-> 0] /\ steady = {} /\ ended = {} /\ dead = {}
    /\ taken = [d \in Devices |-> [n \in 1 .. MaxTime |-> 0]]
    /\ greeted = FALSE /\ told = None

At(p, pc)   == req[p].pc = pc
Step(p, pc, got, since) == req' = [req EXCEPT ![p].pc = pc, ![p].got = got, ![p].since = since]
Goto(p, pc) == Step(p, pc, 0, 0)
End(p)      == req' = [req EXCEPT ![p] = Idle]
Busy(q)     == ~At(q, "idle")

-----------------------------------------------------------------------------
(***************************************************************************)
(* Requests arrive.                                                        *)
(***************************************************************************)
Serial(p, kind) ==
    \A q \in Tabs \ {p} :
        /\ kind \in Writers /\ Busy(q) => req[q].kind \notin Writers
        /\ kind \in Nonced /\ Busy(q) /\ DeviceOf[p] = DeviceOf[q] => req[q].kind \notin Nonced

First(kind) == CASE kind = "hello" -> "hello" [] kind = "login" -> "nonce" [] OTHER -> "sane"

Start(p, r) ==
    /\ At(p, "idle") /\ left > 0 /\ r.kind \in Forms
    /\ Overlaps \/ Serial(p, r.kind)
    \* set_name_password is refused on a router that is not set up
    /\ r.kind = "change" => inited
    /\ r.kind = "wizard" => Again \/ ~inited
    /\ r.kind \in Nonced => r.time >= clock[DeviceOf[p]]
    /\ clock' = [clock EXCEPT ![DeviceOf[p]] = IF r.kind \in Nonced THEN r.time ELSE @]
    /\ req' = [req EXCEPT ![p] = [r EXCEPT !.pc = First(r.kind), !.at = r.token]]
    /\ told' = IF r.kind \in Writers THEN None ELSE told
    /\ left' = left - 1
    /\ UNCHANGED <<flash, file, mark, uptime, issued, cuts, uses, taken, greeted>>

\* the tokens browsers know
Given == issued \ {req[p].at : p \in {q \in Tabs : At(q, "new")}}

Arrive(p) ==
    \/ Start(p, [Idle EXCEPT !.kind = "hello"])
    \/ \E time \in 1 .. MaxTime, old \in Chosen \cup {Default} :
          Start(p, [Idle EXCEPT !.kind = "login", !.time = time, !.old = old])
    \/ \E t \in Given, kind \in {"page", "logout"} : Start(p, [Idle EXCEPT !.kind = kind, !.token = t])
    \/ \E t \in Given, time \in 1 .. MaxTime, old, new \in Chosen :
          old # new /\ Start(p, [Idle EXCEPT !.kind = "change", !.token = t, !.time = time,
                                             !.old = old, !.new = new])
    \* guide.htm knows the old password is the default
    \/ \E t \in Given, time \in 1 .. MaxTime, new \in Chosen, ssid \in BOOLEAN :
          Start(p, [Idle EXCEPT !.kind = "wizard", !.token = t, !.time = time,
                                !.new = new, !.ssid = ssid])

-----------------------------------------------------------------------------
(***************************************************************************)
(* sauth.read of req[p].at, by the dispatcher or by reap.                  *)
(***************************************************************************)
\* where the request goes on when the session is there, and when it is not
ReadOk(p)  == CASE req[p].kind = "login" -> "reap" [] req[p].kind = "page" -> "idle"
                [] req[p].kind = "logout" -> "kill" [] OTHER -> "nonce"
\* Without a session jsonauth takes the form for a login; it has a nonce, but no
\* password under the name a login uses.
ReadNil(p) == CASE req[p].kind = "login" -> Goto(p, "reap")
                [] req[p].kind \in {"change", "wizard"} ->
                       req' = [req EXCEPT ![p] = [Idle EXCEPT !.pc = "nonce", !.kind = "login",
                                                              !.time = req[p].time, !.old = None]]
                [] OTHER -> End(p)

Sane(p) ==
    /\ At(p, "sane")
    /\ IF file[req[p].at] = None THEN ReadNil(p) ELSE Goto(p, "load")
    /\ UNCHANGED <<flash, file, mark, uptime, clock, issued, left, cuts, uses, taken, greeted, told>>

\* A file that has gone meanwhile is an error, and the end of the request.
Load(p) ==
    /\ At(p, "load")
    /\ IF file[req[p].at] = None THEN End(p)
       ELSE Step(p, "check", file[req[p].at], uptime)
    /\ UNCHANGED <<flash, file, mark, uptime, clock, issued, left, cuts, uses, taken, greeted, told>>

InHand      == {"check", "write", "store", "new"}
Holds(q, t) == req[q].pc \in InHand /\ req[q].at = t
Unlink(p, t) ==
    /\ file' = [file EXCEPT ![t] = None]
    /\ dead' = IF \E q \in Tabs \ {p} : Holds(q, t) THEN dead ELSE dead \cup {t}

\* mutation: the return of an expired session is missing
KillsAndGoesOn(p) ==
    /\ At(p, "check")
    /\ IF req[p].got + SessionTime < uptime THEN Unlink(p, req[p].at) ELSE UNCHANGED <<file, dead>>
    /\ Step(p, "write", 0, req[p].since)
    /\ UNCHANGED <<flash, mark, uptime, clock, issued, left, cuts, last, steady, ended, taken, greeted, told>>
\* mutation: a session ends in its last second
ExpiresEarly(p) ==
    /\ At(p, "check")
    /\ IF req[p].got + SessionTime <= uptime
       THEN Unlink(p, req[p].at) /\ ReadNil(p)
       ELSE Step(p, "write", 0, req[p].since) /\ UNCHANGED <<file, dead>>
    /\ UNCHANGED <<flash, mark, uptime, clock, issued, left, cuts, last, steady, ended, taken, greeted, told>>
Check(p) ==
    /\ At(p, "check")
    /\ IF req[p].got + SessionTime < uptime
       THEN Unlink(p, req[p].at) /\ ReadNil(p)
       ELSE Step(p, "write", 0, req[p].since) /\ UNCHANGED <<file, dead>>
    /\ UNCHANGED <<flash, mark, uptime, clock, issued, left, cuts, last, steady, ended, taken, greeted, told>>

\* data.atime = uptime
Stamp(p) ==
    /\ At(p, "write") /\ Step(p, "store", uptime, req[p].since)
    /\ UNCHANGED <<flash, file, mark, uptime, clock, issued, left, cuts, uses, taken, greeted, told>>

\* Was t written so short a time ago that no request, however slow, can find it out
\* of time?  One request may be slow in writing it, and another in judging it.
InTime(t) == uptime + 2 * Delay <= last[t] + SessionTime
Save(p, t) == file' = [file EXCEPT ![t] = req[p].got] /\ last' = [last EXCEPT ![t] = uptime]
Write(p) ==
    /\ At(p, "store") /\ Save(p, req[p].at)
    /\ steady' = IF InTime(req[p].at) THEN steady ELSE steady \ {req[p].at}
    /\ IF ReadOk(p) = "idle" THEN End(p) ELSE Goto(p, ReadOk(p))
    /\ UNCHANGED <<flash, mark, uptime, clock, issued, left, cuts, ended, dead, taken, greeted, told>>

\* action_logout
Kill(p) ==
    /\ At(p, "kill")
    /\ Unlink(p, req[p].token) /\ ended' = ended \cup {req[p].token} /\ End(p)
    /\ UNCHANGED <<flash, mark, uptime, clock, issued, left, cuts, last, steady, taken, greeted, told>>

-----------------------------------------------------------------------------
(***************************************************************************)
(* checkNonce and checkUser.                                               *)
(***************************************************************************)
\* The wizard answers every failure by setting the default password.
Fail(p) == IF req[p].kind = "wizard" THEN Goto(p, "default") ELSE End(p)

\* mutation: a nonce of the second of the last one is taken
Late(time, m)  == m # None /\ time < m
Stale(time, m) == m # None /\ time <= m
ReadNonce(p) ==
    /\ At(p, "nonce")
    /\ LET m == mark[DeviceOf[p]]
       IN  IF Stale(req[p].time, m) THEN Fail(p)
           ELSE Goto(p, "mark")
    /\ UNCHANGED <<flash, file, mark, uptime, clock, issued, left, cuts, uses, taken, greeted, told>>

WriteNonce(p) ==
    /\ At(p, "mark")
    /\ mark' = [mark EXCEPT ![DeviceOf[p]] = req[p].time]
    /\ taken' = [taken EXCEPT ![DeviceOf[p]][req[p].time] = @ + 1]
    /\ Goto(p, "user")
    /\ UNCHANGED <<flash, file, uptime, clock, issued, left, cuts, last, steady, ended, dead, greeted, told>>

CheckUser(p) ==
    /\ At(p, "user")
    /\ IF account # req[p].old THEN Fail(p)
       ELSE IF req[p].kind = "login"
       THEN req' = [req EXCEPT ![p].pc = "reap", ![p].scan = {t \in Tokens : file[t] # None}]
       ELSE Goto(p, "dec")
    /\ UNCHANGED <<flash, file, mark, uptime, clock, issued, left, cuts, uses, taken, greeted, told>>

\* sauth.reap: every session is read
Reap(p) ==
    /\ At(p, "reap")
    /\ IF req[p].scan = {} THEN Goto(p, "token")
       ELSE \E t \in req[p].scan :
               req' = [req EXCEPT ![p].pc = IF file[t] = None THEN "reap" ELSE "load",
                                  ![p].at = t, ![p].scan = @ \ {t}]
    /\ UNCHANGED <<flash, file, mark, uptime, clock, issued, left, cuts, uses, taken, greeted, told>>

\* The new session is stamped; nobody knows its token before it is written.
Token(p) ==
    /\ At(p, "token")
    /\ \E t \in Tokens \ issued :
          /\ issued' = issued \cup {t}
          /\ req' = [req EXCEPT ![p].pc = "new", ![p].at = t, ![p].got = uptime, ![p].since = uptime]
    /\ UNCHANGED <<flash, file, mark, uptime, clock, left, cuts, uses, taken, greeted, told>>
Give(p) ==
    /\ At(p, "new") /\ Save(p, req[p].at)
    /\ steady' = steady \cup {req[p].at} /\ End(p)
    /\ UNCHANGED <<flash, mark, uptime, clock, issued, left, cuts, ended, dead, taken, greeted, told>>

-----------------------------------------------------------------------------
(***************************************************************************)
(* The password: saveCiphertextPwd, savePlaintextPwd, the wizard, the      *)
(* welcome page.                                                           *)
(***************************************************************************)
\* The new password comes encrypted under the old one.  With another key
\* decryption nearly always fails, and gives something else when it does not.
Decrypt(p) ==
    /\ At(p, "dec")
    /\ IF account = req[p].old
       THEN req' = [req EXCEPT ![p].pc = "set", ![p].value = req[p].new]
       ELSE Fail(p) \/ req' = [req EXCEPT ![p].pc = "set", ![p].value = Garbage]
    /\ UNCHANGED <<flash, file, mark, uptime, clock, issued, left, cuts, uses, taken, greeted, told>>

SetPassword(p) ==
    /\ At(p, "set")
    /\ account' = req[p].value /\ Goto(p, "nv")
    /\ UNCHANGED <<nvpwd, inited, file, mark, uptime, clock, issued, left, cuts, uses, taken, greeted, told>>

\* mutation: the copy is set but not committed
NotCommitted(p) ==
    /\ At(p, "nv")
    /\ IF req[p].kind = "wizard" THEN Goto(p, "wifi") /\ UNCHANGED told
       ELSE End(p) /\ told' = req[p].value
    /\ UNCHANGED <<flash, file, mark, uptime, clock, issued, left, cuts, uses, taken, greeted>>
SetNvram(p) ==
    /\ At(p, "nv")
    /\ nvpwd' = req[p].value
    /\ IF req[p].kind = "wizard" THEN Goto(p, "wifi") /\ UNCHANGED told
       ELSE End(p) /\ told' = req[p].value
    /\ UNCHANGED <<account, inited, file, mark, uptime, clock, issued, left, cuts, uses, taken, greeted>>

\* The wizard's other settings follow, and then the router is set up.
Succeed(p) == inited' = TRUE /\ told' = req[p].value /\ End(p)
\* mutation: a failure that comes late leaves the new password
FinishLeaves(p) ==
    /\ At(p, "wifi")
    /\ IF req[p].ssid THEN Succeed(p) ELSE End(p) /\ UNCHANGED <<inited, told>>
    /\ UNCHANGED <<account, nvpwd, file, mark, uptime, clock, issued, left, cuts, uses, taken, greeted>>
Finish(p) ==
    /\ At(p, "wifi")
    /\ IF req[p].ssid THEN Succeed(p) ELSE Fail(p) /\ UNCHANGED <<inited, told>>
    /\ UNCHANGED <<account, nvpwd, file, mark, uptime, clock, issued, left, cuts, uses, taken, greeted>>

\* mutation: the welcome page does not look whether the router is set up
HelloAlways(p) ==
    /\ At(p, "hello") /\ Goto(p, "default")
    /\ UNCHANGED <<flash, file, mark, uptime, clock, issued, left, cuts, uses, taken, greeted, told>>
Hello(p) ==
    /\ At(p, "hello")
    /\ IF inited THEN End(p) ELSE Goto(p, "default")
    /\ UNCHANGED <<flash, file, mark, uptime, clock, issued, left, cuts, uses, taken, greeted, told>>

\* setSysPasswordDefault
SetDefault(p) ==
    /\ At(p, "default")
    /\ account' = Default /\ Goto(p, "defnv")
    /\ UNCHANGED <<nvpwd, inited, file, mark, uptime, clock, issued, left, cuts, uses, taken, greeted, told>>
DefaultNvram(p) ==
    /\ At(p, "defnv")
    /\ nvpwd' = Default /\ End(p)
    /\ greeted' = (greeted \/ req[p].kind = "hello")
    /\ UNCHANGED <<account, inited, file, mark, uptime, clock, issued, left, cuts, uses, taken, told>>

-----------------------------------------------------------------------------
\* Time passes at every step of a request, up to Delay while it has a session in
\* hand.
Second ==
    /\ uptime < MaxUptime /\ \A p \in Tabs : req[p].pc \in InHand => uptime < req[p].since + Delay
    /\ uptime' = uptime + 1
    /\ UNCHANGED <<flash, file, mark, clock, req, issued, left, cuts, uses, taken, greeted, told>>

\* /tmp is lost: sessions, marks and what was going on.
PowerCut ==
    /\ cuts < MaxCuts /\ cuts' = cuts + 1
    /\ file' = [t \in Tokens |-> None] /\ mark' = [d \in Devices |-> None]
    /\ taken' = [d \in Devices |-> [n \in 1 .. MaxTime |-> 0]]
    /\ uptime' = 0 /\ last' = [t \in Tokens |-> 0] /\ greeted' = FALSE
    /\ steady' = {} /\ ended' = issued /\ dead' = issued
    /\ req' = [p \in Tabs |-> Idle]
    /\ UNCHANGED <<flash, clock, issued, left, told>>

Read(p)     == Sane(p) \/ Load(p) \/ Check(p) \/ Stamp(p) \/ Write(p) \/ Kill(p)
Auth(p)     == ReadNonce(p) \/ WriteNonce(p) \/ CheckUser(p) \/ Reap(p) \/ Token(p) \/ Give(p)
Password(p) == \/ Decrypt(p) \/ SetPassword(p) \/ SetNvram(p) \/ Finish(p)
               \/ Hello(p) \/ SetDefault(p) \/ DefaultNvram(p)
Next == (\E p \in Tabs : Arrive(p) \/ Read(p) \/ Auth(p) \/ Password(p)) \/ Second \/ PowerCut
Spec == Init /\ [][Next]_vars

-----------------------------------------------------------------------------
(***************************************************************************)
(* Properties.                                                             *)
(***************************************************************************)
\* A session without a file, be it logged out, found out of time or lost, is either
\* dead, and no request brings it back, whatever comes with its token and however
\* logins read all sessions, or it is in the hand of a request that has loaded it
\* before and may still write it.
DeadStays ==
    /\ \A t \in dead : file[t] = None /\ \A p \in Tabs : ~Holds(p, t)
    /\ \A t \in issued : file[t] = None => t \in dead \/ \E p \in Tabs : Holds(p, t)

\* Nobody is logged out before their time, whatever other requests read, judge and
\* write with an old atime: a session that is used at intervals of the session time,
\* less what two slow requests may lose of it, is there until its user logs out or
\* the power is cut.
SessionKept == \A t \in steady \ ended : InTime(t) => file[t] # None

\* A session that was logged out has no file.
EndedStays == \A t \in ended : file[t] = None

\* What a read removes is out of time.
OnlyExpired == [][\A t \in Tokens : file[t] # None /\ file'[t] = None
                    => t \in ended' \/ file[t] + SessionTime < uptime]_vars

\* A device's nonce is accepted once (by requests that do not overlap).
NonceOnce == \A d \in Devices, n \in 1 .. MaxTime : taken[d][n] <= 1

\* A router that is set up has the password its user chose, whenever the power
\* is cut: not the default, nor anything nobody chose (unless two requests overlap
\* that set it, or the wizard is sent again).
InitedIsChosen == inited => account \in Chosen

\* A set-up that failed or was cut off can be done again: after the welcome page
\* the old password is the one the wizard sends.
CanFinish ==
    ~inited /\ greeted /\ (\A p \in Tabs : Busy(p) => req[p].kind \notin Writers)
        => account = Default

\* The password a user was told is set is set, in both places.
ToldIsSet == told # None => account = told /\ nvpwd = told

-----------------------------------------------------------------------------
(***************************************************************************)
(* The inductive invariant: what each step of a request may rely on.       *)
(***************************************************************************)
Setters == {"change", "wizard"}
Writing(q) == Busy(q) /\ req[q].kind \in Writers

\* the kinds of request that come to a step, and what they bring
Fits(p) ==
    LET r == req[p]
    IN  /\ r.pc = "idle" => r.kind = "page"
        /\ r.pc \in {"dec", "set", "nv"} => r.kind \in Setters
        /\ r.pc = "wifi" => r.kind = "wizard"
        /\ r.pc \in {"default", "defnv"} => r.kind \in {"hello", "wizard"}
        /\ r.pc \in {"nonce", "mark", "user"} => r.kind \in Nonced
        /\ r.pc = "kill" => r.kind = "logout"
        /\ r.pc \in {"reap", "token", "new"} => r.kind = "login"
        /\ r.pc = "hello" => r.kind = "hello"
        /\ r.kind = "hello" => r.pc \in {"hello", "default", "defnv"}
        /\ r.kind = "logout" => r.token \in issued
        /\ r.pc \in {"sane", "load"} \cup InHand => r.at \in Tokens
        /\ r.kind \in Nonced => r.time > 0
        /\ r.kind \in Setters => r.new \in Chosen
Steps == \A p \in Tabs : Fits(p)

\* Of a session that is used often enough a reader holds what was written last, or
\* has loaded what is not yet out of time when it comes to judge it; what is written
\* is not older than the Delay.
Reading(p) ==
    LET r == req[p]
    IN  /\ Holds(p, r.at) =>
             /\ r.at \in issued \ dead
             /\ r.since <= uptime /\ uptime <= r.since + Delay
        /\ r.pc = "check" /\ r.at \in steady =>
             \/ last[r.at] <= r.got + Delay
             \/ r.since + Delay <= r.got + SessionTime
        /\ r.pc \in {"store", "new"} => r.since <= r.got /\ r.got <= uptime
        /\ r.pc = "new" => file[r.at] = None /\ \A q \in Tabs \ {p} : ~Holds(q, r.at)
Sessions ==
    /\ dead \subseteq issued /\ steady \subseteq issued /\ \A t \in Tokens : last[t] <= uptime
    /\ \A t \in Tokens : file[t] # None => t \in issued /\ last[t] <= file[t] + Delay
    /\ DeadStays /\ SessionKept /\ \A p \in Tabs : Reading(p)

OneNonced == \A p, q \in Tabs :
    p # q /\ DeviceOf[p] = DeviceOf[q] /\ Busy(p) /\ Busy(q) /\ req[p].kind \in Nonced
        => req[q].kind \notin Nonced
Nonces ==
    /\ OneNonced /\ NonceOnce
    /\ \A d \in Devices, n \in 1 .. MaxTime : mark[d] = None \/ n > mark[d] => taken[d][n] = 0
    /\ \A p \in Tabs : At(p, "mark") => ~Stale(req[p].time, mark[DeviceOf[p]])

\* One request at a time sets the password; what it has done so far.
OneWriter == \A p, q \in Tabs : p # q /\ Writing(p) => ~Writing(q)
Progress(p) ==
    LET r == req[p]
    IN  /\ r.pc = "dec" => account = r.old
        /\ r.pc \in {"set", "nv", "wifi"} => r.value \in Chosen
        /\ r.pc \in {"nv", "wifi"} => account = r.value
        /\ r.pc = "wifi" => nvpwd = r.value
        /\ r.pc = "defnv" => account = Default
        /\ r.kind = "wizard" \/ r.pc \in {"default", "defnv"} => ~inited
        /\ r.kind = "change" => inited
Setting ==
    /\ OneWriter /\ InitedIsChosen /\ ToldIsSet
    /\ \A p \in Tabs : Progress(p) /\ (told # None => ~Writing(p))
    /\ ~inited /\ greeted /\ (\A p \in Tabs : req[p].pc \notin {"nv", "wifi", "default"}) => account = Default

IInv == TypeOK /\ Steps /\ Sessions /\ Nonces /\ Setting
=============================================================================
