----------------------------- MODULE WifiShare -----------------------------
(***************************************************************************)
(* Sharing the guest wifi with friends.  While sharing is on, every guest  *)
(* is redirected to a page of the router, until an admin lets the device   *)
(* in for a day.  The moving parts:                                        *)
(*                                                                         *)
(*   - HTTP handlers of admins (let a device in or out, blacklist, switch) *)
(*     and of guests (prepare: a minute to ask a social network);          *)
(*   - usr/sbin/wifishare.sh, run by the handlers or forked with a delay,  *)
(*     which works under the firewall's own lock, /var/run/fw3.lock;       *)
(*   - any firewall restart, which flushes everything and then runs        *)
(*     "wifishare.sh reload" if the include section is there.              *)
(*                                                                         *)
(* Handlers change uci without that lock, so the records a script works on *)
(* change under it.  The count of prepares a device may make is left out:  *)
(* any prepare may be refused.                                             *)
(***************************************************************************)
EXTENDS Integers, Sequences, FiniteSets, SequencesExt

CONSTANTS
    Mac,            \* guest devices (a bound)
    Spelling,       \* how macs are typed: in capitals (TRUE), otherwise (a bound)
    EarlyLetter,    \* those whose mac begins with E or F
    Admin,          \* request processes that serve admins (a bound)
    Guest,          \* request processes that serve guests (a bound)
    Job,            \* scripts forked in the background (a bound)
    NoOne,          \* who holds a free lock
    Requests,       \* what admins ask for
    Lists,          \* the lists of macs that admins put on and take off the blacklist (a bound)
    Hasty,          \* may sharing be switched while a switch is pending?
    AuthTime,       \* how long a prepared device gets
    Timeout,        \* how long a device is let in
    MaxTime         \* the clock stops here (a bound)

Proc == Admin \cup Guest \cup Job

\* A blacklist keeps macs as they were typed, in capitals as the router writes
\* them or otherwise; a record's mac is always in capitals.
Entry == [mac : Mac, capital : Spelling]

ASSUME SetAssumption  == /\ EarlyLetter \subseteq Mac /\ Spelling \subseteq BOOLEAN /\ NoOne \notin Proc \cup Mac
                         /\ Admin \cap Guest = {} /\ (Admin \cup Guest) \cap Job = {}
ASSUME TimeAssumption == AuthTime \in Nat /\ Timeout \in Nat /\ MaxTime \in Nat /\ AuthTime < Timeout
ASSUME RequestAssumption == /\ Requests \subseteq {"allow", "deny", "block", "switch"}
                            /\ Hasty \in BOOLEAN /\ Lists \subseteq Seq(Entry)

VARIABLES
    now,        \* the clock
    disabled,   \* wifishare.global.disabled
    open,       \* is the guest wifi on and without encryption?
    dev,        \* wifishare's device sections
    black,      \* wifishare.blacklist.mac
    include,    \* firewall.wifishare
    installed,  \* are the redirect and the block chains in the firewall?
    chain,      \* the macs dropped by the block chains
    rule,       \* rule[m]: let in until then, dropped afterwards (a pair of rules)
    hwOff,      \* hwnat.switch.wifishare
    lock,       \* /var/run/fw3.lock
    proc        \* the request processes and the scripts

config   == <<disabled, open, dev, black, include>>
firewall == <<installed, chain, rule>>
vars     == <<now, config, firewall, hwOff, lock, proc>>

None   == -1
Time   == 0 .. MaxTime + Timeout
\* option disabled: "yes" stands for 0 or not set
NoDev  == [grant |-> "absent", stop |-> None]
Device == [grant : {"absent", "yes", "no"}, stop : Time \cup {None}]
Idle   == [pc |-> "idle", cmd |-> "none", mac |-> NoOne, info |-> NoDev,
           list |-> << >>, direct |-> FALSE, blocked |-> << >>]

TypeOK ==
    /\ now \in 0 .. MaxTime
    /\ {disabled, open, include, installed, hwOff} \subseteq BOOLEAN
    /\ dev \in [Mac -> Device]
    /\ black \in Seq(Entry)
    /\ chain \subseteq Mac /\ (chain # {} => installed)
    /\ rule \in [Mac -> Time \cup {None}]
    /\ lock \in Proc \cup {NoOne}
    /\ proc \in [Proc -> [pc : {"idle", "commit", "sleep", "start", "lock", "timeout",
                               "edit", "editcommit", "hwstart"},
                         cmd : {"none", "allow", "deny", "prepare", "+", "-",
                                "on", "off", "block_apply"},
                         mac : Mac \cup {NoOne}, info : Device, list : Seq(Entry),
                         direct : BOOLEAN, blocked : Seq(Entry)]]

\* the configuration this firmware is shipped with: sharing is on
Init ==
    /\ now = 0
    /\ disabled = FALSE /\ open = TRUE /\ include = TRUE
    /\ dev = [m \in Mac |-> NoDev] /\ black = << >>
    /\ installed = TRUE /\ chain = {} /\ rule = [m \in Mac |-> None]
    /\ hwOff = TRUE
    /\ lock = NoOne
    /\ proc = [p \in Proc |-> Idle]

Goto(p, pc) == proc' = [proc EXCEPT ![p].pc = pc]
End(p)      == proc' = [proc EXCEPT ![p] = Idle]
\* the caller goes on as c, and a free job is forked
Fork(p, c, cmd) == \E j \in Job :
                      /\ proc[j].pc = "idle"
                      /\ proc' = [proc EXCEPT ![p] = c,
                                      ![j] = [Idle EXCEPT !.pc = "sleep", !.cmd = cmd]]

\* share_block_has_mac looks at the first mac of the list only, as it is spelled
HasMac(list, m) == list # << >> /\ Head(list) = [mac |-> m, capital |-> TRUE]

\* iptables takes a mac in any spelling; what looks for the rules of one does not
Devices(list) == {e.mac : e \in Range(list)}
Capitals(list) == {m \in Mac : [mac |-> m, capital |-> TRUE] \in Range(list)}

-----------------------------------------------------------------------------
(***************************************************************************)
(* Handlers                                                                *)
(***************************************************************************)

\* wifi_access reads the device section ...
Access(a, m, cmd, direct) ==
    /\ direct => cmd = "deny"
    /\ cmd \in Requests /\ proc[a].pc = "idle"
    /\ proc' = [proc EXCEPT ![a] =
                   [Idle EXCEPT !.pc = "commit", !.cmd = cmd, !.mac = m, !.direct = direct,
                       !.info = [grant |-> IF cmd = "allow" THEN "yes" ELSE "no",
                                 stop  |-> dev[m].stop]]]
    /\ UNCHANGED <<now, config, firewall, hwOff, lock>>

\* ... and writes every option it has read
AccessCommit(a) ==
    LET m == proc[a].mac
        i == proc[a].info
    IN  /\ proc[a].pc = "commit"
        /\ dev' = [dev EXCEPT ![m] = [i EXCEPT !.stop = IF i.stop = None THEN dev[m].stop ELSE @]]
        /\ proc' = [proc EXCEPT ![a].pc = "start", ![a].info = NoDev]
        /\ UNCHANGED <<now, disabled, open, black, include, firewall, hwOff, lock>>

Prepare(g, m) ==
    /\ proc[g].pc = "idle"
    /\ proc' = [proc EXCEPT ![g] = [Idle EXCEPT !.pc = "start", !.cmd = "prepare", !.mac = m]]
    /\ UNCHANGED <<now, config, firewall, hwOff, lock>>

\* wifi_share_blacklist_edit reads the blacklist ...
Edit(a, list, cmd) ==
    /\ "block" \in Requests /\ proc[a].pc = "idle"
    /\ proc' = [proc EXCEPT ![a] = [Idle EXCEPT !.pc = "editcommit", !.cmd = cmd,
                                               !.list = list, !.blocked = black]]
    /\ UNCHANGED <<now, config, firewall, hwOff, lock>>

\* wifiAccess: who denies a direct request blocks the device as well, in the
\* spelling of the request
EditDenied(a) ==
    /\ proc[a].pc = "edit"
    /\ \E e \in Entry :
          /\ e.mac = proc[a].mac
          /\ proc' = [proc EXCEPT ![a] = [Idle EXCEPT !.pc = "editcommit", !.cmd = "+",
                                                     !.list = <<e>>, !.blocked = black]]
    /\ UNCHANGED <<now, config, firewall, hwOff, lock>>

\* what t has and u has not, in the order and as often as t has it
Others(t, u) ==
    LET left[n \in 0 .. Len(t)] == IF n = 0 THEN << >>
                                   ELSE IF t[n] \in Range(u) THEN left[n - 1]
                                   ELSE Append(left[n - 1], t[n])
    IN  left[Len(t)]

\* What is added may hold a mac twice, or one that is there in another spelling.
merge(t1, t2, opt) == IF opt = "-" THEN Others(t1, t2) ELSE t1 \o Others(t2, t1)

\* mutation: the firewall is not told
EditQuietly(a) == /\ proc[a].pc = "editcommit"
                  /\ black' = merge(proc[a].blocked, proc[a].list, proc[a].cmd)
                  /\ End(a)
                  /\ UNCHANGED <<now, disabled, open, dev, include, firewall, hwOff, lock>>

\* ... and writes all of it
EditCommit(a) ==
    /\ proc[a].pc = "editcommit"
    /\ black' = merge(proc[a].blocked, proc[a].list, proc[a].cmd)
    /\ Fork(a, Idle, "block_apply")
    /\ UNCHANGED <<now, disabled, open, dev, include, firewall, hwOff, lock>>

SwitchPending == \E j \in Job : proc[j].cmd \in {"on", "off"}

\* set_wifi_share: sharing needs a guest wifi without encryption, which the
\* same request may turn off
set_wifi_share(a, on, guest) ==
    /\ "switch" \in Requests /\ proc[a].pc = "idle"
    /\ Hasty \/ ~SwitchPending
    /\ disabled' = ~on
    /\ open' = guest
    /\ Fork(a, Idle, IF on THEN "on" ELSE "off")
    /\ UNCHANGED <<now, dev, black, include, firewall, hwOff, lock>>

-----------------------------------------------------------------------------
(***************************************************************************)
(* wifishare.sh                                                            *)
(***************************************************************************)

\* config_load; on: guest_network_judge and hwnat_stop come before the lock
Start(p) ==
    LET ready == [proc[p] EXCEPT !.pc = "lock", !.blocked = IF proc[p].cmd \in {"deny", "off"} THEN << >> ELSE black]
    IN  /\ proc[p].pc \in {"start", "sleep"}
        /\ IF proc[p].cmd = "on"
           THEN IF open THEN proc' = [proc EXCEPT ![p] = ready] /\ hwOff' = TRUE
                        ELSE End(p) /\ UNCHANGED hwOff
           ELSE proc' = [proc EXCEPT ![p] = ready] /\ UNCHANGED hwOff
        /\ UNCHANGED <<now, config, firewall, lock>>

\* fw3_trylock, then the command.  Nothing it reads or writes is touched between
\* the two, and but for share_access_timeout it is one step.
In(p, cmd) == proc[p].pc = "lock" /\ proc[p].cmd = cmd /\ lock = NoOne

\* a device whose record has not run out is left as it is, in or out
Keeps(p) == \/ HasMac(proc[p].blocked, proc[p].mac)
            \/ dev[proc[p].mac].stop >= now

share_access_prepare(p) ==
    /\ In(p, "prepare")
    /\ rule' = IF Keeps(p) THEN rule ELSE [rule EXCEPT ![proc[p].mac] = now + AuthTime]
    /\ lock' = p /\ Goto(p, "timeout")
    /\ UNCHANGED <<now, config, installed, chain, hwOff>>

share_access_allow(p) ==
    LET m == proc[p].mac
        stop == now + Timeout
        grant == IF dev[m].grant = "absent" THEN "yes" ELSE dev[m].grant
    IN  /\ In(p, "allow")
        /\ IF Keeps(p) THEN UNCHANGED <<rule, dev>>
           ELSE /\ rule' = [rule EXCEPT ![m] = stop]
                /\ dev' = [dev EXCEPT ![m].stop = stop, ![m].grant = grant]
        /\ lock' = p /\ Goto(p, "timeout")
        /\ UNCHANGED <<now, disabled, open, black, include, installed, chain, hwOff>>

\* mutation: the record says no, the rules stay
DenyNothing(p) == /\ In(p, "deny") /\ lock' = p /\ Goto(p, "timeout")
                  /\ UNCHANGED <<now, config, firewall, hwOff>>

share_access_remove(p) ==
    /\ In(p, "deny")
    /\ rule' = [rule EXCEPT ![proc[p].mac] = None]
    /\ lock' = p /\ Goto(p, "timeout")
    /\ UNCHANGED <<now, config, installed, chain, hwOff>>

\* after each of the three: rules that ran out, but for macs that begin with
\* E or F, and records that ran out or never had a date; then unlock
share_access_timeout(p) ==
    /\ proc[p].pc = "timeout"
    /\ rule' = [m \in Mac |-> IF rule[m] < now /\ m \notin EarlyLetter THEN None ELSE rule[m]]
    /\ dev'  = [m \in Mac |-> IF dev[m].stop < now THEN NoDev ELSE dev[m]]
    /\ lock' = NoOne
    /\ IF proc[p].direct THEN Goto(p, "edit") ELSE End(p)
    /\ UNCHANGED <<now, disabled, open, black, include, installed, chain, hwOff>>

\* mutation: the list is the one read before the lock
ApplyStale(p) ==
    /\ In(p, "block_apply")
    /\ chain' = IF installed THEN Devices(proc[p].blocked) ELSE {}
    /\ rule' = [m \in Mac |-> IF m \in Capitals(proc[p].blocked) THEN None ELSE rule[m]]
    /\ End(p)
    /\ UNCHANGED <<now, config, installed, hwOff, lock>>

\* mutation: chains that are not in the firewall are filled
ApplyAlways(p) ==
    /\ In(p, "block_apply")
    /\ chain' = Devices(black)
    /\ rule' = [m \in Mac |-> IF m \in Capitals(black) THEN None ELSE rule[m]]
    /\ End(p)
    /\ UNCHANGED <<now, config, installed, hwOff, lock>>

share_block_apply(p) ==
    /\ In(p, "block_apply")
    /\ chain' = IF installed THEN Devices(black) ELSE {}
    /\ rule' = [m \in Mac |-> IF m \in Capitals(black) THEN None ELSE rule[m]]
    /\ End(p)
    /\ UNCHANGED <<now, config, installed, hwOff, lock>>

\* share_fw_add_device
Listed(m, list) == /\ dev[m].grant = "yes"
                   /\ dev[m].stop # None
                   /\ ~HasMac(list, m)

share_reload(list) ==
    /\ rule' = [m \in Mac |-> IF Listed(m, list) /\ m \notin Capitals(black) THEN dev[m].stop ELSE None]
    /\ installed' = TRUE
    /\ chain' = Devices(black)

share_start(p) ==
    /\ In(p, "on")
    /\ IF include THEN UNCHANGED <<firewall, include>>
       ELSE share_reload(proc[p].blocked) /\ include' = TRUE
    /\ End(p)
    /\ UNCHANGED <<now, disabled, open, dev, black, hwOff, lock>>

Flush == installed' = FALSE /\ chain' = {} /\ rule' = [m \in Mac |-> None]

\* mutation: the include section stays
StopRules(p) == /\ In(p, "off") /\ Flush /\ Goto(p, "hwstart")
                /\ UNCHANGED <<now, config, hwOff, lock>>

share_stop(p) ==
    /\ In(p, "off")
    /\ include' = FALSE
    /\ Flush
    /\ Goto(p, "hwstart")
    /\ UNCHANGED <<now, disabled, open, dev, black, hwOff, lock>>

hwnat_start(p) ==
    /\ proc[p].pc = "hwstart"
    /\ hwOff' = FALSE
    /\ End(p)
    /\ UNCHANGED <<now, config, firewall, lock>>

\* any restart of the firewall, under its own lock
FirewallRestart ==
    /\ lock = NoOne
    /\ IF include THEN share_reload(black) ELSE Flush
    /\ UNCHANGED <<now, config, hwOff, lock, proc>>

Tick == now < MaxTime /\ now' = now + 1 /\ UNCHANGED <<config, firewall, hwOff, lock, proc>>

Handler(a) == AccessCommit(a) \/ EditDenied(a) \/ EditCommit(a)
Locked(p)  == \/ share_access_prepare(p) \/ share_access_allow(p) \/ share_access_remove(p)
              \/ share_block_apply(p) \/ share_start(p) \/ share_stop(p)
Script(p)  == Start(p) \/ Locked(p) \/ share_access_timeout(p) \/ hwnat_start(p)

Next ==
    \/ \E a \in Admin : \/ \E m \in Mac, cmd \in {"allow", "deny"}, direct \in BOOLEAN :
                              Access(a, m, cmd, direct)
                        \/ \E list \in Lists, cmd \in {"+", "-"} : Edit(a, list, cmd)
                        \/ \E on, guest \in BOOLEAN : set_wifi_share(a, on, guest)
                        \/ Handler(a)
    \/ \E g \in Guest, m \in Mac : Prepare(g, m)
    \/ \E p \in Proc : Script(p)
    \/ FirewallRestart \/ Tick

Spec == Init /\ [][Next]_vars

\* Handlers and scripts go on, and whoever waits for the lock gets it.
Fairness == /\ \A a \in Admin : WF_vars(Handler(a))
            /\ \A p \in Proc : WF_vars(Script(p)) /\ SF_vars(Locked(p))
FairSpec == Spec /\ Fairness

-----------------------------------------------------------------------------
(***************************************************************************)
(* Properties                                                              *)
(***************************************************************************)
Busy(m) == \E p \in Proc : proc[p].mac = m
Admitted(m) == rule[m] > now + AuthTime     \* more than a prepare gives

\* What the firewall lets through for a day is what the records say: after a
\* deny nothing, whatever restarts, timeouts of other devices' records or
\* prepares come in between.
AdmittedIsRecorded == \A m \in Mac : Admitted(m) /\ ~Busy(m) =>
                          dev[m].grant = "yes" /\ dev[m].stop = rule[m]

\* When no change of the blacklist is under way the block chains hold it, in
\* whatever order the delayed scripts ran.
Applying == \E p \in Proc : proc[p].cmd = "block_apply"
BlacklistApplied == installed /\ ~Applying => chain = Devices(black)

\* When no switch is under way the firewall, its include section and hardware
\* NAT, which would go round the firewall, agree; and off is off.
SwitchSettled == ~SwitchPending /\ lock = NoOne =>
                     /\ installed = include
                     /\ hwOff = include
                     /\ disabled => ~include

\* A blacklisted device is cut off in the end, unless it is taken off the list
\* or sharing is switched off first.
BlockedInTheEnd == \A m \in Mac : m \in Devices(black) /\ installed
                       ~> m \in chain \/ m \notin Devices(black) \/ ~installed

\* "allow: access allow, default 1 day": a device whose unexpired record says
\* yes is let in, when nothing is under way.
AllowAllows == include /\ (\A p \in Proc : proc[p].pc = "idle") =>
    \A m \in Mac : dev[m].grant = "yes" /\ dev[m].stop >= now /\ m \notin Devices(black)
                       => rule[m] # None
=============================================================================
