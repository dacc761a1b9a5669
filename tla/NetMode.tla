------------------------------ MODULE NetMode ------------------------------
(***************************************************************************)
(* Turning the router into an access point of another router, over wifi    *)
(* (XQAPModule.setWifiAPMode) or over the wan port (setLanAPMode), and     *)
(* back.  An access point uses the address that the other router gives it, *)
(* so the household's own configuration has to be put aside and found      *)
(* again.  There are two places for it, filled and emptied by different    *)
(* programs:                                                               *)
(*                                                                         *)
(*   - the uci file backup, written by the handlers, read by               *)
(*     disableWifiAPMode, and read by disableLanAP for the address it      *)
(*     tells the page;                                                     *)
(*   - .network.mode.router, a copy of /etc/config/network made by the     *)
(*     dhcp client's script if there is none, moved back by                *)
(*     "ap_mode.sh close".                                                 *)
(*                                                                         *)
(* Every uci commit is a step: a power cut may fall between two of them.   *)
(* The vpn section of network, the name of the wifi and the messages to    *)
(* the cloud are left out.                                                 *)
(***************************************************************************)
EXTENDS Naturals

CONSTANTS
    Homes,      \* lan addresses a household chooses
    Leases,     \* lan addresses another router gives out
    Wans,       \* settings of the wan interface
    None,       \* no section, no file, no address
    Factory,    \* the lan address of ap_mode.sh's default configuration
    FactoryWan, \* and its wan settings
    Scenarios,  \* what a household does: see Scenario
    Hasty,      \* may a switch be asked for while a forked script is due?
    Lags        \* may check_gw take longer than the 5 s before "close"?

\* kinds: the access points the household uses; edits: how often it edits its
\* configuration; cuts: how often the power fails (bounds).
Scenario == [kinds : SUBSET {"wifi", "lan"}, edits : Nat, cuts : Nat]

ASSUME AddressAssumption == /\ Factory \in Homes /\ FactoryWan \in Wans
                            /\ Homes \cap Leases = {}
                            /\ None \notin Homes \cup Leases \cup Wans
ASSUME ScenarioAssumption == /\ Scenarios \subseteq Scenario
                             /\ Hasty \in BOOLEAN /\ Lags \in BOOLEAN

VARIABLES
    network,    \* /etc/config/network
    dhcp,       \* option ignore of dhcp.lan, or "gone"
    wifi,       \* is the wifi the household's own, or does it repeat another?
    mode,       \* xiaoqiang.common.NETMODE; "router" when it is not set
    backup,     \* the uci file backup
    file,       \* .network.mode.router
    pc,         \* the handler: which statement is next
    oldlan,     \* setWifiAPMode's oldlan
    entry,      \* its apmode: the mode at the start
    opening,    \* the forked "ap_mode.sh open": "none", "due" or "cron"
    closing,    \* the forked "ap_mode.sh close": "none", "due", "move" or "clean"
    cron,       \* is check_gw in root's crontab?
    check,      \* the running check_gw: "none", "gateway" or "renew"
    told,       \* the address the page was told to go on with
    home,       \* the configuration the household chose (history)
    kinds, edits, cuts,  \* what is left of the scenario
    cut         \* has the power failed during a switch?

config  == <<network, dhcp, wifi, mode>>
saved   == <<backup, file>>
handler == <<pc, oldlan, entry>>
scripts == <<opening, closing, cron, check>>
plan    == <<kinds, edits, cuts, cut>>
vars    == <<config, saved, handler, scripts, told, home, plan>>

\* network.lan: its address, and whether it bridges the wan port too; network.wan
\* and its option auto (0: not started by itself).
Lan     == [addr : Homes \cup Leases, ports : {"lan", "both"}]
Network == [lan : Lan, wan : Wans \cup {None}, auto : {"0", "unset"}]
Backup  == [lan  : Lan \cup {None},
            dhcp : {"serve", "ignore", "gone", None},
            wifi : {"own", "bridged", None}]
Own(h, w) == [lan |-> [addr |-> h, ports |-> "lan"], wan |-> w, auto |-> "unset"]

ASSUME NoneAssumption == None \notin Lan \cup Network \cup {"serve", "ignore", "gone", "own", "bridged"}

\* uci set and uci delete of their options
WithAddr(n, a) == [n EXCEPT !.lan = [addr |-> a, ports |-> n.lan.ports]]
WithAuto(n, b) == [n EXCEPT !.auto = b]
WithLan(n, l)  == [n EXCEPT !.lan = l]
SaveLan(b, l)  == [b EXCEPT !.lan = l]
Bridged(n)     == [lan |-> [addr |-> n.lan.addr, ports |-> "both"], wan |-> None, auto |-> n.auto]

Idle == pc = "idle"
\* No program that changes the configuration is under way or due.
Quiet == Idle /\ opening = "none" /\ closing = "none" /\ check = "none"

TypeOK ==
    /\ network \in Network /\ home \in Network
    /\ dhcp \in {"serve", "ignore", "gone"}
    /\ wifi \in {"own", "bridged"} /\ mode \in {"router", "wifi", "lan"}
    /\ backup \in Backup
    /\ file \in Network \cup {None} /\ oldlan \in Lan \cup {None}
    /\ pc \in {"idle", "wBackup", "wAuto", "wDhcp", "wMode", "wDrop", "wBridge", "wUndo", "wLan",
               "dAuto", "dRadio", "dMode", "lBackup", "lConnect", "lMode"}
    /\ pc \in {"wDhcp", "wUndo", "wLan", "wMode"} => oldlan # None
    /\ pc \in {"dAuto", "dRadio", "dMode"} => backup.lan # None
    /\ opening \in {"none", "due", "cron"} /\ closing \in {"none", "due", "move", "clean"}
    /\ cron \in BOOLEAN /\ check \in {"none", "gateway", "renew"} /\ entry \in {"router", "wifi", "lan"}
    /\ told \in Homes \cup Leases \cup {None}
    /\ kinds \in SUBSET {"wifi", "lan"} /\ edits \in Nat /\ cuts \in Nat /\ cut \in BOOLEAN

Init ==
    /\ \E h \in Homes, w \in Wans : network = Own(h, w)
    /\ dhcp = "serve" /\ wifi = "own" /\ mode = "router"
    /\ backup = [lan |-> None, dhcp |-> None, wifi |-> None] /\ file = None
    /\ pc = "idle" /\ oldlan = None /\ entry = "router"
    /\ opening = "none" /\ closing = "none" /\ cron = FALSE /\ check = "none"
    /\ told = None /\ home = network
    /\ \E s \in Scenarios :
          kinds = s.kinds /\ edits = s.edits /\ cuts = s.cuts /\ cut = FALSE

Goto(p) == pc' = p

-----------------------------------------------------------------------------
(***************************************************************************)
(* The dhcp client.  udhcpc runs dhcp_apclient.sh again for a lease a:     *)
(* router_config_backup, then setup_interface.  ap_mode of network is      *)
(* never set, so the copy is made whenever there is none.                  *)
(***************************************************************************)
\* mutation: the copy is overwritten by every lease
CopyAlways == file' = network
router_config_backup == file' = IF file = None THEN network ELSE file

Bound(a) ==
    /\ router_config_backup
    /\ network' = WithAddr(network, a)

-----------------------------------------------------------------------------
(***************************************************************************)
(* Handlers, one at a time.  The page offers to switch to an access point  *)
(* in any mode, and back from the mode the router is in.                   *)
(***************************************************************************)
Ready(k) == /\ Idle /\ k \in kinds
            /\ Hasty \/ (opening = "none" /\ closing = "none")

\* setWifiAPMode up to the association.  Without one (or without the network
\* in the scan) only the radio is touched.
WifiAp ==
    /\ Ready("wifi")
    /\ entry' = mode
    /\ Goto(IF mode = "router" THEN "wBackup" ELSE "wAuto")
    /\ UNCHANGED <<config, saved, oldlan, scripts, told, home, plan>>

\* mutation: the backup of an earlier time is kept
BackupOnce ==
    /\ pc = "wBackup"
    /\ backup' = IF backup.lan = None THEN [lan |-> network.lan, dhcp |-> dhcp, wifi |-> wifi]
                                      ELSE backup
    /\ Goto("wAuto")
    /\ UNCHANGED <<config, file, oldlan, entry, scripts, told, home, plan>>
WifiBackup ==
    /\ pc = "wBackup"
    /\ backup' = [lan |-> network.lan, dhcp |-> dhcp, wifi |-> wifi]
    /\ Goto("wAuto")
    /\ UNCHANGED <<config, file, oldlan, entry, scripts, told, home, plan>>

\* setWanAuto: without a wan section the handler dies of an error.
WanAuto(p, auto, next) ==
    /\ pc = p
    /\ IF network.wan = None
          THEN Goto("idle") /\ UNCHANGED network
          ELSE Goto(next) /\ network' = WithAuto(network, auto)
WifiAuto ==
    /\ WanAuto("wAuto", "0", "wDhcp")
    /\ oldlan' = network.lan
    /\ UNCHANGED <<dhcp, wifi, mode, saved, entry, scripts, told, home, plan>>

\* dhcp_apclient.sh start, then start br-lan: a lease, or none.
WifiDhcp ==
    /\ pc = "wDhcp"
    /\ \/ \E a \in Leases : Bound(a) /\ Goto("wMode")
       \/ Goto("wUndo") /\ UNCHANGED <<network, file>>
    /\ UNCHANGED <<dhcp, wifi, mode, backup, oldlan, entry, scripts, told, home, plan>>

\* With a lease: NETMODE, the dhcp sections, the wifi.
WifiSetMode ==
    /\ pc = "wMode" /\ mode' = "wifi" /\ told' = network.lan.addr /\ Goto("wDrop")
    /\ UNCHANGED <<network, dhcp, wifi, saved, oldlan, entry, scripts, home, plan>>
WifiDropDhcp ==
    /\ pc = "wDrop" /\ dhcp' = "gone" /\ Goto("wBridge")
    /\ UNCHANGED <<network, wifi, mode, saved, oldlan, entry, scripts, told, home, plan>>
WifiBridge ==
    /\ pc = "wBridge" /\ wifi' = "bridged" /\ Goto("idle")
    /\ UNCHANGED <<network, dhcp, mode, saved, oldlan, entry, scripts, told, home, plan>>

\* Without: the wan is given back, and the lan unless it was an access point.
\* mutation: the wan is left to be started by hand
UndoLanOnly ==
    /\ pc = "wUndo" /\ Goto(IF entry = "router" THEN "wLan" ELSE "idle")
    /\ UNCHANGED <<config, saved, oldlan, entry, scripts, told, home, plan>>
WifiUndo ==
    /\ WanAuto("wUndo", "unset", IF entry = "router" THEN "wLan" ELSE "idle")
    /\ UNCHANGED <<dhcp, wifi, mode, saved, oldlan, entry, scripts, told, home, plan>>
WifiUndoLan ==
    /\ pc = "wLan" /\ network' = WithLan(network, oldlan) /\ Goto("idle")
    /\ UNCHANGED <<dhcp, wifi, mode, saved, oldlan, entry, scripts, told, home, plan>>

\* disableWifiAPMode.  Without a saved lan section it dies of an error
\* (NETWORK_LAN is defined nowhere) before anything is committed.
DisableWifi ==
    /\ Ready("wifi") /\ mode = "wifi" /\ backup.lan # None
    /\ network' = WithLan(network, backup.lan)
    /\ dhcp' = IF backup.dhcp = None THEN dhcp ELSE backup.dhcp
    /\ Goto("dAuto")
    /\ UNCHANGED <<wifi, mode, saved, oldlan, entry, scripts, told, home, plan>>
DisableAuto ==
    /\ WanAuto("dAuto", "unset", "dRadio")
    /\ UNCHANGED <<dhcp, wifi, mode, saved, oldlan, entry, scripts, told, home, plan>>
DisableRadio ==
    /\ pc = "dRadio"
    /\ wifi' = IF backup.wifi = None THEN "own" ELSE backup.wifi
    /\ Goto("dMode")
    /\ UNCHANGED <<network, dhcp, mode, saved, oldlan, entry, scripts, told, home, plan>>
DisableMode ==
    /\ pc = "dMode" /\ mode' = "router" /\ told' = backup.lan.addr /\ Goto("idle")
    /\ UNCHANGED <<network, dhcp, wifi, saved, oldlan, entry, scripts, home, plan>>

\* setLanAP is refused with 1618 in the other mode.  The backup keeps its
\* other sections.
LanAp ==
    /\ Ready("lan") /\ mode # "wifi"
    /\ entry' = mode
    /\ Goto(IF mode = "router" THEN "lBackup" ELSE "lConnect")
    /\ UNCHANGED <<config, saved, oldlan, scripts, told, home, plan>>
\* mutation: the backup of an earlier time is kept
LanBackupOnce ==
    /\ pc = "lBackup"
    /\ backup' = (IF backup.lan = None THEN SaveLan(backup, network.lan) ELSE backup)
    /\ Goto("lConnect")
    /\ UNCHANGED <<config, file, oldlan, entry, scripts, told, home, plan>>
LanBackup ==
    /\ pc = "lBackup"
    /\ backup' = SaveLan(backup, network.lan) /\ Goto("lConnect")
    /\ UNCHANGED <<config, file, oldlan, entry, scripts, told, home, plan>>
\* ap_mode.sh connect.  What counts is whether the address has changed (1619).
LanConnect ==
    /\ pc = "lConnect"
    /\ \/ \E a \in Leases :
            /\ Bound(a)
            /\ Goto(IF a = network.lan.addr THEN "idle" ELSE "lMode")
       \/ Goto("idle") /\ UNCHANGED <<network, file>>
    /\ UNCHANGED <<dhcp, wifi, mode, backup, oldlan, entry, scripts, told, home, plan>>
\* NETMODE, and the fork of "sleep 7; ap_mode.sh open".
LanSetMode ==
    /\ pc = "lMode" /\ mode' = "lan" /\ opening' = "due" /\ told' = network.lan.addr
    /\ Goto("idle")
    /\ UNCHANGED <<network, dhcp, wifi, saved, oldlan, entry, closing, cron, check, home, plan>>

\* disableLanAP: NETMODE, and the fork of "sleep 5; ap_mode.sh close".
DisableLan ==
    /\ Ready("lan") /\ mode = "lan"
    /\ mode' = "router" /\ closing' = "due"
    /\ told' = IF backup.lan = None THEN None ELSE backup.lan.addr
    /\ UNCHANGED <<network, dhcp, wifi, saved, handler, opening, cron, check, home, plan>>

-----------------------------------------------------------------------------
(***************************************************************************)
(* ap_mode.sh.                                                             *)
(***************************************************************************)
\* bridgeap_open_r1cm
Open ==
    /\ opening = "due" /\ opening' = "cron"
    /\ network' = Bridged(network)
    /\ dhcp' = "ignore"
    /\ UNCHANGED <<wifi, mode, saved, handler, closing, cron, check, told, home, plan>>
\* mutation: check_gw is not asked for
OpenNoCron ==
    /\ opening = "cron" /\ opening' = "none"
    /\ UNCHANGED <<config, saved, handler, closing, cron, check, told, home, plan>>
\* bridgeap_check_gw_start
OpenCron ==
    /\ opening = "cron" /\ opening' = "none" /\ cron' = TRUE
    /\ UNCHANGED <<config, saved, handler, closing, check, told, home, plan>>

\* bridgeap_check_gw_stop
CloseCron ==
    /\ closing = "due" /\ closing' = "move" /\ cron' = FALSE
    /\ Lags \/ check = "none"
    /\ UNCHANGED <<config, saved, handler, opening, check, told, home, plan>>
\* bridgeap_close_r1cm: mv, or the factory's configuration.
CloseMove ==
    /\ closing = "move"
    /\ IF file = None
          THEN /\ network' = Own(Factory, FactoryWan)
               /\ dhcp' = (IF dhcp = "ignore" THEN "serve" ELSE dhcp)
               /\ closing' = "none" /\ UNCHANGED file
          ELSE /\ network' = file /\ file' = None
               /\ closing' = "clean" /\ UNCHANGED dhcp
    /\ UNCHANGED <<wifi, mode, backup, handler, opening, cron, check, told, home, plan>>
\* mutation: the dhcp server stays off
CloseNoDhcp ==
    /\ closing = "clean" /\ closing' = "none"
    /\ network' = WithAuto(network, "unset")
    /\ UNCHANGED <<dhcp, wifi, mode, saved, handler, opening, cron, check, told, home, plan>>
\* and the uci batch after the mv
CloseClean ==
    /\ closing = "clean" /\ closing' = "none"
    /\ network' = WithAuto(network, "unset")
    /\ dhcp' = IF dhcp = "ignore" THEN "serve" ELSE dhcp
    /\ UNCHANGED <<wifi, mode, saved, handler, opening, cron, check, told, home, plan>>

\* cron starts "ap_mode.sh check_gw" every minute; bridgeap_check_apmode.
CheckStart ==
    /\ cron /\ check = "none" /\ mode = "lan"
    /\ check' = "gateway"
    /\ UNCHANGED <<config, saved, handler, opening, closing, cron, told, home, plan>>
\* bridgeap_check_gw: the gateway answers to arping, or not.
CheckGateway ==
    /\ check = "gateway" /\ check' \in {"none", "renew"}
    /\ UNCHANGED <<config, saved, handler, opening, closing, cron, told, home, plan>>
\* dhcp_apclient.sh start br-lan
CheckRenew ==
    /\ check = "renew" /\ check' = "none"
    /\ (\E a \in Leases : Bound(a)) \/ UNCHANGED <<network, file>>
    /\ UNCHANGED <<dhcp, wifi, mode, backup, handler, opening, closing, cron, told, home, plan>>

-----------------------------------------------------------------------------
(***************************************************************************)
(* The household and the power.                                            *)
(***************************************************************************)
\* The settings pages of the lan and the wan, which an access point lacks.
Edit ==
    /\ Quiet /\ mode = "router" /\ edits > 0
    /\ \E h \in Homes, w \in Wans : network' = Own(h, w) /\ network' # network
    /\ home' = network' /\ told' = None
    /\ edits' = edits - 1
    /\ UNCHANGED <<dhcp, wifi, mode, saved, handler, scripts, kinds, cuts, cut>>

\* What is in /etc/config and in the crontab stays.
PowerCut ==
    /\ cuts > 0 /\ ~Quiet
    /\ cuts' = cuts - 1 /\ cut' = TRUE
    /\ pc' = "idle" /\ oldlan' = None /\ entry' = "router"
    /\ opening' = "none" /\ closing' = "none" /\ check' = "none" /\ told' = None
    /\ UNCHANGED <<config, saved, cron, home, kinds, edits>>

Handler == WifiBackup \/ WifiAuto \/ WifiDhcp \/ WifiSetMode \/ WifiDropDhcp \/ WifiBridge
           \/ WifiUndo \/ WifiUndoLan \/ DisableAuto \/ DisableRadio \/ DisableMode
           \/ LanBackup \/ LanConnect \/ LanSetMode
OpenStep  == Open \/ OpenCron
CloseStep == CloseCron \/ CloseMove \/ CloseClean
CheckStep == CheckGateway \/ CheckRenew
Request   == WifiAp \/ DisableWifi \/ LanAp \/ DisableLan

Next == Request \/ Handler \/ OpenStep \/ CloseStep \/ CheckStart \/ CheckStep \/ Edit \/ PowerCut

Spec == Init /\ [][Next]_vars
\* What has begun goes on; requests, cron, edits and the power need not.
FairSpec == Spec /\ WF_vars(Handler) /\ WF_vars(OpenStep) /\ WF_vars(CloseStep) /\ WF_vars(CheckStep)

-----------------------------------------------------------------------------
(***************************************************************************)
(* Properties.                                                             *)
(***************************************************************************)
\* A router that is one again, or never became an access point because a
\* switch failed, has the configuration the household chose: lan, wan, dhcp
\* and wifi, whatever was in the two backups before (XQAPModule, ap_mode.sh).
RouterConfigKept ==
    Quiet /\ mode = "router" /\ ~cut => network = home /\ dhcp = "serve" /\ wifi = "own"

\* An access point can give the household its configuration back from where
\* the program that undoes its mode will look for it.
CanGoBack ==
    Quiet /\ ~cut =>
        /\ mode = "wifi" => /\ backup = [lan |-> home.lan, dhcp |-> "serve", wifi |-> "own"]
                            /\ network.wan = home.wan
        /\ mode = "lan"  => /\ file # None /\ WithAuto(file, "unset") = home
                            /\ wifi = "own"

\* The address a household chose is still written down somewhere, whatever
\* step of a switch the power fails at, and whatever switch it then tries.  An
\* edit between an older switch and the cut would leave a stale copy behind.
AddressSurvives ==
    \/ network.lan = home.lan
    \/ backup.lan = home.lan
    \/ file # None /\ file.lan = home.lan

\* There is one dhcp server in the house: an access point has none.
SilentAccessPoint == Quiet /\ mode # "router" /\ ~cut => dhcp # "serve"

\* The page goes on with the address the router really gets: the handlers of
\* the wired mode read it from another file than ap_mode.sh restores it from.
ToldTheAddress ==
    Quiet /\ mode # "lan" /\ told # None /\ ~cut => network.lan.addr = told

\* dhcp_apclient.sh:79: "if xq already in ap mode,it don't need to backup
\* route config file".  When it is not, the lease that turns it into an access
\* point leaves a copy of the configuration it had.
EntryIsBackedUp ==
    [][(WifiDhcp \/ LanConnect) /\ entry = "router" /\ network'.lan # network.lan
          => file'.lan = network.lan /\ file'.wan = network.wan]_vars

\* A wired access point soon has its bridge, and check_gw watches its gateway,
\* unless it is switched off again (or the power fails).
BridgeOpens == (mode = "lan") ~> (mode # "lan" \/ cut \/ (network.lan.ports = "both" /\ cron))

-----------------------------------------------------------------------------
(***************************************************************************)
(* Why it works: what holds at every step, as long as switches are not     *)
(* asked for in a hurry (~Hasty), check_gw is quick (~Lags), a household   *)
(* that edits its configuration keeps to one kind of access point, and the *)
(* power has not failed during a switch.                                   *)
(***************************************************************************)
\* setWanAuto(nil), and the uci batch of "close", take the option away.
Clean(n) == WithAuto(n, "unset")
Good == [lan |-> home.lan, dhcp |-> "serve", wifi |-> "own"]

\* Only one switch at a time, and check_gw only around wired mode.
OneSwitch ==
    /\ ~Idle => opening = "none" /\ closing = "none"
    /\ opening # "none" => closing = "none" /\ mode = "lan"
    /\ closing # "none" => mode = "router"
    /\ check # "none" => mode = "lan" \/ closing = "due"
    /\ pc \in {"dAuto", "dRadio", "dMode"} => mode = "wifi"
    /\ pc \in {"lBackup", "lConnect", "lMode"} => mode # "wifi" /\ "lan" \in kinds
    /\ pc \in {"wDhcp", "wMode", "wUndo", "wLan"} => mode # "lan"
    /\ pc \in {"wDrop", "wBridge"} => mode = "wifi"
    /\ pc \in {"wBackup", "wLan", "lBackup"} => mode = "router"
    /\ mode = "lan" => "lan" \in kinds
    /\ closing # "none" => "lan" \in kinds
    /\ mode = "wifi" \/ pc \in {"wBackup", "wAuto", "wDhcp", "wMode"} => "wifi" \in kinds
    /\ Idle \/ entry = mode \/ pc \in {"dAuto", "dRadio", "dMode", "wDrop", "wBridge"}

\* What a router is configured as, also while it is becoming an access point.
AsRouter ==
    mode = "router" =>
        /\ wifi = "own"
        /\ closing = "none" => dhcp = "serve"
        /\ closing \in {"none", "clean"} /\ pc \notin {"wMode", "lMode"} => Clean(network) = home
        /\ closing = "none" /\ pc \notin {"wDhcp", "wUndo", "wMode"} => network.auto = "unset"
        /\ pc = "wMode" => network.wan = home.wan /\ network.lan.ports = "lan"
        /\ pc \in {"wDhcp", "wUndo", "wLan"} => oldlan = home.lan
        /\ closing \in {"due", "move"} => dhcp = "ignore" /\ file # None
        /\ closing = "clean" => dhcp \in {"ignore", "serve"}
        /\ closing \in {"move", "clean"} => check = "none"
        /\ pc = "lMode" => file # None

\* A wireless access point.
AsWifi ==
    /\ mode = "wifi" \/ pc = "wMode" => file # None
    /\ mode = "wifi" \/ pc \in {"wDhcp", "wMode", "wUndo", "wLan"}
         \/ (pc = "wAuto" /\ mode = "router") => backup = Good
    /\ mode = "wifi" =>
        /\ network.wan = home.wan /\ network.lan.ports = "lan"
        /\ pc \notin {"wDrop", "dAuto", "dRadio", "dMode"} => dhcp = "gone"
        /\ pc \in {"dAuto", "dRadio", "dMode"} => network.lan = home.lan /\ dhcp = "serve"
        /\ pc \in {"dRadio", "dMode"} => network.auto = "unset"
        /\ pc = "dMode" => wifi = "own"

\* A wired one.
AsLan ==
    /\ mode = "lan" => /\ file # None /\ wifi = "own"
                       /\ opening # "due" => dhcp = "ignore" /\ network.wan = None
                       /\ opening = "none" => cron
    /\ mode = "lan" \/ pc \in {"lConnect", "lMode"} => backup.lan = home.lan

\* A household that uses the wired mode has no copy but that of its configuration.
CopyIsGood ==
    "lan" \in kinds =>
        /\ file # None => Clean(file) = home
        /\ file # None /\ "wifi" \notin kinds =>
               mode = "lan" \/ pc = "lMode" \/ closing \in {"due", "move"}

Told ==
    told # None =>
        /\ mode = "router" => told = home.lan.addr
        /\ mode = "wifi" /\ pc \notin {"wMode", "dAuto", "dRadio", "dMode"} => told = network.lan.addr

\* The inductive invariant.
IInv ==
    /\ TypeOK
    /\ home.lan.addr \in Homes /\ home = Own(home.lan.addr, home.wan) /\ home.wan # None
    /\ edits > 0 => kinds # {"wifi", "lan"}
    /\ ~cut => OneSwitch /\ AsRouter /\ AsWifi /\ AsLan /\ CopyIsGood /\ Told
=============================================================================
