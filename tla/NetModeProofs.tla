--------------------------- MODULE NetModeProofs ---------------------------
(***************************************************************************)
(* Proofs about NetMode, for any addresses, any number of switches, edits  *)
(* and power cuts.                                                         *)
(***************************************************************************)
EXTENDS NetMode, TLAPS

\* Switches are asked for one after the other, check_gw is quick, and who
\* edits the configuration keeps to one kind of access point.
Patient == /\ ~Hasty /\ ~Lags
           /\ \A s \in Scenarios : s.edits > 0 => s.kinds # {"wifi", "lan"}

\* Changing a part of network gives network again.
LEMMA WithAddrType ==
    ASSUME NEW n \in Network, NEW a \in Homes \cup Leases
    PROVE  LET m == WithAddr(n, a)
           IN  /\ m \in Network /\ m.lan.addr = a /\ m.lan.ports = n.lan.ports
               /\ m.wan = n.wan /\ m.auto = n.auto
  BY DEF Network, Lan, WithAddr

\* The same for its option auto.
LEMMA WithAutoType ==
    ASSUME NEW n \in Network, NEW b \in {"0", "unset"}
    PROVE  LET m == WithAuto(n, b)
           IN  m \in Network /\ m.lan = n.lan /\ m.wan = n.wan /\ m.auto = b
  BY DEF Network, WithAuto

\* The same for a whole section.
LEMMA WithLanType ==
    ASSUME NEW n \in Network, NEW l \in Lan
    PROVE  LET m == WithLan(n, l)
           IN  m \in Network /\ m.lan = l /\ m.wan = n.wan /\ m.auto = n.auto
  BY DEF Network, WithLan

\* The same for the saved section.
LEMMA SaveLanType ==
    ASSUME NEW b \in Backup, NEW l \in Lan
    PROVE  LET m == SaveLan(b, l)
           IN  m \in Backup /\ m.lan = l /\ m.dhcp = b.dhcp /\ m.wifi = b.wifi
  BY DEF Backup, SaveLan

\* The same for the bridge of ap_mode.sh.
LEMMA BridgedType ==
    ASSUME NEW n \in Network
    PROVE  LET m == Bridged(n) IN m \in Network /\ m.wan = None
  BY DEF Network, Lan, Bridged

\* What a household chooses is a configuration of a router.
LEMMA OwnType ==
    ASSUME NEW h \in Homes, NEW w \in Wans
    PROVE  LET m == Own(h, w)
           IN  /\ m \in Network /\ m.lan.addr = h /\ m.wan = w
               /\ m.auto = "unset" /\ m.lan.ports = "lan"
  BY DEF Own, Network, Lan

\* The parts of a configuration.
LEMMA NetworkParts ==
    ASSUME NEW n \in Network
    PROVE  /\ n.lan \in Lan /\ n.lan.addr \in Homes \cup Leases /\ n.lan.ports \in {"lan", "both"}
           /\ n.wan \in Wans \cup {None} /\ n.auto \in {"0", "unset"}
  BY DEF Network, Lan

\* The parts of the backup.
LEMMA BackupParts ==
    ASSUME NEW b \in Backup
    PROVE  /\ b.lan \in Lan \cup {None}
           /\ b.lan # None => b.lan.addr \in Homes \cup Leases
           /\ b.dhcp \in {"serve", "ignore", "gone", None} /\ b.wifi \in {"own", "bridged", None}
  BY DEF Backup, Lan

\* A configuration is its parts.
LEMMA NetworkEqual ==
    ASSUME NEW n \in Network, NEW m \in Network, n.lan = m.lan, n.wan = m.wan, n.auto = m.auto
    PROVE  n = m
  BY DEF Network

\* A router starts as its household wants it.
LEMMA InitIInv == Patient /\ Init => IInv
<1> SUFFICES ASSUME Patient, Init PROVE IInv
  OBVIOUS
<1>1. PICK h \in Homes, w \in Wans : home = Own(h, w) /\ network = home
  BY DEF Init
<1>2. home \in Network /\ home.lan.addr = h /\ home.wan = w /\ home.auto = "unset" /\ home.lan.ports = "lan"
  BY <1>1, OwnType
<1>3. TypeOK
  BY <1>1, <1>2, ScenarioAssumption DEF Init, TypeOK, Scenario, Backup
<1>4. Clean(network) = home
  BY <1>1, <1>2, WithAutoType, NetworkEqual DEF Clean
<1> QED
  BY <1>1, <1>2, <1>3, <1>4, AddressAssumption
  DEF Patient, Init, IInv, OneSwitch, AsRouter, AsWifi, AsLan, CopyIsGood, Told, Idle

\* A lease changes the address of the lan and nothing else.
LEMMA BoundType ==
    ASSUME TypeOK, NEW a \in Leases, Bound(a)
    PROVE  /\ network' \in Network /\ network'.lan.addr = a /\ network'.lan.ports = network.lan.ports
           /\ network'.wan = network.wan /\ network'.auto = network.auto
           /\ file' = IF file = None THEN network ELSE file
<1>1. a \in Homes \cup Leases /\ network \in Network
  BY DEF TypeOK
<1>2. network' = WithAddr(network, a)
  BY DEF Bound
<1> QED
  BY <1>1, <1>2, WithAddrType DEF Bound, router_config_backup

\* Types are kept whatever happens.
LEMMA TypeKept == ASSUME Patient, TypeOK, Next PROVE TypeOK'
<1> USE AddressAssumption, NoneAssumption, NetworkParts, BackupParts DEF TypeOK, Goto, Bound, router_config_backup, WanAuto
<1> USE DEF config, saved, handler, scripts, plan
<1>1. CASE WifiAp
  BY <1>1 DEF WifiAp
<1>2. CASE WifiBackup
  BY <1>2 DEF WifiBackup, Backup
<1>3. CASE WifiAuto
  <2>1. network' \in Network /\ oldlan' \in Lan /\ pc' \in {"idle", "wDhcp"}
    BY <1>3, WithAutoType DEF WifiAuto
  <2>2. oldlan' # None
    BY <2>1
  <2> QED
    BY <2>1, <2>2, <1>3 DEF WifiAuto
<1>4. CASE WifiDhcp
  BY <1>4, BoundType DEF WifiDhcp
<1>5. CASE WifiSetMode
  BY <1>5 DEF WifiSetMode
<1>6. CASE WifiDropDhcp
  BY <1>6 DEF WifiDropDhcp
<1>7. CASE WifiBridge
  BY <1>7 DEF WifiBridge
<1>8. CASE WifiUndo
  BY <1>8, WithAutoType DEF WifiUndo
<1>9. CASE WifiUndoLan
  BY <1>9, WithLanType DEF WifiUndoLan
<1>10. CASE DisableWifi
  BY <1>10, WithLanType DEF DisableWifi
<1>11. CASE DisableAuto
  BY <1>11, WithAutoType DEF DisableAuto
<1>12. CASE DisableRadio
  BY <1>12 DEF DisableRadio
<1>13. CASE DisableMode
  BY <1>13 DEF DisableMode
<1>14. CASE LanAp
  BY <1>14 DEF LanAp
<1>15. CASE LanBackup
  BY <1>15, SaveLanType DEF LanBackup
<1>16. CASE LanConnect
  BY <1>16, BoundType DEF LanConnect
<1>17. CASE LanSetMode
  BY <1>17 DEF LanSetMode
<1>18. CASE DisableLan
  BY <1>18 DEF DisableLan
<1>19. CASE Open
  BY <1>19, BridgedType DEF Open
<1>20. CASE OpenCron
  BY <1>20 DEF OpenCron
<1>21. CASE CloseCron
  <2>1. cron' \in BOOLEAN /\ closing' = "move"
    BY <1>21 DEF CloseCron
  <2>2. UNCHANGED <<config, saved, handler, opening, check, told, home, plan>>
    BY <1>21 DEF CloseCron
  <2> QED
    BY <2>1, <2>2
<1>22. CASE CloseMove
  BY <1>22, OwnType DEF CloseMove
<1>23. CASE CloseClean
  BY <1>23, WithAutoType DEF CloseClean
<1>24. CASE CheckStart
  BY <1>24 DEF CheckStart
<1>25. CASE CheckGateway
  BY <1>25 DEF CheckGateway
<1>26. CASE CheckRenew
  BY <1>26, BoundType DEF CheckRenew
<1>27. CASE Edit
  BY <1>27, OwnType DEF Edit
<1>28. CASE PowerCut
  <2>1. cut' \in BOOLEAN /\ cuts' \in Nat /\ entry' = "router"
    <3>1. cuts' \in Nat
      BY <1>28 DEF PowerCut
    <3>2. cut' \in BOOLEAN /\ entry' = "router"
      BY <1>28 DEF PowerCut
    <3> QED
      BY <3>1, <3>2
  <2>2. /\ pc' = "idle" /\ oldlan' = None /\ told' = None
        /\ opening' = "none" /\ closing' = "none" /\ check' = "none"
        /\ UNCHANGED <<config, saved, cron, home, kinds, edits>>
    BY <1>28 DEF PowerCut
  <2> QED
    BY <2>1, <2>2
<1> QED
  BY <1>1, <1>2, <1>3, <1>4, <1>5, <1>6, <1>7, <1>8, <1>9, <1>10, <1>11, <1>12, <1>13, <1>14, <1>15,
     <1>16, <1>17, <1>18, <1>19, <1>20, <1>21, <1>22, <1>23, <1>24, <1>25, <1>26, <1>27, <1>28
  DEF Next, Request, Handler, OpenStep, CloseStep, CheckStep

\* What the household chose changes only when it edits its configuration.
Fixed == /\ home.lan.addr \in Homes /\ home = Own(home.lan.addr, home.wan) /\ home.wan # None
         /\ edits > 0 => kinds # {"wifi", "lan"}

\* Only an edit changes what the household chose, and an edit is one of these.
LEMMA FixedKept == ASSUME TypeOK, Fixed, Next PROVE Fixed'
<1>1. CASE Edit
  <2>1. PICK h \in Homes, w \in Wans : home' = Own(h, w)
    BY <1>1 DEF Edit
  <2>2. home'.lan.addr = h /\ home'.wan = w /\ w # None
    BY <2>1, OwnType, AddressAssumption
  <2>3. edits' > 0 => edits > 0 /\ kinds' = kinds
    BY <1>1 DEF Edit, TypeOK
  <2> QED
    BY <2>1, <2>2, <2>3 DEF Fixed
<1>2. CASE ~Edit
  <2>1. UNCHANGED <<home, edits, kinds>>
    BY <1>2 DEF Next, Request, Handler, OpenStep, CloseStep, CheckStep, plan,
           WifiAp, WifiBackup, WifiAuto, WifiDhcp, WifiSetMode, WifiDropDhcp, WifiBridge, WifiUndo, WifiUndoLan, DisableWifi,
           DisableAuto, DisableRadio, DisableMode, LanAp, LanBackup, LanConnect, LanSetMode, DisableLan, Open, OpenCron,
           CloseCron, CloseMove, CloseClean, CheckStart, CheckGateway, CheckRenew, PowerCut
  <2> QED
    BY <2>1 DEF Fixed
<1> QED
  BY <1>1, <1>2

\* Without option auto a configuration is the household's if its sections are.
LEMMA CleanIs ==
    ASSUME TypeOK, Fixed, NEW n \in Network
    PROVE  Clean(n) = home <=> n.lan = home.lan /\ n.wan = home.wan
<1>1. home.auto = "unset" /\ home \in Network
  BY DEF Fixed, Own, TypeOK
<1>2. Clean(n) \in Network /\ Clean(n).lan = n.lan /\ Clean(n).wan = n.wan /\ Clean(n).auto = "unset"
  BY WithAutoType DEF Clean
<1> QED
  BY <1>1, <1>2, NetworkEqual

\* What a restored lan section leaves of a configuration.
LEMMA LanRestored ==
    ASSUME network \in Network, NEW l \in Lan, network' = WithLan(network, l)
    PROVE  network'.lan = l /\ network'.wan = network.wan
  BY WithLanType

\* A household that uses one kind of access point does not use the other.
LEMMA OneKind ==
    ASSUME kinds \subseteq {"wifi", "lan"}, kinds # {"wifi", "lan"}, "lan" \in kinds
    PROVE  "wifi" \notin kinds
<1> SUFFICES ASSUME "wifi" \in kinds PROVE kinds = {"wifi", "lan"}
  OBVIOUS
<1> QED
  OBVIOUS

\* A step without a power cut keeps every part of the invariant.
LEMMA StepKeeps == ASSUME Patient, IInv, Next, ~cut' PROVE OneSwitch' /\ AsRouter' /\ AsWifi' /\ AsLan' /\ CopyIsGood' /\ Told'
<1>1. TypeOK /\ TypeOK' /\ Fixed /\ Fixed'
  BY TypeKept, FixedKept DEF IInv, Fixed
<1>2. home.lan.addr \in Homes /\ home.lan.ports = "lan" /\ home.auto = "unset" /\ home.wan # None
      /\ home.lan \in Lan
  BY <1>1, NetworkParts DEF Fixed, Own, TypeOK
<1>3. cut = FALSE => OneSwitch /\ AsRouter /\ AsWifi /\ AsLan /\ CopyIsGood /\ Told
  BY DEF IInv
<1> USE <1>1, <1>2, <1>3, AddressAssumption, NoneAssumption, NetworkParts, BackupParts
<1> USE DEF TypeOK, Goto, Bound, router_config_backup, WanAuto, config, saved, handler, scripts, plan
<1> USE DEF OneSwitch, AsRouter, AsWifi, AsLan, CopyIsGood, Told, Idle, Ready, Patient, Good
<1>4. CASE WifiAp
  BY <1>4 DEF WifiAp
<1>5. CASE WifiBackup
  <2>1. network.lan = home.lan /\ mode = "router" /\ dhcp = "serve" /\ wifi = "own"
    BY <1>5, CleanIs DEF WifiBackup
  <2>2. backup' = Good'
    BY <2>1, <1>5 DEF WifiBackup
  <2>3. /\ pc' = "wAuto" /\ pc = "wBackup" /\ "wifi" \in kinds
        /\ UNCHANGED <<network, dhcp, wifi, mode, file, oldlan, entry, opening, closing, cron, check,
                       told, home, kinds, edits, cut>>
    BY <1>5 DEF WifiBackup
  <2> QED
    BY <2>1, <2>2, <2>3
<1>6. CASE WifiAuto
  BY <1>6, WithAutoType, CleanIs DEF WifiAuto
<1>7. CASE WifiDhcp
  <2>1. CASE pc' = "wUndo"
    BY <2>1, <1>7 DEF WifiDhcp
  <2>2. ASSUME NEW a \in Leases, Bound(a), pc' = "wMode" PROVE (OneSwitch /\ AsRouter /\ AsWifi /\ AsLan /\ CopyIsGood /\ Told)'
    <3>1. /\ network' \in Network /\ network'.lan.addr = a /\ network'.lan.ports = network.lan.ports
          /\ network'.wan = network.wan
      BY <2>2, BoundType
    <3>2. mode # "wifi" => Clean(network) = home /\ network.lan = home.lan /\ network.wan = home.wan
      BY <1>7, CleanIs DEF WifiDhcp
    <3>3. file' # None
      BY <2>2
    <3>4. "lan" \in kinds' => Clean(file') = home'
      BY <1>7, <2>2, <3>2 DEF WifiDhcp
    <3> QED
      BY <1>7, <2>2, <3>1, <3>2, <3>3, <3>4 DEF WifiDhcp
  <2> QED
    BY <1>7, <2>1, <2>2 DEF WifiDhcp
<1>8. CASE WifiSetMode
  BY <1>8 DEF WifiSetMode
<1>9. CASE WifiDropDhcp
  BY <1>9 DEF WifiDropDhcp
<1>10. CASE WifiBridge
  BY <1>10 DEF WifiBridge
<1>11. CASE WifiUndo
  BY <1>11, WithAutoType, CleanIs DEF WifiUndo
<1>12. CASE WifiUndoLan
  BY <1>12, WithLanType, CleanIs DEF WifiUndoLan
<1>13. CASE DisableWifi
  <2>1. backup = Good
    BY <1>13 DEF DisableWifi
  <2>2. dhcp' = "serve"
    BY <1>13, <2>1 DEF DisableWifi
  <2>3. network' = WithLan(network, home.lan) /\ network \in Network
    BY <1>13, <2>1 DEF DisableWifi
  <2>4. network'.lan = home.lan /\ network'.wan = network.wan
    BY <2>3, <1>2, LanRestored
  <2> QED
    BY <1>13, <2>1, <2>2, <2>4 DEF DisableWifi
<1>14. CASE DisableAuto
  BY <1>14, WithAutoType, CleanIs DEF DisableAuto
<1>15. CASE DisableRadio
  BY <1>15 DEF DisableRadio
<1>16. CASE DisableMode
  <2>1. Clean(network) = home /\ network.auto = "unset"
    BY <1>16, CleanIs DEF DisableMode
  <2>2. told' = home.lan.addr
    BY <1>16 DEF DisableMode
  <2> QED
    BY <1>16, <2>1, <2>2 DEF DisableMode
<1>17. CASE LanAp
  BY <1>17 DEF LanAp
<1>18. CASE LanBackup
  BY <1>18, SaveLanType, CleanIs DEF LanBackup
<1>19. CASE LanConnect
  <2>1. CASE UNCHANGED <<network, file>> /\ pc' = "idle"
    BY <2>1, <1>19 DEF LanConnect
  <2>2. ASSUME NEW a \in Leases, Bound(a),
               pc' = IF a = network.lan.addr THEN "idle" ELSE "lMode"
        PROVE  (OneSwitch /\ AsRouter /\ AsWifi /\ AsLan /\ CopyIsGood /\ Told)'
    <3>1. /\ network' \in Network /\ network'.lan.addr = a /\ network'.wan = network.wan
          /\ network'.auto = network.auto
      BY <2>2, BoundType
    <3>2. mode = "router" => Clean(network) = home /\ network.lan.addr \in Homes /\ pc' = "lMode"
      BY <1>19, <2>2, CleanIs DEF LanConnect
    <3>3. file' # None /\ Clean(file') = home'
      BY <1>19, <2>2, <3>2 DEF LanConnect
    <3> QED
      BY <1>19, <2>2, <3>1, <3>2, <3>3 DEF LanConnect
  <2> QED
    BY <1>19, <2>1, <2>2 DEF LanConnect
<1>20. CASE LanSetMode
  BY <1>20 DEF LanSetMode
<1>21. CASE DisableLan
  BY <1>21 DEF DisableLan
<1>22. CASE Open
  BY <1>22, BridgedType, CleanIs DEF Open
<1>23. CASE OpenCron
  BY <1>23 DEF OpenCron
<1>24. CASE CloseCron
  BY <1>24 DEF CloseCron
<1>25. CASE CloseMove
  BY <1>25, OwnType, CleanIs DEF CloseMove
<1>26. CASE CloseClean
  BY <1>26, WithAutoType, CleanIs DEF CloseClean
<1>27. CASE CheckStart
  BY <1>27 DEF CheckStart
<1>28. CASE CheckGateway
  BY <1>28 DEF CheckGateway
<1>29. CASE CheckRenew
  BY <1>29, WithAddrType, CleanIs DEF CheckRenew
<1>30. CASE Edit
  <2>1. PICK h \in Homes, w \in Wans : network' = Own(h, w)
    BY <1>30 DEF Edit
  <2>2. /\ home' = network' /\ told' = None /\ mode = "router" /\ cut = FALSE
        /\ pc = "idle" /\ opening = "none" /\ closing = "none" /\ check = "none"
        /\ edits > 0
        /\ UNCHANGED <<dhcp, wifi, mode, backup, file, pc, oldlan, entry, opening, closing, cron,
                       check, kinds, cut>>
    BY <1>30 DEF Edit, Quiet
  <2>3. network' \in Network /\ network'.auto = "unset"
    BY <2>1, OwnType
  <2>4. Clean(network') = home'
    BY <2>2, <2>3, WithAutoType, NetworkEqual DEF Clean
  <2>5. "lan" \in kinds => "wifi" \notin kinds
    <3>1. kinds # {"wifi", "lan"} /\ kinds \subseteq {"wifi", "lan"}
      BY <2>2 DEF Fixed
    <3> QED
      BY <3>1, OneKind
  <2>6. "lan" \in kinds => file = None
    BY <2>2, <2>5
  <2> QED
    BY <2>2, <2>3, <2>4, <2>6
<1>31. CASE PowerCut
  BY <1>31 DEF PowerCut
<1> QED
  BY <1>4, <1>5, <1>6, <1>7, <1>8, <1>9, <1>10, <1>11, <1>12, <1>13, <1>14, <1>15, <1>16, <1>17, <1>18,
     <1>19, <1>20, <1>21, <1>22, <1>23, <1>24, <1>25, <1>26, <1>27, <1>28, <1>29, <1>30, <1>31
  DEF Next, Request, Handler, OpenStep, CloseStep, CheckStep

\* Every step keeps the invariant.
LEMMA NextIInv == Patient /\ IInv /\ [Next]_vars => IInv'
<1> SUFFICES ASSUME Patient, IInv, [Next]_vars PROVE IInv'
  OBVIOUS
<1>1. CASE Next
  <2>1. TypeOK' /\ Fixed'
    BY <1>1, TypeKept, FixedKept DEF IInv, Fixed
  <2>2. cut' = FALSE => (OneSwitch /\ AsRouter /\ AsWifi /\ AsLan /\ CopyIsGood /\ Told)'
    BY <1>1, StepKeeps
  <2> QED
    BY <2>1, <2>2 DEF IInv, Fixed, TypeOK
<1>2. CASE UNCHANGED vars
  BY <1>2 DEF vars, config, saved, handler, scripts, plan, IInv, TypeOK, OneSwitch, AsRouter, AsWifi,
              AsLan, CopyIsGood, Told, Idle, Good
<1> QED
  BY <1>1, <1>2

\* XQAPModule, ap_mode.sh and dhcp_apclient.sh keep the invariant IInv.
THEOREM ConfigInvariant == Patient /\ Spec => []IInv
<1> SUFFICES ASSUME Patient PROVE Spec => []IInv
  OBVIOUS
<1>1. Init => IInv
  BY InitIInv
<1>2. IInv /\ [Next]_vars => IInv'
  BY NextIInv
<1> QED
  BY <1>1, <1>2, PTL DEF Spec

\* Whenever the router rests as a router, it has the household's configuration.
THEOREM ConfigKept == Patient /\ Spec => []RouterConfigKept
<1>1. IInv => RouterConfigKept
  <2> SUFFICES ASSUME IInv, Quiet, mode = "router", cut = FALSE
               PROVE  network = home /\ dhcp = "serve" /\ wifi = "own"
    BY DEF RouterConfigKept, IInv, TypeOK
  <2>1. Clean(network) = home /\ network.auto = "unset" /\ dhcp = "serve" /\ wifi = "own"
    BY DEF IInv, AsRouter, Quiet, Idle
  <2>2. network \in Network /\ home \in Network /\ home.auto = "unset"
    BY DEF IInv, TypeOK, Own
  <2>3. network.lan = home.lan /\ network.wan = home.wan
    BY <2>1, CleanIs DEF IInv, Fixed, TypeOK
  <2> QED
    BY <2>1, <2>2, <2>3, NetworkEqual
<1> QED
  BY <1>1, ConfigInvariant, PTL

\* From either kind of access point there is a way back to that configuration.
THEOREM AlwaysCanGoBack == Patient /\ Spec => []CanGoBack
<1>1. IInv => CanGoBack
  BY DEF IInv, CanGoBack, AsWifi, AsLan, CopyIsGood, OneSwitch, Quiet, Good, Clean, TypeOK
<1> QED
  BY <1>1, ConfigInvariant, PTL

\* An access point does not serve dhcp.
THEOREM AlwaysSilent == Patient /\ Spec => []SilentAccessPoint
<1>1. IInv => SilentAccessPoint
  BY DEF IInv, SilentAccessPoint, AsWifi, AsLan, Quiet, Idle, TypeOK
<1> QED
  BY <1>1, ConfigInvariant, PTL

\* The page is told the address that is restored.
THEOREM AlwaysToldTheAddress == Patient /\ Spec => []ToldTheAddress
<1>1. IInv => ToldTheAddress
  <2> SUFFICES ASSUME IInv, Quiet, mode # "lan", told # None, cut = FALSE
               PROVE  network.lan.addr = told
    BY DEF ToldTheAddress, IInv, TypeOK
  <2>1. mode = "router" => network.lan = home.lan
    BY CleanIs DEF IInv, AsRouter, Quiet, Idle, Fixed, TypeOK
  <2> QED
    BY <2>1 DEF IInv, Told, Quiet, Idle, TypeOK
<1> QED
  BY <1>1, ConfigInvariant, PTL

(***************************************************************************)
(* Power cuts.  A household whose power may fail during a switch, and that *)
(* does not edit its configuration, cannot lose its address: the copy      *)
(* .network.mode.router is made by the first lease, when network still has *)
(* the address, and only the "mv" of close takes it away again.  The uci   *)
(* file backup does not matter: a switch that is tried again after a cut   *)
(* overwrites it with whatever address the router has by then.             *)
(***************************************************************************)
\* Who has cuts does not edit: a copy is never older than the configuration.
CutsKeepStill == \A s \in Scenarios : s.cuts > 0 => s.edits = 0

\* What a switch and a power cut in the middle of one leave of the address.
NoLoss ==
    /\ closing # "none" => Idle /\ opening = "none" /\ mode = "router"
    /\ opening # "none" => mode = "lan"
    /\ ~Idle => opening = "none" /\ closing = "none"
    /\ pc \in {"dAuto", "dRadio", "dMode", "wDrop", "wBridge"} => mode = "wifi"
    /\ mode # "router" \/ closing \in {"due", "move"} \/ pc \in {"wMode", "lMode"} => file # None
    /\ pc \in {"wDhcp", "wUndo", "wLan"} /\ file = None => oldlan = home.lan
    /\ IF file = None THEN network.lan = home.lan ELSE file.lan = home.lan

\* It is wanted of the scenarios with power cuts, those to come and those gone.
CutInv == cut \/ cuts > 0 => edits = 0 /\ NoLoss

\* A step of such a household keeps it.
LEMMA NoLossKept ==
    ASSUME Patient, TypeOK, edits = 0, NoLoss, Next
    PROVE  edits' = 0 /\ NoLoss'
<1>1. TypeOK'
  BY TypeKept
<1> USE <1>1, NoneAssumption, NetworkParts, BackupParts
<1> USE DEF NoLoss, TypeOK, Goto, WanAuto, config, saved, handler, scripts, plan, Idle, Ready, Patient
<1>4. CASE WifiAp
  BY <1>4 DEF WifiAp
<1>5. CASE WifiBackup
  BY <1>5 DEF WifiBackup
<1>6. CASE WifiAuto
  BY <1>6, WithAutoType DEF WifiAuto
<1>7. CASE WifiDhcp
  BY <1>7, BoundType DEF WifiDhcp
<1>8. CASE WifiSetMode
  BY <1>8 DEF WifiSetMode
<1>9. CASE WifiDropDhcp
  BY <1>9 DEF WifiDropDhcp
<1>10. CASE WifiBridge
  BY <1>10 DEF WifiBridge
<1>11. CASE WifiUndo
  BY <1>11, WithAutoType DEF WifiUndo
<1>12. CASE WifiUndoLan
  BY <1>12, WithLanType DEF WifiUndoLan
<1>13. CASE DisableWifi
  BY <1>13 DEF DisableWifi
<1>14. CASE DisableAuto
  BY <1>14, WithAutoType DEF DisableAuto
<1>15. CASE DisableRadio
  BY <1>15 DEF DisableRadio
<1>16. CASE DisableMode
  BY <1>16 DEF DisableMode
<1>17. CASE LanAp
  BY <1>17 DEF LanAp
<1>18. CASE LanBackup
  BY <1>18 DEF LanBackup
<1>19. CASE LanConnect
  BY <1>19, BoundType DEF LanConnect
<1>20. CASE LanSetMode
  BY <1>20 DEF LanSetMode
<1>21. CASE DisableLan
  BY <1>21 DEF DisableLan
<1>22. CASE Open
  BY <1>22 DEF Open
<1>23. CASE OpenCron
  BY <1>23 DEF OpenCron
<1>24. CASE CloseCron
  BY <1>24 DEF CloseCron
<1>25. CASE CloseMove
  BY <1>25 DEF CloseMove
<1>26. CASE CloseClean
  BY <1>26, WithAutoType DEF CloseClean
<1>27. CASE CheckStart
  BY <1>27 DEF CheckStart
<1>28. CASE CheckGateway
  BY <1>28 DEF CheckGateway
<1>29. CASE CheckRenew
  BY <1>29, BoundType DEF CheckRenew
<1>30. CASE Edit
  BY <1>30 DEF Edit
<1>31. CASE PowerCut
  BY <1>31 DEF PowerCut
<1> QED
  BY <1>4, <1>5, <1>6, <1>7, <1>8, <1>9, <1>10, <1>11, <1>12, <1>13, <1>14, <1>15, <1>16, <1>17, <1>18,
     <1>19, <1>20, <1>21, <1>22, <1>23, <1>24, <1>25, <1>26, <1>27, <1>28, <1>29, <1>30, <1>31
  DEF Next, Request, Handler, OpenStep, CloseStep, CheckStep

\* Power cuts are used up and never given back.
LEMMA CutsOnlyFall == ASSUME TypeOK, Next PROVE cut' \/ cuts' > 0 => cut \/ cuts > 0
<1>1. CASE PowerCut
  BY <1>1 DEF PowerCut
<1>2. CASE ~PowerCut
  BY <1>2 DEF Next, Request, Handler, OpenStep, CloseStep, CheckStep, plan,
         WifiAp, WifiBackup, WifiAuto, WifiDhcp, WifiSetMode, WifiDropDhcp, WifiBridge, WifiUndo,
         WifiUndoLan, DisableWifi, DisableAuto, DisableRadio, DisableMode, LanAp, LanBackup, LanConnect,
         LanSetMode, DisableLan, Open, OpenCron, CloseCron, CloseMove, CloseClean, CheckStart,
         CheckGateway, CheckRenew, Edit
<1> QED
  BY <1>1, <1>2

\* Power cuts leave the address where it can be found.
THEOREM CutInvariant == Patient /\ CutsKeepStill /\ Spec => []CutInv
<1> SUFFICES ASSUME Patient, CutsKeepStill PROVE Spec => []CutInv
  OBVIOUS
<1>1. Init => CutInv
  <2> SUFFICES ASSUME Init, cut \/ cuts > 0 PROVE edits = 0 /\ NoLoss
    BY DEF CutInv
  <2>1. PICK s \in Scenarios : edits = s.edits /\ cuts = s.cuts /\ cut = FALSE
    BY DEF Init
  <2>2. edits = 0
    BY <2>1 DEF CutsKeepStill
  <2> QED
    BY <2>2 DEF Init, NoLoss, Idle
<1>2. IInv /\ CutInv /\ [Next]_vars => CutInv'
  <2> SUFFICES ASSUME TypeOK, CutInv, [Next]_vars, cut' \/ cuts' > 0 PROVE edits' = 0 /\ NoLoss'
    BY DEF IInv, CutInv
  <2>1. CASE Next
    BY <2>1, CutsOnlyFall, NoLossKept DEF CutInv
  <2>2. CASE UNCHANGED vars
    BY <2>2 DEF vars, config, saved, handler, scripts, plan, CutInv, NoLoss, Idle
  <2> QED
    BY <2>1, <2>2
<1>3. Spec => []IInv
  BY ConfigInvariant
<1> QED
  BY <1>1, <1>2, <1>3, PTL DEF Spec

\* Whatever step of a switch the power fails at, and however often, the address
\* of the household is still in network, in the backup or in the copy: with cuts
\* by CutInv, without by the invariant of the switches.
THEOREM AddressIsNeverLost == Patient /\ CutsKeepStill /\ Spec => []AddressSurvives
<1>1. IInv /\ CutInv => AddressSurvives
  <2> SUFFICES ASSUME IInv, CutInv PROVE AddressSurvives
    OBVIOUS
  <2>1. CASE cut \/ cuts > 0
    BY <2>1 DEF CutInv, NoLoss, AddressSurvives
  <2>2. CASE cut = FALSE
    <3>1. TypeOK /\ Fixed /\ OneSwitch /\ AsRouter /\ AsWifi /\ AsLan /\ CopyIsGood
      BY <2>2 DEF IInv, Fixed
    <3>2. CASE mode = "wifi" \/ pc = "wMode"
      BY <3>1, <3>2 DEF AsWifi, Good, AddressSurvives
    <3>3. CASE mode = "lan" \/ pc = "lMode"
      BY <3>1, <3>3 DEF AsLan, AddressSurvives
    <3>4. CASE mode = "router" /\ closing \in {"due", "move"}
      <4>1. file # None /\ Clean(file) = home
        BY <3>1, <3>4 DEF OneSwitch, AsRouter, CopyIsGood
      <4> QED
        BY <4>1, <3>1, CleanIs DEF TypeOK, AddressSurvives
    <3>5. CASE mode = "router" /\ closing \in {"none", "clean"} /\ pc \notin {"wMode", "lMode"}
      <4>1. Clean(network) = home
        BY <3>1, <3>5 DEF AsRouter
      <4> QED
        BY <4>1, <3>1, CleanIs DEF TypeOK, AddressSurvives
    <3> QED
      BY <3>1, <3>2, <3>3, <3>4, <3>5 DEF TypeOK
  <2> QED
    BY <2>1, <2>2 DEF IInv, TypeOK
<1>2. Patient /\ Spec => []IInv
  BY ConfigInvariant
<1>3. Patient /\ CutsKeepStill /\ Spec => []CutInv
  BY CutInvariant
<1> QED
  BY <1>1, <1>2, <1>3, PTL
=============================================================================
