# Verification of the router firmware's control programs

The repository is the root file system of a Xiaomi R1CM router (OpenWrt with a
Lua web interface, firmware 2.9.40).  Its own logic is in shell and Lua
programs that share files in `/tmp`, nvram, uci configuration and the firewall,
and that run at the same time: HTTP handlers in two fcgi processes
(`etc/init.d/sysapihttpd:22-25`), scripts they fork, cron jobs, boot scripts.
There are almost no locks between them.  This directory models the parts that
change shared or persistent state, checks the models with TLC on small
instances, and proves the main theorems with TLAPS for every instance.

    tlc -workers 2 -config <run>.cfg <MC module>     # a run of the table below
    tlapm <...>Proofs.tla                            # the proofs

In the modules, an operator whose comment begins with "mutation:" or "With a
bug:" is not used by the specification.  It is a wrong version of the operator
after it, kept to show that a property notices the difference.

## 1. The system

| part | state it keeps | operations | what is hard | status |
|---|---|---|---|---|
| pid-file guards (`flash.sh`, `crontab_rom.sh`, `otapredownload`, `flash_check.sh`) | `/tmp/pid_xxxx`, `/tmp/crontab_pid_xxxx`, the process table | read, `kill -0`, write, exit | test and write are two steps; pids are recycled; files are never removed | `PidGuard` |
| firmware upgrade (`controller/api/xqsystem.lua`, `XQSysUtil.lua`, `checkupgrade.lua`, `otapredownload`, `flash.sh`) | lock file with the status, pid files, images, `flag_ota_reboot` | upgrade, manual flash, upload, cancel, hourly upgrade, status | requests, background scripts and cron decide on state that changes under them; a cancel kills programs; programs die | `RomUpgrade` |
| flashing and boot (`flash.sh`, `31_restore_nvram`, `90_mount_bind_etc`, `boot_check`, reset) | nvram in memory and in flash, `/data/etc`, the firmware | stage, commit, burn; restore, erase, migrate, announce | power cuts between any two steps | `OtaBoot` |
| guest wifi sharing (`wifishare.sh`, `XQWifiShare.lua`, `misns.lua`) | uci `wifishare`, the firewall's rules, its include section, hardware NAT | allow, deny, blacklist, switch, prepare, firewall restart | records change outside the firewall's lock; forked scripts in any order; clocks | `WifiShare` |
| image download (`XQDownloadUtil.lua`) | the daemon's downloads; `DOWNLOAD_TYPE`, `PAUSED_IDS`, `ROM_DOWNLOAD_ID` | list, pause, add, poll, resume, delete; wget; cancel | killed between any two steps; two downloaders of one image; errors of the daemon | `RomDownload` |
| net mode switching (`XQAPModule.lua`, `ap_mode.sh`, `dhcp_apclient.sh`) | network, dhcp, wireless, mode; two places for a backup | become a wifi or wired access point, fail, go back; forked and cron scripts | a legal sequence that loses the configuration; a uci commit is a step of its own | `NetMode` |
| sessions and passwords (dispatcher, `sauth.lua`, `XQSecureUtil.lua`, `misystem.lua`, the wizard) | session files, nonce marks, account, nvram copy, `INITTED` | login, read, expire, logout, change, wizard, welcome page | reading a session rewrites it; nothing is locked; the wizard undoes its work on failure | `Login` |
| `crypto-js` (in every page that sends a password; `www/js`) | buffers, hash and cipher objects | process, finalize, reset, format, parse, derive | data in pieces of any size; words with something left behind the data | `WordArrays`, `Hashers`, `Ciphers`, `CryptoJs` |
| device access control, VPN, port forwarding, QoS, boot recovery | uci, firewall, nvram counters | rule edits, reloads | records and rules drift apart | not modelled |

The complete list, with what is left out and why, is "components" in
`PROJECT.json`.

How the parts interact.  A request first passes `check_show_syslock` of the
dispatcher, which refuses it while `isUpgrading` and otherwise removes a stale
lock file.  `upgradeRom` forks `crontab_rom.sh`, which runs `checkupgrade.lua`,
which waits for `flash.sh`; `flashRom` forks `flash.sh` directly; cron starts
`otapredownload`, which ends in `flash.sh` too.  All of them write the status
into the lock file.  `flash.sh` kills what one `ps` lists, commits nvram flags and
burns; the flags tell the preinit scripts of the next boot to migrate the
configuration, and `boot_check` to announce the upgrade.  `checkupgrade.lua` and
`otapredownload` both fetch the image with `syncDownload`; `RomUpgrade` has one
step for it, `RomDownload` what happens inside.  Pages reach all of this through
a session (`Login`), with passwords and nonces that crypto-js made.  Guest sharing
and net mode switching are apart: they meet the rest of the system in firewall
restarts and in the configuration.

## 2. The modules

**`Mutex`** is the promise of a guard: at most one holder.
**`PidGuard`** is the guard itself, the same text in three scripts.  `Start`,
`Refuse`, `Pass` and `Write` are the shell's steps (`flash.sh:61-78`); `Exit`
ends or kills any set of them at any step; `Recycle`/`OtherExit` give a pid to a
program that has nothing to do with it; `Reboot` empties `/tmp`.  `FlashCheck` is
`flash_check.sh`.  The constant `Overlap` says whether a second script may be
started while one is between its test and its write.

**`RomUpgrade`** has one variable per shared file and one per kind of program.

| variable | in the code |
|---|---|
| `lock` | `/tmp/upgrade_lock`: absent, or the status it holds (`XQSysUtil.lua:606-619`) |
| `cronPid`, `flashPid` | the two pid files; modelled by two instances of `PidGuard` |
| `otaFlag` | nvram `flag_ota_reboot` |
| `image` | `rom.bin` and `customrom.bin`: absent, good or bad for `mkxqimage -v` |
| `web` | what each fcgi process is doing for a request |
| `sh`, `lua` | each `crontab_rom.sh` and the `checkupgrade.lua` it runs |
| `ota`, `flash` | `otapredownload` and each `flash.sh` |

Handlers are cut where shared state is read or written: `Arrive` is the lock test
of the dispatcher together with the handler's start, `GateUnlock` the later
`sysUnlock`, `UpgradeDecide`/`WebLock`/`WebFork` are `upgradeRom`,
`FlashStatus`/`FlashVerify`/`FlashRemove` are `flashRom`, `Cancel*` the seven
steps of `cancelUpgrade`, `Upload*` is `uploadRom`.  `checkUpgradeStatus` is
translated branch by branch; one evaluation is one step, and so is a cancel's loop
over `ps`.  The loop of `flash.sh` (`flash.sh:168-172`) is not: `FlashList` is the one
`ps`, `FlashKill` the kill of one program of that list, in any order, and
`FlashKilled` the end of the loop.  What is still to be killed goes on meanwhile, and
what it forks is in no list and survives; a killed program's id is dropped from the
list when the program is started anew, since it has a new pid (`OtaWake`).
Programs may be killed at every step (`FlashStop`, `FlashKill`,
`CancelKill*`), may die of a Lua error (`LuaError`), and the router may lose power
(`PowerCycle`).  The wait for the flash permission ends at any time; the
permission flag itself is not modelled yet.

**`OtaBoot`** follows one router through flashing and booting.  `ram` is nvram in
memory, `nv` in flash; `nvram commit` copies all of it, whoever calls it, which
is why commits of other programs (`OtherCommit`) matter.  `conf` is the firmware
version the configuration is written for, or `Empty` after the overlay was
erased.  Each action is a step of one script, named after what it does; `PowerCut`
may follow any of them.
**`SafeUpgrade`** is what this promises to the owner of the router: services only
run on a configuration that fits the firmware.

**`WifiShare`** has the uci sections (`dev`, `black`, `disabled`, `include`), the firewall (`installed`, `chain`, `rule`), the hardware NAT switch, the firewall's
lock and the processes.  Handlers read uci in one step and write it in a later
one, without the lock; a script reads the blacklist (`Start`) before it gets the
lock; the command and the clean-up `share_access_timeout` that follows it are two
steps under the lock.  `rule[m]` stands for the pair of rules every device has:
let in until a date, dropped from it on.  `FirewallRestart` may happen whenever
the lock is free.  An edit of the blacklist takes a list of macs, as typed: `merge`
(`XQWifiShare.lua:257-267`) drops those that are there already, in the same spelling,
and neither repetitions within the list nor a mac in small letters, so `black` may
have a device several times; iptables, which reads any spelling, drops it all the
same, while the scripts' own look-ups go by the capitals (`Devices`, `Capitals`).

**`RomDownload`** is `syncDownload` and `cancelDownload`.  `st` is the status of
every download in the daemon; the image is one hidden download, `Rom`, whoever
asks for it.  Each request to the daemon (api 503, 504, 505, 507 ...) and each
preference written is a step, after which a cancel may kill the program.  The loop
`Seen`/`Broken`/`Unseen` has the code's two counters, without news and without an
answer.  An `upgrade` does not start while a cancel is tidying up, because
`cancelUpgrade` gives the system lock back last (`XQSysUtil.lua:741-763`).

**`NetMode`** has the configuration (`network`, `dhcp`, `wifi`, `mode`), both places
where it is put aside (`backup`, the uci file; `file`, `.network.mode.router`), the
handlers (`pc`), the forked scripts `opening` and `closing`, and cron's
`check_gw`.  A step is the code between two uci commits.  `home` is a history
variable: the configuration the household chose, against which everything is
judged.

**`WordArrays`, `Hashers`, `Ciphers`, `CryptoJs`.**  Below is crypto-js's word
array, bytes in words whose last one may hold more than belongs to the data;
`concat`, `clamp`, encoders.  `Hashers` is `BufferedBlockAlgorithm`, the hasher,
HMAC, EvpKDF and PBKDF2; `Ciphers` the modes, the paddings, RC4, the cipher object
and the formats.  They have operators only.  `CryptoJs` is a page that uses them:
objects that take a message in pieces, are finished, and reset.  The rounds of a
hash or a block cipher are constants (`compress`, `encryptBlock`,
`decryptBlock`), assumed to be what they should be; the theorems hold for every
choice.  **`Delivery`** is the promise of progressive decryption: nothing is handed
out that is taken back.  The repository carries each file of crypto-js up to three
times, minified in one line; "map" names the copies.

**`Login`** has a variable per shared file and a record per tab (`req`) with the
step the request is at and what it carries.  `sauth.read` is the five steps
`Sane`, `Load`, `Check`, `Stamp`, `Write` (`sauth.lua:83-115`), used by the dispatcher
and by `reap`, which reads every session on every login; `Second` may come between any
two of them, so that a session is judged by an atime that is old, and written with a
stamp that is.  A request is as slow as `Delay` allows: that many seconds from loading
a session until it is written.  A new session is the two steps `Token` (made and
stamped) and `Give` (written).  `ReadNonce`, `WriteNonce`
and `CheckUser` are `checkNonce` and `checkUser`; then the steps of the
password change, the wizard and the welcome page, each write one step.  `logout`
needs a session, since its flag argument is the one that its node inherits.
A request without a session that should have one is taken for a login
(`dispatcher.lua:679-684`); what it carries is not a login's password, but its nonce
is taken (`ReadNil`).

## 3. The runs

| run | what happens in it | what it shows |
|---|---|---|
| `guard_serial` | 4 pids, kills, recycled pids, reboots | whoever is past the guard is seen (`CheckSeesHolder`); refinement of `Mutex` (`ImplementsMutex`) |
| `rom_web` | 2 requests at a time among upgrade, flash, other | a working upgrade is always visible to the interface (`UpgradeVisible`); status 3 is true (`DownloadingIsTrue`); of requests that decide before any has taken the lock, one starts `checkupgrade.lua` (`OneUpgrade`) |
| `rom_ota` | the hourly upgrade against uploads, flashes, upgrades | the guard of `flash.sh` behaves as `PidGuard` (`FlashGuard`); from its commit on no request, script or cron job starts (`NothingStarts`) |
| `rom_live` | cancels at every step, a dying `checkupgrade.lua`, two `flash.sh` inside the guard | every upgrade ends (`UpgradeEnds`); nobody is locked out for ever (`NotLockedOut`); a cancel gives the router back (`CancelUnlocks`) |
| `rom_download` | an upgrade with cancels at every step; an upgrade and the hourly one; every answer of the daemon | the user's downloads run again (`DownloadsGivenBack`); no hidden download stays (`NothingLeftRunning`); every download ends (`DownloadEnds`) |
| `boot_cuts` | 2 upgrades, 3 power cuts, resets, commits of others | services only run on a configuration that fits (`ServicesFit`), what is still to be done is committed (`Recoverable`), refinement of `SafeUpgrade` (`ImplementsSafeUpgrade`), the announcement is sent (`PushSent`) |
| `share_access` | 2 devices, allow and deny, prepares, expiry, restarts | what the firewall lets in for a day is what the records say (`AdmittedIsRecorded`) |
| `share_switch` | 2 delayed scripts, on and off, blacklist edits with a mac given twice, in small letters, and two macs | blacklist (`BlacklistApplied`), include section and hardware NAT (`SwitchSettled`) settle; a blacklisted device is cut off (`BlockedInTheEnd`) |
| `net_mode` | households with one kind of access point and two edits, with both kinds, and with both and two power cuts; failures at each step | the configuration comes back (`RouterConfigKept`, `CanGoBack`, `AddressSurvives`), the page is told the right address (`ToldTheAddress`), a wired access point gets its bridge (`BridgeOpens`) |
| `v_entry` | wifi access point on and off, an edit, wired access point | *violated*: the wired mode finds a stale copy and makes none of its own (`EntryIsBackedUp`) |
| `crypto` | every mode, padding, format, hash and derivation; messages of 0 to 13 bytes cut up in every way | results are those of the whole message (`CiphertextIsReference`, `MacIsFunction`, `KeyIsFunction`); decryption delivers it (`Delivers`, refinement of `Delivery`) |
| `login` | 3 requests of two devices, of every kind, all steps interleaved; 4 seconds, up to one of them between a request's load and its write; a power cut | a session without a file comes back only by a request that had loaded it before (`DeadStays`); one used in time is kept, whatever old atimes others judge and write (`SessionKept`); a nonce is taken once (`NonceOnce`), a router that is set up never has the default password (`InitedIsChosen`), one that is not can be set up (`CanFinish`), the password is the one the user was told (`ToldIsSet`) |

The runs check `TypeOK` of `RomUpgrade`, `WifiShare`, `RomDownload` and `CryptoJs`;
all of them are proved too.  The inductive invariants `IInv` of
`PidGuard`, `OtaBoot`, `NetMode` and `Login` include or imply theirs and hold on the
same instances (add `IInv` to the `INVARIANTS` of a configuration to see it); since
they are theorems the runs leave them out.  The violated run is a
disagreement between the code and a comment of it (`dhcp_apclient.sh:79`);
"findings" in `PROJECT.json` quotes both sides.

**Bounds.**  Two fcgi processes is what the router runs, so two requests in
`rom_web` are all there can be; elsewhere one request is enough next to the
programs it competes with.  Two pids per script let the second starter meet the
first in every state, and let a pid be used again.  `guard_serial` has four pids:
one that holds, one inside the guard, one recycled and one free.  Two upgrades in
`boot_cuts` let a second one begin on whatever the first left, three power cuts
let one hit flashing, one the migration after it and one the boot after that; the
theorems cover any number.  In `WifiShare` a device is let in for one tick and
prepared for none, and the clock reaches 2, so a grant can be fresh, on its last
day and past it.  `Lists` of `share_switch` are the three that differ for `merge`: a
mac twice, a mac in small letters, and that one with another.  Two devices show the effect of one script on the other's
records and the list of more than one mac.  In `rom_download` one poll without
news is too many (`Limit = 1`; 60 in the code), which only makes downloads shorter,
and two user downloads let one run while the other is paused.  Two addresses,
leases and wan settings in `net_mode` tell what is restored from what was there;
the theorems cover any number.  `crypto` has 4-bit bytes, words of two of them,
cipher blocks of two words and hash blocks of three: the smallest sizes at which
a byte, a word, a block and a carry over two words differ; `Sizes` up to 5 cuts
inside a word, at a word, at a block and behind one.  Three requests in `login` are
the least that set a router up (login, wizard) and then change it or show the welcome
page, and that log in and have two others read, reap or end the session; all its
properties are theorems for any number of them.  A session time of 3 is the least from
which two requests, slow by a `Delay` of 1, leave something (3 - 2), and in the fourth
second it is over.

**Assumptions of the passing runs.**  `Overlap = FALSE` in `guard_serial`,
`rom_web` and `rom_ota`: no second starter reads a pid file in the few
milliseconds between another's test and write.  `rom_live` runs without it.
With two requests the lock file can vanish during an upgrade (`GateUnlock` of a
request that tested before), without harm to the properties above, since the
status is computed from the processes; and `FlashRemove` of one request can remove
the image another `flash.sh` is about to verify, which makes that one fail.
`Commits` in `boot_cuts` leaves out the moment between `nvram unset
flag_upgrade_push` and the push: a commit of another program and a power cut
right there lose the announcement.  In `share_switch` sharing is not switched
again while a switch is pending (`Hasty = FALSE`): two switches within four
seconds may run in either order.  In `rom_download` the daemon accepts a download
it is asked for (`Errors` leaves out "add" and "redo"): when it does not,
`XQDownloadUtil.lua:168-174` and `194-198` go on with wget and leave the user's
downloads paused.  Cancels come with one downloader only, and not between the
daemon's answer and the note of the id (`InGap = FALSE`).  In `net_mode` a switch
is not asked for while a forked script of the last one is due (`Hasty = FALSE`),
`check_gw` is done within the 5 s that "close" waits (`Lags = FALSE`), who edits
the configuration uses one kind of access point, and whose power fails does not
edit.  In `login` one request at a time
sets the password, a device sends one request with a nonce at a time, and the
wizard is not sent to a router that is set up (`Overlaps = FALSE`,
`Again = FALSE`).  `DeadStays` and `SessionKept` need none of that, but a request takes
at most `Delay` seconds from loading a session until it has written it; the
theorems are for any `Delay`, and `SessionKept` says less the longer it is.  In
`crypto` a
message for ZeroPadding does not end in 0, and the Hex format goes with a key, since
it has no place for a salt (both in `CallerAssumption`); the pieces of a hash have
nothing behind them, as the pages' strings have not; and no unsalted ciphertext of
the jobs begins with the word that marks a salted one.

**Fairness.**  Only running programs are fair: a handler, script, download or cron
job that has begun goes on (weak fairness per program).  Users, cron, power,
errors, firewall restarts and the download daemon are not.  `fw3_trylock` waits
in the kernel's `flock` queue, so whoever waits for the lock gets it: strong
fairness of the step that takes it.  In `RomUpgrade`, downloads end because they
have limits of their own (`XQDownloadUtil.lua:206-260`; `RomDownload` shows it) and
the wait for the permission because of `TIME_LIMIT`.

**Deadlock** is checked, except where a model may stop because its bounds are used
up or its program is over: `boot_cuts` (a `flash.sh` that failed has killed
everything, and nothing happens until the power is switched off), `rom_download`,
`crypto` and `login`.

### What the code does not keep

`v_entry` shows `EntryIsBackedUp` violated.  More expectations do not hold, and are kept
in the modules as definitions that the runs leave out, or hold only for the values the
runs have.  Each can be seen with TLC by a configuration of the module's
MC module with these values:

| definition | constants | what happens |
|---|---|---|
| `OneFlash` (RomUpgrade) | `Web <- TwoWeb`, `Cron <- OneCron`, `Flash <- TwoFlash`, `Kinds <- OnlyFlash`, `OtaOn`, `OtaBackground`, `LuaCrash = FALSE`, `Overlap = TRUE` | two `flash.sh` that start together both pass the guard (`flash.sh:61-77`) |
| `BurnsAlone` (RomUpgrade) | those of `rom_ota` | `flash.sh:165-167` expects to be alone behind its loop, which kills one list of `ps`: `otapredownload`, which crond wakes after the list is made and before crond's own turn, runs on beside the burning |
| `CancelMeansNoFlash` (RomUpgrade) | `Web <- OneWeb`, `Cron <- TwoCron`, `Flash <- TwoFlash`, `Kinds <- UpgradeAndCancel`, the others `FALSE` | a cancel whose test is just before `flash.sh` starts succeeds, and the flashing goes on (`XQSysUtil.lua:745-748`) |
| `DownloadingIsTrue` (RomUpgrade) | `Web <- OneWeb`, `Cron <- OneCron`, `Flash <- TwoFlash`, `Kinds <- OnlyUpgrade`, `LuaCrash = TRUE`, the others `FALSE` | `checkupgrade.lua` dies and "downloading" is shown for ever (`checkupgrade.lua:66`) |
| `AbortReboots` (OtaBoot) | `MaxFw = 1`, `MaxCuts = 1`, `OthersCommit <- NoCommits`, `FairSpec`, no deadlock check | a library is missing: `flash.sh` ends inside `hndmsg`, with everything killed and the reboot behind it never reached (`flash.sh:214-217`) |
| `AllowAllows` (WifiShare) | `Mac <- TwoMacs`, `EarlyLetter <- OneLetter`, `Spelling <- CapitalsOnly`, `Lists <- NoList`, `Admin <- OneAdmin`, `Guest <- NoGuest`, `Job <- OneJob`, `Requests <- AccessOnly`, `Hasty = FALSE`, `AuthTime = 0`, `Timeout = 1`, `MaxTime = 0` | allow, deny, allow: the second allow finds the device's rule and lets nobody in (`wifishare.sh:346-353`) |
| `DownloadsGivenBack` (RomDownload) | `Scenarios <- Crossed` | the second downloader overwrites `PAUSED_IDS`, and a cancel resumes nothing |
| `NothingLeftRunning` (RomDownload) | `InGap = TRUE` | a cancel before the id is noted leaves the hidden download in the daemon |
| `AddressSurvives` (NetMode) | `Scenarios <-` one kind of access point, one edit, one cut | a switch leaves a copy behind, the address is edited, the power fails after the lease of the next switch, and the switch that is tried again writes the lease into the backup (`dhcp_apclient.sh:20`, `XQAPModule.lua`) |
| `EndedStays` (Login) | those of `login` | a request has loaded a session when the user logs out, and writes it again (`sauth.lua:97-113`; `sauth.lua:127` "Kills a session") |
| `OnlyExpired` (Login) | those of `login` | of two reads of a session in its last second one refreshes it, the other judges the atime it loaded before and kills it (`sauth.lua:107`; `sauth.lua:143` "reading the session will kill it if it is expired") |
| `InitedIsChosen` (Login) | `Again = TRUE` | a second wizard fails and puts the default password on a router in use (`misystem.lua:389-391`) |
| `InitedIsChosen`, `ToldIsSet` (Login) | `Overlaps = TRUE` | the welcome page asks, the wizard finishes, the welcome page sets the default password (`index.lua:117-124`) |

## 4. The proofs

`PidGuardProofs` (any set of pids, any number of crashes, recycled pids and
reboots; assumption: starters do not overlap).  `IInv` says that the holder is
the process the file names, that whoever is about to write has seen no holder,
and that only one process is inside the guard.  Mutual exclusion alone is not
inductive: `Write` needs to know that nobody holds, and nobody else may be about
to write.  From it: `MutualExclusion`, `CheckIsTruthful`, and `GuardRefinesMutex`
(every step is a step of `Mutex` or a stutter).

`OtaBootProofs` (any number of upgrades, power cuts and resets; commits of other
programs at any set of points of a running system).  `ServicesFit` is not
inductive, since whether services may start is decided at the beginning of the
boot.  `IInv` adds: what is wrong with the configuration is in the committed
flags (`Recoverable`); `flash.sh` burns only behind its commit (`FlagFirst`);
during preinit memory and flash agree, but for the flag that 31_restore_nvram
sets (`InStep`); from the decision to migrate on, `post_ota` remembers it
(`Migrating`).  There is a lemma for each group of scripts (`PreinitKeeps`,
`RunningKeeps`, `FlashKeeps`), and under it a step per action.  From it:
`TypeCorrect`, `ServicesAlwaysFit`, `AlwaysRecoverable`, `RefinesSafeUpgrade`.

`NetModeProofs` (any addresses, any number of switches, edits and power cuts;
assumption `Patient`: `~Hasty`, `~Lags`, and whoever edits the configuration keeps
to one kind of access point).  That the configuration comes back depends on what
is in both backups at every step of every handler and script, so `IInv` has a part
for each mode (`AsRouter`, `AsWifi`, `AsLan`), what makes a copy a good one
(`CopyIsGood`), that one program changes the configuration at a time
(`OneSwitch`), and what the page was told (`Told`).  From it: `ConfigInvariant`,
`ConfigKept`, `AlwaysCanGoBack`, `AlwaysSilent`, `AlwaysToldTheAddress`.
All of these speak of switches that no power cut hit.  `AddressIsNeverLost` speaks
of those too, if whose power fails does not edit its configuration
(`CutsKeepStill`; section 3 has what happens otherwise).  Its invariant `NoLoss` is
that the copy made by the first lease is the home address, and that without the
copy `network` still has it; the other backup is overwritten by a switch that is
tried again and proves nothing.

`RomUpgradeProofs` (any number of requests, `crontab_rom.sh` and `flash.sh`
processes, crashes and power cycles).  First the two guards are shown to be
PidGuard's, step by step (`FlashRefinesGuard`, `CronRefinesGuard`, with no
assumption); then, if starters do not overlap, `PidGuard`'s inductive invariant holds
of both (`GuardsInvariant`) and at most one `flash.sh` is past its guard
(`OneFlashOnly`).  `AlwaysNothingStarts` needs none of that: whatever could start a
program is stopped with the web server or was running when the list was made, so it
is in the list and dead when the loop is over (`Quiet`).  It does not say that nothing
else runs, which is false (`BurnsAlone`, section 3).  `AlwaysOneUpgrade` (no overlapping starters, no
cancel) is the guard's theorem and one fact more, that each `checkupgrade.lua` has the
`crontab_rom.sh` that started it waiting for it (`Uncancelled`), which holds while the
system is up: later that script may be killed before its child.  `AlwaysDownloading` (no
Lua error, no cancel) adds that status 3 is written by a `checkupgrade.lua` that is
downloading, and that only the kill of `flash.sh` ends it (`Fetching`).
`AlwaysVisible` (no overlapping starters, no hourly upgrade, no cancel) adds what the
status is computed from for every step of an upgrade (`Visible`).  All three speak of a
system that is up, since afterwards nobody is left to ask; cancels stay out of them
because of what section 3 says of cancels.

`WifiShareProofs` (any devices, administrators, guests, scripts, times).  `Shaped`
gives each process the shape of what it is doing, and `TypeCorrect` follows.
`ChainsAreBlacklist` has no assumption: an edit leaves a script behind, a script
applies the list of the moment it gets the lock, and whatever rebuilds the chains
takes that list too (`Applied`).  `AdmittedAreRecorded` assumes that no two
requests for the same device are handled at once (`OneAtATime`); its invariant
(`Recorded`, `ReadOK`) says what a handler that has read a record may still
believe of it, with expiry, restarts, prepares and other devices' scripts in
between.  The two fcgi processes do not ensure it; it is an assumption about the
administrators.
`SwitchesSettle` (`~Hasty`) needs that at most one switch is on its way, and what
it has done so far (`Switching`); `ChainsFollowInclude` is the part of it that
holds at every moment.

`RomDownloadProofs` (any downloads of the user, any size, limit and scenarios).
`TypeCorrect` shows that the loop's counters stay at most one above the limit.
`AlwaysGivenBack` assumes that cancels come with one downloader (`Uncrossed`) and
that the daemon accepts downloads; then what is paused is always what some running
downloader, or the cancel under way, still knows of.  `AlwaysTidy` assumes
`Uncrossed` and `~InGap`.  Both assumptions are needed: section 3 has what
happens without them.

`CryptoJsProofs` (any size of bytes, words and blocks, any jobs, cuts and salts,
any block cipher with an inverse).  `BlockRoundTrip`: in every mode decryptor and
encryptor stay in step and a block comes back.  `HexRoundTrip`: what is written as
digits and read again is the same bytes, clamped.  `AlwaysMac` and `AlwaysKey` suppose
that the rounds of the hash turn a word and a block into a word
(`CompressGivesWords`, a hypothesis of the theorems and not an ASSUME, since TLC
would have to try every block; the hash of the run computes each byte modulo
`Base`).  They rest on one idea, `Absorbed(o, s)`: the state of the hasher is that
after the whole blocks of `s`, its buffer holds what is left of `s`, and whatever
its words hold behind that reads as zero.  `UpdateAbsorbs` says that an update with
any piece takes `s` to `s` and the piece; `FinalizeDigests` that finalization gives
`Digest` of both, whether or not bit and length still fit in the last block
(`MessageIsBlocks`).  On top is `Hmac`, the object with its two keys, and on top of
that the invariant `MacInv`: what the object has absorbed is the inner key and the
first `pos` bytes of the message.  `AlwaysReference` supposes in addition that the
block cipher turns blocks into blocks (`EncryptsBlocks`); its invariant is
`CipherInv`, of which more below, and that of `AlwaysDelivers` is `OpenInv`.
`AlwaysKey` needs little of an invariant, and two functions instead: `EvpIsFunction` and `PbIsFunction` follow the one hasher through
the parts and iterations and show it `Ready` again each time.  The induction over the
blocks of a message is written with sets (`SetInduction`, from the well-foundedness
of the numbers), since the library's induction theorems take an operator.

`AlwaysReference` is for all six modes, RC4, every padding and an encryptor that
is reset.  `Sealing(st, ou, L, j, d)` says that the blocks `ou` and the registers
`st` between them are what one block after the other of the whole padded message
gives, and that the textbook's ciphertext is those blocks; `SealingExists` says that
there are such blocks, whatever the job.  `CipherInv` is that the object's register
is `st[q]` for some number of blocks `q`, that its buffer holds the bytes behind
those up to `pos`, and that what was put out is the first `q` blocks (`HasSealed`).
The chain below it: what `concat` and the paddings do to bytes, whatever lies behind
them (`ConcatBytes`, `PadJoins`: padding what is left in the buffer gives what is left
of the padded message, since `Missing` depends on the whole blocks only); what
`_process` takes and puts out (`TakenWhole`, `TakenAll`, `PutOutAll`, `ProcessWhole`,
`ProcessAll`); and that the registers are those of the textbook (`ModesByTheBook`,
`Rc4ByTheBook`), for which the counters have to be read as numbers:
`DigitsOfNumber`, `CtrCounts`, `GladmanCounts`.  Two things in the model had to
change for it: the guards of `doProcessBlock` excluded each other in the code's
if-else but not in the model's `CASE`, and the textbook's recursive function had a
`CASE` inside the recursion, which the prover reads wrongly; its step is now an
operator of its own (`next`).  Assumptions on the constants that were only in
the runs' choice of jobs are now stated: a padding's length is a byte
(`BlockAssumption`), and what is left to the caller (`CallerAssumption`).

`AlwaysDelivers` is the refinement: the initial state maps to that of `Delivery`, and
every step of a job to a step of it or a stutter (`DeliveryNext`).  It supposes that
the block cipher can be undone (`DecryptsBlocks`).  Decryption is the same chain run
backwards: `Ideal("dec", st, ou, ...)` are the registers and results of one block
after the other of the ciphertext, and `IdealExists` and `BlockUndone` say that they
are those of the encryptor.  What decryption adds is the padding.  `UnpadKeeps` finds it
in the last block for each kind (`PadShape`): that the last byte of Pkcs7, AnsiX923
and Iso10126 is the length, that behind Iso97971's mark and behind a message for
ZeroPadding there is only 0.  It is known only at the end, so a decryptor of whole
blocks holds the last one back (`keepBack`), and `OpensMore` is that what `_process`
puts out is always the beginning of the message proper; `AllOpened` that
finalization puts out the rest of it.  Between the two sides lies the format:
`HexRoundTrip`, `Base64RoundTrip` (three bytes are four digits and back, `TripleBack`;
how many digits a rest of one or two bytes needs; the padding character), and
`SaltedBack` and `UnsaltedBack` for `OpenSSL`.  Without a hypothesis the last of these
is false: the parser takes a ciphertext for a salted one if it begins with the word
"Salted__", and an unsalted one may.  `NotMagic` says that none of the jobs' does; with
the code's 8 bytes it is one ciphertext in 2^64.  `OpenInv` joins the two sides:
`parsed` is the whole ciphertext by the textbook, the key is that of the salt in it,
and the decryptor has put out the beginning of the message that belongs to its first
`pos` bytes (`HasOpened`).

`TypeCorrect` needs both sides (`TypeInv` on top of `CipherInv`, `OpenInv` and
`MacInv`), under the same hypotheses: that an object keeps less than a block between
two calls, and a decryptor less than two, is part of what `HasSealed`, `HasOpened` and
`Absorbed` say of its buffer.

`LoginProofs` (any tabs, devices, tokens, passwords, session time and `Delay`, number
of requests, seconds, power cuts).  `SessionInvariant` holds however requests overlap:
who has a session in hand loaded it no more than the `Delay` ago, and of a session that
is used in time either knows the last time it was written, give or take the `Delay`, or
will not find what it loaded out of time (`Reading`); a file's atime is at most the `Delay`
older than its last write; and what was killed while nobody else held it is held by
nobody.  From it `DeadStaysDead` and `UsedIsKept`.  Neither says that a session that was
logged out stays so, nor that none but an expired one is ever killed, which are both
false (`EndedStays`, `OnlyExpired`, section 3).  The rest
assumes `Patient`, that requests come as the pages send them.  `NonceOnce` needs to
know that only one request of a device is between reading and writing the
mark (`OneNonced`), and that the marks only grow.  `InitedIsChosen`, `CanFinish`
and `ToldIsSet` are not inductive: what a power cut leaves is right because of
what the request under way had written before (`Progress`), and nobody else was
writing (`OneWriter`).  There is a lemma per part of `IInv` (`TypeKept`, `StepsKept`,
`SessionsKept`, `NoncesKept`, `SettingKept`) with a step per action, and lemmas for
the actions that leave a part alone.  From it: `NoncesAreTakenOnce`,
`SetUpIsChosen`, `AlwaysCanFinish`, `ToldIsAlwaysSet`.

The constants' assumptions are those stated in the modules; nothing else is
assumed.

Only model-checked: every liveness property (fairness is out of the prover's
reach).  Every other property that a passing run checks is a theorem.  `CipherInv` and
`OpenInv` are not ones TLC can evaluate, since they ask for the functions `st` and
`ou`; what the run checks is what follows from them.  Proved only, checked by no run: `MutualExclusion`, `CronRefinesGuard`, `OneFlashOnly`,
`AlwaysSilent`,
`ChainsFollowInclude`, `BlockRoundTrip`, `HexRoundTrip`, `Base64RoundTrip`, and the inductive
invariants.

## 5. Limits of the models

- The migration scripts of `config_post_ota` are one step that succeeds; an
  nvram commit and the burning of an image are atomic (a torn write belongs to
  the boot loader); nvram corruption and factory mode are left out.
- Pids of the upgrade scripts are recycled in `PidGuard` but not in `RomUpgrade`,
  where `cancelUpgrade` could otherwise kill a stranger.
- In `RomUpgrade` a request, a script, a `checkupgrade.lua` and `otapredownload` are one
  program each; what they fork for a moment (`curl`, `uci`, `mkxqimage`) is not in the
  list of `ps`.  crond and boot_check stand for everything else, and count as killed
  when both are.  `FlashStop` (stopping the web server) ends all requests.
- `RomUpgrade` leaves out the flash permission and the upgrades of peripherals
  and plugins that `otapredownload` also starts.
- `WifiShare` lets any prepare be refused instead of counting them, and leaves out
  `wifi_share_clearall` ("only for testing") and the command `timeout` with an
  argument, which nobody calls.  A firewall restart reads uci at one moment.
- `RomDownload` leaves out the percentage a page shows and the predownload that
  runs in the background.
- `NetMode` leaves out the vpn section, the name of the wifi and messages to the
  cloud.  `wifiap_mode.sh` and the scripts it includes have no caller left.
- `Login` leaves out passwords in plain text, the renewal of a token, redirect
  keys, HTTP basic authentication, and the wizard's other two handlers
  (`set_router_wifiap`, `set_router_lanap`), which end in `NetMode`.  Decryption
  under a wrong key fails or gives one value, `Garbage`.
- `CryptoJs` leaves out Rabbit, the 64-bit words of SHA-384 and SHA-512 and typed
  arrays; the rounds of hashes and ciphers are parameters.  `concat` has a branch for
  more than 65535 words that copies with a loop (`core.js`); it is not modelled.
  The random words of Iso10126 are clean in the model; in the code they have something
  behind the bytes, which the `concat` that takes them clamps away.
- Not modelled: LuCI's libraries, OpenWrt's packages, jQuery and its plugins,
  binaries; parts that only measure, format or forward.  The pages' own queue of
  requests (`AjaxQueue`) sends one after the other and keeps no state between
  pages.
- Not modelled though they have state: device access control, VPN, port
  forwarding, QoS, boot recovery.  Each is records in uci and rules derived from
  them in one handler; what is hard there (records that change while a reload
  runs) is what `WifiShare` has, where it is hardest.

## 6. What could come next

1. `FlashPermission`: the 300-second wait and who sets the flag; composes with
   `RomUpgrade`, whose `LuaPermit` becomes its abstract view.  `PrepareLimit`: the
   count of prepares, as a function checked against "at most n in half an hour".
2. `RomDownload` as a refinement of the download step of `RomUpgrade`.
3. `AccessControl`, `SmartVpn`, `PortForward`, `Qos`, `BootRecovery`, with "rules
   are a function of the records when nothing is under way".
