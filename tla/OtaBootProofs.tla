--------------------------- MODULE OtaBootProofs ---------------------------
(***************************************************************************)
(* Proofs about OtaBoot, for any number of firmware versions and power     *)
(* cuts, and whether or not other programs commit nvram: the inductive     *)
(* invariant, what follows from it, and the refinement of SafeUpgrade.     *)
(***************************************************************************)
EXTENDS OtaBoot, TLAPS

\* Setting flags in nvram gives nvram again.
LEMMA NvramUpdate ==
    ASSUME NEW n \in Nvram, NEW r \in {0, 1, 2}, NEW p \in BOOLEAN
    PROVE  LET m == [n EXCEPT !.restore = r, !.push = p]
           IN  /\ m \in Nvram /\ m.restore = r
               /\ m.ota = n.ota /\ m.push = p /\ m.format = n.format
  BY DEF Nvram

\* The same for the three flags flash.sh sets together.
LEMMA NvramStage ==
    ASSUME NEW n \in Nvram, NEW r \in {0, 1, 2}
    PROVE  LET m == [n EXCEPT !.restore = r, !.ota = TRUE, !.push = TRUE]
           IN  m \in Nvram /\ m.ota
<1> DEFINE m == [n EXCEPT !.restore = r, !.ota = TRUE, !.push = TRUE]
<1> DEFINE k == [n EXCEPT !.restore = r, !.push = TRUE]
<1>1. k \in Nvram
  BY NvramUpdate
<1>2. m = [k EXCEPT !.ota = TRUE]
  BY DEF Nvram
<1> HIDE DEF k, m
<1> QED
  BY <1>1, <1>2 DEF Nvram

\* The router starts with a configuration that fits.
LEMMA InitIInv == Init => IInv
<1> SUFFICES ASSUME Init PROVE IInv
  OBVIOUS
<1>1. Clean \in Nvram
  BY DEF Clean, Nvram
<1>2. TypeOK
  BY <1>1 DEF Init, TypeOK, Boot, Running, Flash
<1>3. Recoverable /\ Fits
  BY DEF Init, Recoverable, FlagsCover, Fits
<1>4. FlagFirst /\ InStep /\ Migrating
  BY DEF Init, FlagFirst, InStep, Migrating, Running
<1> QED
  BY <1>2, <1>3, <1>4 DEF IInv

\* Each boot script keeps the invariant.
LEMMA PreinitKeeps == ASSUME IInv, PowerOn \/ Preinit PROVE IInv'
<1> USE EmptyAssumption DEF TypeOK, Nvram, Boot, Running, Flash, Goto, Copy,
        Recoverable, FlagsCover, Fits, FlagFirst, InStep, Migrating
<1>1. CASE PowerOn
  BY <1>1 DEF PowerOn, IInv
<1>2. CASE EraseOverlay
  BY <1>2 DEF EraseOverlay, IInv
<1>3. CASE RestoreDefaults
  <2>1. CASE ram.restore \in {1, 2}
    <3> DEFINE r == [ram EXCEPT !.restore = 0,
                                !.push = ram.push /\ ram.restore # 1]
    <3>1. ram' = r /\ nv' = r
      BY <1>3, <2>1 DEF RestoreDefaults
    <3> ram \in Nvram
      BY DEF IInv
    <3>2. /\ r \in Nvram /\ r.restore = 0
          /\ r.ota = ram.ota /\ r.format = ram.format
      <4> DEFINE b == ram.push /\ ram.restore # 1
      <4>1. b \in BOOLEAN /\ r = [ram EXCEPT !.restore = 0, !.push = b]
        OBVIOUS
      <4> HIDE DEF b, r
      <4> QED
        BY <4>1, NvramUpdate
    <3>3. (ram.ota <=> nv.ota) /\ (nv.format => ram.format)
      BY <1>3 DEF RestoreDefaults, IInv
    <3>4. news' \in {"none", "due", "sent"}
      BY <1>3, <2>1 DEF RestoreDefaults, IInv
    <3> HIDE DEF r
    <3>5. Recoverable'
      BY <1>3, <2>1, <3>1, <3>2, <3>3 DEF RestoreDefaults, IInv
    <3> QED
      BY <1>3, <2>1, <3>1, <3>2, <3>4, <3>5 DEF RestoreDefaults, IInv
  <2>2. CASE ram.restore \notin {1, 2}
    BY <1>3, <2>2 DEF RestoreDefaults, IInv
  <2> QED
    BY <2>1, <2>2
<1>4. CASE PreOta
  BY <1>4 DEF PreOta, IInv
<1>5. CASE FormatCopy
  BY <1>5 DEF FormatCopy, IInv
<1>6. CASE FormatUnset
  BY <1>6 DEF FormatUnset, IInv
<1>7. CASE PostOta
  BY <1>7 DEF PostOta, IInv
<1>8. CASE StartInit
  BY <1>8 DEF StartInit, IInv
<1> QED
  BY <1>1, <1>2, <1>3, <1>4, <1>5, <1>6, <1>7, <1>8 DEF Preinit

\* boot_check, resets and commits of other programs keep it.
LEMMA RunningKeeps == ASSUME IInv, BootCheck \/ OtherCommit \/ Reset PROVE IInv'
<1> USE EmptyAssumption DEF TypeOK, Nvram, Boot, Running, Flash, Goto, Commit,
        Recoverable, FlagsCover, Fits, FlagFirst, InStep, Migrating
<1>1. CASE RcDone \/ SaveNet
  BY <1>1 DEF RcDone, SaveNet, IInv
<1>2. CASE PushFlag \/ FeedPush
  BY <1>2 DEF PushFlag, FeedPush, IInv
<1>3. CASE ClearFlag \/ Finish
  BY <1>3 DEF ClearFlag, Finish, IInv
<1>4. CASE OtherCommit
  BY <1>4, OthersAssumption DEF OtherCommit, IInv
<1>5. CASE ResetSet
  BY <1>5 DEF ResetSet, IInv
<1>6. CASE ResetCommit
  BY <1>6 DEF ResetCommit, IInv
<1>7. CASE ResetReboot
  BY <1>7 DEF ResetReboot, IInv
<1> QED
  BY <1>1, <1>2, <1>3, <1>4, <1>5, <1>6, <1>7 DEF BootCheck, Reset

\* flash.sh and power cuts keep it.
LEMMA FlashKeeps == ASSUME IInv, FlashSh \/ PowerCut PROVE IInv'
<1> USE EmptyAssumption, BoundAssumption DEF TypeOK, Nvram, Boot, Running, Flash,
        Goto, Commit, Recoverable, FlagsCover, Fits, FlagFirst, InStep, Migrating
<1>1. CASE FlashStart
  BY <1>1 DEF FlashStart, IInv
<1>2. CASE FlashStage
  <2> PICK r \in {1, 2} :
             ram' = [ram EXCEPT !.restore = r, !.ota = TRUE, !.push = TRUE]
    BY <1>2 DEF FlashStage
  <2>1. ram' \in Nvram /\ ram'.ota
    BY NvramStage DEF IInv
  <2>2. TypeOK'
    BY <1>2, <2>1 DEF FlashStage, IInv
  <2>3. (Recoverable /\ Fits /\ FlagFirst /\ InStep /\ Migrating)'
    BY <1>2, <2>1 DEF FlashStage, IInv
  <2> QED
    BY <2>2, <2>3 DEF IInv
<1>3. CASE FlashCommit
  BY <1>3 DEF FlashCommit, IInv
<1>4. CASE FlashEnv \/ FlashAbort \/ BurnFailed
  BY <1>4 DEF FlashEnv, FlashAbort, BurnFailed, IInv
<1>5. CASE Burn
  BY <1>5 DEF Burn, IInv
<1>6. CASE PowerCut
  <2>1. TypeOK'
    <3>1. cuts' \in Nat
      BY <1>6 DEF PowerCut, IInv
    <3>2. post' \in BOOLEAN
      BY <1>6 DEF PowerCut
    <3> QED
      BY <1>6, <3>1, <3>2 DEF PowerCut, IInv
  <2>2. (Recoverable /\ Fits /\ FlagFirst /\ InStep /\ Migrating)'
    BY <1>6 DEF PowerCut, IInv
  <2> QED
    BY <2>1, <2>2 DEF IInv
<1> QED
  BY <1>1, <1>2, <1>3, <1>4, <1>5, <1>6 DEF FlashSh

\* Every step keeps the inductive invariant.
LEMMA StepIInv == IInv /\ [Next]_vars => IInv'
<1> SUFFICES ASSUME IInv, [Next]_vars PROVE IInv'
  OBVIOUS
<1>1. CASE UNCHANGED vars
  BY <1>1 DEF vars, IInv, TypeOK, Recoverable, FlagsCover, Fits, FlagFirst,
     InStep, Migrating
<1> QED
  BY <1>1, PreinitKeeps, RunningKeeps, FlashKeeps DEF Next

\* The inductive invariant holds in every reachable state.
THEOREM Invariant == Spec => []IInv
  BY InitIInv, StepIInv, PTL DEF Spec

\* Every reachable state is well typed.
THEOREM TypeCorrect == Spec => []TypeOK
<1>1. IInv => TypeOK
  BY DEF IInv
<1> QED
  BY <1>1, Invariant, PTL

\* Services only run on a configuration that fits the firmware.
THEOREM ServicesAlwaysFit == Spec => []ServicesFit
<1>1. IInv => ServicesFit
  BY DEF IInv, Fits, ServicesFit
<1> QED
  BY <1>1, Invariant, PTL

\* Every power cut finds the flags it needs already in flash.
THEOREM AlwaysRecoverable == Spec => []Recoverable
<1>1. IInv => Recoverable
  BY DEF IInv
<1> QED
  BY <1>1, Invariant, PTL

-----------------------------------------------------------------------------
\* Every step of the scripts is a step of SafeUpgrade or changes nothing it sees.
LEMMA RefinesNext ==
    IInv /\ IInv' /\ [Next]_vars => [S!Next]_<<fw, conf, pc \in Running>>
<1> SUFFICES ASSUME IInv, IInv', [Next]_vars
             PROVE  S!Next \/ UNCHANGED <<fw, conf, pc \in Running>>
  OBVIOUS
<1> USE DEF Goto, Running, S!Next
<1>1. CASE PowerOn \/ RestoreDefaults \/ FormatUnset
  BY <1>1 DEF PowerOn, RestoreDefaults, FormatUnset
<1>2. CASE EraseOverlay
  BY <1>2 DEF EraseOverlay, S!Erase
<1>3. CASE PreOta \/ FormatCopy \/ PostOta
  BY <1>3 DEF PreOta, FormatCopy, PostOta, Copy, S!Settle
<1>4. CASE StartInit
  BY <1>4 DEF StartInit, S!Serve, IInv, Fits
<1>5. CASE BootCheck
  BY <1>5 DEF BootCheck, RcDone, SaveNet, PushFlag, FeedPush, ClearFlag, Finish
<1>6. CASE OtherCommit \/ ResetSet \/ ResetCommit
  BY <1>6 DEF OtherCommit, ResetSet, ResetCommit
<1>7. CASE ResetReboot \/ FlashStart \/ PowerCut
  BY <1>7 DEF ResetReboot, FlashStart, PowerCut, S!Stop
<1>8. CASE FlashStage \/ FlashCommit \/ FlashEnv \/ FlashAbort \/ BurnFailed
  BY <1>8 DEF FlashStage, FlashCommit, FlashEnv, FlashAbort, BurnFailed
<1>9. CASE Burn
  BY <1>9 DEF Burn, S!Install
<1>10. CASE UNCHANGED vars
  BY <1>10 DEF vars
<1> QED
  BY <1>1, <1>2, <1>3, <1>4, <1>5, <1>6, <1>7, <1>8, <1>9, <1>10
  DEF Next, Preinit, Reset, FlashSh

\* The boot and flash scripts implement SafeUpgrade.
THEOREM RefinesSafeUpgrade == Spec => ImplementsSafeUpgrade
<1>1. Init => S!Init
  BY DEF Init, S!Init, Running
<1> QED
  BY <1>1, Invariant, RefinesNext, PTL DEF Spec, ImplementsSafeUpgrade, S!Spec
=============================================================================
