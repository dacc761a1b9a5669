--------------------------- MODULE PidGuardProofs ---------------------------
(***************************************************************************)
(* Proofs about PidGuard, for any set of pids: the invariant IInv, what    *)
(* follows from it, and the refinement of Mutex, all under the assumption  *)
(* that starters do not overlap inside the guard.                          *)
(***************************************************************************)
EXTENDS PidGuard, TLAPS

\* The type invariant holds whether or not starters overlap.
LEMMA TypeStep == TypeOK /\ [Next]_vars => TypeOK'
<1> SUFFICES ASSUME TypeOK, [Next]_vars PROVE TypeOK'
  OBVIOUS
<1> USE NoPidAssumption, OverlapAssumption DEF TypeOK, Phases, Become
<1>1. ASSUME NEW p \in Pid,
             \/ Start(p) \/ Refuse(p) \/ Pass(p) \/ Write(p)
             \/ Recycle(p) \/ OtherExit(p)
      PROVE  TypeOK'
  BY <1>1 DEF Start, Refuse, Pass, Write, Recycle, OtherExit
<1>4. ASSUME NEW S \in SUBSET Pid, Exit(S) PROVE TypeOK'
  BY <1>4 DEF Exit
<1>2. CASE Reboot
  BY <1>2 DEF Reboot
<1>3. CASE UNCHANGED vars
  BY <1>3 DEF vars
<1> QED
  BY <1>1, <1>2, <1>3, <1>4 DEF Next

\* Every reachable state of PidGuard is well typed.
THEOREM TypeCorrect == Spec => []TypeOK
<1>1. Init => TypeOK
  BY DEF Init, TypeOK, Phases
<1> QED
  BY <1>1, TypeStep, PTL DEF Spec

-----------------------------------------------------------------------------
\* Nothing runs and the file is missing when the system starts.
LEMMA InitIInv == Init => IInv
  BY NoPidAssumption DEF Init, IInv, TypeOK, Phases, HolderIsNamed,
     WriterSawNone, GuardIsSerial, Holding, InGuard

\* Without overlap every step keeps the inductive invariant.
LEMMA StepIInv == ASSUME ~Overlap, IInv, [Next]_vars PROVE IInv'
<1> USE NoPidAssumption DEF Become, Phases, Alive, Holding, InGuard
<1>1. TypeOK'
  BY TypeStep DEF IInv
<1>2. TypeOK /\ HolderIsNamed /\ WriterSawNone /\ GuardIsSerial
  BY DEF IInv
<1>3. ASSUME NEW p \in Pid, Start(p)
      PROVE  HolderIsNamed' /\ WriterSawNone' /\ GuardIsSerial'
  BY <1>2, <1>3 DEF Start, TypeOK, HolderIsNamed, WriterSawNone, GuardIsSerial
<1>4. ASSUME NEW p \in Pid, Refuse(p)
      PROVE  HolderIsNamed' /\ WriterSawNone' /\ GuardIsSerial'
  BY <1>2, <1>4 DEF Refuse, TypeOK, HolderIsNamed, WriterSawNone, GuardIsSerial
<1>5. ASSUME NEW p \in Pid, Pass(p)
      PROVE  HolderIsNamed' /\ WriterSawNone' /\ GuardIsSerial'
  BY <1>2, <1>5 DEF Pass, TypeOK, HolderIsNamed, WriterSawNone, GuardIsSerial
<1>6. ASSUME NEW p \in Pid, Write(p)
      PROVE  HolderIsNamed' /\ WriterSawNone' /\ GuardIsSerial'
  BY <1>2, <1>6 DEF Write, TypeOK, HolderIsNamed, WriterSawNone, GuardIsSerial
<1>7. ASSUME NEW p \in Pid, Recycle(p) \/ OtherExit(p)
      PROVE  HolderIsNamed' /\ WriterSawNone' /\ GuardIsSerial'
  BY <1>2, <1>7 DEF Recycle, OtherExit, TypeOK, HolderIsNamed,
     WriterSawNone, GuardIsSerial
<1>10. ASSUME NEW S \in SUBSET Pid, Exit(S)
      PROVE  HolderIsNamed' /\ WriterSawNone' /\ GuardIsSerial'
  BY <1>2, <1>10 DEF Exit, TypeOK, HolderIsNamed, WriterSawNone, GuardIsSerial
<1>8. CASE Reboot
  BY <1>8 DEF Reboot, IInv, TypeOK, HolderIsNamed, WriterSawNone, GuardIsSerial
<1>9. CASE UNCHANGED vars
  BY <1>2, <1>9 DEF vars, IInv, TypeOK, HolderIsNamed, WriterSawNone, GuardIsSerial
<1> QED
  BY <1>1, <1>3, <1>4, <1>5, <1>6, <1>7, <1>8, <1>9, <1>10 DEF Next, IInv

\* The inductive invariant of the guard whose starters do not overlap.
THEOREM SerialInvariant == ~Overlap /\ Spec => []IInv
<1>1. ~Overlap /\ IInv /\ [Next]_vars => IInv'
  BY StepIInv
<1> QED
  <2>1. CASE Overlap
    BY <2>1
  <2>2. CASE ~Overlap
    <3>1. IInv /\ [Next]_vars => IInv'
      BY <1>1, <2>2
    <3> QED
      BY <3>1, InitIInv, PTL DEF Spec
  <2> QED
    BY <2>1, <2>2

\* If starters do not overlap, at most one process is past the guard.
THEOREM MutualExclusion == ~Overlap /\ Spec => []AtMostOneHolder
<1>1. IInv => AtMostOneHolder
  BY DEF IInv, HolderIsNamed, AtMostOneHolder
<1> QED
  BY <1>1, SerialInvariant, PTL

\* If starters do not overlap, flash_check.sh sees whoever is past the guard.
THEOREM CheckIsTruthful == ~Overlap /\ Spec => []CheckSeesHolder
<1>1. IInv => CheckSeesHolder
  BY DEF IInv, HolderIsNamed, CheckSeesHolder, FlashCheck, Alive, Holding
<1> QED
  BY <1>1, SerialInvariant, PTL

-----------------------------------------------------------------------------
\* The abstract holder is the process that is past the guard.
NowRight == /\ \A p \in Pid : Holding(p) => holderNow = p
            /\ (\A p \in Pid : ~Holding(p)) => holderNow = NoPid

\* The invariant makes the CHOOSE of holderNow pick that process.
LEMMA HolderNow == IInv => NowRight
<1> SUFFICES ASSUME IInv PROVE NowRight
  OBVIOUS
<1> USE DEF holderNow, NowRight
<1>1. ASSUME NEW p \in Pid, Holding(p) PROVE holderNow = p
  <2>1. \A q \in Pid : Holding(q) => q = p
    BY <1>1 DEF IInv, HolderIsNamed
  <2> QED
    BY <1>1, <2>1
<1> QED
  BY <1>1

\* A step of the guard is a step of Mutex, or leaves its holder alone.
LEMMA RefinesNext == ASSUME ~Overlap, IInv, [Next]_vars
                     PROVE  [M!Next]_holderNow
<1>1. IInv'
  BY StepIInv
<1>2. /\ \A p \in Pid : Holding(p) => holderNow = p
      /\ (\A p \in Pid : ~Holding(p)) => holderNow = NoPid
  BY HolderNow DEF NowRight
<1>3. /\ \A p \in Pid : Holding(p)' => holderNow' = p
      /\ (\A p \in Pid : ~Holding(p)') => holderNow' = NoPid
  <2>1. NowRight'
    BY <1>1, HolderNow, PTL
  <2> QED
    BY <2>1 DEF NowRight
<1>4. ASSUME \A p \in Pid : Holding(p)' = Holding(p)
      PROVE  holderNow' = holderNow
  <2>1. CASE \E p \in Pid : Holding(p)
    <3>1. PICK p \in Pid : Holding(p)
      BY <2>1
    <3> QED
      BY <3>1, <1>2, <1>3, <1>4
  <2>2. CASE \A p \in Pid : ~Holding(p)
    BY <2>2, <1>2, <1>3, <1>4
  <2> QED
    BY <2>1, <2>2
<1>5. ASSUME NEW p \in Pid, Write(p) PROVE M!Acquire(p)
  <2>1. \A q \in Pid : ~Holding(q)
    BY <1>5 DEF Write, IInv, WriterSawNone
  <2>2. Holding(p)'
    BY <1>5 DEF Write, Become, Holding, IInv, TypeOK
  <2> QED
    BY <2>1, <2>2, <1>2, <1>3 DEF M!Acquire
<1>6. ASSUME \A q \in Pid : ~Holding(q)' PROVE M!Release \/ holderNow' = holderNow
  <2>1. holderNow' = NoPid
    BY <1>6, <1>3
  <2> QED
    BY <2>1 DEF M!Release
<1>7. ASSUME NEW S \in SUBSET Pid, Exit(S)
      PROVE  M!Release \/ holderNow' = holderNow
  <2>1. CASE \E p \in S : Holding(p)
    <3>1. PICK p \in S : Holding(p)
      BY <2>1
    <3>2. \A q \in Pid : Holding(q) => q = p
      BY <3>1 DEF IInv, HolderIsNamed
    <3>3. \A q \in Pid : ~Holding(q)'
      BY <3>1, <3>2, <1>7 DEF Exit, Holding, IInv, TypeOK
    <3> QED
      BY <3>3, <1>6
  <2>2. CASE \A p \in S : ~Holding(p)
    <3>1. \A q \in Pid : Holding(q)' = Holding(q)
      BY <2>2, <1>7 DEF Exit, Holding, IInv, TypeOK
    <3> QED
      BY <3>1, <1>4
  <2> QED
    BY <2>1, <2>2
<1>8. ASSUME NEW p \in Pid,
             Start(p) \/ Refuse(p) \/ Pass(p) \/ Recycle(p) \/ OtherExit(p)
      PROVE  holderNow' = holderNow
  <2>1. \A q \in Pid : Holding(q)' = Holding(q)
    BY <1>8 DEF Start, Refuse, Pass, Recycle, OtherExit, Become, Holding, IInv, TypeOK
  <2> QED
    BY <2>1, <1>4
<1>9. CASE Reboot
  <2>1. \A q \in Pid : ~Holding(q)'
    BY <1>9 DEF Reboot, Holding
  <2> QED
    BY <2>1, <1>6 DEF M!Next
<1>10. CASE UNCHANGED vars
  <2>1. \A q \in Pid : Holding(q)' = Holding(q)
    BY <1>10 DEF vars, Holding
  <2> QED
    BY <2>1, <1>4
<1> QED
  BY <1>5, <1>7, <1>8, <1>9, <1>10 DEF Next, M!Next

\* A guard whose starters do not overlap implements mutual exclusion.
THEOREM GuardRefinesMutex == ~Overlap /\ Spec => ImplementsMutex
<1>1. Init => M!Init
  BY DEF Init, M!Init, holderNow, Holding
<1>2. ~Overlap /\ IInv /\ [Next]_vars => [M!Next]_holderNow
  BY RefinesNext
<1>3. CASE ~Overlap
  <2>1. IInv /\ [Next]_vars => [M!Next]_holderNow
    BY <1>2, <1>3
  <2>2. Spec => []IInv
    BY <1>3, SerialInvariant
  <2> QED
    BY <1>1, <2>1, <2>2, PTL DEF Spec, ImplementsMutex, M!Spec
<1> QED
  BY <1>3
=============================================================================
