----------------------------- MODULE TimerProofs -----------------------------
(***************************************************************************)
(* Safety of the local interrupts and of time_busy_until.  status.IE has   *)
(* three owners: the program, the trap (which clears and restores it) and  *)
(* the wait (which masks it and keeps the old value).  StatusInv says who  *)
(* owns it where; BusyDeadline that the wait's deadline does not outlive   *)
(* the wait.                                                               *)
(***************************************************************************)
EXTENDS Timer, TLAPS

USE DEF NoFn, Masked

LEMMA TimerInitEstablishes == TimerInit => TimerIInv
  BY DEF TimerInit, TimerIInv, TimerTypeOK, FlagsOK, PlacesOK, StatusInv, BusyDeadline, IpiNotLost

\* The calls of the program.
LEMMA CallsPreserve == ASSUME TimerIInv, Calls PROVE TimerIInv'
<1> USE DEF TimerIInv, TimerTypeOK, FlagsOK, PlacesOK, StatusInv, BusyDeadline, IpiNotLost,
            machine, tables, history, InProgram, Starts
<1>1. CASE GlobalEnable
  BY <1>1 DEF GlobalEnable
<1>2. CASE RegisterTimer
  BY <1>2 DEF RegisterTimer
<1>3. CASE RegisterIpi
  BY <1>3 DEF RegisterIpi
<1>4. CASE IpiEnable
  BY <1>4 DEF IpiEnable
<1>5. CASE SetDeadline
  <2>1. FlagsOK' /\ PlacesOK'
    <3>1. FlagsOK'
      BY <1>5, Zenon DEF SetDeadline, TimerIInv, TimerTypeOK, FlagsOK
    <3>2. PlacesOK'
      BY <1>5 DEF SetDeadline, TimerIInv, TimerTypeOK, PlacesOK
    <3> QED
      BY <3>1, <3>2
  <2>2. StatusInv'
    BY <1>5 DEF SetDeadline
  <2>3. BusyDeadline'
    BY <1>5 DEF SetDeadline
  <2>4. IpiNotLost'
    BY <1>5 DEF SetDeadline
  <2> QED
    BY <2>1, <2>2, <2>3, <2>4 DEF TimerIInv, TimerTypeOK
<1>6. CASE TimerIrqEnable
  <2>1. FlagsOK' /\ PlacesOK'
    <3>1. FlagsOK'
      BY <1>6, Zenon DEF TimerIrqEnable, TimerIInv, TimerTypeOK, FlagsOK
    <3>2. PlacesOK'
      BY <1>6 DEF TimerIrqEnable, TimerIInv, TimerTypeOK, PlacesOK
    <3> QED
      BY <3>1, <3>2
  <2>2. StatusInv'
    BY <1>6 DEF TimerIrqEnable
  <2>3. BusyDeadline'
    BY <1>6 DEF TimerIrqEnable
  <2>4. IpiNotLost'
    BY <1>6 DEF TimerIrqEnable
  <2> QED
    BY <2>1, <2>2, <2>3, <2>4 DEF TimerIInv, TimerTypeOK
<1>7. CASE BusyCall
  BY <1>7 DEF BusyCall, Goto
<1> QED
  BY <1>1, <1>2, <1>3, <1>4, <1>5, <1>6, <1>7 DEF Calls

\* The steps of time_busy_until.
LEMMA BusyPreserves == ASSUME TimerIInv, Busy \/ BusyWakeSpuriously PROVE TimerIInv'
<1> USE DEF TimerIInv, TimerTypeOK, FlagsOK, PlacesOK, StatusInv, BusyDeadline, IpiNotLost,
            machine, tables, history, Goto
<1>1. CASE BusyMask
  <2>1. FlagsOK' /\ PlacesOK'
    <3>1. FlagsOK'
      BY <1>1, Zenon DEF BusyMask, TimerIInv, TimerTypeOK, FlagsOK
    <3>2. PlacesOK'
      BY <1>1 DEF BusyMask, TimerIInv, TimerTypeOK, PlacesOK
    <3> QED
      BY <3>1, <3>2
  <2>2. StatusInv'
    BY <1>1 DEF BusyMask
  <2>3. BusyDeadline'
    BY <1>1 DEF BusyMask
  <2>4. IpiNotLost'
    BY <1>1 DEF BusyMask
  <2> QED
    BY <2>1, <2>2, <2>3, <2>4 DEF TimerIInv, TimerTypeOK
<1>2. CASE BusyArm
  BY <1>2 DEF BusyArm
<1>3. CASE BusyTest
  BY <1>3 DEF BusyTest
<1>4. CASE BusySet
  BY <1>4 DEF BusySet
<1>5. CASE BusyWake \/ BusyWakeSpuriously
  BY <1>5 DEF BusyWake, BusyWakeSpuriously
<1>6. CASE BusyNever
  BY <1>6 DEF BusyNever
<1>7. CASE BusyDisarm
  <2>1. FlagsOK' /\ PlacesOK'
    <3>1. FlagsOK'
      BY <1>7, Zenon DEF BusyDisarm, TimerIInv, TimerTypeOK, FlagsOK
    <3>2. PlacesOK'
      BY <1>7 DEF BusyDisarm, TimerIInv, TimerTypeOK, PlacesOK
    <3> QED
      BY <3>1, <3>2
  <2>2. StatusInv'
    BY <1>7 DEF BusyDisarm
  <2>3. BusyDeadline'
    BY <1>7 DEF BusyDisarm
  <2>4. IpiNotLost'
    BY <1>7 DEF BusyDisarm
  <2> QED
    BY <2>1, <2>2, <2>3, <2>4 DEF TimerIInv, TimerTypeOK
<1>8. CASE BusyRestore
  <2>1. FlagsOK' /\ PlacesOK'
    <3>1. FlagsOK'
      BY <1>8, Zenon DEF BusyRestore, TimerIInv, TimerTypeOK, FlagsOK
    <3>2. PlacesOK'
      BY <1>8 DEF BusyRestore, TimerIInv, TimerTypeOK, PlacesOK
    <3> QED
      BY <3>1, <3>2
  <2>2. StatusInv'
    BY <1>8 DEF BusyRestore, TimerIInv, TimerTypeOK, FlagsOK, PlacesOK, StatusInv
  <2>3. BusyDeadline'
    BY <1>8 DEF BusyRestore, TimerIInv, TimerTypeOK, BusyDeadline
  <2>4. IpiNotLost'
    BY <1>8 DEF BusyRestore, TimerIInv, TimerTypeOK, IpiNotLost
  <2> QED
    BY <2>1, <2>2, <2>3, <2>4 DEF TimerIInv, TimerTypeOK
<1> QED
  BY <1>1, <1>2, <1>3, <1>4, <1>5, <1>6, <1>7, <1>8 DEF Busy

\* Taking a trap and dispatching it.
LEMMA TrapPreserves == ASSUME TimerIInv, TakesTrap \/ Dispatches PROVE TimerIInv'
<1> USE DEF machine, tables, history
<1>1. CASE TimerTrap
  <2>1. FlagsOK' /\ PlacesOK'
    <3>1. FlagsOK'
      BY <1>1, Zenon DEF TimerTrap, TakeTrap, Mtip, TimerIInv, TimerTypeOK, FlagsOK
    <3>2. PlacesOK'
      BY <1>1 DEF TimerTrap, TakeTrap, Mtip, TimerIInv, TimerTypeOK, PlacesOK
    <3> QED
      BY <3>1, <3>2
  <2>2. StatusInv'
    BY <1>1 DEF TimerTrap, TakeTrap, Mtip, TimerIInv, TimerTypeOK, FlagsOK, PlacesOK, StatusInv
  <2>3. BusyDeadline'
    BY <1>1 DEF TimerTrap, TakeTrap, Mtip, TimerIInv, TimerTypeOK, BusyDeadline
  <2>4. IpiNotLost'
    BY <1>1 DEF TimerTrap, TakeTrap, Mtip, TimerIInv, TimerTypeOK, IpiNotLost
  <2> QED
    BY <2>1, <2>2, <2>3, <2>4 DEF TimerIInv, TimerTypeOK
<1>2. CASE SoftTrap
  <2>1. FlagsOK' /\ PlacesOK'
    <3>1. FlagsOK'
      BY <1>2, Zenon DEF SoftTrap, TakeTrap, TimerIInv, TimerTypeOK, FlagsOK
    <3>2. PlacesOK'
      BY <1>2 DEF SoftTrap, TakeTrap, TimerIInv, TimerTypeOK, PlacesOK
    <3> QED
      BY <3>1, <3>2
  <2>2. StatusInv'
    BY <1>2 DEF SoftTrap, TakeTrap, TimerIInv, TimerTypeOK, FlagsOK, PlacesOK, StatusInv
  <2>3. BusyDeadline'
    BY <1>2 DEF SoftTrap, TakeTrap, TimerIInv, BusyDeadline
  <2>4. IpiNotLost'
    BY <1>2 DEF SoftTrap, TakeTrap, TimerIInv, IpiNotLost
  <2> QED
    BY <2>1, <2>2, <2>3, <2>4 DEF TimerIInv, TimerTypeOK
<1>3. CASE TimerDispatch
  <2>1. FlagsOK' /\ PlacesOK'
    <3>1. FlagsOK'
      BY <1>3, Zenon DEF TimerDispatch, TimerIInv, TimerTypeOK, FlagsOK
    <3>2. PlacesOK'
      BY <1>3 DEF TimerDispatch, TimerIInv, TimerTypeOK, PlacesOK
    <3> QED
      BY <3>1, <3>2
  <2>2. StatusInv'
    BY <1>3 DEF TimerDispatch, TimerIInv, TimerTypeOK, FlagsOK, PlacesOK, StatusInv
  <2>3. BusyDeadline'
    BY <1>3 DEF TimerDispatch, TimerIInv, BusyDeadline
  <2>4. IpiNotLost'
    BY <1>3 DEF TimerDispatch, TimerIInv, IpiNotLost
  <2> QED
    BY <2>1, <2>2, <2>3, <2>4 DEF TimerIInv, TimerTypeOK
<1>4. CASE SoftDispatch
  <2>1. FlagsOK' /\ PlacesOK'
    <3>1. FlagsOK'
      BY <1>4, Zenon DEF SoftDispatch, TimerIInv, TimerTypeOK, FlagsOK
    <3>2. PlacesOK'
      BY <1>4 DEF SoftDispatch, TimerIInv, TimerTypeOK, PlacesOK
    <3> QED
      BY <3>1, <3>2
  <2>2. StatusInv'
    <3>1. CASE trap = "ack"
      <4>1. want /\ ~ie /\ prog \in {"user", "mask"}
        BY <3>1 DEF TimerIInv, StatusInv
      <4>2. trap' = "ipi" /\ ie' = ie /\ want' = want /\ prog' = prog
        BY <1>4, <3>1 DEF SoftDispatch
      <4> QED
        BY <4>1, <4>2 DEF StatusInv
    <3>2. CASE trap = "ipi"
      <4>1. want = TRUE
        BY <3>2, Zenon DEF TimerIInv, TimerTypeOK, FlagsOK, StatusInv
      <4>2. /\ trap' = "none" /\ ie' = TRUE /\ want' = want
            /\ prog' = prog /\ prog \in {"user", "mask"}
        BY <1>4, <3>2 DEF SoftDispatch, TimerIInv, StatusInv
      <4> QED
        BY <4>1, <4>2 DEF StatusInv
    <3> QED
      BY <1>4, <3>1, <3>2 DEF SoftDispatch
  <2>3. BusyDeadline'
    BY <1>4 DEF SoftDispatch, TimerIInv, BusyDeadline
  <2>4. IpiNotLost'
    BY <1>4 DEF SoftDispatch, TimerIInv, IpiNotLost
  <2> QED
    BY <2>1, <2>2, <2>3, <2>4 DEF TimerIInv, TimerTypeOK
<1> QED
  BY <1>1, <1>2, <1>3, <1>4 DEF TakesTrap, Dispatches

\* Time and other harts.
LEMMA WorldPreserves ==
  ASSUME TimerIInv, CmpReached \/ DeadlineReached \/ IpiArrives PROVE TimerIInv'
<1> USE DEF TimerIInv, TimerTypeOK, FlagsOK, PlacesOK, StatusInv, BusyDeadline, IpiNotLost,
            machine, tables, history
<1>1. CASE CmpReached
  BY <1>1 DEF CmpReached
<1>2. CASE DeadlineReached
  BY <1>2 DEF DeadlineReached
<1>3. CASE IpiArrives
  BY <1>3 DEF IpiArrives
<1> QED
  BY <1>1, <1>2, <1>3

LEMMA TimerStepPreserves == TimerIInv /\ [TimerNext]_timerVars => TimerIInv'
<1> SUFFICES ASSUME TimerIInv, [TimerNext]_timerVars PROVE TimerIInv'
  OBVIOUS
<1>1. CASE UNCHANGED timerVars
  BY <1>1 DEF timerVars, TimerIInv, TimerTypeOK, FlagsOK, PlacesOK, StatusInv, BusyDeadline, IpiNotLost
<1> QED
  BY <1>1, CallsPreserve, BusyPreserves, TrapPreserves, WorldPreserves DEF TimerNext

\* The inductive invariant holds in every reachable state.
THEOREM TimerInvariance == TimerSpec => []TimerIInv
  BY TimerInitEstablishes, TimerStepPreserves, PTL DEF TimerSpec

\* After every trap and every time_busy_until the program finds global
\* interrupts as it left them (time.c:46-48, 60-62).
THEOREM IEAsAskedHolds == TimerSpec => []IEAsAsked
<1>1. TimerIInv => IEAsAsked
  BY DEF TimerIInv, StatusInv, IEAsAsked, InProgram
<1> QED
  BY <1>1, TimerInvariance, PTL

\* No IPI is swallowed by the dispatcher (irq.c:191-201).
THEOREM IpiNotLostHolds == TimerSpec => []IpiNotLost
<1>1. TimerIInv => IpiNotLost
  BY DEF TimerIInv
<1> QED
  BY <1>1, TimerInvariance, PTL

\* The deadline of time_busy_until never causes a trap (time.c:31-37).
THEOREM BusyNeverTrapsHolds == TimerSpec => []BusyNeverTraps
<1>1. TimerIInv => BusyNeverTraps
  BY DEF TimerIInv, StatusInv, BusyDeadline, BusyNeverTraps
<1> QED
  BY <1>1, TimerInvariance, PTL
==============================================================================
