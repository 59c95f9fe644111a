-------------------------- MODULE SlotTimerProofs --------------------------
(***************************************************************************)
(* Safety of src/timer.c for any set of devices and any number of slots:   *)
(* the inductive invariant of SlotTimer, the properties that follow from   *)
(* it, and that the timer implements the barrier of SlotBarrier.           *)
(***************************************************************************)
EXTENDS SlotTimer, TLAPS

(* A state the program can start in satisfies the invariant. *)
LEMMA InitInv == ASSUME Init PROVE IInv
<1> USE DEF Init
<1>1. TypeOK
  <2>1. timer_stop \in BOOLEAN
    OBVIOUS
  <2>2. temp \in Nat \ {0}
    OBVIOUS
  <2> QED BY <2>1, <2>2 DEF TypeOK, Owner, TimerPC, DevicePC, MainPC
<1>2. LifeInv /\ LockInv
  BY DEF LifeInv, LockInv, IsInjective, More
<1>3. FlagInv /\ RoundInv
  BY DEF FlagInv, RoundInv
<1>4. SlotInv
  BY DEF SlotInv, Pending, BarrierSlot, Released
<1> QED BY <1>1, <1>2, <1>3, <1>4 DEF IInv

(* Every step keeps the variables in their types. *)
LEMMA TypeOKStep == ASSUME IInv, [Next]_vars PROVE TypeOK'
<1> USE DEF vars, devVars, timerVars, mainVars
<1>. /\ TypeOK /\ LifeInv /\ LockInv /\ FlagInv /\ RoundInv /\ SlotInv
  BY DEF IInv
<1>1. ASSUME NEW d \in Device, AttachEvent(d) PROVE TypeOK'
  BY <1>1 DEF AttachEvent, TypeOK
<1>2. ASSUME NEW d \in Device, Spawn(d) PROVE TypeOK'
  BY <1>2 DEF Spawn, TypeOK, Owner, TimerPC, DevicePC, MainPC
<1>3. ASSUME StartTimer PROVE TypeOK'
  BY <1>3 DEF StartTimer, TypeOK, Owner, TimerPC, DevicePC, MainPC
<1>4. ASSUME AllSpawned PROVE TypeOK'
  BY <1>4 DEF AllSpawned, TypeOK, Owner, TimerPC, DevicePC, MainPC
<1>5. ASSUME JoinDevices PROVE TypeOK'
  BY <1>5 DEF JoinDevices, TypeOK, Owner, TimerPC, DevicePC, MainPC
<1>6. ASSUME StopTimer PROVE TypeOK'
  BY <1>6 DEF StopTimer, TypeOK, Owner, TimerPC, DevicePC, MainPC
<1>7. ASSUME JoinTimer PROVE TypeOK'
  BY <1>7 DEF JoinTimer, TypeOK, Owner, TimerPC, DevicePC, MainPC
<1>8. ASSUME FreeDevice PROVE TypeOK'
  BY <1>8 DEF FreeDevice, TypeOK, Owner, TimerPC, DevicePC, MainPC
<1>9. ASSUME TimerLoop PROVE TypeOK'
  BY <1>9 DEF TimerLoop, TypeOK, Owner, TimerPC, DevicePC, MainPC
<1>10. ASSUME GatherLock PROVE TypeOK'
  BY <1>10 DEF GatherLock, TypeOK, Owner, TimerPC, DevicePC, MainPC
<1>11. ASSUME GatherSleep PROVE TypeOK'
  BY <1>11 DEF GatherSleep, MustWait, TypeOK, Owner, TimerPC, DevicePC,
     MainPC
<1>12. ASSUME GatherWake PROVE TypeOK'
  BY <1>12 DEF GatherWake, TypeOK, Owner, TimerPC, DevicePC, MainPC
<1>13. ASSUME GatherNext PROVE TypeOK'
  BY <1>13 DEF GatherNext, MustWait, CountFinished, TypeOK, Owner, TimerPC,
     DevicePC, MainPC, Cur, More, LockInv
<1>14. ASSUME Tick PROVE TypeOK'
  BY <1>14 DEF Tick, TypeOK, Owner, TimerPC, DevicePC, MainPC
<1>15. ASSUME ReleaseLock PROVE TypeOK'
  BY <1>15 DEF ReleaseLock, TypeOK, Owner, TimerPC, DevicePC, MainPC
<1>16. ASSUME ReleaseClear PROVE TypeOK'
  BY <1>16 DEF ReleaseClear, SignalDevice, TypeOK, Owner, TimerPC,
     DevicePC, MainPC, Cur, More, LockInv
<1>17. ASSUME RoundEnd PROVE TypeOK'
  BY <1>17 DEF RoundEnd, AllFinished, TypeOK, Owner, TimerPC, DevicePC,
     MainPC
<1>18. ASSUME NEW d \in Device, NextSlotLock(d) PROVE TypeOK'
  BY <1>18 DEF NextSlotLock, TypeOK, Owner, TimerPC, DevicePC, MainPC
<1>19. ASSUME NEW d \in Device, DetachLock(d) PROVE TypeOK'
  BY <1>19 DEF DetachLock, TypeOK, Owner, TimerPC, DevicePC, MainPC
<1>20. ASSUME NEW d \in Device, NextSlotDone(d) PROVE TypeOK'
  BY <1>20 DEF NextSlotDone, SignalTimer, TypeOK, Owner, TimerPC, DevicePC,
     MainPC
<1>21. ASSUME NEW d \in Device, DetachSet(d) PROVE TypeOK'
  BY <1>21 DEF DetachSet, SignalTimer, TypeOK, Owner, TimerPC, DevicePC,
     MainPC
<1>22. ASSUME NEW d \in Device, NextSlotWaitLock(d) PROVE TypeOK'
  BY <1>22 DEF NextSlotWaitLock, TypeOK, Owner, TimerPC, DevicePC, MainPC
<1>23. ASSUME NEW d \in Device, NextSlotSleep(d) PROVE TypeOK'
  BY <1>23 DEF NextSlotSleep, HeldBack, TypeOK, Owner, TimerPC, DevicePC,
     MainPC
<1>24. ASSUME NEW d \in Device, NextSlotReturn(d) PROVE TypeOK'
  BY <1>24 DEF NextSlotReturn, HeldBack, TypeOK, Owner, TimerPC, DevicePC,
     MainPC
<1>25. ASSUME NEW d \in Device, SpuriousWakeup(d) PROVE TypeOK'
  BY <1>25 DEF SpuriousWakeup, TypeOK
<1>26. ASSUME UNCHANGED vars PROVE TypeOK'
  BY <1>26 DEF TypeOK
<1> QED BY <1>1, <1>2, <1>3, <1>4, <1>5, <1>6, <1>7, <1>8, <1>9, <1>10,
   <1>11, <1>12, <1>13, <1>14, <1>15, <1>16, <1>17, <1>18, <1>19, <1>20,
   <1>21, <1>22, <1>23, <1>24, <1>25, <1>26 DEF Next, Main, Timer,
   DeviceStep, Terminated

(* Every step keeps the order of the threads' lives: attach, run, join,     *)
(* stop.                                                                    *)
LEMMA LifeInvStep == ASSUME IInv, [Next]_vars PROVE LifeInv'
<1> USE DEF vars, devVars, timerVars, mainVars
<1>. /\ TypeOK /\ LifeInv /\ LockInv /\ FlagInv /\ RoundInv /\ SlotInv
  BY DEF IInv
<1>1. ASSUME NEW d \in Device, AttachEvent(d) PROVE LifeInv'
  BY SMTT(30), <1>1 DEF AttachEvent, LifeInv, TypeOK, FlagInv, Attached, Range,
     IsInjective
<1>2. ASSUME NEW d \in Device, Spawn(d) PROVE LifeInv'
  BY <1>2 DEF Spawn, LifeInv, Attached, Range
<1>3. ASSUME StartTimer PROVE LifeInv'
  BY <1>3 DEF StartTimer, LifeInv, Attached, Range
<1>4. ASSUME AllSpawned PROVE LifeInv'
  BY <1>4 DEF AllSpawned, LifeInv, Attached, Range
<1>5. ASSUME JoinDevices PROVE LifeInv'
  BY <1>5 DEF JoinDevices, LifeInv, Attached, Range
<1>6. ASSUME StopTimer PROVE LifeInv'
  BY <1>6 DEF StopTimer, LifeInv, Attached, Range
<1>7. ASSUME JoinTimer PROVE LifeInv'
  BY <1>7 DEF JoinTimer, LifeInv
<1>8. ASSUME FreeDevice PROVE LifeInv'
  <2>1. mpc = "free" /\ dev_list # <<>> /\ dev_list' = Tail(dev_list) /\ UNCHANGED <<tpc, dpc, fsh, timer_stop>>
    BY <1>8 DEF FreeDevice
  <2>2. mpc' \in {"free", "end"}
    BY <1>8 DEF FreeDevice
  <2>3. IsInjective(dev_list')
    BY <2>1 DEF LifeInv, IsInjective, TypeOK
  <2> QED BY <2>1, <2>2, <2>3 DEF LifeInv
<1>9. ASSUME TimerLoop PROVE LifeInv'
  BY <1>9 DEF TimerLoop, LifeInv, Attached, Range, FlagInv
<1>10. ASSUME GatherLock PROVE LifeInv'
  BY <1>10 DEF GatherLock, LifeInv, Attached, Range
<1>11. ASSUME GatherSleep PROVE LifeInv'
  BY <1>11 DEF GatherSleep, MustWait, LifeInv, Attached, Range
<1>12. ASSUME GatherWake PROVE LifeInv'
  BY <1>12 DEF GatherWake, LifeInv, Attached, Range
<1>13. ASSUME GatherNext PROVE LifeInv'
  BY <1>13 DEF GatherNext, MustWait, CountFinished, LifeInv, Attached,
     Range
<1>14. ASSUME Tick PROVE LifeInv'
  BY <1>14 DEF Tick, LifeInv, Attached, Range
<1>15. ASSUME ReleaseLock PROVE LifeInv'
  BY <1>15 DEF ReleaseLock, LifeInv, Attached, Range
<1>16. ASSUME ReleaseClear PROVE LifeInv'
  BY <1>16 DEF ReleaseClear, SignalDevice, LifeInv, Attached, Range
<1>17. ASSUME RoundEnd PROVE LifeInv'
  BY <1>17 DEF RoundEnd, AllFinished, LifeInv, TypeOK, FlagInv, RoundInv,
     LockInv, Attached, Range, IsInjective, More, Cur
<1>18. ASSUME NEW d \in Device, NextSlotLock(d) PROVE LifeInv'
  BY <1>18 DEF NextSlotLock, LifeInv, Attached, Range
<1>19. ASSUME NEW d \in Device, DetachLock(d) PROVE LifeInv'
  BY <1>19 DEF DetachLock, LifeInv, Attached, Range
<1>20. ASSUME NEW d \in Device, NextSlotDone(d) PROVE LifeInv'
  BY <1>20 DEF NextSlotDone, SignalTimer, LifeInv, Attached, Range
<1>21. ASSUME NEW d \in Device, DetachSet(d) PROVE LifeInv'
  BY <1>21 DEF DetachSet, SignalTimer, LifeInv, Attached, Range
<1>22. ASSUME NEW d \in Device, NextSlotWaitLock(d) PROVE LifeInv'
  BY <1>22 DEF NextSlotWaitLock, LifeInv, Attached, Range
<1>23. ASSUME NEW d \in Device, NextSlotSleep(d) PROVE LifeInv'
  BY <1>23 DEF NextSlotSleep, HeldBack, LifeInv, Attached, Range
<1>24. ASSUME NEW d \in Device, NextSlotReturn(d) PROVE LifeInv'
  BY <1>24 DEF NextSlotReturn, HeldBack, LifeInv, Attached, Range
<1>25. ASSUME NEW d \in Device, SpuriousWakeup(d) PROVE LifeInv'
  BY <1>25 DEF SpuriousWakeup, LifeInv, Attached, Range
<1>26. ASSUME UNCHANGED vars PROVE LifeInv'
  BY <1>26 DEF LifeInv, Attached, Range
<1> QED BY <1>1, <1>2, <1>3, <1>4, <1>5, <1>6, <1>7, <1>8, <1>9, <1>10,
   <1>11, <1>12, <1>13, <1>14, <1>15, <1>16, <1>17, <1>18, <1>19, <1>20,
   <1>21, <1>22, <1>23, <1>24, <1>25, <1>26 DEF Next, Main, Timer,
   DeviceStep, Terminated

(* Every step keeps the owner of each lock in agreement with the program    *)
(* points of the timer and of the lock's device.                            *)
LEMMA LockInvStep == ASSUME IInv, [Next]_vars PROVE LockInv'
<1> USE DEF vars, devVars, timerVars, mainVars
<1>. /\ TypeOK /\ LifeInv /\ LockInv /\ FlagInv /\ RoundInv /\ SlotInv
  BY DEF IInv
<1>1. ASSUME NEW d \in Device, AttachEvent(d) PROVE LockInv'
  BY <1>1 DEF AttachEvent, LockInv, TypeOK, LifeInv, FlagInv, More, Cur
<1>2. ASSUME NEW d \in Device, Spawn(d) PROVE LockInv'
  BY <1>2 DEF Spawn, LockInv, More, Cur
<1>3. ASSUME StartTimer PROVE LockInv'
  BY <1>3 DEF StartTimer, LockInv, TypeOK, LifeInv, FlagInv, More, Cur
<1>4. ASSUME AllSpawned PROVE LockInv'
  BY <1>4 DEF AllSpawned, LockInv, More, Cur
<1>5. ASSUME JoinDevices PROVE LockInv'
  BY <1>5 DEF JoinDevices, LockInv, More, Cur
<1>6. ASSUME StopTimer PROVE LockInv'
  BY <1>6 DEF StopTimer, LockInv, More, Cur
<1>7. ASSUME JoinTimer PROVE LockInv'
  BY <1>7 DEF JoinTimer, LockInv
<1>8. ASSUME FreeDevice PROVE LockInv'
  BY <1>8 DEF FreeDevice, LockInv, TypeOK, LifeInv, FlagInv, More, Cur
<1>9. ASSUME TimerLoop PROVE LockInv'
  BY <1>9 DEF TimerLoop, LockInv
<1>10. ASSUME GatherLock PROVE LockInv'
  BY <1>10 DEF GatherLock, LockInv, TypeOK, More, Cur
<1>11. ASSUME GatherSleep PROVE LockInv'
  BY <1>11 DEF GatherSleep, MustWait, LockInv, TypeOK, More, Cur
<1>12. ASSUME GatherWake PROVE LockInv'
  BY <1>12 DEF GatherWake, LockInv, TypeOK, More, Cur
<1>13. ASSUME GatherNext PROVE LockInv'
  BY <1>13 DEF GatherNext, MustWait, CountFinished, LockInv, TypeOK, More,
     Cur
<1>14. ASSUME Tick PROVE LockInv'
  BY <1>14 DEF Tick, LockInv
<1>15. ASSUME ReleaseLock PROVE LockInv'
  BY <1>15 DEF ReleaseLock, LockInv, TypeOK, More, Cur
<1>16. ASSUME ReleaseClear PROVE LockInv'
  BY <1>16 DEF ReleaseClear, SignalDevice, LockInv, TypeOK, More, Cur
<1>17. ASSUME RoundEnd PROVE LockInv'
  BY <1>17 DEF RoundEnd, AllFinished, LockInv
<1>18. ASSUME NEW d \in Device, NextSlotLock(d) PROVE LockInv'
  BY <1>18 DEF NextSlotLock, LockInv, TypeOK, More, Cur
<1>19. ASSUME NEW d \in Device, DetachLock(d) PROVE LockInv'
  BY <1>19 DEF DetachLock, LockInv, TypeOK, More, Cur
<1>20. ASSUME NEW d \in Device, NextSlotDone(d) PROVE LockInv'
  BY <1>20 DEF NextSlotDone, SignalTimer, LockInv, TypeOK, More, Cur
<1>21. ASSUME NEW d \in Device, DetachSet(d) PROVE LockInv'
  BY <1>21 DEF DetachSet, SignalTimer, LockInv, TypeOK, More, Cur
<1>22. ASSUME NEW d \in Device, NextSlotWaitLock(d) PROVE LockInv'
  BY <1>22 DEF NextSlotWaitLock, LockInv, TypeOK, More, Cur
<1>23. ASSUME NEW d \in Device, NextSlotSleep(d) PROVE LockInv'
  BY <1>23 DEF NextSlotSleep, HeldBack, LockInv, TypeOK, More, Cur
<1>24. ASSUME NEW d \in Device, NextSlotReturn(d) PROVE LockInv'
  BY <1>24 DEF NextSlotReturn, HeldBack, LockInv, TypeOK, More, Cur
<1>25. ASSUME NEW d \in Device, SpuriousWakeup(d) PROVE LockInv'
  BY <1>25 DEF SpuriousWakeup, LockInv, More, Cur
<1>26. ASSUME UNCHANGED vars PROVE LockInv'
  BY <1>26 DEF LockInv, More, Cur
<1> QED BY <1>1, <1>2, <1>3, <1>4, <1>5, <1>6, <1>7, <1>8, <1>9, <1>10,
   <1>11, <1>12, <1>13, <1>14, <1>15, <1>16, <1>17, <1>18, <1>19, <1>20,
   <1>21, <1>22, <1>23, <1>24, <1>25, <1>26 DEF Next, Main, Timer,
   DeviceStep, Terminated

(* Every step keeps `done' and `fsh' in agreement with the device's place.  *)
LEMMA FlagInvStep == ASSUME IInv, [Next]_vars PROVE FlagInv'
<1> USE DEF vars, devVars, timerVars, mainVars
<1>. /\ TypeOK /\ LifeInv /\ LockInv /\ FlagInv /\ RoundInv /\ SlotInv
  BY DEF IInv
<1>1. ASSUME NEW d \in Device, AttachEvent(d) PROVE FlagInv'
  BY <1>1 DEF AttachEvent, FlagInv, TypeOK, LockInv, LifeInv, Cur
<1>2. ASSUME NEW d \in Device, Spawn(d) PROVE FlagInv'
  BY <1>2 DEF Spawn, FlagInv
<1>3. ASSUME StartTimer \/ AllSpawned \/ JoinDevices \/ StopTimer \/
   JoinTimer \/ FreeDevice \/ TimerLoop \/ GatherLock \/ GatherSleep PROVE
   FlagInv'
  BY <1>3 DEF StartTimer, AllSpawned, JoinDevices, StopTimer, JoinTimer,
     FreeDevice, TimerLoop, GatherLock, GatherSleep, MustWait, FlagInv,
     TypeOK
<1>4. ASSUME GatherWake \/ GatherNext \/ Tick \/ ReleaseLock \/
   ReleaseClear \/ RoundEnd PROVE FlagInv'
  BY <1>4 DEF GatherWake, GatherNext, Tick, ReleaseLock, ReleaseClear,
     RoundEnd, MustWait, CountFinished, SignalDevice, AllFinished, FlagInv,
     TypeOK
<1>5. ASSUME NEW d \in Device, NextSlotLock(d) \/ DetachLock(d) PROVE
   FlagInv'
  BY <1>5 DEF NextSlotLock, DetachLock, FlagInv, TypeOK
<1>6. ASSUME NEW d \in Device, NextSlotDone(d) PROVE FlagInv'
  BY <1>6 DEF NextSlotDone, SignalTimer, FlagInv, TypeOK
<1>7. ASSUME NEW d \in Device, DetachSet(d) PROVE FlagInv'
  BY <1>7 DEF DetachSet, SignalTimer, FlagInv, TypeOK
<1>8. ASSUME NEW d \in Device, NextSlotWaitLock(d) \/ NextSlotSleep(d) \/
   NextSlotReturn(d) \/ SpuriousWakeup(d) PROVE FlagInv'
  BY <1>8 DEF NextSlotWaitLock, NextSlotSleep, NextSlotReturn,
     SpuriousWakeup, HeldBack, FlagInv, TypeOK
<1>9. ASSUME UNCHANGED vars PROVE FlagInv'
  BY <1>9 DEF FlagInv
<1> QED BY <1>1, <1>2, <1>3, <1>4, <1>5, <1>6, <1>7, <1>8, <1>9 DEF Next,
   Main, Timer, DeviceStep, Terminated

(* Every step keeps the devices behind `temp' done or finished, and fshCount *)
(* from reaching event unless all of them are finished.                     *)
LEMMA RoundInvStep == ASSUME IInv, [Next]_vars PROVE RoundInv'
<1> USE DEF vars, devVars, timerVars, mainVars
<1>. /\ TypeOK /\ LifeInv /\ LockInv /\ FlagInv /\ RoundInv /\ SlotInv
  BY DEF IInv
<1>1. ASSUME NEW d \in Device, AttachEvent(d) PROVE RoundInv'
  BY <1>1 DEF AttachEvent, RoundInv, TypeOK, LifeInv, LockInv, FlagInv,
     Cur, More, Attached, Range, IsInjective
<1>2. ASSUME NEW d \in Device, Spawn(d) PROVE RoundInv'
  BY <1>2 DEF Spawn, RoundInv
<1>3. ASSUME StartTimer \/ AllSpawned \/ JoinDevices \/ StopTimer \/
   JoinTimer PROVE RoundInv'
  BY <1>3 DEF StartTimer, AllSpawned, JoinDevices, StopTimer, JoinTimer,
     RoundInv
<1>4. ASSUME FreeDevice PROVE RoundInv'
  BY <1>4 DEF FreeDevice, RoundInv, TypeOK, LifeInv, LockInv, FlagInv, Cur,
     More, Attached, Range, IsInjective
<1>5. ASSUME TimerLoop \/ GatherLock \/ GatherSleep \/ GatherWake PROVE
   RoundInv'
  BY <1>5 DEF TimerLoop, GatherLock, GatherSleep, GatherWake, MustWait,
     RoundInv
<1>6. ASSUME GatherNext PROVE RoundInv'
  BY <1>6 DEF GatherNext, MustWait, CountFinished, RoundInv, TypeOK,
     LockInv, Cur, More
<1>7. ASSUME Tick PROVE RoundInv'
  BY <1>7 DEF Tick, RoundInv, TypeOK, LifeInv, LockInv, FlagInv, Cur, More,
     Attached, Range, IsInjective
<1>8. ASSUME ReleaseLock \/ ReleaseClear \/ RoundEnd PROVE RoundInv'
  BY <1>8 DEF ReleaseLock, ReleaseClear, RoundEnd, SignalDevice,
     AllFinished, RoundInv
<1>9. ASSUME NEW d \in Device, NextSlotLock(d) PROVE RoundInv'
  BY <1>9 DEF NextSlotLock, RoundInv
<1>10. ASSUME NEW d \in Device, DetachLock(d) PROVE RoundInv'
  BY <1>10 DEF DetachLock, RoundInv
<1>11. ASSUME NEW d \in Device, NextSlotDone(d) PROVE RoundInv'
  BY <1>11 DEF NextSlotDone, SignalTimer, RoundInv
<1>12. ASSUME NEW d \in Device, DetachSet(d) PROVE RoundInv'
  BY <1>12 DEF DetachSet, SignalTimer, RoundInv
<1>13. ASSUME NEW d \in Device, NextSlotWaitLock(d) PROVE RoundInv'
  BY <1>13 DEF NextSlotWaitLock, RoundInv
<1>14. ASSUME NEW d \in Device, NextSlotSleep(d) PROVE RoundInv'
  BY <1>14 DEF NextSlotSleep, HeldBack, RoundInv
<1>15. ASSUME NEW d \in Device, NextSlotReturn(d) PROVE RoundInv'
  BY <1>15 DEF NextSlotReturn, HeldBack, RoundInv
<1>16. ASSUME NEW d \in Device, SpuriousWakeup(d) PROVE RoundInv'
  BY <1>16 DEF SpuriousWakeup, RoundInv
<1>17. ASSUME UNCHANGED vars PROVE RoundInv'
  BY <1>17 DEF RoundInv
<1> QED BY <1>1, <1>2, <1>3, <1>4, <1>5, <1>6, <1>7, <1>8, <1>9, <1>10,
   <1>11, <1>12, <1>13, <1>14, <1>15, <1>16, <1>17 DEF Next, Main, Timer,
   DeviceStep, Terminated

(* Every step keeps each device that takes part in the clock's slot: one     *)
(* slot behind it while the timer has ticked and not yet released it.       *)
LEMMA SlotInvStep == ASSUME IInv, [Next]_vars PROVE SlotInv'
<1> USE DEF vars, devVars, timerVars, mainVars
<1>. /\ TypeOK /\ LifeInv /\ LockInv /\ FlagInv /\ RoundInv /\ SlotInv
  BY DEF IInv
<1>1. ASSUME NEW d \in Device, AttachEvent(d) PROVE SlotInv'
  BY <1>1 DEF AttachEvent, SlotInv, Pending, BarrierSlot, Released,
     RoundInv, TypeOK, LifeInv, LockInv, FlagInv, Cur, More, Attached,
     Range, IsInjective
<1>2. ASSUME NEW d \in Device, Spawn(d) PROVE SlotInv'
  BY <1>2 DEF Spawn, SlotInv, Pending, BarrierSlot, Released
<1>3. ASSUME StartTimer PROVE SlotInv'
  BY <1>3 DEF StartTimer, SlotInv, Pending, BarrierSlot, Released,
     RoundInv, TypeOK, LifeInv, LockInv, FlagInv, Cur, More, Attached,
     Range, IsInjective
<1>4. ASSUME AllSpawned \/ JoinDevices \/ StopTimer \/ JoinTimer PROVE
   SlotInv'
  BY <1>4 DEF AllSpawned, JoinDevices, StopTimer, JoinTimer, SlotInv,
     Pending, BarrierSlot, Released
<1>5. ASSUME FreeDevice PROVE SlotInv'
  BY <1>5 DEF FreeDevice, SlotInv, Pending, BarrierSlot, Released,
     RoundInv, TypeOK, LifeInv, LockInv, FlagInv, Cur, More, Attached,
     Range, IsInjective
<1>6. ASSUME TimerLoop \/ GatherLock \/ GatherSleep \/ GatherWake \/
   GatherNext PROVE SlotInv'
  BY <1>6 DEF TimerLoop, GatherLock, GatherSleep, GatherWake, GatherNext,
     MustWait, CountFinished, SlotInv, Pending, BarrierSlot, Released
<1>7. ASSUME Tick PROVE SlotInv'
  BY <1>7 DEF Tick, SlotInv, Pending, BarrierSlot, Released, RoundInv,
     TypeOK, LifeInv, LockInv, FlagInv, Cur, More, Attached, Range,
     IsInjective
<1>8. ASSUME ReleaseLock PROVE SlotInv'
  BY <1>8 DEF ReleaseLock, SlotInv, Pending, BarrierSlot, Released
<1>9. ASSUME ReleaseClear PROVE SlotInv'
  BY <1>9 DEF ReleaseClear, SignalDevice, SlotInv, Pending, BarrierSlot,
     Released, RoundInv, TypeOK, LifeInv, LockInv, FlagInv, Cur, More,
     Attached, Range, IsInjective
<1>10. ASSUME RoundEnd PROVE SlotInv'
  BY <1>10 DEF RoundEnd, AllFinished, SlotInv, Pending, BarrierSlot,
     Released, TypeOK, LockInv, FlagInv, Cur, More
<1>11. ASSUME NEW d \in Device, NextSlotLock(d) PROVE SlotInv'
  BY <1>11 DEF NextSlotLock, SlotInv, Pending, BarrierSlot, Released
<1>12. ASSUME NEW d \in Device, DetachLock(d) PROVE SlotInv'
  BY <1>12 DEF DetachLock, SlotInv, Pending, BarrierSlot, Released
<1>13. ASSUME NEW d \in Device, NextSlotDone(d) PROVE SlotInv'
  BY <1>13 DEF NextSlotDone, SignalTimer, SlotInv, Pending, BarrierSlot,
     Released, TypeOK
<1>14. ASSUME NEW d \in Device, DetachSet(d) PROVE SlotInv'
  BY <1>14 DEF DetachSet, SignalTimer, SlotInv, Pending, BarrierSlot,
     Released
<1>15. ASSUME NEW d \in Device, NextSlotWaitLock(d) PROVE SlotInv'
  BY <1>15 DEF NextSlotWaitLock, SlotInv, Pending, BarrierSlot, Released
<1>16. ASSUME NEW d \in Device, NextSlotSleep(d) PROVE SlotInv'
  BY <1>16 DEF NextSlotSleep, HeldBack, SlotInv, Pending, BarrierSlot,
     Released
<1>17. ASSUME NEW d \in Device, NextSlotReturn(d) PROVE SlotInv'
  BY <1>17 DEF NextSlotReturn, HeldBack, SlotInv, Pending, BarrierSlot,
     Released, TypeOK
<1>18. ASSUME NEW d \in Device, SpuriousWakeup(d) PROVE SlotInv'
  BY <1>18 DEF SpuriousWakeup, SlotInv, Pending, BarrierSlot, Released
<1>19. ASSUME UNCHANGED vars PROVE SlotInv'
  BY <1>19 DEF SlotInv, Pending, BarrierSlot, Released
<1> QED BY <1>1, <1>2, <1>3, <1>4, <1>5, <1>6, <1>7, <1>8, <1>9, <1>10,
   <1>11, <1>12, <1>13, <1>14, <1>15, <1>16, <1>17, <1>18, <1>19 DEF Next,
   Main, Timer, DeviceStep, Terminated

-----------------------------------------------------------------------------
(* In every reachable state the flags, locks, program points and slots are  *)
(* related as IInv says.                                                    *)
THEOREM Invariance == Spec => []IInv
<1>1. Init => IInv
  BY InitInv
<1>2. IInv /\ [Next]_vars => IInv'
  BY TypeOKStep, LifeInvStep, LockInvStep, FlagInvStep, RoundInvStep, SlotInvStep DEF IInv
<1> QED BY <1>1, <1>2, PTL DEF Spec

(* The variables of timer.c always have their types; fsh and event never    *)
(* go below zero.                                                           *)
THEOREM TypeCorrect == Spec => []TypeOK
<1>1. IInv => TypeOK
  BY DEF IInv
<1> QED BY <1>1, Invariance, PTL

(* A thread at work is in the clock's slot: _time cannot run ahead of a     *)
(* thread, nor a thread ahead of _time, for any number of CPUs.             *)
THEOREM DevicesInCurrentSlot == Spec => []InCurrentSlot
<1>1. IInv => InCurrentSlot
  <2> SUFFICES ASSUME IInv, NEW d \in Device, AtWork(d) PROVE slot[d] = time
    BY DEF InCurrentSlot
  <2>1. ~fsh[d] /\ ~done[d] /\ ~Released(d)
    BY DEF IInv, FlagInv, AtWork, Released
  <2>2. BarrierSlot[d] = slot[d]
    BY <2>1 DEF BarrierSlot
  <2>3. ~Pending(d)
    BY <2>1 DEF IInv, SlotInv
  <2> QED BY <2>1, <2>2, <2>3 DEF IInv, SlotInv
<1> QED BY <1>1, Invariance, PTL

(* The two writes of `done', made under different locks, never meet, and    *)
(* nobody reads _time while the timer increments it.                        *)
THEOREM RaceFree == Spec => []NoDataRace
<1>1. IInv => NoDataRace
  <2> SUFFICES ASSUME IInv PROVE NoDataRace
    OBVIOUS
  <2> USE DEF IInv
  <2>1. ASSUME NEW d \in Device, dpc[d] = "set_done", tpc = "clear", Cur = d PROVE FALSE
    <3>1. ~fsh[d] /\ ~done[d]
      BY <2>1 DEF FlagInv
    <3>2. Pending(d)
      BY <2>1 DEF Pending, Cur, More, LockInv, TypeOK
    <3> QED BY <3>1, <3>2 DEF SlotInv
  <2>2. ASSUME tpc = "gather", ~More, NEW d \in Device PROVE ~AtWork(d)
    <3>1. \E i \in 1 .. Len(dev_list) : dev_list[i] = d
      BY <2>2 DEF LifeInv, Attached, Range, TypeOK
    <3>2. done[d] \/ fsh[d]
      BY <2>2, <3>1 DEF RoundInv, More, TypeOK
    <3> QED BY <3>2 DEF FlagInv, AtWork
  <2> QED BY <2>1, <2>2 DEF NoDataRace
<1> QED BY <1>1, Invariance, PTL

(* The timer thread ends after all devices detached; records are freed      *)
(* after all threads that use them ended.                                   *)
THEOREM StopsInOrder == Spec => []OrderlyStop
<1>1. IInv => OrderlyStop
  BY DEF IInv, LifeInv, FlagInv, OrderlyStop
<1> QED BY <1>1, Invariance, PTL

-----------------------------------------------------------------------------
(* A step that leaves slots, flags and program points alone is invisible at *)
(* the barrier.                                                             *)
LEMMA Invisible ==
  ASSUME UNCHANGED <<done, fsh, dpc, slot>>
  PROVE  UNCHANGED <<BarrierSlot, BarrierState>>
BY DEF BarrierSlot, BarrierState, Released

(* Letting device `Cur' go is the barrier's Advance: all the others are past *)
(* the slot it leaves, the ones still to be released because they are done. *)
LEMMA ReleaseAdvances ==
  ASSUME IInv, ReleaseClear
  PROVE  SB!Advance(Cur) \/ UNCHANGED <<BarrierSlot, BarrierState>>
<1> USE DEF IInv
<1>1. /\ tpc = "clear" /\ Cur \in Device /\ Pending(Cur)
      /\ done' = [done EXCEPT ![Cur] = FALSE]
      /\ UNCHANGED <<fsh, dpc, slot>>
  BY DEF ReleaseClear, Pending, LockInv, More, Cur, TypeOK, devVars, timerVars, mainVars
<1>2. CASE done[Cur]
  <2>1. ~fsh[Cur] /\ ~Released(Cur) /\ dpc[Cur] \in {"called", "test", "asleep"}
    BY <1>1, <1>2 DEF FlagInv, Released
  <2>2. BarrierSlot[Cur] + 1 = time /\ BarrierSlot[Cur] = slot[Cur] /\ slot[Cur] \in Nat
    BY <1>1, <2>1 DEF SlotInv, BarrierSlot, TypeOK
  <2>3. BarrierState[Cur] = "waiting"
    BY <1>1, <1>2, <2>1 DEF BarrierState
  <2>4. ASSUME NEW e \in Device PROVE SB!PastSlot(e, BarrierSlot[Cur])
    <3>1. CASE fsh[e]
      BY <3>1 DEF SB!PastSlot, BarrierState
    <3>2. CASE ~fsh[e] /\ Pending(e)
      <4>1. BarrierSlot[e] + 1 = time /\ done[e] /\ BarrierSlot[e] \in Nat
        BY <3>2 DEF SlotInv, BarrierSlot, TypeOK
      <4>2. BarrierState[e] = "waiting"
        BY <3>2, <4>1 DEF BarrierState
      <4>3. BarrierSlot[e] = BarrierSlot[Cur]
        BY <4>1, <2>2
      <4> QED BY <4>2, <4>3 DEF SB!PastSlot
    <3>3. CASE ~fsh[e] /\ ~Pending(e)
      <4>1. BarrierSlot[e] = time
        BY <3>3 DEF SlotInv
      <4>2. BarrierSlot[e] > BarrierSlot[Cur]
        BY <4>1, <2>2
      <4> QED BY <4>2 DEF SB!PastSlot
    <3> QED BY <3>1, <3>2, <3>3
  <2>5. BarrierSlot' = [BarrierSlot EXCEPT ![Cur] = @ + 1]
    <3>1. ASSUME NEW e \in Device, e # Cur PROVE BarrierSlot'[e] = BarrierSlot[e]
      BY <1>1, <3>1 DEF BarrierSlot, Released, TypeOK
    <3>2. BarrierSlot'[Cur] = BarrierSlot[Cur] + 1
      BY <1>1, <2>1, <2>2 DEF BarrierSlot, Released, TypeOK
    <3> QED BY <3>1, <3>2 DEF BarrierSlot
  <2>6. BarrierState' = [BarrierState EXCEPT ![Cur] = "working"]
    BY <1>1, <2>1 DEF BarrierState, TypeOK
  <2> QED BY <1>1, <2>3, <2>4, <2>5, <2>6 DEF SB!Advance
<1>3. CASE ~done[Cur]
  <2>1. done' = done
    BY <1>1, <1>3 DEF TypeOK
  <2> QED BY <1>1, <2>1, Invisible
<1> QED BY <1>2, <1>3

(* next_slot's first half is Arrive. *)
LEMMA DoneArrives ==
  ASSUME IInv, NEW d \in Device, NextSlotDone(d)
  PROVE  SB!Arrive(d)
<1>1. ~fsh[d] /\ ~done[d]
  BY DEF IInv, FlagInv, NextSlotDone
<1>2. BarrierState[d] = "working" /\ BarrierState' = [BarrierState EXCEPT ![d] = "waiting"]
  BY <1>1 DEF IInv, TypeOK, NextSlotDone, BarrierState
<1>3. BarrierSlot' = BarrierSlot
  BY <1>1 DEF IInv, TypeOK, NextSlotDone, BarrierSlot, Released
<1> QED BY <1>2, <1>3 DEF SB!Arrive

(* detach_event is Leave. *)
LEMMA DetachLeaves ==
  ASSUME IInv, NEW d \in Device, DetachSet(d)
  PROVE  SB!Leave(d)
<1>1. ~fsh[d] /\ ~done[d]
  BY DEF IInv, FlagInv, DetachSet
<1>2. BarrierState[d] = "working" /\ BarrierState' = [BarrierState EXCEPT ![d] = "gone"]
  BY <1>1 DEF IInv, TypeOK, DetachSet, BarrierState
<1>3. BarrierSlot' = BarrierSlot
  BY <1>1 DEF IInv, TypeOK, DetachSet, BarrierSlot, Released
<1> QED BY <1>2, <1>3 DEF SB!Leave

(* Returning from next_slot is invisible: the slot was entered when the     *)
(* timer cleared `done'.                                                    *)
LEMMA ReturnInvisible ==
  ASSUME IInv, NEW d \in Device, NextSlotReturn(d)
  PROVE  UNCHANGED <<BarrierSlot, BarrierState>>
<1>1. Released(d) /\ ~Released(d)'
  BY DEF IInv, TypeOK, NextSlotReturn, HeldBack, Released
<1>2. ASSUME NEW e \in Device PROVE BarrierSlot'[e] = BarrierSlot[e]
  BY <1>1 DEF IInv, TypeOK, NextSlotReturn, BarrierSlot, Released
<1>3. BarrierSlot' = BarrierSlot
  BY <1>2 DEF BarrierSlot
<1> QED BY <1>3 DEF NextSlotReturn, BarrierState

(* For any set of devices the timer, its condition variables and its two    *)
(* loops implement the slot barrier: no device enters a slot before every   *)
(* other one has finished the slot before it or has detached.               *)
THEOREM TimerImplementsBarrier == Spec => ImplementsBarrier
<1>1. Init => SB!Init
  BY DEF Init, SB!Init, BarrierSlot, BarrierState, Released
<1>2. ASSUME IInv, [Next]_vars PROVE [SB!Next]_(SB!vars)
  <2> USE DEF SB!vars, vars, devVars, timerVars, mainVars
  <2>1. ASSUME NEW d \in Device, AttachEvent(d) PROVE UNCHANGED SB!vars
    <3>1. UNCHANGED <<done, fsh, dpc, slot>>
      BY <1>2, <2>1 DEF AttachEvent, IInv, LifeInv, FlagInv, TypeOK
    <3> QED BY <3>1, Invisible
  <2>2. ASSUME NEW d \in Device, Spawn(d) PROVE UNCHANGED SB!vars
    BY <1>2, <2>2 DEF Spawn, IInv, TypeOK, BarrierSlot, BarrierState, Released
  <2>3. ASSUME StartTimer \/ AllSpawned \/ JoinDevices \/ StopTimer \/ JoinTimer \/ FreeDevice
        PROVE UNCHANGED SB!vars
    BY <2>3, Invisible DEF StartTimer, AllSpawned, JoinDevices, StopTimer, JoinTimer, FreeDevice
  <2>4. ASSUME TimerLoop \/ GatherLock \/ GatherSleep \/ GatherWake \/ GatherNext
                 \/ Tick \/ ReleaseLock \/ RoundEnd
        PROVE UNCHANGED SB!vars
    BY <2>4, Invisible DEF TimerLoop, GatherLock, GatherSleep, GatherWake, GatherNext,
                           Tick, ReleaseLock, RoundEnd
  <2>5. ASSUME ReleaseClear PROVE SB!Next \/ UNCHANGED SB!vars
    <3>1. Cur \in Device
      BY <1>2, <2>5 DEF IInv, ReleaseClear, LockInv, TypeOK, Cur, More
    <3> QED BY <1>2, <2>5, <3>1, ReleaseAdvances DEF SB!Next
  <2>6. ASSUME NEW d \in Device, NextSlotLock(d) \/ DetachLock(d) PROVE UNCHANGED SB!vars
    BY <1>2, <2>6 DEF NextSlotLock, DetachLock, IInv, TypeOK, BarrierSlot, BarrierState, Released
  <2>7. ASSUME NEW d \in Device, NextSlotDone(d) PROVE SB!Next
    BY <1>2, <2>7, DoneArrives DEF SB!Next
  <2>8. ASSUME NEW d \in Device, DetachSet(d) PROVE SB!Next
    BY <1>2, <2>8, DetachLeaves DEF SB!Next
  <2>9. ASSUME NEW d \in Device, NextSlotWaitLock(d) \/ NextSlotSleep(d) PROVE UNCHANGED SB!vars
    BY <1>2, <2>9 DEF NextSlotWaitLock, NextSlotSleep, IInv, TypeOK, BarrierSlot, BarrierState, Released
  <2>10. ASSUME NEW d \in Device, NextSlotReturn(d) PROVE UNCHANGED SB!vars
    BY <1>2, <2>10, ReturnInvisible
  <2>11. ASSUME NEW d \in Device, SpuriousWakeup(d) PROVE UNCHANGED SB!vars
    BY <2>11, Invisible DEF SpuriousWakeup
  <2>12. ASSUME UNCHANGED vars PROVE UNCHANGED SB!vars
    BY <2>12, Invisible
  <2> QED BY <1>2, <2>1, <2>2, <2>3, <2>4, <2>5, <2>6, <2>7, <2>8, <2>9, <2>10, <2>11, <2>12
          DEF Next, Main, Timer, DeviceStep, Terminated
<1> QED BY <1>1, <1>2, Invariance, PTL DEF Spec, SB!Spec, ImplementsBarrier

-----------------------------------------------------------------------------
(* A step that leaves the flags and the clock alone, and nobody's release   *)
(* pending that was not, is invisible to the common clock.                  *)
LEMMA SamePlace ==
  ASSUME UNCHANGED <<done, fsh, time>>,
         \A d \in Device : Pending(d)' <=> Pending(d)
  PROVE  UNCHANGED LS!vars
BY DEF LS!vars, ClockTime, LastSlot, PlaceInSlot

(* Which releases are pending is told by the timer's program point, its     *)
(* position and the list.                                                   *)
LEMMA SamePending ==
  ASSUME UNCHANGED <<done, fsh, time, tpc, temp, dev_list>>
  PROVE  UNCHANGED LS!vars
<1>1. \A d \in Device : Pending(d)' <=> Pending(d)
  BY DEF Pending
<1> QED BY <1>1, SamePlace

(* The increment of _time is the tick: everybody has arrived or left, and   *)
(* everybody who arrived starts to work in the new slot.                    *)
LEMMA TickTicks ==
  ASSUME IInv, Tick
  PROVE  LS!Tick
<1> USE DEF IInv
<1>1. /\ tpc = "gather" /\ temp = Len(dev_list) + 1 /\ Attached = Device
      /\ UNCHANGED <<done, fsh, dev_list>> /\ time' = time + 1 /\ time \in Nat
      /\ temp' = 1 /\ tpc' = "release"
  BY DEF Tick, LifeInv, RoundInv, More, TypeOK, devVars, mainVars
<1>2. ASSUME NEW d \in Device
      PROVE  (done[d] \/ fsh[d]) /\ ~Pending(d) /\ Pending(d)'
  <2>1. PICK k \in DOMAIN dev_list : dev_list[k] = d
    BY <1>1 DEF Attached, Range
  <2>2. k \in 1 .. (temp - 1) /\ k >= 1
    BY <1>1 DEF TypeOK
  <2> QED BY <1>1, <2>1, <2>2 DEF RoundInv, Pending
<1>3. ClockTime' = IF ClockTime < LastSlot THEN ClockTime + 1 ELSE ClockTime
  BY <1>1, MaxSlotIsNat DEF ClockTime, LastSlot
<1>4. \A d \in Device : PlaceInSlot[d] = IF fsh[d] THEN "gone" ELSE "waiting"
  BY <1>2 DEF PlaceInSlot
<1>5. PlaceInSlot' = [d \in Device |-> IF PlaceInSlot[d] = "waiting" THEN "working" ELSE PlaceInSlot[d]]
  BY <1>1, <1>2, <1>4 DEF PlaceInSlot
<1> QED BY <1>3, <1>4, <1>5 DEF LS!Tick

(* Clearing the flag of a device whose release was pending is invisible: it *)
(* counted as at work since the tick.                                       *)
LEMMA ReleaseInvisible ==
  ASSUME IInv, ReleaseClear
  PROVE  UNCHANGED LS!vars
<1> USE DEF IInv
<1>1. /\ tpc = "clear" /\ tpc' = "release" /\ temp' = temp + 1 /\ temp \in Nat
      /\ temp \in DOMAIN dev_list /\ IsInjective(dev_list)
      /\ done' = [done EXCEPT ![Cur] = FALSE]
      /\ UNCHANGED <<fsh, dev_list, time>>
  BY DEF ReleaseClear, LifeInv, LockInv, More, TypeOK, mainVars
<1>2. Pending(Cur) /\ ~done'[Cur]
  BY <1>1 DEF Pending, Cur, TypeOK
<1>3. ASSUME NEW d \in Device, d # Cur
      PROVE  done'[d] = done[d] /\ (Pending(d)' <=> Pending(d))
  BY <1>1, <1>3 DEF Pending, Cur, TypeOK
<1>4. ASSUME NEW d \in Device PROVE PlaceInSlot'[d] = PlaceInSlot[d]
  BY <1>1, <1>2, <1>3 DEF PlaceInSlot
<1>5. PlaceInSlot' = PlaceInSlot
  BY <1>4 DEF PlaceInSlot
<1> QED BY <1>1, <1>5 DEF LS!vars, ClockTime, LastSlot

(* next_slot is the clock's Arrive, detach_event its Leave: the release of  *)
(* a device at work is not pending.                                         *)
LEMMA DeviceMoves ==
  ASSUME IInv, NEW d \in Device, NextSlotDone(d) \/ DetachSet(d)
  PROVE  LS!Arrive(d) \/ LS!Leave(d)
<1> USE DEF IInv
<1>1. ~fsh[d] /\ ~done[d] /\ ~Pending(d)
  BY DEF FlagInv, SlotInv, NextSlotDone, DetachSet
<1>2. UNCHANGED <<tpc, temp, dev_list, time>>
  BY DEF NextSlotDone, DetachSet, timerVars, mainVars
<1>3. \A e \in Device : Pending(e)' <=> Pending(e)
  BY <1>2 DEF Pending
<1>4. ClockTime' = ClockTime
  BY <1>2 DEF ClockTime, LastSlot
<1>5. PlaceInSlot[d] = "working"
  BY <1>1 DEF PlaceInSlot
<1>6. CASE NextSlotDone(d)
  <2>1. PlaceInSlot' = [PlaceInSlot EXCEPT ![d] = "waiting"]
    BY <1>1, <1>3, <1>6 DEF NextSlotDone, PlaceInSlot, TypeOK
  <2> QED BY <1>4, <1>5, <2>1 DEF LS!Arrive
<1>7. CASE DetachSet(d)
  <2>1. PlaceInSlot' = [PlaceInSlot EXCEPT ![d] = "gone"]
    BY <1>1, <1>3, <1>7 DEF DetachSet, PlaceInSlot, TypeOK
  <2> QED BY <1>4, <1>5, <2>1 DEF LS!Leave
<1> QED BY <1>6, <1>7

(* For any set of devices, what they see of the timer is one clock that     *)
(* ticks when all of them have arrived at the end of the slot or detached:  *)
(* the clock over which the CPU and loader threads are modelled.            *)
THEOREM TimerImplementsLockstep == Spec => ImplementsLockstep
<1>1. Init => LS!Init
  BY MaxSlotIsNat DEF Init, LS!Init, ClockTime, LastSlot, PlaceInSlot
<1>2. ASSUME IInv, [Next]_vars PROVE [LS!Next]_(LS!vars)
  <2> USE DEF vars, devVars, timerVars, mainVars
  <2>1. ASSUME NEW d \in Device, AttachEvent(d) PROVE UNCHANGED LS!vars
    <3>1. UNCHANGED <<done, fsh, time>> /\ tpc = "off" /\ tpc' = "off"
      BY <1>2, <2>1 DEF AttachEvent, IInv, LifeInv, FlagInv, TypeOK
    <3>2. \A e \in Device : Pending(e)' <=> Pending(e)
      BY <3>1 DEF Pending
    <3> QED BY <3>1, <3>2, SamePlace
  <2>2. ASSUME StartTimer PROVE UNCHANGED LS!vars
    <3>1. UNCHANGED <<done, fsh, time>> /\ tpc = "off" /\ tpc' = "head"
      BY <1>2, <2>2 DEF StartTimer, IInv, LifeInv
    <3>2. \A e \in Device : Pending(e)' <=> Pending(e)
      BY <3>1 DEF Pending
    <3> QED BY <3>1, <3>2, SamePlace
  <2>3. ASSUME AllSpawned \/ JoinDevices \/ StopTimer \/ JoinTimer
        PROVE UNCHANGED LS!vars
    BY <2>3, SamePending DEF AllSpawned, JoinDevices, StopTimer, JoinTimer
  <2>4. ASSUME FreeDevice PROVE UNCHANGED LS!vars
    <3>1. UNCHANGED <<done, fsh, time>> /\ tpc = "exited" /\ tpc' = "exited"
      BY <1>2, <2>4 DEF FreeDevice, IInv, LifeInv
    <3>2. \A e \in Device : Pending(e)' <=> Pending(e)
      BY <3>1 DEF Pending
    <3> QED BY <3>1, <3>2, SamePlace
  <2>5. ASSUME TimerLoop \/ GatherLock \/ GatherSleep \/ GatherWake \/ GatherNext \/ RoundEnd
        PROVE UNCHANGED LS!vars
    <3>1. UNCHANGED <<done, fsh, time, dev_list>>
      BY <2>5 DEF TimerLoop, GatherLock, GatherSleep, GatherWake, GatherNext, RoundEnd
    <3>2. \A e \in Device : ~Pending(e) /\ ~Pending(e)'
      BY <1>2, <2>5 DEF TimerLoop, GatherLock, GatherSleep, GatherWake, GatherNext, RoundEnd,
                        Pending, More, IInv, TypeOK
    <3> QED BY <3>1, <3>2, SamePlace
  <2>6. ASSUME ReleaseLock PROVE UNCHANGED LS!vars
    <3>1. UNCHANGED <<done, fsh, time>>
      BY <2>6 DEF ReleaseLock
    <3>2. \A e \in Device : Pending(e)' <=> Pending(e)
      BY <2>6 DEF ReleaseLock, Pending
    <3> QED BY <3>1, <3>2, SamePlace
  <2>7. ASSUME Tick PROVE LS!Next
    BY <1>2, <2>7, TickTicks DEF LS!Next
  <2>8. ASSUME ReleaseClear PROVE UNCHANGED LS!vars
    BY <1>2, <2>8, ReleaseInvisible
  <2>9. ASSUME NEW d \in Device, NextSlotDone(d) \/ DetachSet(d) PROVE LS!Next
    BY <1>2, <2>9, DeviceMoves DEF LS!Next
  <2>10. ASSUME NEW d \in Device,
                Spawn(d) \/ NextSlotLock(d) \/ DetachLock(d) \/ NextSlotWaitLock(d)
                  \/ NextSlotSleep(d) \/ NextSlotReturn(d) \/ SpuriousWakeup(d)
         PROVE UNCHANGED LS!vars
    BY <2>10, SamePending DEF Spawn, NextSlotLock, DetachLock, NextSlotWaitLock,
                              NextSlotSleep, NextSlotReturn, SpuriousWakeup
  <2>11. ASSUME UNCHANGED vars PROVE UNCHANGED LS!vars
    BY <2>11, SamePending
  <2> QED BY <1>2, <2>1, <2>2, <2>3, <2>4, <2>5, <2>6, <2>7, <2>8, <2>9, <2>10, <2>11
          DEF Next, Main, Timer, DeviceStep, Terminated
<1> QED BY <1>1, <1>2, Invariance, PTL DEF Spec, LS!Spec, ImplementsLockstep

=============================================================================
