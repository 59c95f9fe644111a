----------------------------- MODULE SlotTimer -----------------------------
(***************************************************************************)
(* src/timer.c: the timer thread that drives simulated time, and the       *)
(* next_slot / detach_event calls by which CPU threads and the loader      *)
(* keep in step with it; main's use of attach_event, start_timer and       *)
(* stop_timer (src/os.c) closes the system.                                *)
(*                                                                         *)
(* The device record holds two flags and two lock/condition pairs.  The    *)
(* device sets `done' under event_lock, the timer clears it under          *)
(* timer_lock: no single lock protects the flag, so taking a lock and the  *)
(* access it guards are steps of their own here.  A thread asleep in       *)
(* pthread_cond_wait runs again after a signal or spuriously.              *)
(***************************************************************************)
EXTENDS Integers, Sequences, Functions

CONSTANTS
  Device,              \* one element per attach_event call of main
  MaxSlot              \* bound: calls of next_slot a device makes

ASSUME MaxSlotIsNat == MaxSlot \in Nat

VARIABLES
  dev_list,            \* the timer's list of devices, head first
  done, fsh,           \* the two flags of each device record
  event_lock,          \* owner of each device's event_lock
  timer_lock,          \* owner of each device's timer_lock
  event_wait,          \* event_wait[d]: the timer sleeps on d's event_cond
  timer_wait,          \* timer_wait[d]: d sleeps on its timer_cond
  time,                \* _time
  timer_stop,
  tpc,                 \* timer thread: program point,
  temp,                \*   position in dev_list,
  fshCount, event,     \*   finished devices and devices seen this round
  dpc,                 \* device threads: program points
  slot,                \* history: next_slot calls d has returned from
  mpc                  \* main thread: program point

devVars   == <<done, fsh, event_lock, timer_lock, event_wait, timer_wait>>
timerVars == <<time, tpc, temp, fshCount, event>>
mainVars  == <<dev_list, timer_stop, mpc>>
vars      == <<devVars, timerVars, mainVars, dpc, slot>>

Owner == {"free", "timer", "device"}
TimerPC == {"off", "head", "gather", "check", "sleep", "release", "clear", "exited"}
DevicePC == {"idle", "work", "set_done", "set_fsh",
             "called", "test", "asleep", "exited"}
MainPC == {"attach", "spawn", "join", "stop", "join_timer", "free", "end"}

Attached == Range(dev_list)
Cur == dev_list[temp]              \* the device the timer's `temp' points to
More == temp <= Len(dev_list)      \* temp # NULL

Init ==
  /\ dev_list = <<>>
  /\ done = [d \in Device |-> FALSE]
  /\ fsh = [d \in Device |-> FALSE]
  /\ event_lock = [d \in Device |-> "free"]
  /\ timer_lock = [d \in Device |-> "free"]
  /\ event_wait = [d \in Device |-> FALSE]
  /\ timer_wait = [d \in Device |-> FALSE]
  /\ time = 0
  /\ timer_stop = FALSE
  /\ tpc = "off"
  /\ temp = 1
  /\ fshCount = 0
  /\ event = 0
  /\ dpc = [d \in Device |-> "idle"]
  /\ slot = [d \in Device |-> 0]
  /\ mpc = "attach"

-----------------------------------------------------------------------------
(* The main thread. *)

(* attach_event, called before start_timer only, pushes at the head. *)
AttachEvent(d) ==
  /\ mpc = "attach"
  /\ d \notin Attached
  /\ dev_list' = <<d>> \o dev_list
  /\ done' = [done EXCEPT ![d] = FALSE]
  /\ fsh' = [fsh EXCEPT ![d] = FALSE]
  /\ UNCHANGED <<event_lock, timer_lock, event_wait, timer_wait, timerVars,
                 timer_stop, mpc, dpc, slot>>

(* Every CPU and the loader have attached: the timer thread starts. *)
StartTimer ==
  /\ mpc = "attach"
  /\ Attached = Device
  /\ mpc' = "spawn"
  /\ tpc' = "head"
  /\ UNCHANGED <<devVars, time, temp, fshCount, event, dev_list, timer_stop, dpc, slot>>

(* pthread_create of a CPU thread or of the loader; the timer already runs. *)
Spawn(d) ==
  /\ mpc = "spawn"
  /\ dpc[d] = "idle"
  /\ dpc' = [dpc EXCEPT ![d] = "work"]
  /\ UNCHANGED <<devVars, timerVars, mainVars, slot>>

AllSpawned ==
  /\ mpc = "spawn"
  /\ \A d \in Device : dpc[d] # "idle"
  /\ mpc' = "join"
  /\ UNCHANGED <<devVars, timerVars, dev_list, timer_stop, dpc, slot>>

(* pthread_join of every CPU thread and of the loader. *)
JoinDevices ==
  /\ mpc = "join"
  /\ \A d \in Device : dpc[d] = "exited"
  /\ mpc' = "stop"
  /\ UNCHANGED <<devVars, timerVars, dev_list, timer_stop, dpc, slot>>

(* stop_timer, in three parts: the flag, the join, the frees. *)
StopTimer ==
  /\ mpc = "stop"
  /\ timer_stop' = TRUE
  /\ mpc' = "join_timer"
  /\ UNCHANGED <<devVars, timerVars, dev_list, dpc, slot>>

JoinTimer ==
  /\ mpc = "join_timer"
  /\ tpc = "exited"
  /\ mpc' = "free"
  /\ UNCHANGED <<devVars, timerVars, dev_list, timer_stop, dpc, slot>>

FreeDevice ==
  /\ mpc = "free"
  /\ dev_list # <<>>
  /\ dev_list' = Tail(dev_list)
  /\ mpc' = IF Tail(dev_list) = <<>> THEN "end" ELSE "free"
  /\ UNCHANGED <<devVars, timerVars, timer_stop, dpc, slot>>

Main ==
  \/ \E d \in Device : AttachEvent(d) \/ Spawn(d)
  \/ StartTimer \/ AllSpawned \/ JoinDevices
  \/ StopTimer \/ JoinTimer \/ FreeDevice

-----------------------------------------------------------------------------
(* Tests and assignments of the two loops.  Each comes after the faulty     *)
(* variants of it that the properties must tell from the code.              *)

(* The timer waits while the device is neither done nor finished.  Faulty:  *)
(* it does not test the flags; it tests only `done'.                        *)
MustWaitNever(d) == FALSE
MustWaitUndone(d) == ~done[d]
MustWait(d) == ~done[d] /\ ~fsh[d]

(* The devices that have detached, among those gathered.  Faulty: a device  *)
(* that has not detached is counted down.                                   *)
CountDown(d) == IF fsh[d] THEN fshCount + 1 ELSE fshCount - 1
CountFinished(d) == IF fsh[d] THEN fshCount + 1 ELSE fshCount

(* The timer ends when all have detached.  Faulty: when one has.            *)
SomeFinished == fshCount > 0
AllFinished == fshCount = event

(* The device waits while its `done' is set.  Faulty: it does not wait.     *)
HeldBackNever(d) == FALSE
HeldBack(d) == done[d]

(* A signal on event_cond, on timer_cond.  Faulty: it is not sent.          *)
NoSignalTimer(d) == UNCHANGED event_wait
SignalTimer(d) == event_wait' = [event_wait EXCEPT ![d] = FALSE]
NoSignalDevice(d) == UNCHANGED timer_wait
SignalDevice(d) == timer_wait' = [timer_wait EXCEPT ![d] = FALSE]

-----------------------------------------------------------------------------
(* The timer thread. *)

(* The loop test, and the start of the round that gathers the devices. *)
TimerLoop ==
  /\ tpc = "head"
  /\ tpc' = IF timer_stop THEN "exited" ELSE "gather"
  /\ temp' = 1
  /\ fshCount' = 0
  /\ event' = 0
  /\ UNCHANGED <<devVars, time, mainVars, dpc, slot>>

GatherLock ==
  /\ tpc = "gather"
  /\ More
  /\ event_lock[Cur] = "free"
  /\ event_lock' = [event_lock EXCEPT ![Cur] = "timer"]
  /\ tpc' = "check"
  /\ UNCHANGED <<done, fsh, timer_lock, event_wait, timer_wait, time, temp,
                 fshCount, event, mainVars, dpc, slot>>

(* pthread_cond_wait gives the lock back and sleeps, in one step. *)
GatherSleep ==
  /\ tpc = "check"
  /\ MustWait(Cur)
  /\ event_lock' = [event_lock EXCEPT ![Cur] = "free"]
  /\ event_wait' = [event_wait EXCEPT ![Cur] = TRUE]
  /\ tpc' = "sleep"
  /\ UNCHANGED <<done, fsh, timer_lock, timer_wait, time, temp,
                 fshCount, event, mainVars, dpc, slot>>

GatherWake ==
  /\ tpc = "sleep"
  /\ ~event_wait[Cur]
  /\ event_lock[Cur] = "free"
  /\ event_lock' = [event_lock EXCEPT ![Cur] = "timer"]
  /\ tpc' = "check"
  /\ UNCHANGED <<done, fsh, timer_lock, event_wait, timer_wait, time, temp,
                 fshCount, event, mainVars, dpc, slot>>

GatherNext ==
  /\ tpc = "check"
  /\ ~MustWait(Cur)
  /\ fshCount' = CountFinished(Cur)
  /\ event' = event + 1
  /\ event_lock' = [event_lock EXCEPT ![Cur] = "free"]
  /\ temp' = temp + 1
  /\ tpc' = "gather"
  /\ UNCHANGED <<done, fsh, timer_lock, event_wait, timer_wait, time,
                 mainVars, dpc, slot>>

(* All devices have done their job: the next time slot begins. *)
Tick ==
  /\ tpc = "gather"
  /\ ~More
  /\ time' = time + 1
  /\ temp' = 1
  /\ tpc' = "release"
  /\ UNCHANGED <<devVars, fshCount, event, mainVars, dpc, slot>>

ReleaseLock ==
  /\ tpc = "release"
  /\ More
  /\ timer_lock[Cur] = "free"
  /\ timer_lock' = [timer_lock EXCEPT ![Cur] = "timer"]
  /\ tpc' = "clear"
  /\ UNCHANGED <<done, fsh, event_lock, event_wait, timer_wait, time, temp,
                 fshCount, event, mainVars, dpc, slot>>

(* done = 0, signal, unlock: nobody can look in between, the lock is held. *)
ReleaseClear ==
  /\ tpc = "clear"
  /\ done' = [done EXCEPT ![Cur] = FALSE]
  /\ SignalDevice(Cur)
  /\ timer_lock' = [timer_lock EXCEPT ![Cur] = "free"]
  /\ temp' = temp + 1
  /\ tpc' = "release"
  /\ UNCHANGED <<fsh, event_lock, event_wait, time, fshCount, event,
                 mainVars, dpc, slot>>

RoundEnd ==
  /\ tpc = "release"
  /\ ~More
  /\ tpc' = IF AllFinished THEN "exited" ELSE "head"
  /\ UNCHANGED <<devVars, time, temp, fshCount, event, mainVars, dpc, slot>>

Timer == TimerLoop \/ GatherLock \/ GatherSleep \/ GatherWake \/ GatherNext
           \/ Tick \/ ReleaseLock \/ ReleaseClear \/ RoundEnd

-----------------------------------------------------------------------------
(* The device threads. *)

(* next_slot and detach_event both start by taking event_lock. *)
NextSlotLock(d) ==
  /\ dpc[d] = "work"
  /\ slot[d] < MaxSlot
  /\ event_lock[d] = "free"
  /\ event_lock' = [event_lock EXCEPT ![d] = "device"]
  /\ dpc' = [dpc EXCEPT ![d] = "set_done"]
  /\ UNCHANGED <<done, fsh, timer_lock, event_wait, timer_wait, timerVars,
                 mainVars, slot>>

DetachLock(d) ==
  /\ dpc[d] = "work"
  /\ event_lock[d] = "free"
  /\ event_lock' = [event_lock EXCEPT ![d] = "device"]
  /\ dpc' = [dpc EXCEPT ![d] = "set_fsh"]
  /\ UNCHANGED <<done, fsh, timer_lock, event_wait, timer_wait, timerVars,
                 mainVars, slot>>

NextSlotDone(d) ==
  /\ dpc[d] = "set_done"
  /\ done' = [done EXCEPT ![d] = TRUE]
  /\ SignalTimer(d)
  /\ event_lock' = [event_lock EXCEPT ![d] = "free"]
  /\ dpc' = [dpc EXCEPT ![d] = "called"]
  /\ UNCHANGED <<fsh, timer_lock, timer_wait, timerVars, mainVars, slot>>

DetachSet(d) ==
  /\ dpc[d] = "set_fsh"
  /\ fsh' = [fsh EXCEPT ![d] = TRUE]
  /\ SignalTimer(d)
  /\ event_lock' = [event_lock EXCEPT ![d] = "free"]
  /\ dpc' = [dpc EXCEPT ![d] = "exited"]
  /\ UNCHANGED <<done, timer_lock, timer_wait, timerVars, mainVars, slot>>

NextSlotWaitLock(d) ==
  /\ dpc[d] = "called" \/ (dpc[d] = "asleep" /\ ~timer_wait[d])
  /\ timer_lock[d] = "free"
  /\ timer_lock' = [timer_lock EXCEPT ![d] = "device"]
  /\ dpc' = [dpc EXCEPT ![d] = "test"]
  /\ UNCHANGED <<done, fsh, event_lock, event_wait, timer_wait, timerVars,
                 mainVars, slot>>

NextSlotSleep(d) ==
  /\ dpc[d] = "test"
  /\ HeldBack(d)
  /\ timer_lock' = [timer_lock EXCEPT ![d] = "free"]
  /\ timer_wait' = [timer_wait EXCEPT ![d] = TRUE]
  /\ dpc' = [dpc EXCEPT ![d] = "asleep"]
  /\ UNCHANGED <<done, fsh, event_lock, event_wait, timerVars, mainVars, slot>>

NextSlotReturn(d) ==
  /\ dpc[d] = "test"
  /\ ~HeldBack(d)
  /\ timer_lock' = [timer_lock EXCEPT ![d] = "free"]
  /\ slot' = [slot EXCEPT ![d] = @ + 1]
  /\ dpc' = [dpc EXCEPT ![d] = "work"]
  /\ UNCHANGED <<done, fsh, event_lock, event_wait, timer_wait, timerVars, mainVars>>

DeviceStep(d) ==
  \/ NextSlotLock(d) \/ DetachLock(d) \/ NextSlotDone(d) \/ DetachSet(d)
  \/ NextSlotWaitLock(d) \/ NextSlotSleep(d) \/ NextSlotReturn(d)

(* pthread_cond_wait may return without a signal. *)
SpuriousWakeup(d) ==
  /\ \/ /\ event_wait[d]
        /\ event_wait' = [event_wait EXCEPT ![d] = FALSE]
        /\ UNCHANGED timer_wait
     \/ /\ timer_wait[d]
        /\ timer_wait' = [timer_wait EXCEPT ![d] = FALSE]
        /\ UNCHANGED event_wait
  /\ UNCHANGED <<done, fsh, event_lock, timer_lock, timerVars, mainVars, dpc, slot>>

(* main returned: the process is gone. *)
Terminated == mpc = "end" /\ UNCHANGED vars

Next ==
  \/ Main
  \/ Timer
  \/ \E d \in Device : DeviceStep(d) \/ SpuriousWakeup(d)
  \/ Terminated

Spec == Init /\ [][Next]_vars

(* Every thread that can run does run, and a condition variable wakes a     *)
(* sleeper without a signal only finitely often: POSIX allows a spurious    *)
(* wakeup, not a storm of them that keeps a mutex busy for ever.  That a    *)
(* device keeps calling next_slot until it detaches is what cpu_routine and *)
(* ld_routine do.                                                           *)
Fairness ==
  /\ WF_vars(Main)
  /\ WF_vars(Timer)
  /\ \A d \in Device : WF_vars(DeviceStep(d))
  /\ <>[][~ \E d \in Device : SpuriousWakeup(d)]_vars

LiveSpec == Spec /\ Fairness

-----------------------------------------------------------------------------
(* Properties. *)

TypeOK ==
  /\ dev_list \in Seq(Device)
  /\ done \in [Device -> BOOLEAN]
  /\ fsh \in [Device -> BOOLEAN]
  /\ event_lock \in [Device -> Owner]
  /\ timer_lock \in [Device -> Owner]
  /\ event_wait \in [Device -> BOOLEAN]
  /\ timer_wait \in [Device -> BOOLEAN]
  /\ time \in Nat
  /\ timer_stop \in BOOLEAN
  /\ tpc \in TimerPC
  /\ temp \in Nat \ {0}
  /\ fshCount \in Nat
  /\ event \in Nat
  /\ dpc \in [Device -> DevicePC]
  /\ slot \in [Device -> Nat]
  /\ mpc \in MainPC

(* A device is at work between two calls of the timer's interface. *)
AtWork(d) == dpc[d] \in {"work", "set_done", "set_fsh"}

(* A thread of the simulator that is at work is at work in the current     *)
(* slot: it returned from next_slot exactly _time times, so no thread is a  *)
(* slot ahead of or behind the clock, whatever the order in which the       *)
(* timer released the threads and however early one of them came back to    *)
(* the end of its slot (timer_routine, next_slot).                          *)
InCurrentSlot == \A d \in Device : AtWork(d) => slot[d] = time

(* Two threads never touch the same unprotected datum at once: the device   *)
(* sets `done' under event_lock and the timer clears it under timer_lock,   *)
(* so no lock keeps the two writes apart; and _time, which ld_routine reads *)
(* through current_time without a lock, is not about to change while any    *)
(* device is at work.                                                       *)
NoDataRace ==
  /\ \A d \in Device : ~(dpc[d] = "set_done" /\ tpc = "clear" /\ Cur = d)
  /\ (tpc = "gather" /\ ~More) => \A d \in Device : ~AtWork(d)

(* The timer thread leaves its loop only when every device has detached,    *)
(* and stop_timer frees the device records only after the timer thread and  *)
(* every device thread have ended: nobody is left asleep on a condition     *)
(* that no thread will signal, and nobody uses a freed record.              *)
OrderlyStop ==
  /\ tpc = "exited" => \A d \in Device : fsh[d] /\ dpc[d] = "exited"
  /\ mpc \in {"free", "end"} => tpc = "exited"

(* main gets past its joins and stop_timer: no call of next_slot blocks for *)
(* ever, no signal is lost, and the timer thread ends.                      *)
Termination == <>(mpc = "end")

(* The clock has ticked and the timer has not yet let d go. *)
Pending(d) == tpc \in {"release", "clear"} /\ \E i \in DOMAIN dev_list : i >= temp /\ dev_list[i] = d

(* The barrier this code implements.  A device whose `done' was cleared is  *)
(* in the next slot already, though its call of next_slot has not returned. *)
Released(d) == dpc[d] \in {"called", "test", "asleep"} /\ ~done[d]

BarrierSlot == [d \in Device |-> IF Released(d) THEN slot[d] + 1 ELSE slot[d]]

BarrierState == [d \in Device |-> IF fsh[d] THEN "gone"
                                  ELSE IF done[d] THEN "waiting"
                                  ELSE "working"]

SB == INSTANCE SlotBarrier WITH slot <- BarrierSlot, st <- BarrierState

(* Every behaviour of the timer and its devices is a behaviour of the slot  *)
(* barrier: a device enters its next slot only when every other one has     *)
(* called next_slot in the slot it leaves, or has detached.                 *)
ImplementsBarrier == SB!Spec

(* A device the timer has yet to release in this round counts as let go.    *)
PlaceInSlot == [d \in Device |-> IF fsh[d] THEN "gone"
                                 ELSE IF done[d] /\ ~Pending(d) THEN "waiting"
                                 ELSE "working"]

LastSlot == MaxSlot + 1

ClockTime == IF time < LastSlot THEN time ELSE LastSlot

LS == INSTANCE Lockstep WITH Horizon <- LastSlot, time <- ClockTime, at <- PlaceInSlot

(* Nobody can tell the releases of the timer, one device after the other,   *)
(* from one tick of a common clock that starts the next slot for all.       *)
ImplementsLockstep == LS!Spec

(* And a device that all others let go on is released by the timer.         *)
ImplementsLiveBarrier == SB!LiveSpec

-----------------------------------------------------------------------------
(* The inductive invariant behind the safety properties. *)

(* The threads' lives: main attaches every device before the timer starts   *)
(* and joins the device threads, then the timer thread.                     *)
LifeInv ==
  /\ IsInjective(dev_list)
  /\ (mpc \notin {"attach", "free", "end"}) => Attached = Device
  /\ (mpc = "attach") => \A d \in Device : dpc[d] = "idle"
  /\ (mpc = "attach") <=> (tpc = "off")
  /\ (mpc \in {"stop", "join_timer", "free", "end"}) => \A d \in Device : dpc[d] = "exited"
  /\ timer_stop => (mpc \in {"join_timer", "free", "end"})
  /\ (mpc \in {"free", "end"}) => (tpc = "exited")
  /\ (tpc = "exited") => \A d \in Device : fsh[d]

(* Who holds which lock is told by the program points. *)
LockInv ==
  /\ (tpc \in {"check", "sleep", "clear"}) => More
  /\ \A d \in Device :
       /\ (event_lock[d] = "device") <=> (dpc[d] \in {"set_done", "set_fsh"})
       /\ (event_lock[d] = "timer") <=> (tpc = "check" /\ Cur = d)
       /\ (timer_lock[d] = "device") <=> (dpc[d] = "test")
       /\ (timer_lock[d] = "timer") <=> (tpc = "clear" /\ Cur = d)

FlagInv == \A d \in Device :
  /\ done[d] => (dpc[d] \in {"called", "test", "asleep"})
  /\ fsh[d] <=> (dpc[d] = "exited")

(* Devices the timer's gathering loop has passed are done or finished. *)
RoundInv ==
  /\ (tpc \in {"gather", "check", "sleep"}) =>
       /\ temp <= Len(dev_list) + 1
       /\ event = temp - 1
       /\ \A i \in 1 .. (temp - 1) : done[dev_list[i]] \/ fsh[dev_list[i]]
       /\ (fshCount = event) => \A i \in 1 .. (temp - 1) : fsh[dev_list[i]]
  /\ (tpc \in {"gather", "check", "sleep", "release", "clear"}) => (fshCount <= event)
  /\ (tpc \in {"release", "clear"} /\ fshCount = event) => \A d \in Device : fsh[d]

SlotInv == \A d \in Device : ~fsh[d] =>
  IF Pending(d) THEN done[d] /\ BarrierSlot[d] + 1 = time
  ELSE BarrierSlot[d] = time

(* Every reachable state satisfies these facts about the flags, the locks   *)
(* and the positions of the timer's two loops in the list (timer.c), and    *)
(* they are preserved by every step.                                        *)
IInv == TypeOK /\ LifeInv /\ LockInv /\ FlagInv /\ RoundInv /\ SlotInv

=============================================================================
