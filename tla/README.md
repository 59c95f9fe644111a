# A TLA+ development of the OS simulator

The program simulates a small operating system: CPU threads run processes that
a loader thread brings in, a timer thread keeps all of them in step with
simulated time slots, a multi-level queue schedules the processes, and each
process has paged virtual memory over simulated RAM and swap devices. The
modules here model that code, TLC checks them on small instances, and TLAPS
proves the safety of each part for all instances, section 4 says under
which assumptions. Paths below are those of the repository (`src/timer.c`,
`include/mm.h`, ...).

## 1. Inventory of the system

| Part | State it keeps | Operations | Used by |
|---|---|---|---|
| timer (`src/timer.c`) | list of device records (flags `done`, `fsh`, two mutex/condition pairs each), `_time`, `timer_stop` | `attach_event`, `start_timer`, the thread `timer_routine`, `next_slot`, `detach_event`, `current_time`, `stop_timer` | every CPU thread, the loader thread, `main` |
| ready queues (`src/sched.c`, `src/queue.c`) | one bounded queue per priority level, `curr_prio`, `curr_slot`, `running_list`, one lock | `init_scheduler`, `queue_empty`, `get_proc`, `put_proc`, `add_proc`, `enqueue`, `dequeue` | CPU threads, loader, `killall` |
| CPU threads, loader, main (`src/os.c`) | per CPU: `proc`, `time_left`; shared unprotected `done`; loader's index | `cpu_routine`, `ld_routine`, `main`, `read_config` | - |
| instruction dispatch (`src/cpu.c`) | `proc->pc`, registers | `run`, `calc` and the calls into the memory library | CPU threads |
| memory library (`src/libmem.c`) | per process: symbol table, list of free regions, page list for replacement | `liballoc`, `libfree`, `libread`, `libwrite`, `pg_getpage`, `find_victim_page`, `get_free_vmrg_area` | `run`, system calls |
| areas and page tables (`src/mm-vm.c`, `src/mm.c`) | `vm_end`, `sbrk`, page directory | `inc_vma_limit`, `vm_map_ram`, `alloc_pages_range`, `vmap_page_range`, `pte_set_*`, `__swap_cp_page` | system call 17 |
| memory devices (`src/mm-memphy.c`) | bytes, list of free frames (shared by all CPUs) | `MEMPHY_format`, `MEMPHY_get_freefp`, `MEMPHY_read`, `MEMPHY_write` | page tables, library |
| system calls (`src/syscall.c`, `src/sys_mem.c`, `src/sys_killall.c`, `src/sys_listsyscall.c`, `src/sys_xxxhandler.c`, `src/libstd.c`) | none of their own | 0 listsyscall, 17 memmap, 101 killall, 440 demonstration | `run`, memory library |
| program loader (`src/loader.c`) | `avail_pid` | `load` | loader thread |
| obsolete (`src/mem.c`, `src/paging.c`) | - | not called in the built configuration | - |

Interactions: `main` attaches one device for every CPU and one for the loader,
starts the timer thread, then the others, and joins them. CPUs and loader meet
only in the ready queues (under the queue lock, which every function takes for a
part of its work only), in the variable `done` (no lock), in the clock (no lock)
and in the free frame list of the devices (no lock). A process, its page table
and its region list belong to the CPU that runs the process.

What is hard, and what makes each part correct:

* **Timer.** `done` is set under one lock and cleared under another; a device
  released early can be back at the end of its slot before the timer has
  released the last one; sleepers wake spuriously; devices leave at any time.
  Correct: no thread is ever a slot ahead of or behind the clock, no wakeup is
  lost, records are freed only when nobody uses them, the whole is a barrier.
* **Ready queues.** Two critical sections per call; turns whose state survives
  early returns; a search that skips the current level; a bounded queue.
  Correct: a process is in exactly one place, no level and no process starves,
  a caller gets a process when one is ready.
* **CPUs and loader.** Decisions on values read earlier; the unprotected `done`.
  Correct: one CPU per process, one instruction a slot, full time slices, no
  start before `start_time`, all processes finish, everything stops.
* **killall.** Edits the running list and the ready queues without their lock, by
  way of a queue of its own, and reads processes that may have been freed.
  Correct: it takes the processes of the name and nobody else, keeps the order,
  and loses nobody.
* **Memory.** Failures in the middle of an operation whose error is lost; page
  and region arithmetic; sharing of frames; frees and accesses that nothing checks
  against what the program has allocated. Correct: regions of live registers
  are disjoint and mapped, every frame has one user, none is lost, a read returns
  the last write, each for the programs that do not forfeit it (section 4).

The list of hazards, each at its line, with the properties aimed at it, is in
`PROJECT.json`.

## 2. Modules and how they correspond to the code

```
SlotTimer --implements--> SlotBarrier
SlotTimer --implements--> Lockstep <--clock of-- OsSim
MlqSched <--EXTENDS-- SchedClients <--EXTENDS-- KillAll
MlqSched <--EXTENDS-- OsSim --implements--> ProcOwner
VmRegion <--EXTENDS-- Paging --implements--> Allocator
MemPhy   --implements--> FramePool
QueueRace
```

**SlotTimer** is `src/timer.c` with `main`'s use of it. Every acquisition of a
mutex, every access it guards, every sleep and wakeup is a step; the unlock goes
with the step before it, since nothing happens in between. `temp` is a position
in `dev_list` and `slot[d]` counts the returns of `next_slot` (history). The
operators `MustWait`, `CountFinished`, `HeldBack`, ... are the tests of the two
loops. **SlotBarrier** is what the devices may rely on: the barrier, without
clock or timer thread. **Lockstep** has one clock and one tick for all devices:
the form in which OsSim uses the timer. SlotTimer implements both; for Lockstep a
device whose release is still pending in the current round counts as at work
already, since it cannot do anything yet that others could notice.

**MlqSched** is `src/queue.c` and `src/sched.c`: an operator for each function on
a queue, an action for each critical section (`queue_empty` is the predicate
`QueueEmpty`; the body of `get_mlq_proc` is `GetFromCurrent`, `GetFromNext` and
`GetFromFirst`; `put_proc` and `add_proc` are `ListRunning` then `MakeReady`).
**SchedClients** puts any callers on top: CPUs that take, hold, put back or
finish a process when they like, and a loader that adds processes in any order.
`passed[p][o]` (history) counts dispatches of level o while level p waited.

**KillAll** adds `__sys_killall` to SchedClients: a CPU that holds a process may start
it. `pr` is the queue it works on (-1 for the running list); `Drain` is a
`dequeue` and what becomes of the process, `Restore` puts back what stays; `DrainEnd`,
`NextQueue` and `KillEnd` are the ends of its loops. A freed process in the running
list can have any path and any prio by the time killall reads them (`Matches`,
`Candidates`). `killed` and `before` are history. killall never takes `queue_lock`;
KillAll has those killalls only during which no other thread is in a queue (`NoKillAll`
in the guard of the others), and asks whether they do their work. Nobody sees what is
between the accesses then, so each call of `enqueue` and `dequeue` is one step.

**QueueRace** is the other half: one ready queue, killall without the lock, and CPUs that
get and put processes with it. A step is one access to the shared queue: each
read of `size`, each slot, each half of `size++`, and the index of
`q->proc[--q->size] = NULL`, which is read from `size` again. The Makefile builds without
optimisation, so these are the accesses of the compiled code too. Following a NULL that
another thread has left in a slot is a crash; a `size` below zero goes on, as in the
code. Names, levels and the running list are left out.

**OsSim** is `cpu_routine` and `ld_routine` over MlqSched and Lockstep. Program
points are the places between two critical sections; `ran` and `burst` are
history. `run` is one step of `pc`; what the instruction does is `Paging!Run`.
`time_slot` is one of `TimeSlots`, as `read_config` found it. **ProcOwner** is the abstract life of a process.

**VmRegion** is allocation in one process: `__alloc` (`AllocFree` when a free
region fits, `AllocGrow` when the break has to move, with everything
`inc_vma_limit` does, its failure and the loss of the error included), `__free`,
a program's own memmap call (`SysIncrease`), and frames taken by other processes. A
call is one step, which needs two things: a process's `mm_struct` is touched by the CPU
that runs it only, and, since the list of free frames is shared and has no lock,
there is only one CPU (`OneCpu`, as in the repository's `os_1_singleCPU_mlq`
configurations). With more CPUs two of them can be given one frame; MemPhy has the
accesses to that list one by one and shows it.

The code accepts what no program should do, and so does the model. `Free` is of any
register: of one that was freed before, whose region is enlisted a second time, and of one never
allocated, whose entry of `symrgtbl` is what `malloc` left (`Garbage`). Accesses go to any
register and offset. The history variable `misuse` records which of these has happened
(`freedAgain`, `freedUnset`, `strayed`), and each property says which of them forfeit
it; none of them is a guard. VmRegion has no specification of its own: **Paging** adds the
accesses, `libread` and `libwrite` with the whole of
`pg_getpage` (victim, swap frame, the two copies, the two entries) and the writes
of other processes: to their frames, or to any frame when they stray. That the others
swap pages of their own is left out, since it moves data between frames they have.
Of the data it keeps where one value, the
mark, is: the devices are the sets of cells that hold it, so "a read returns what
was written last" is a relation between the page table and the set `mram`. It is followed
until the first misuse, after which nothing is claimed of the data (`Follow`). An
entry is its frame number, or `NoFrame` while it was never set; `SwappedFpn` is
what the frame number bits of an entry read after `pte_set_swap`. What `malloc` left
in an entry is one of `StaleFpn`, with the present bit for `StalePresent`.
`Run` is one instruction of the program, as `run` of `src/cpu.c` dispatches it.
**Allocator** is the promise to the program, forfeited by a free of what it
does not hold.

**MemPhy** is the free frame list, every access a step, under CPUs that are in
`alloc_pages_range`. A read of a freed node or of a field never written gives
anything. **FramePool** is the promise, kept with one CPU.

**Proofs** are in a module of their own for each component: SlotTimerProofs,
MlqSchedProofs (lemmas about the queues, for every module over them),
SchedClientsProofs, OsSimProofs, KillAllProofs, MemPhyProofs, PagingProofs. The inductive
invariants are in these modules too, but for the two that runs check as they stand,
`IInv` of SlotTimer and `TurnInv` of SchedClients.

Operators named as faulty (`MustWaitNever`, `EqualTurns`, ...) are wrong versions
of the operator that follows them. No specification uses them: each is a
plausible mistake in the code which the properties must be able to notice.

## 3. Runs

| Run | Expect | Shows | States |
|---|---|---|---|
| SlotTimer | pass | three devices, two slots: slots and clock agree, no race, orderly stop, inductive invariant, refinement of SlotBarrier and of Lockstep, termination, the barrier's own liveness | 312 160 |
| SchedClients | pass | four processes of levels 0, 1, 1, 2, two CPUs: one place per process, the share of each level, the inductive invariant of the turns, no starvation between and within levels | 355 061 |
| KillAll_alone | pass | four processes, three of them of one level, queues of two, killalls nobody disturbs: only a full queue loses a process, killall takes those of the name and keeps the order | 234 413 |
| QueueRace | violation | another CPU puts its process back while killall takes one out: a process is lost | |
| KillAll_freed | violation | killall reads a process that was freed | |
| OsSim | pass | three processes of levels 0 and 1, two CPUs, `time_slot` 0, 1 or 2: ownership, one instruction a slot, exact slices, start times, nothing stranded, all finish | 22 123 |
| OsSim_stranded | violation | the only CPU stops with a process ready | |
| OsSim_hang | violation | a CPU idle when the loader ends never stops | |
| Paging_enough | pass | one CPU, enough frames, any free and any access: regions apart and mapped, frames apart, none lost, reads return the last write, the allocator's promise, each unless forfeited | 354 757 |
| Paging_exhausted | violation | an allocation without frames succeeds and its contents are lost in the first swap | |
| MemPhy_onecpu | pass | one CPU: each frame once, refusals only when empty | 1 846 |
| MemPhy_race | violation | two CPUs get one frame | |

In the run OsSim a turn of level 1 has as many dispatches as its processes need in
all (four, one for each level from it to the last): with one fewer, `NoneStranded` and
`AllFinish` need not hold, and OsSim_stranded shows why. `TurnsSuffice` (section 4)
proves that this is enough. Level 0 uses up its turn in the run, and
SchedClients has the ends of turns of both levels.

In QueueRace the trace has the two halves of `--q->size` overlap with those of the
other thread's `q->size++`: the new process ends up behind the size, where the next
`enqueue` overwrites it. Without killall, and with killall on the only CPU, the same
model keeps `QueuedSafely`.

Straying is not made up. The repository's program `input/proc/p0s` writes through registers
that it never allocated (`write 102 2 20`, `write 103 3 20`), and
`output/os_0_mlq_paging.output` shows a byte of another register's region, at 0x114, go from
100 to 102 by it: such a program loses `ReadsLastWrite`. `input/proc/m0s`
(`write 1 2 1000`) writes to a page that was never mapped, for which `pg_getpage` swaps
although there are free frames, and takes the frame from under another page: `FramesApart`
and `NoFrameLost` are lost for the pages of this process. What survives any access, and is
checked of it, is `RegionsApart`, `LiveIsMapped`, the allocator's promise, and that
no frame is handed out twice.

The violations are described under "findings" in `PROJECT.json`. Two of them were
also observed on the program built from the repository: with two CPUs and a
single process of priority 1 it never ends (OsSim_hang); with one CPU and a
single process of priority 137, which has three dispatches a turn, it reports
"CPU 0 stopped" before the process has finished (OsSim_stranded).

### Bounds

* `MaxSlot` (SlotTimer): calls of `next_slot` per device. The
  timer's loop has no memory of earlier slots but `_time`; two slots show a
  device that has come back to the end of its slot before the others were let go,
  and one that leaves in each position. The proofs have no bound.
* Three devices are the fewest with one before, at and behind the timer's
  position in the list.
* `MAX_PRIO` is 1 to 5 in place of 140 and `MAX_QUEUE_SIZE` 2 or 3 in place of
  10. Three levels give `slot` the values 3, 2, 1 and a search that wraps round and
  passes an empty level, or has two levels to choose from. Queues of two with two processes of a level (SchedClients)
  and three (KillAll_alone) are the capacity and one more.
* KillAll_alone has one CPU: with killalls nobody disturbs, a second CPU would
  only add processes that are nowhere in the queues (two CPUs and three processes
  were checked too). QueueRace has two CPUs and three processes, one on each CPU and one
  queued: `MAX_QUEUE_SIZE` is that of the build, and `HasRoom` leaves out writes behind the
  array, which would go into `size` itself.
* `Horizon` (Lockstep, OsSim): the clock counts up to it and stays there, meaning
  "later"; no `start_time` is larger, so no test of the clock can tell.
* `PAGESZ` is 2 in place of 256 and sizes are 1 and 3: less than a page and more than
  one, and rests of free regions of every length.
* `MaxBrk`, `MaxRegions` (VmRegion): calls that would move the break further or
  lengthen the free list further are not made. `MAX_PGN` is 3 (4 in Paging_exhausted) in place of 2^14: two
  pages below the largest break and one that is never mapped, for accesses to reach.
  `OtherFrames` bounds what other processes take, `SwpFrames` is the size of the
  swap device. `Paging_enough` has frames for all of it, so that the failure of an allocation
  is out of its reach; swaps are not, accesses of unmapped pages make them.
  `Paging_exhausted` shows the failure, with a program that misuses nothing and with
  entries as a fresh heap has them (`StalePresent` empty); the passing run allows
  other ones.
* `Garbage` is the empty region and one that overlaps two pages.
* `Offset` goes to the largest size, from the start of any register's region: past the
  end of a shorter one, and from a late start past the break, to a page never mapped.
* `MaxRequest` (MemPhy): pages asked for in one call.
* `FpnRange` is that of the build; `VmAssumption` keeps the frames within it, which
  means a RAM of at most 2 MB.
* `SysIncrease` is not called for 0 bytes, which would lengthen `fifo_pgn` for ever
  and change nothing else.

Deadlock is checked in every passing run. SlotTimer and OsSim end in a step `Terminated` that stands
for the end of `main`; a program under Paging can always do an instruction without
effect on its memory (`NoEffect`). The run QueueRace does not check it: there the
system ends in a crash.

### Fairness

`SlotTimer!LiveSpec`: weak fairness for each thread (`Main`, `Timer`, the steps of
each device), which is what preemptive threads give; a mutex step is disabled
while another thread has the mutex, and every critical section is short, so no
strong fairness is needed for the two contenders of each mutex. Wakeups without a
signal may happen, but not without end. That a device goes on calling `next_slot`
until it detaches is what the two routines of `src/os.c` do.
`OsSim!LiveSpec`: weak fairness of each thread and of the clock, the liveness
SlotTimer shows of the timer. `SchedClients!LiveSpec`: a CPU keeps asking for work and
gives up the process it has (the time slice); the loader need not do anything.

## 4. Proofs

### The timer

`SlotTimerProofs` proves, for every finite or infinite set of devices and every
`MaxSlot` (the one assumption is `MaxSlot \in Nat`):

| Theorem | Statement |
|---|---|
| Invariance | `Spec => []IInv` |
| TypeCorrect | `Spec => []TypeOK` |
| DevicesInCurrentSlot | `Spec => []InCurrentSlot` |
| RaceFree | `Spec => []NoDataRace` |
| StopsInOrder | `Spec => []OrderlyStop` |
| TimerImplementsBarrier | `Spec => ImplementsBarrier` |
| TimerImplementsLockstep | `Spec => ImplementsLockstep` |

`InCurrentSlot` is not inductive: that a device at work is in the current slot
depends on why the timer passed it. `IInv` adds

* `LifeInv`: who lives when - devices are attached before the timer starts, and
  joined before `stop_timer`;
* `LockInv`: the holder of each lock is told by the program points, so that a
  device in its critical section excludes the timer from the same record;
* `FlagInv`: a device whose `done` is set is inside `next_slot`;
* `RoundInv`: every device behind the timer's position in the gathering loop is
  done or finished, and stays so, because only the timer clears `done`;
* `SlotInv`: outside of the releasing loop every device that has not left is in
  slot `_time` (a device whose `done` was cleared counts as in the next slot), and
  inside it the devices not yet released are exactly one behind.

There is one lemma per conjunct of `IInv` (`LifeInvStep`, `LockInvStep`, ...), each
with a step per action that can disturb it. The refinement uses `IInv`: the timer's
`ReleaseClear` is the barrier's `Advance` (`ReleaseAdvances`), `NextSlotDone` its `Arrive`,
`DetachSet` its `Leave`, and all other steps leave the mapped state alone
(`Invisible`, `ReturnInvisible`). For Lockstep the increment of `_time` is the tick
(`TickTicks`: by `RoundInv` everybody has arrived or left), the same two device
steps are its `Arrive` and `Leave`, and the releases are invisible
(`ReleaseInvisible`).

### The scheduler's turns

`SchedClientsProofs` proves, for every number of levels, every size of a queue and
any sets of CPUs and processes (`SchedAssumption`: the two sizes are positive, each
process has a level, and NULL is not one of them):

| Theorem | Statement |
|---|---|
| TurnCorrect | `Spec => []TurnInv` |
| TypeCorrect | `Spec => []TypeOK` |
| FairShares | `Spec => []LevelShare` |

`LevelShare` bounds `passed[p][o]` but does not say why the next dispatch of level o
cannot be one too many. `TurnInv` is its inductive form:

* `HoldsOne`: a CPU inside `put_proc` has a process (else NULL would be enqueued);
* `SameLevel`: the queue of a level holds processes of that level, so `dequeue`,
  which looks for the lowest `prio`, takes the first (`DequeueFirst`);
* `curr_slot <= slot(curr_prio)`: a turn is never longer than its slot, also when
  it was cut short by an early return;
* `PassedInv`: what a waiting level p has been passed over by level o is nothing
  before the round since p was served comes to o, what o has used of its turn while
  it has it, and at most a whole turn after it.

`get_mlq_proc` is the one function that moves the round, and there is a lemma for each
of its ends: `CurrentTurn`, `NextTurn` (the search stops at the nearest level that
waits, and `Round` says that the levels it has passed come after p from there on),
`FirstTurn` and `NoTurn` (nothing found, position back at level 0).
`MakeReadyKeeps` and `DequeueKeeps` are about the queues, `TurnStep` puts the
callers on top.

### One place for each process

| Theorem of SchedClientsProofs | Statement |
|---|---|
| PlacesApart | `Spec => []OnePlace` |

The invariant is `PlaceInv`. It says that the places exclude each other (`AwayInv` for
those outside of the queues, `ApartInv`) and that a process whose level has at
most `MAX_QUEUE_SIZE` processes is in one. Besides, it needs
`QueueInv`: a queue is of its level, holds a process once and no more than it has
room for. Then `dequeue` takes its first process (`DequeueFirst`) and that one is
in no queue afterwards (`DequeueTakes`, `TakeReadyTakes`). That such a process is
never dropped is the lemma `Room`: what is in
the queue are different processes of that level, and the one to be added is none of
them. `MakeReadyAdds` says both of `put_mlq_proc`. The number of processes is
finite (`ClientAssumption`), as `num_processes` is. The lemmas `CallersStep` (types and
levels) and `ApartStep` (places) are about the callers alone, and killall uses them again.

### CPUs and loader

`OsSimProofs`, for any number of CPUs, levels and processes, any programs, start
times and order of loading:

| Theorem | Statement |
|---|---|
| OwnerCorrect | `Spec => []OwnerInv` |
| TypeCorrect | `Spec => []TypeOK` |
| SlicesExact | `Spec => []ExactSlice` |
| StartsRespected | `Spec => []NotBeforeStart` |
| OneRunPerSlot | `Spec => OneInstructionPerSlot` |
| OwnersImplemented | `NeverFull` implies `Spec => ImplementsOwner` |
| StrandedAtTurnEnd | `NeverFull`, `CPU # {}` imply `Spec => []OnlyTurnsStrand` |
| TurnsSuffice | `NeverFull`, `CPU # {}`, `FitsTurn(p)` for all p but 0 imply `Spec => []NoneStranded` |

* `OwnerInv` has the places of a process (`OnePlace`), `QueueInv`, and which program
  points have a process (`PointsInv`); the lemmas about the queues are those of
  SchedClients. That nothing is lost (`NothingLost`) and with it the refinement of ProcOwner
  needs `NeverFull`, no level with more processes than `MAX_QUEUE_SIZE`: a full queue of the
  code drops a process, which is what ProcOwner's place "lost" is for in the run.
* `SliceInv`: for the process of a CPU, `burst` and `time_left` add up to the slice. A
  slice of 0 or less is never used up, which is a case of its own.
* `StartInv`: the loader is past the processes whose start has come. It is the
  loader's wait for `start_time` in whole slots that keeps it.
* `RanInv`: who ran in this slot is still on its CPU, and that CPU in `next_slot`.

The last two are about the end. A CPU that gets nothing from `get_proc` stops once the
loader is done, and `get_mlq_proc` can return nothing although a process is ready: it
does so when the turn of the only level that waits has just ended, unless that is level 0
(`NothingTaken`). `OnlyTurnsStrand` says that nothing else strands a process, and of which
level it then is; `FitsTurn(p)` is the condition under which the turn cannot have ended, that
the processes of p need no more time slices in all than a turn has.

* `StopInv` deals with the race on `done`. A CPU in `recheck` asked for a process in this
  slot. When it stops the loader has set `done`, and its last `add_proc` was in an
  earlier slot, since it waits for the next one after each. So the last CPU that
  asked did so when everything was in the queues, and none has put anything back since:
  what it left there it could not have (`ReadyOneLevel`).
* `AlignInv`: a process that is ready has its `pc` at the start of a slice which it has
  yet to run.
* `UsedInv`: the turn of the current level has been used for different slices of its
  processes (`Begun`), at least as many as dispatches are gone from it. A dispatch
  begins one more (`OneMoreBegun`), nothing takes one back (`ForwardStep`). So a level
  that fits its turn has none left to run when the turn ends (`UsedStep`, `TurnFits`).

`PlacesAssumption` says that no CPU is named "ready": names, nothing of the code.

### killall

`KillAllProofs`, for any number of levels, CPUs and processes, any names and paths, and
whatever freed processes look like when killall reads them:

| Theorem | Statement |
|---|---|
| KillTypeCorrect | `KillSpec => []KillTypeOK` |
| NobodyLost | `KillSpec => []NoneLost` |
| OthersSpared | `KillSpec => KillsExactly` |

All three are about the killalls of KillAll, which nobody disturbs; QueueRace
shows that they do not hold of the others.

The first needs `KindInv`: what killall has in `temp_queue` are processes of the
level `pr` it works on, since a process that went back to another level's queue would be
served as one of that level (`KindStep`). The invariant of the second is `KillInv`:

* `KindInv` and `AwayInv`, as above;
* `AloneInv`: one killall at a time, and the queue of its level and its own hold each process
  once and together no more than one queue has room for. So neither of its two
  `enqueue` finds a full queue (`TakeFits`);
* `WaitInv`: `Waiting`, being in the one queue or the other, takes the part that
  being ready has without killall, and excludes the other places and `killed`.

`CalmStep` are the steps of the callers, which happen while no killall is at work; for
those of killall there is one lemma each (`DrainStep`, `RestoreStep`, `DrainEndStep`,
`BetweenStep`), which show what becomes of the two queues and leave the rest to
`WorkStep`. `KillAssumption` has at least one name, which a region always holds.

The third says what `NoneLost` does not: who is taken, and that the others keep their
order on the way through `temp_queue` and back. `OrderInv` compares the queues with what
they were when the killall began (`before`): the levels behind `pr` are as they were
(`Untouched`), those before it hold who is spared, in order (`Done`), and at `pr` the two
queues have them in line, first `temp_queue` and then the rest while the queue is drained
(`Draining`), and the other way round while it is refilled (`Restoring`). `PassOne` and
`DrainOne`, `RestoreOne` move one process; that none is dropped on the way is
`AloneInv`.

### The free frame list

| Theorem of MemPhyProofs | Statement |
|---|---|
| TypeCorrect | `Spec => []TypeOK`, any number of CPUs |
| ListStaysIntact | `Spec => []ListIntact` |
| FramesFresh | `Spec => []FreshFrame` |
| PoolImplemented | `Spec => ImplementsPool` |

The last three are for one CPU (`OneCpu`) and a device of more than one frame. Both
are needed: with two CPUs the run MemPhy_race finds a frame given out twice, and
`MEMPHY_format` leaves the link of the only frame of a one-frame device unset, so that the
second request follows it. `ListInv` is the shape of the list: the frames that were handed
out are those below its head, and the one CPU is past exactly so many of the steps
of a removal.

### The memory of a process

`PagingProofs`, for every page size, RAM, swap, address space, number of registers and sizes
of requests, any contents of fresh memory, and any program, also one that frees and accesses
what it does not hold. All of it is for one CPU (`OneCpu`) and under
`EnoughRam`: RAM has a frame for each page up to `MaxBrk` and for each the others may take.

| Theorem | Statement |
|---|---|
| VmCorrect | `PagingSpec => []VmInv` |
| TypeCorrect | `PagingSpec => []TypeOK` |
| RegionsNeverOverlap | `PagingSpec => []RegionsApart` |
| LiveStaysMapped | `PagingSpec => []LiveIsMapped` |
| FramesNeverShared | `PagingSpec => []FramesApart` |
| FramesAccounted | `PagingSpec => []NoFrameLost` |
| LastWriteRead | `PagingSpec => []ReadsLastWrite` |
| AllocatorImplemented | `PagingSpec => ImplementsAllocator` |

Each property names the misuse that forfeits it:

| Property | Forfeited by |
|---|---|
| `RegionsApart`, `ImplementsAllocator` | a second free; the free of a register never allocated |
| `LiveIsMapped` | the free of a register never allocated |
| `FramesApart` for the pages of the process, `NoFrameLost` | an access outside of the regions; the free of a register never allocated, which leads to one |
| `FramesApart` for what is handed out, `TypeOK` | nothing |
| `ReadsLastWrite` | any misuse |

`OneCpu` cannot be left out, since with two CPUs another process can get a frame of
this one (MemPhy_race). `EnoughRam` is what separates the passing run from
Paging_exhausted, where an allocation without frames succeeds. `VmInv` is

* `BreakInv`: `sbrk` and `vm_end` are the same page boundary, although
  `inc_vma_limit` and `__alloc` compute them apart;
* `PagesMapped`: the pages below the break have an entry, wherever accesses have led
  `pg_getpage`: it changes entries, and clears none;
* `FreeFramesInv`: the counts of the free frames, the pages below the break and the frames of
  others add up to RAM. This is where `EnoughRam` enters: a request below `MaxBrk` always
  finds its frames (`MapRam`, by counting);
* `PagesExact`, until an access outside of the regions: no page above the break has an entry, frames
  have one user each, and every frame has one;
* `RegionInv`, until a register never allocated is freed: every region of the free list, of a live
  register and of a freed one ends at or below the break, and while the program frees
  nothing twice they overlap nowhere. A freed register's region is part of it
  since `__free` does not clear it and takes it again.

The steps of `__alloc` are `AllocFreeStep` (a region is split, and what remains of it
stays where it was) and `AllocGrowStep` (the gap up to the page boundary goes to the free list,
above everything there is); `FreeStep` and `SysIncreaseStep` are the other two, and
`AccessStep` is for accesses anywhere.
`MarkInv` says where the last written value is: in the one cell the page table
gives for that address. An access in a region is one of a mapped page, which does not
change the page table (`AccessKeeps`), and the others' writes go to frames that are theirs
(`MarkStays`), as long as neither strays (`MisuseStays`: what was misused once stays so).

### Hypotheses

Each hypothesis above holds in an instance that TLC checks: `NeverFull` and `FitsTurn` (for
level 1, and at the limit) in OsSim, `OneCpu` in MemPhy_onecpu and in Paging_enough, `EnoughRam`
in Paging_enough. Each of the inductive invariants was checked there before it was proved. What happens
outside of them is in section 3, where QueueRace, MemPhy_race and Paging_exhausted
expect a violation. Queues that are full and drop a process are in the instance of
KillAll_alone, and no theorem about scheduler or killall excludes them.

### What is only model-checked

* Liveness (`Termination`, `ImplementsLiveBarrier`, `NoStarvation`, `AllFinish`), which
  is out of the prover's reach.

## 5. Not modelled, and why

* `load`, `read_config`: parsing of files. Their results are constants; the
  assumptions `SchedAssumption` and `OsAssumption` say which configurations are
  covered: a `prio` outside of `mlq_ready_queue` (`src/sched.c:116`) indexes past the
  array. `load` cuts a path to 16 characters (`src/loader.c:51`), which killall
  compares with the whole name; KillAll takes paths as they are then.
* Of killall: the name is any name, as if it had been read from its region. `copy_from_user` reads 99 bytes of the region
  whatever its size; `libfree` is called for the registers in `proc->regs`, which
  nothing ever sets. A process on another CPU whose name matches leaves the running
  list only and goes on running, and so it does in KillAll.
* Memmap operations a program gives physical addresses or frames to
  (`SYSMEM_SWP_OP`, `SYSMEM_IO_*` by `SYSCALL`): they reach every process's cells by
  design, so no property of one process's memory survives them.
* The sequential mode of a device (`MEMPHY_seq_*`, whose guards at
  `src/mm-memphy.c:43` are inverted): `main` creates random access devices only.
  `init_pte`, `free_pcb_memph` and `MEMPHY_put_freefp` have no caller that runs.
* Printing, `listsyscall`, the demonstration handler: no state (`NoEffect`).
* `src/mem.c`, `src/paging.c`, the code without `MLQ_SCHED` or `MM_PAGING`: not part
  of the configuration that is built.
* What lies behind an array or in memory never written, where it has no behaviour
  to model: an index past `symrgtbl` (`src/libmem.c:68`), the link of the only frame
  of a one-frame device (`src/mm-memphy.c:130`), a `fifo_pgn` never set.
* The memory of a process with several CPUs: VmRegion and Paging take the steps of the shared
  frame list at once. MemPhy has the list with more CPUs, without the rest.
* Calls of `killall` with other threads in the queues, beyond the one queue of QueueRace.
* OsSim has no `killall`, so its ownership results are about programs without
  that system call.

## 6. Plan

Done, in this order: timer (SlotBarrier, Lockstep, SlotTimer, its proofs), ready
queues (MlqSched, SchedClients), CPUs and loader (OsSim, ProcOwner), allocation and
access (VmRegion, Paging, Allocator), frame list (MemPhy, FramePool), killall
(KillAll, QueueRace), programs that free and access what they do not hold or move the break, a
`time_slot` of 0, the proofs
about the turns, places, CPUs and loader, process memory, frame list and killall.

What is left are parts that section 5 gives reasons to leave out, and liveness, which
stays with TLC.
