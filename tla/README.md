# A TLA+ model of Linux 2.3.29: semaphores, IPC, pipes, locks, sockets in flight

This directory models the parts of the kernel in which processes sleep on one
another, or hold on to one another, through small shared structures: the i386
kernel semaphore, System V semaphore sets, message queues, shared memory and the
id tables, pipes and FIFOs, file locks, and the garbage collector for descriptors
passed over Unix sockets. TLC checks the models on small instances; TLAPS proves
the central properties of the kernel semaphore, System V semaphores, message queues,
shared memory, the id tables, the pipe and the collector's marking for every instance.

All paths below are relative to `src/`.

## 1. The system

### Inventory

| part | source | state | operations | what makes it hard |
|---|---|---|---|---|
| kernel semaphores | `include/asm-i386/semaphore.h`, `arch/i386/kernel/semaphore.c` | `count`, `sleepers`, the wait queue | `down`, `down_interruptible`, `down_trylock`, `up` | fast paths without a lock while a contention routine corrects the same counter |
| wait queues, wakeups | `kernel/sched.c`, `include/linux/sched.h`, `kernel/signal.c` | `tsk->state`, queue entries, pending signals | `__wake_up`, `wake_up_process`, `schedule`, `send_sig_info` | a wakeup, a signal and the sleeper's own state change cross |
| System V semaphores | `ipc/sem.c` | values, pending queue, undo structures | `semget`, `semop`, `semctl`, exit | arrays of operations, work done on behalf of sleepers, the lock dropped inside calls |
| System V messages | `ipc/msg.c` | messages, sleeping senders and receivers | `msgget`, `msgsnd`, `msgrcv`, `msgctl` | messages handed to a sleeper's stack frame, read there without the lock |
| id tables | `ipc/util.c`, `ipc/util.h` | slots, sequence counter, two locks | `ipc_addid`, `ipc_findkey`, `ipc_lock`, `ipc_checkid`, `ipc_rmid` | slots are used again, the table grows, the limits change at run time |
| shared memory | `ipc/shm.c` | segments, attach counts, pages | `shmget`, `shmat`, `shmdt`, `shmctl`, faults, swap-out | the lock dropped in the middle of most operations |
| pipes, FIFOs | `fs/pipe.c`, `fs/fifo.c` | ring buffer, reader and writer counts | read, write, open, release | blocking both ways, atomic writes, counts changed without the semaphore |
| file locks | `fs/locks.c` | lock lists, waiters | `fcntl`, `flock` | splitting and merging ranges, deadlock detection |
| Unix sockets | `net/unix/garbage.c`, `af_unix.c`, `net/core/scm.c`, `net/socket.c` | sockets in flight | send, receive, accept, close, collect | reachability over a graph whose counts change while a collection sleeps |
| bottom halves, timers, scheduler | `kernel/softirq.c`, `kernel/sched.c` | bitmasks, timer wheel, run queue | interrupts, ticks | exclusion across processors |
| exit, wait, signals | `kernel/exit.c`, `fork.c`, `signal.c`, `ptrace.c` | the process tree | `fork`, `exit`, `wait4`, `kill` | parents and children that die at the same time |
| page allocator, swap | `mm/page_alloc.c`, `swapfile.c`, ... | buddy bitmaps, swap counts | allocate, free, swap | counts shared by many users |
| the rest | caches, file systems, TCP/IP, drivers, architectures | | | not planned, see `PROJECT.json` |

The parts interact through a few idioms, and these are what the models share. A
process that must wait sets its state, puts itself on a list, drops a lock and
calls `schedule()`. Whoever changes the condition finds it on the list and calls
`wake_up_process()`. A signal does the same at any moment. Correctness is
everywhere the same question: is every change seen by everyone who sleeps for
it, and is nothing done twice or by halves when two causes of waking meet?

### State of the project

Modelled: Semaphore, SemOps, SysVSem, MsgQueue, IpcIds, Shm, Pipe, Locks, UnixGC;
proved about: all of these but Locks. What would come next, in this order: bottom
halves and timers (exclusion across processors, the wheel), exit and wait (zombies
and reparenting), the buddy allocator's bitmaps; and proofs about Locks, and of
CountsRight of UnixGC.

## 2. The modules

| module | models | extended or used by |
|---|---|---|
| `CountingSemaphore` | the abstract semaphore: permits taken and given atomically | `Semaphore` (refinement) |
| `Semaphore` | the i386 semaphore with wait queue, wakeups, signals | `SemaphoreProofs` |
| `SemOps` | `try_atomic_semop()` as an operator on a store | `SysVSem`, `MCSemOps`, `SemQueueProofs` |
| `SysVSem` | processes on one semaphore set | `MCSysVSem`, `SemQueueProofs` |
| `Lists` | `list_del()` of some entries of a list | `SysVSem`, `MsgQueue`, `DataLaws` |
| `MsgQueue` | processes on one message queue | `MCMsgQueue`, `MsgQueueProofs` |
| `IpcIds` | processes on one id table | `IpcIdsGCProofs` |
| `Shm` | segments, attaches and pages | `MCShm`, `ShmProofs` |
| `Pipe` | processes on one pipe or FIFO | `MCPipe`, `PipeProofs` |
| `Locks` | processes that lock one file | `MCLocks` |
| `UnixGC` | sockets in flight and their collector | `MCUnixGC`, `IpcIdsGCProofs` |
| `MC...` | symmetry sets and menus of calls; `MCSemOps` also a reference definition | |
| `DataLaws` | facts about finite sets, lists, sums and loops, as formulas | `DataProofs`, `MsgQueueProofs`, `ShmProofs`, `SemQueueProofs` |
| `DataProofs` | their proofs | `MsgQueueProofs`, `ShmProofs`, `SysVSemProofs` |
| `SemQueueProofs` | lemmas about `SemOps` and `SysVSem` | `SysVSemProofs` |
| the other `...Proofs` | theorems | |

Definitions marked "mutant" are wrong variants of the definition that follows
them. They are in no specification; each one, put in place of the right one,
makes the property it was written for fail (`PROJECT.json`, "mutants").

### Semaphore

`count`, `sleepers` and `wait` are the fields of `struct semaphore`; `state` is
`tsk->state`, `sig` the pending flag. A step is one atomic instruction, one
region under a spinlock, or one write of `tsk->state`. `Decrement` and `Up` are
the inline assembly; `AddWaitQueue`, `Contend`, `Schedule`, `SetState` and
`Leave` are `__down()` and `__down_interruptible()`; `TrylockFailed` is
`__down_trylock()`, which keeps `semaphore_lock` over its `wake_up()`; `WakeBegin`,
`WakeSkip` and `WakeEnd` walk the queue as `__wake_up()` does. `SigPending`,
`SigTest` and `SigWake` cut `send_sig_info()` where its target may run.
`schedule()` does not look at pending signals here because its `case
TASK_INTERRUPTIBLE` does not match a state with `TASK_EXCLUSIVE` (`kernel/sched.c:659`).
Memory is sequentially consistent in the model. On the i386 the operations on
`count` and both `spin_lock()` and `spin_unlock()` are locked instructions; what the
plain accesses between them could do out of order is not studied. `holding` and
`ups` are ghosts.

### SemOps and SysVSem

`TryAtomicSemop` is the loop forth, the loop back, and the answer. `sempid` is
the pair of pids its shifts make of it. `semadj` is a `short`, scaled with SEMVMX.

`SysVSem` has one slot of the table: a set is created in it, removed, and created
again under the next sequence number. A step is the code between taking and
dropping `sem_lock()`. The lock is dropped to sleep (`Attempt`, `Resume`), to
allocate an undo structure (`AllocUndo`) and to copy the values of SETALL
(`SetallCopy`, `SetallStore`). `update_queue()` is a fold over the pending queue
in every action that calls it. `Exit` is `sem_exit()`; a process does not exit
while it sleeps in a call, so the branch for `semsleeping` is not entered.
`ledger` and `owed` are ghosts that say what the calls that returned 0 add up to.

### MsgQueue

One slot again. `Send` is `pipelined_send()` and the queueing after it, `FindMsg`
the search loop of `sys_msgrcv()`. A receiver that has woken reads `r_msg` without
the lock (`RcvPeek`) and again with it (`RcvLock`). Since that read needs no lock,
the sender's region is cut after the store to `r_msg`: `SndWake` is its rest. If
the receiver has returned by then, its stack frame is garbage, and `SndWake` wakes
anybody or nobody. `sys_msgrcv()` has no `msg_checkid()`, so the model has none.

### IpcIds

The table with its size, `in_use`, `max_id` and sequence counter, the semaphore
`ids->sem` and the spinlock `ids->ary`. An id is the number `ipc_buildid()` makes.
`spin_unlock()` clears the lock whoever holds it, and that matters: `ipc_addid()`
calls `ipc_lock()` on a slot that is still NULL, `ipc_lock()` drops the lock when it
finds NULL, and the creator later unlocks what it does not hold.

SysVSem and MsgQueue take `sem_lock()` and `msg_lock()` to exclude. That is so on
one processor, and on several as long as no object is being created in the same
table (section 3, last paragraph of the disagreements).

### Shm

A step is what runs with `shm_lock`. `shmget()` is `Shmget` (with `findkey()`), then
`TakeSlot` after `shm_expand()` has dropped the lock, then `NewSeg` after the
allocations; the slot is `NoId` in between, and `findkey()` waits for it
(`FindKeyWoken`). `shmat()` is cut where it allocates and where it maps.
`killseg()` is cut where it frees the pages (`KillSeg`, `KillEnd`). A structure is
an address that may be given out again after `KillEnd`, so a stale pointer may
point at the next segment. A page is "none", "in" or "out"; `Fault` and `FaultEnd`
are `shm_nopage()` around its allocation or read, with the segment's semaphore.

### Pipe

The ring (`base`, `start`, `len`), the counts of both ends, the count of waiting
writers, and where each process is. A step is what a process does with the
inode's semaphore. The exception is the count of waiting writers: its decrement
runs without the semaphore, so reading and storing it are steps of their own
(`LoadDec`, `StoreDec`; `LoadCount` and `StoreInc` with the semaphore), and
`fifo_open()` leaves it at any value. Bytes are numbers of the stream, modulo
`Labels`; `got` is the ghost that says which comes next. `unwoken` is a ghost set
by a copy that fails after its first chunk.

### Locks

The list of locks of one file, in its order. `Scan` is the loop of
`posix_lock_file()` over the caller's locks, `Merge` and `Replace` its two branches,
`Finish` what follows it; `Inc` is `fl_end + 1` in a signed `off_t`. `Behind` is the
chain `posix_locks_deadlock()` follows. `Search`, `FlockTry` and `Yield` are
`flock_lock_file()`, which gives way to those it wakes. Reads and writes under
mandatory locking go through `PosixTry` as a request that takes no lock. `held` is a
ghost: what each process was granted, byte by byte. Everything runs with the big
kernel lock, so a step ends only where a process sleeps.

### UnixGC

`count` is `f_count`, `inflight` and `queue` are those of the socket, `users` the
descriptors that processes have. Sending and receiving are cut where they may
sleep with the message in no queue (`half`). So is `accept()`: `AcceptBegin` is
`unix_accept()`, which takes the connection off the listener's queue, and `AcceptEnd`
is the rest of `sys_accept()`, where the connection gets its file from
`sock_map_fd()` or, if that or the copy of the address fails, is released. Releasing files is a stack of calls
(`frames`), since a message that is freed may release a socket, whose queue is
flushed, which may call `unix_gc()`. `unix_gc()` tests `down_trylock()` the wrong way
round (`garbage.c:180`), so it returns when it gets the semaphore and collects when
it does not; `Return` does the same. `Pop` is one turn of the marking loop.
Descriptors of a message are put, and orphans are swept, in any order, so sockets are
interchangeable and the symmetry of the run is sound.
The steps are those of one processor, where marking and sweeping are not
interrupted: on several, a descriptor may move from a queue that is not scanned
yet to one that was, which the code does not prevent and this model does not show.
Its specification is UnixSpec, and its constants and variables have names of their
own, so that one module of proofs can extend both it and IpcIds.

## 3. What TLC checks

| run | instance | properties | distinct states |
|---|---|---|---|
| `sem` | 3 tasks, one permit and one extra `up()`, signals to one | Accounting, MutualExclusion, NoLostWakeup, NoLostSignal, ImplementsCountingSemaphore, FreePermitTaken (fair) | 966,116 |
| `semops` | 2 semaphores, all arrays of 1 or 2 operations of -1, 0, 1 with all flags (`Ops`) | AllOrNothing, PidOfLastOperation | 576 |
| `sysv_one` | 3 processes, 1 semaphore, values to 2, two sets in turn | TypeOK, Ledger, UndoLedger, NoForgottenSleeper, FirstServed, NoStaleZeroWaiter | 971,494 |
| `msg_queue` | 3 processes, 2 types, 3 sizes, 3 messages, two queues in turn | Accounting, ExactlyOnce, FifoPerType, NoStuckSender, NoMissedMessage, NoForgottenReceiver, NoBUG | 1,703,067 |
| `msg_live` | 2 processes, 3 types, 3 messages, a queue of 2 | FindsFirstOfLeast, DeliveredReturns, SignalEndsCall (fair) | 235,025 |
| `ipcids` | 2 processes, 3 slots, 4 objects, sequence numbers 0 and 1 | Bookkeeping, UniqueKeys, StaleIdRefused | 205,305 |
| `shm` | 3 processes, 2 segments of a page, 2 slots, sequence numbers 0 and 1 | Lifetime, PagesCounted | 1,209,864 |
| `pipe` | 3 processes, a buffer of 2 bytes, PIPE_BUF 2, reads of 1 and 2, writes of 2 and 3 | StreamIntact, AtomicWrites, NoLostWakeup, EndsCounted | 4,192,746 |
| `locks` | 2 threads and a process, 4 bytes, up to 6 requests each | LocksExact, Exclusive, BlockedByConflict, NoCircularWait | 275,754 |
| `unixgc` | 4 sockets, 2 processes, messages of 1 or 2 descriptors, 2 in flight | CountsRight, MarkInvariant, OrphansExact | 1,101,123 |
| `sysv_bug`, `locks_eof` | the smallest that show it | NoBUG, SortedAndMerged, violated | |

What they show:

* The kernel semaphore never gives out a permit twice or loses one, whatever
  `down()`, `down_interruptible()`, `down_trylock()`, `up()` and signals do between
  each other's instructions. At rest, a sleeper means that no permit is free and
  that the count is negative, so the next `up()` takes its slow path. This is the
  claim "we cannot lose wakeup events" of `semaphore.c:38`. A signal reaches a
  sleeper although `schedule()` does not test for it.
* `try_atomic_semop()` agrees with its one-line description on every array.
* A `semop()` that returns 0 was done once and one that fails not at all, whether
  the process did it, or `update_queue()` did it for the process and a signal came
  at the same time; and exit takes back what was done under SEM_UNDO, modulo 2^16.
* Every sleeping process is on the queue of a set that exists. Nobody who only
  waits for zero sleeps while its semaphores are zero. The first of the others has
  been told to retry or could not go on. More does not hold: see below.
* Every message that was accepted is in one place and is returned at most once.
  Messages of a type come out in order. Senders sleep only while they do not fit,
  receivers only while nothing suits them.
* In an id table the counts are exact, keys are unique, and a stale id is refused
  until the sequence number has gone round.
* A shared segment is there while anybody has it attached or is about to, and goes
  with the last when it is marked, whatever happens while `shmat()` has dropped the
  lock. The page totals are exact, except after a `swapoff()` that meets a fault.
* A pipe delivers its bytes once and in order. Writes up to PIPE_BUF are not
  interleaved. Nobody sleeps who could go on, although the count of waiting
  writers may be wrong: it only decides whether a reader asks for more.
* Whatever ranges that end before the largest offset are locked and unlocked, each
  byte has the lock last granted (for the others see `locks_eof`). Two owners never hold a byte when one writes. Waiters are woken by every change
  of the lock they wait for, and never wait in a circle.
* The counts that the collector compares are right in every state in which it can
  start, also inside another collection. It takes every socket from which nobody can
  receive any more, and none that is reached through queues, connections not yet
  accepted included. It may take one that is in use only through a send, a receive
  or an `accept()` that is half-way: see below.

### Where the code and its text disagree

| run | what TLC finds |
|---|---|
| `sysv_bug` | `ipc/sem.c:864-865` asserts that a set that is gone was removed under the sleeper. If `update_queue()` has completed the call and the set is removed before the process runs, its status is 0 and it meets `BUG()`. |
| `locks_eof` | `fs/locks.c:913-914` says that adjacent locks are merged and sorted by starting address. For a lock up to the largest offset (`l_len` 0), `fl_end + 1` overflows at line 995, the loop stops at once, and the new lock is put before the old one, which it overlaps. Unlocking a part then leaves the old one behind. The instance of `locks` has no POSIX range that ends there. |

More are in the models, and no run rests on them. The comment at `ipc/sem.c:9-14`
speaks of "a guarantee that processes waiting for a lock on the semaphore won't
starve unless another locking process fails to unlock". A process that was told to
retry stops `update_queue()` (line 317), and when its retry blocks it sleeps again
without another `update_queue()` (lines 877-882). Let P1 wait to take 2 and P2 behind
it to take 1. SETVAL to 2 tells P1 to retry, P3 takes 1 before P1 runs, and P1 blocks:
P2 sleeps on with the value at 1, and nobody is on the way. TLC finds it with a menu
of -1, -2 and +1, and the same happens to an array that waits for zero and then
increases, which the comment at lines 47-49 says is got right. The attempt to prove
"nobody sleeps who could go on" is what showed this; an earlier run checked it with
a menu too narrow for it. FirstServed is what is true and is proved. Its hypothesis
has a similar reason: an array that waits for zero and then increases is performed by
`update_queue()` itself, which does not look again at those before it.

`pipelined_send()` stores
the message and then reads the receiver's structure (`ipc/msg.c:540-543`); a receiver
that a signal has woken may have returned, on a second processor. Creating an
object releases the table's lock while another processor may hold it
(`ipc/util.c:133`, `ipc/util.h:57-58`). And one that the source says and the model
repeats: `garbage.c:176-180` means to "avoid a recursive GC" and, with the test the
wrong way round, skips every other collection and allows the recursive one;
CountsRight and OrphansExact hold in spite of it.

OrphansExact has an exception that the text of the collector does not. Its comment
(`net/unix/garbage.c:45-47`) says of an earlier version that it "purges all SCM_RIGHTS
sent to connect()'ed but still not accept()'ed sockets. Fixed." Connections in a
listener's queue are scanned now (lines 257-259). One that `accept()` has dequeued is
in no queue, and until `sock_map_fd()` it has no file, so it is no root either (line
212); `sys_accept()` may sleep in between, to copy the address or to allocate the file.
Let a descriptor be sent to a connection that waits, let `accept()` take the
connection and sleep, and let another process release sockets until a collection
runs: the connection is taken for an orphan, and the message in its queue is freed
before the process that accepts it can receive it. The same
happens to the messages in the queue of a socket whose only reference is in a message
that is half sent or half received, which is in no queue either. TLC reaches all three
in the instance of `unixgc`, each with only that call half-way. So "in use" in
OrphansExact (InUse) counts what calls have half-way, and the property says that
nothing else in use is ever an orphan.

Smaller ones, read off the source, which no run rests on: `msgrcv()` with a negative
type accepts a type equal to its absolute value (`ipc/msg.c:510`, comment at 639; the
property FindsFirstOfLeast states what it does); `q_lrpid` is not set when a message
is handed over (`ipc/msg.c:541` sets `q_lspid`); an exit may take a semaphore above
SEMVMX (`ipc/sem.c:968`) or be cut off
at zero, which "shouldn't happen" (`ipc/sem.c:970`); a failed operation may change what
GETPID reports (`ipc/sem.c:296`; PidOfLastOperation states where it does not).

### Bounds

Each bound is a constant of its module and appears in a guard.

* Tasks and processes: three where a wakeup can go to the wrong one (one gives,
  one takes, one waits), two where the cases are between two.
* `MaxUps`: permits given by tasks that hold none. Ups by holders are not bounded.
* `MaxSeq = 1`: two sets or queues in one slot, which is what it takes to mistake
  one for the other.
* `SEMVMX` 1 or 2: zero, a positive value, the limit, and wrapped adjustments.
* `MaxMsgs = 3`, sends that sleep included: one message fills the queue and two
  senders wait behind it, which is what it takes to wake one too few. A queue of
  one or two, so that it is full, empty and in between, and a message larger than
  the room that is left.
* `MaxObjs = 4`, `SeqMax = 1`: the sequence number goes round twice in three slots.
* `shm`: two addresses and two slots, so that a slot and an address are used again,
  separately and together; `SHMALL = 3`, with which two segments fit. A process has
  one attach.
* `pipe`: a buffer of 2 bytes, which a write of 2 fills or finds half full, in two
  chunks where it wraps; a write of 3 is longer than PIPE_BUF. `Labels = 3` is
  more than the buffer holds, so no two bytes in it have the same number. The count
  of waiting writers has one bit (`Wrap = 2`), so that it goes round and lies.
* `locks`: three requesters make the circle of waits that a search of depth one
  misses. Four bytes; the requests touch the first three, so that they are adjacent,
  nested and overlapping.
* `unixgc`: four sockets make a chain of three behind a root, a cycle beside it, and
  an embryo in a queue. `MaxTotal = 2` descriptors in flight bounds the model and
  not the code.
* The menus of calls (`MC` modules) contain each flag and each kind of operation.

Deadlock is checked for the kernel semaphore, SemOps and the id table. It is not for
SysVSem and MsgQueue: processes exit, and those that are left may sleep for an
operation nobody will perform, which the interface allows. So may everybody on a
full queue whose messages no sleeping receiver wants. Nor is it for pipes and locks,
where everybody may wait for everybody (flock() has no deadlock check), nor for Shm,
whose behaviours end at the first page counted twice, nor for sockets, whose
number is bounded.

Symmetry is used for safety properties only, over processes, sockets and segments,
which the specifications treat alike. Liveness runs use none.

### Fairness

`FairSpec` of Semaphore asks weak fairness for the steps of a task inside an
operation and for the rest of `send_sig_info()`; that of MsgQueue for the steps of a
process inside a call. The scheduler runs every runnable task, and code outside a
sleep goes on. Nobody is assumed to make a call, to call `up()`, to send a message
or a signal. Spinlocks are not fair, so a task that spins while others keep taking
the lock is not assumed to get it: weak fairness asks nothing while the lock comes
and goes. In `msg_live` a sender keeps the lock over a step only to hand a message
over, which `MaxMsgs` bounds, so every spinning process gets it in the end; with
senders that never stop, DeliveredReturns and SignalEndsCall would need a fair
lock. With signals to more than one of three tasks the liveness of the kernel
semaphore takes TLC too long, so `sem` has them for one.

## 4. What is proved

`SemaphoreProofs`, for every finite set of tasks, every initial count and any
number of signals (assumptions TaskAssumption, ValAssumption):

* `TypeCorrect`; `AccountingHolds`; `MutualExclusionHolds`;
* `Refinement`: the semaphore implements CountingSemaphore;
* `NoLostWakeupHolds`, `NoLostSignalHolds`.

Accounting says that `count` is the free permits less the decrements that are not
registered less the registered sleepers. It is inductive together with
WaiterHoldsNone (a task on its way to a permit holds none), because `Contend` adds
the task to the holders and the cardinality must grow by one. Mutual exclusion
then follows in each step that takes a permit: the count is not negative after it,
and the accounting turns that into a bound on the holders. For the refinement the
mapped value `count + Cardinality(Pending) + sleepers` equals the free permits in
every reachable state, so a step that leaves holders and `ups` alone is a stutter.

While `count` is not negative no `up()` takes its slow path. WakeInv says that if a
task sleeps then, another one is on its way: it has still to look at `count`, or to
call `wake_up()`, or its walk has a sleeper before it. For the walk the proof needs
QueueInv: a task is on the queue, once, exactly while it is between
`add_wait_queue()` and `remove_wait_queue()`, and the walker holds the lock of the
queue. SigInv says of one task that a signal which came after its test either finds
it running or has a sender that has yet to look at its state.

`IpcIdsGCProofs`, first part, for every table size, sequence limit, set of keys and of processes
(assumptions IPCMNIAssumption, SeqMaxAssumption, NoneAssumption, PermAssumption):

* `Invariant`, and from it `TypeCorrect`, `BookkeepingExact`, `KeysUnique`,
  `StaleRefused`.

The properties are not inductive alone. `ids->ary` does not exclude, as
section 3 says, so the proof rests on `ids->sem` (SemExcludes: the process
between `ipc_addid()` and `up()`, or between `down()` and `ipc_rmid()`, holds it, and
its slot is in use). StaleRefused needs SeqIsBirth (a sequence number is the
object's birth modulo SeqMax + 1) and IdsAge (births in a slot only grow); two
births that are congruent and closer than the modulus are equal (SameRemainder).

`PipeProofs`, for every finite set of processes, every size of
the buffer and PIPE_BUF up to it, every set of sizes of calls and every width of
the count of waiting writers, with signals and failing copies (assumptions
SizeAssumption, LabelsAssumption, ProcAssumption, WrapAssumption,
CountsAssumption, CallAssumption):

* `AtomicWritesHolds`, `NoLostWakeupHolds`, `EndsCountedHolds`, `StreamIntactHolds`.

NoLostWakeup is not inductive alone. A writer that has found no room and is about
to sleep must still find none when it does: Control says that it has the semaphore
until then, and that what it found does not change. The other conjuncts of IInv
are needed by each other: a sleeping opener wakes because EndsCounted counts it.
Nothing in IInv mentions the value of `waiting`, so the race on it cannot matter.
The ring has an invariant of its own, RInv: StreamIntact with the types of the
ring. Its lemmas are about places modulo PIPE_SIZE (Place, Distance,
PlaceInjective, Advance) and about taking and putting n bytes (TakeIntact,
PutIntact).

`IpcIdsGCProofs`, second part, for every set of sockets and processes and every bound:

* `MarkInvariantHolds`, the invariant written in `unix_gc()`;
* `OrphansExactHolds`: when the stack is empty every socket outside InUse is an orphan;
  none of FromRoots is, the least set with the roots that is closed under what queues
  hold; and an orphan in InUse is reached from what calls have half-way.

MarkIInv adds to the invariant of the comment that whatever is not an orphan is in
FromRoots, and that every root is unmarked. With an empty stack the unmarked sockets
are closed, so they contain FromRoots; the other inclusion is the addition. So the
orphans are the sockets outside FromRoots, and what is left is about reachability:
FromRoots is part of InUse (FoundInUse), and FromRoots with what is reached from calls
half-way is all of it (InUseBesides). While marking runs nothing else does (OthersWait), so
queues and roots stay as they are.

`MsgQueueProofs`, for every finite set of processes, every menu of messages and of
receives, every `q_qbytes` and every bound (assumptions ProcAssumption,
BoundAssumption, MenuAssumption):

* `TypeCorrect`, `AccountingHolds`, `ExactlyOnceHolds`, `FifoHolds`,
  `NoStuckSenderHolds`, `NoMissedMessageHolds`, `NoForgottenReceiverHolds`,
  `NoBUGHolds`, `FindsFirstHolds`.

All follow from MsgInv, which adds three things to them. Calls says what a process
has at each place of a call: who is on a list is asleep or on the way, a receiver is
on the list exactly as long as its `r_msg` says EAGAIN, and a receiver asleep with
anything else has somebody with the lock who is about to wake it. Order says that
the queue is in the order of sending, without which a message handed over directly
could overtake. OnePlace says where each message is, and gives ExactlyOnce. The
search is proved separately (FindMsgCorrect): ScanInv says what the loop has found
of the first i messages, and is shown for every i. The steps are first brought to a
few kinds (Enqueues, HandsOver, Takes, SndSleeps, ...), and each conjunct is shown to
be kept by each kind.

`ShmProofs`, for every finite set of processes and of structures, every size of the
table, of segments and of the sequence number (assumptions SizeAssumption,
AddressAssumption, NullAssumption):

* `LifetimeHolds`, `PagesCountedHolds`.

The inductive invariant is ShmInv. Relies says what a process may still count on
when it takes `shm_lock` again: the slot of `newseg()` is still NoId, what `shmat()`
is about to map is still in the table with its sequence number because it is
counted, what `killseg()` frees is in nobody's table, and the semaphore of the
segment is still that of the process that reads a page in. Apart says that no two
processes fill one slot or free one structure. Found says that the page of a fault
is as it was found, unless `swapoff()` has come between, and is what the totals
need.

`SysVSemProofs`, which extends `SemQueueProofs`, for every finite set of processes,
every set of semaphores, every SEMVMX, every menu of arrays of any length and any
sequence of sets in the slot, with signals and exits (assumptions SEMVMXAssumption,
ProcAssumption, MenuAssumption, OpsAssumption):

* of `try_atomic_semop()`: `AllOrNothingHolds`, `PidOfLastOperationHolds`;
* of the calls: `TypeCorrect`, `LedgerHolds`, `UndoLedgerHolds`,
  `NoForgottenSleeperHolds`, `NoStaleZeroWaiterHolds`, `FirstServedHolds`.

The array is a loop, and Reached says where the loop forth is after i operations:
either none has stopped it and each value has changed by what the first i add, or it
has stopped at the first that Stops. Backed says the same of the loop back. Both
are shown for every i, so an array that names a semaphore many times is no special
case, and the adjustments come back exactly although they wrap. What the rest needs
of it is that the answer is Expected, a function of the values alone (ExpectedIs).

`update_queue()` is a loop over the queue, and its invariant is about what it has
visited: who has been taken off was performed or refused once, who is left and only
waits for zero still waits, and if it has stopped then at a process that was told to
retry (QueueUpdated). A decrease that is probed leaves the values as they were, and
so does a wait for zero that is performed. An increase on behalf of a sleeper ends no
wait for zero, but it may let a process go on that was passed already: hence the
hypothesis of FirstServed, with which no array that only increases is on the queue.

The inductive invariant is Inv. None of the properties is inductive alone:

* QueuedOK: who is on the queue is inside `semop()` on the set of the slot, with the
  status EINTR or retry, and only a decrease is told to retry;
* InCallOK: who is inside is on the queue until its status says otherwise, and has the
  undo structure its array needs. Without it the ledgers could not say whose call a
  status belongs to after the set was removed and another one created;
* ZeroFirst: those who only wait for zero are ahead of all others. This is why they
  are looked at before `update_queue()` stops, and why NoStaleZeroWaiter is true of
  them and of nobody else;
* LedgerOK and UndoOK: Ledger and UndoLedger, on the pieces of a state;
* Numbers: sequence numbers only grow, so an id that is kept is never that of a set
  to come.

A step of SysVSem does several things at once: a process leaves the queue, its array
is performed, the queue is updated, others are woken. The parts of Inv are operators
on pieces of the state, so that each thing is a stage with a lemma of its own (Leave,
Alone, Stir, Performs, Update) between states that no behaviour passes through. Every
action is then a few stages one after the other. Lemmas that serve one other lemma
are steps in its proof, named as lemmas are.

`DataProofs`, about the data the others rest on: cardinalities of sets to which an
element is added or from which it is taken, lists, sums over finite sets, and loops,
in `FiniteLawsHold`, `ListLawsHold`, `SumLawsHold` and `LoopLawHolds`. A list without
some of its elements has the others in their order (it embeds in the list), and the
sum over a list changes by what goes. The law of loops says that for a body on a set
there is a function on 0..n whose value at i is the body of its value at i - 1: it is
what gives a function defined by recursion its values. These are inductions. The
library's induction theorems take a predicate, which the provers cannot instantiate;
NatLeast and FiniteMinimal say instead that a set of numbers, or of subsets of a
finite set, that is not empty has a minimal element, and a proof takes a minimal
counterexample. The laws are formulas of `DataLaws`, so that the lemmas of
`MsgQueueProofs`, `ShmProofs` and `SemQueueProofs` take them as hypotheses; the
theorems at the end of these modules discharge them.

Some modules begin with a lemma `Untyped` that says nothing. It keeps the
translation for the SMT solver from guessing types, which made the same step
succeed or fail depending on the steps before it. In `SemQueueProofs` and
`SysVSemProofs` a leaf that names no prover is for Zenon.

A word on trust. For a goal in which Len occurs, this version of tlapm tells the SMT
solver that the domain of every value, sequence or not, is 1..Len of it. That is
wrong, and a proof may lean on it unawares. The modules were also checked with that
axiom restricted to sequences; every leaf is proved without it.

## 5. What is only model-checked, and what is not modelled

FreePermitTaken, DeliveredReturns and SignalEndsCall are liveness, which the prover
does not do. LocksExact, Exclusive, BlockedByConflict and NoCircularWait of Locks are
checked on the instance above and not proved: the scan of the list, the search and the
chain of waits are RECURSIVE operators, about which the prover cannot reason; and
LocksExact is not true of ranges that end at the largest offset (`locks_eof`), so a
proof would first have to say which ranges. CountsRight of UnixGC is not proved
either; it needs the count of every socket's occurrences in all queues, messages in
flight and frames of nested releases.

Not modelled in the parts that are:

* System V IPC: permissions and IPC_SET of semaphore sets and segments, the times,
  the commands that only read, the segments of long messages, several sets or
  queues per process, running out of memory (except in `alloc_undo()`, `grow_ary()`
  and `ipc/shm.c`), a table of size 0. In `ipc/shm.c` the table has its full size from
  the start, so `shm_expand()` never copies it (line 161 copies as many pointers as
  the new table has from the old one); it still drops the lock, so two processes may
  create one key or pass the limit on pages together, which no text rules out.
* Pipes: poll, ioctl, times, running out of memory. A pipe is opened again through
  `/proc` while a process has it open, and that process does not close it in the
  middle of the lookup (`pipe_rdwr_open()` does not look whether the pipe is there).
  The count of waiting readers is left out because its only use cannot be reached
  (`pipe.c:242`).
* Locks: F_GETLK, `/proc/locks`, failures of kmalloc(), lock operations of network
  file systems, several files (a circle of waits through two files is found by the
  same chain).
* Unix sockets: several processors, messages without descriptors, names, peers,
  credentials, flow control. `socket()` and `socketpair()` are one step with their files;
  the second socket of a pair has none while its file is allocated, and if a thread
  sends to it then through the first, it is as exposed as a connection in `accept()`.

The other parts of the kernel are listed in `PROJECT.json` with the reason for each.
Most of the repository is drivers, architectures, file systems and network
protocols: code whose behaviour is that of hardware, of layouts or of protocols that
are not in the repository, and of which a model this size could hold only
fragments.

## 6. Running it

    tlc -config sem.cfg Semaphore
    tlapm SemaphoreProofs.tla

`PROJECT.json` names the module of each run.
