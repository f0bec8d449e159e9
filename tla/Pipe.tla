-------------------------------- MODULE Pipe --------------------------------
(***************************************************************************)
(* Pipes and FIFOs (fs/pipe.c, fs/fifo.c): the ring buffer, the counts of  *)
(* its ends, and the processes that read, write, open and close it.        *)
(*                                                                         *)
(* A step is what a process does while it holds the inode's semaphore,     *)
(* which excludes (module Semaphore).  A process that sleeps has set its   *)
(* state and entered the wait queue before it gives the semaphore up, and  *)
(* everybody on that queue is woken together, so "asleep" is one state.    *)
(* sys_read() and sys_write() hold no other lock: the count of waiting     *)
(* writers, incremented with the semaphore and decremented without it, is  *)
(* read in one step and stored in the next.  fifo_open() gives the         *)
(* semaphore up before it enters the queue; the big kernel lock, which     *)
(* open and close hold, keeps others from changing the ends meanwhile.     *)
(*                                                                         *)
(* Left out: PIPE_WAITING_READERS, whose only use (pipe.c:242) needs bytes *)
(* left over without O_NONBLOCK, which the loop before it never leaves;    *)
(* poll, ioctl, times; connect_read(), which ends as pipe_read() does.     *)
(***************************************************************************)
EXTENDS Integers, FiniteSetsExt

CONSTANTS Proc,        \* the processes, each with at most one open file
          PIPE_SIZE,   \* bytes in the buffer
          PIPE_BUF,    \* writes up to this size are atomic
          ReadCounts,  \* sizes of reads
          WriteCounts, \* sizes of writes
          Wrap,        \* 2 to the width of the count of waiting writers
          Labels,      \* bytes of the stream are numbered modulo Labels
          Signals,     \* whether processes may be sent signals
          Faults,      \* whether copying from or to user memory may fail
          None         \* nobody, nothing

ASSUME SizeAssumption == PIPE_SIZE \in Nat \ {0} /\ PIPE_BUF \in 1..PIPE_SIZE
ASSUME LabelsAssumption == Labels \in Nat /\ Labels > PIPE_SIZE
ASSUME ProcAssumption == IsFiniteSet(Proc) /\ None \notin Proc \cup {"r", "w", "rw"}
ASSUME WrapAssumption == Wrap \in Nat \ {0}
ASSUME CountsAssumption == ReadCounts \subseteq Nat \ {0} /\ WriteCounts \subseteq Nat \ {0}

VARIABLES kind,    \* "pipe" or "fifo"
          present, \* whether inode->i_pipe is there
          base,    \* the buffer: labels of bytes, Blank where none is kept
          start,   \* PIPE_START
          len,     \* PIPE_LEN
          readers, \* PIPE_READERS
          writers, \* PIPE_WRITERS
          waiting, \* PIPE_WAITING_WRITERS
          sem,     \* who holds the semaphore between two steps
          file,    \* the mode of each process's open file, or None
          pc,      \* where each process is
          call,    \* its read or write: [op, count (bytes left), done (bytes written), nonblock]
          tmp,     \* the value of the count it has read
          sig,     \* signal_pending()
          got,     \* ghost: number of the first byte in the pipe, 0 when empty
          unwoken  \* ghost: a copy failed half-way since the last wakeup

ring == <<base, start, len, got>>
ends == <<kind, present, readers, writers>>
vars == <<ring, ends, waiting, sem, file, pc, call, tmp, sig, unwoken>>

Blank == -1
Modes == {"r", "w", "rw"}
Reads(m)  == m \in {"r", "rw"}
Writes(m) == m \in {"w", "rw"}

(* "rsleep", "wsleep", "osleep": asleep in read, write, open.  "inc": a    *)
(* writer with the semaphore, about to store the count; "awake", "dec":    *)
(* one that has woken, about to read and to store it.  "down", "odown":    *)
(* awake, about to test for signals and to take the semaphore.             *)
Pc == {"user", "rsleep", "inc", "wsleep", "awake", "dec", "down", "osleep", "odown"}
Asleep == {"rsleep", "wsleep", "osleep"}

Call == [op : {"read", "write"}, count : Nat, done : Nat, nonblock : BOOLEAN]
ASSUME CallAssumption == None \notin Call

FREE == PIPE_SIZE - len

(***************************************************************************)
(* The ring.                                                               *)
(***************************************************************************)
EndOfBuffer(i) == (start + i) % PIPE_SIZE \* mutant
(* The index of the i-th byte after PIPE_END.                              *)
END(i) == (start + len + i) % PIPE_SIZE

(* n bytes are copied out at PIPE_START, in one or two chunks.             *)
Take(n) ==
    /\ base' = [i \in 0..PIPE_SIZE-1 |->
                  IF (i + PIPE_SIZE - start) % PIPE_SIZE < n THEN Blank ELSE base[i]]
    /\ len' = len - n
    /\ got' = IF len = n THEN 0 ELSE (got + n) % Labels

(* n bytes are copied in at PIPE_END.                                      *)
Put(n) ==
    /\ base' = [i \in 0..PIPE_SIZE-1 |->
                  IF \E k \in 0..n-1 : END(k) = i
                  THEN (got + len + (CHOOSE k \in 0..n-1 : END(k) = i)) % Labels
                  ELSE base[i]]
    /\ len' = len + n
    /\ UNCHANGED <<start, got>>

(* The first chunk ends where the buffer does (PIPE_MAX_RCHUNK,            *)
(* PIPE_MAX_WCHUNK).                                                       *)
RCHUNK(n) == Min({n, PIPE_SIZE - start})
WCHUNK(n) == Min({n, PIPE_SIZE - END(0)})

(***************************************************************************)
(* Returning, sleeping and waking.                                         *)
(***************************************************************************)
Awake(at) == CASE at = "rsleep" -> "down" [] at = "wsleep" -> "awake"
               [] at = "osleep" -> "odown" [] OTHER -> at

(* wake_up_interruptible(PIPE_WAIT); p, which runs, goes to "at".          *)
WakeUp(p, at) ==
    /\ pc' = [q \in Proc |-> IF q = p THEN at ELSE Awake(pc[q])]
    /\ unwoken' = FALSE

Go(p, at) == pc' = [pc EXCEPT ![p] = at] /\ UNCHANGED unwoken

(* p returns to user mode, where it takes its signals.                     *)
Leave(p) ==
    /\ call' = [call EXCEPT ![p] = None]
    /\ sig' = [sig EXCEPT ![p] = FALSE]

(* The copy fails and the call returns without a wakeup; "moved" says      *)
(* whether bytes had been copied before.                                   *)
Fault(p, moved) ==
    /\ pc' = [pc EXCEPT ![p] = "user"] /\ Leave(p)
    /\ unwoken' = (unwoken \/ moved)
    /\ UNCHANGED <<waiting, sem, tmp>>

(* PIPE_WAITING_WRITERS is about to be incremented: p keeps the semaphore  *)
(* and has read the count.                                                 *)
LoadCount(p) ==
    /\ sem' = p
    /\ tmp' = [tmp EXCEPT ![p] = waiting]

-----------------------------------------------------------------------------
(* From do_more_read on, with an empty pipe: end of file, EAGAIN, or sleep.*)
ReadEmpty(p, c) ==
    IF writers = 0 \/ c.nonblock
    THEN Go(p, "user") /\ Leave(p)
    ELSE Go(p, "rsleep") /\ call' = [call EXCEPT ![p] = c] /\ UNCHANGED sig

(* pipe.c:121: the reader has emptied the pipe, wants more and believes    *)
(* that writers wait.                                                      *)
MoreRead(left, c) == left > 0 /\ waiting # 0 /\ ~c.nonblock

(* The bytes are there: copy them, wake the writers, and return or go on.  *)
ReadSome(p, c) ==
    LET n == Min({c.count, len})
        left == c.count - n
    IN  \/ /\ Take(n)
           /\ start' = IF len = n THEN 0 ELSE (start + n) % PIPE_SIZE
           /\ IF MoreRead(left, c) /\ writers # 0
              THEN /\ WakeUp(p, "rsleep")
                   /\ call' = [call EXCEPT ![p] = [c EXCEPT !.count = left]]
                   /\ UNCHANGED sig
              ELSE WakeUp(p, "user") /\ Leave(p)
           /\ UNCHANGED <<waiting, sem, tmp>>
        \/ \E k \in {0, RCHUNK(n)} \ {n} :
              /\ Faults
              /\ Take(k)
              /\ start' = (start + k) % PIPE_SIZE
              /\ Fault(p, k > 0)

(* pipe_read() with the semaphore free                                     *)
TryRead(p, c) ==
    /\ sem = None
    /\ \/ len = 0 /\ ReadEmpty(p, c) /\ UNCHANGED <<ring, waiting, sem, tmp>>
       \/ len > 0 /\ ReadSome(p, c)
    /\ UNCHANGED <<ends, file>>

(* pipe.c:171: the room a write needs before it starts; once it has        *)
(* written something, any room will do (pipe.c:238).                       *)
NeedOne(c) == 1 \* mutant
Need(c) == IF c.done = 0 /\ c.count <= PIPE_BUF THEN c.count ELSE 1

WriteNoWake(p) == Go(p, "inc") \* mutant
(* pipe.c:228: a write that has filled the pipe wakes the readers before   *)
(* it sleeps.                                                              *)
WriteWake(p) == WakeUp(p, "inc")

(* There is room: copy, then return, or wake the readers and wait.         *)
WriteSome(p, c) ==
    LET n == Min({c.count, FREE})
        left == c.count - n
    IN  \/ /\ Put(n)
           /\ IF left > 0 /\ ~c.nonblock
              THEN /\ WriteWake(p) /\ LoadCount(p)
                   /\ call' = [call EXCEPT ![p] = [op |-> "write", count |-> left, done |-> c.done + n,
                                                 nonblock |-> FALSE]]
                   /\ UNCHANGED sig
              ELSE WakeUp(p, "user") /\ Leave(p) /\ UNCHANGED <<sem, tmp>>
           /\ UNCHANGED waiting
        \/ \E k \in {0, WCHUNK(n)} \ {n} :
              Faults /\ Put(k) /\ Fault(p, k > 0)

(* pipe_write() with the semaphore free.  Without readers it returns       *)
(* (SIGPIPE, or what was written).  The waits of pipe.c:179 and 222 differ *)
(* in the wakeup that comes first.                                         *)
TryWrite(p, c) ==
    /\ sem = None
    /\ \/ /\ readers = 0 \/ (FREE < Need(c) /\ c.nonblock)
          /\ Go(p, "user") /\ Leave(p)
          /\ UNCHANGED <<ring, waiting, sem, tmp>>
       \/ /\ readers > 0 /\ FREE < Need(c) /\ ~c.nonblock
          /\ IF c.done > 0 THEN WriteWake(p) ELSE Go(p, "inc")
          /\ LoadCount(p)
          /\ call' = [call EXCEPT ![p] = c]
          /\ UNCHANGED <<ring, waiting, sig>>
       \/ readers > 0 /\ FREE >= Need(c) /\ WriteSome(p, c)
    /\ UNCHANGED <<ends, file>>

Try(p, c) == IF c.op = "read" THEN TryRead(p, c) ELSE TryWrite(p, c)

Read(p) ==
    /\ pc[p] = "user" /\ Reads(file[p])
    /\ \E n \in ReadCounts, nb \in BOOLEAN :
          TryRead(p, [op |-> "read", count |-> n, done |-> 0, nonblock |-> nb])

Write(p) ==
    /\ pc[p] = "user" /\ Writes(file[p])
    /\ \E n \in WriteCounts, nb \in BOOLEAN :
          TryWrite(p, [op |-> "write", count |-> n, done |-> 0, nonblock |-> nb])

(* The writer stores the incremented count and sleeps (pipe_wait()).       *)
StoreInc(p) ==
    /\ pc[p] = "inc"
    /\ waiting' = (tmp[p] + 1) % Wrap
    /\ tmp' = [tmp EXCEPT ![p] = 0]
    /\ sem' = None
    /\ Go(p, "wsleep")
    /\ UNCHANGED <<ring, ends, file, call, sig>>

(* Out of pipe_wait(), without the semaphore, the writer reads the count   *)
(* and stores it decremented.                                              *)
LoadDec(p) ==
    /\ pc[p] = "awake"
    /\ tmp' = [tmp EXCEPT ![p] = waiting]
    /\ Go(p, "dec")
    /\ UNCHANGED <<ring, ends, waiting, sem, file, call, sig>>

StoreDec(p) ==
    /\ pc[p] = "dec"
    /\ waiting' = (tmp[p] + Wrap - 1) % Wrap
    /\ tmp' = [tmp EXCEPT ![p] = 0]
    /\ Go(p, "down")
    /\ UNCHANGED <<ring, ends, sem, file, call, sig>>

(* signal_pending() and down_interruptible(): given up for a signal, or    *)
(* the semaphore is taken and the loop goes on.                            *)
Retry(p) ==
    /\ pc[p] = "down"
    /\ \/ ~sig[p] /\ Try(p, call[p])
       \/ /\ sig[p]
          /\ Go(p, "user") /\ Leave(p)
          /\ UNCHANGED <<ring, ends, waiting, sem, file, tmp>>

-----------------------------------------------------------------------------
FreeReaderless(r, w) == r = 0 \* mutant
Unused(r, w) == r = 0 /\ w = 0

(* The counts become r and w.  inode->i_pipe is freed when both are zero,  *)
(* and with it what is in the buffer.  A new pipe_inode_info comes from    *)
(* kmalloc(), and fifo_open() does not set waiting_writers in it.          *)
Counts(r, w) ==
    /\ readers' = r /\ writers' = w
    /\ present' = ~Unused(r, w)
    /\ UNCHANGED kind
    /\ waiting' \in IF Unused(r, w) THEN {0} ELSE IF present THEN {waiting} ELSE 0..Wrap-1
    /\ IF Unused(r, w)
       THEN /\ base' = [i \in 0..PIPE_SIZE-1 |-> Blank]
            /\ start' = 0 /\ len' = 0 /\ got' = 0
       ELSE UNCHANGED ring

One(b) == IF b THEN 1 ELSE 0

(* What an opener of this mode waits for.                                  *)
Met(mode, r, w) == (mode = "r" => w > 0) /\ (mode = "w" => r > 0)

(* fifo_open().  An open for writing with O_NONBLOCK and no readers fails; *)
(* one for reading with O_NONBLOCK does not wait.                          *)
FifoOpen(p) ==
    /\ kind = "fifo" /\ pc[p] = "user" /\ file[p] = None /\ sem = None
    /\ \E mode \in Modes, nb \in BOOLEAN :
         LET r == readers + One(Reads(mode))
             w == writers + One(Writes(mode))
         IN IF mode = "w" /\ nb /\ readers = 0
            THEN Counts(readers, writers) /\ UNCHANGED <<pc, file, unwoken>>
            ELSE LET at == IF Met(mode, r, w) \/ (mode = "r" /\ nb)
                           THEN "user" ELSE "osleep"
                 IN /\ Counts(r, w)
                    /\ file' = [file EXCEPT ![p] = mode]
                    /\ IF (Reads(mode) /\ r = 1) \/ (Writes(mode) /\ w = 1)
                       THEN WakeUp(p, at) ELSE Go(p, at)
    /\ UNCHANGED <<sem, call, tmp, sig>>

(* Out of interruptible_sleep_on() and with the semaphore: the open is     *)
(* done, given up for a signal (err_rd, err_wr), or waits again.           *)
OpenResume(p) ==
    /\ pc[p] = "odown" /\ sem = None
    /\ \/ /\ Met(file[p], readers, writers)
          /\ Go(p, "user") /\ Leave(p)
          /\ UNCHANGED <<ring, ends, waiting, file>>
       \/ /\ ~Met(file[p], readers, writers) /\ ~sig[p]
          /\ Go(p, "osleep")
          /\ UNCHANGED <<ring, ends, waiting, file, call, sig>>
       \/ /\ ~Met(file[p], readers, writers) /\ sig[p]
          /\ LET r == readers - One(file[p] = "r")
                 w == writers - One(file[p] = "w")
             IN /\ Counts(r, w)
                /\ IF (file[p] = "r" /\ r = 0) \/ (file[p] = "w" /\ w = 0)
                   THEN WakeUp(p, "user") ELSE Go(p, "user")
          /\ file' = [file EXCEPT ![p] = None]
          /\ Leave(p)
    /\ UNCHANGED <<sem, tmp>>

(* A pipe is opened again through /proc (pipe_rdwr_open()), by way of a    *)
(* process that has it open and keeps it open meanwhile.                   *)
PipeOpen(p) ==
    /\ kind = "pipe" /\ present /\ pc[p] = "user" /\ file[p] = None /\ sem = None
    /\ \E mode \in Modes :
         /\ Counts(readers + One(Reads(mode)), writers + One(Writes(mode)))
         /\ file' = [file EXCEPT ![p] = mode]
    /\ UNCHANGED <<sem, pc, call, tmp, sig, unwoken>>

(* pipe_release()                                                          *)
Release(p) ==
    /\ pc[p] = "user" /\ file[p] # None /\ sem = None
    /\ LET r == readers - One(Reads(file[p]))
           w == writers - One(Writes(file[p]))
       IN /\ Counts(r, w)
          /\ IF Unused(r, w) THEN Go(p, "user") ELSE WakeUp(p, "user")
    /\ file' = [file EXCEPT ![p] = None]
    /\ UNCHANGED <<sem, call, tmp, sig>>

(* A signal makes an interruptible sleeper runnable.  One that comes when  *)
(* p is awake already has the effect it would have had just before p woke; *)
(* one that comes as p goes to sleep wakes it at once (schedule()).        *)
Signal(p) ==
    /\ Signals /\ pc[p] \in Asleep
    /\ sig' = [sig EXCEPT ![p] = TRUE]
    /\ Go(p, Awake(pc[p]))
    /\ UNCHANGED <<ring, ends, waiting, sem, file, call, tmp>>

-----------------------------------------------------------------------------
(* A FIFO nobody has opened, or the two ends of a pipe (do_pipe()).        *)
Init ==
    /\ base = [i \in 0..PIPE_SIZE-1 |-> Blank]
    /\ start = 0 /\ len = 0 /\ waiting = 0 /\ sem = None
    /\ pc = [p \in Proc |-> "user"]
    /\ call = [p \in Proc |-> None]
    /\ tmp = [p \in Proc |-> 0]
    /\ sig = [p \in Proc |-> FALSE]
    /\ got = 0 /\ unwoken = FALSE
    /\ \/ /\ kind = "fifo" /\ present = FALSE
          /\ readers = 0 /\ writers = 0
          /\ file = [p \in Proc |-> None]
       \/ /\ kind = "pipe" /\ present = TRUE
          /\ readers = 1 /\ writers = 1
          /\ \E p, q \in Proc :
               /\ p # q
               /\ file = [x \in Proc |-> IF x = p THEN "r" ELSE IF x = q THEN "w" ELSE None]

Next == \E p \in Proc :
    \/ Read(p) \/ Write(p) \/ StoreInc(p) \/ LoadDec(p) \/ StoreDec(p) \/ Retry(p)
    \/ FifoOpen(p) \/ OpenResume(p) \/ PipeOpen(p) \/ Release(p) \/ Signal(p)

Spec == Init /\ [][Next]_vars

-----------------------------------------------------------------------------
TypeOK ==
    /\ kind \in {"pipe", "fifo"} /\ present \in BOOLEAN
    /\ base \in [0..PIPE_SIZE-1 -> 0..Labels-1 \cup {Blank}]
    /\ start \in 0..PIPE_SIZE-1 /\ len \in 0..PIPE_SIZE
    /\ readers \in Nat /\ writers \in Nat /\ waiting \in 0..Wrap-1
    /\ sem \in Proc \cup {None}
    /\ file \in [Proc -> Modes \cup {None}]
    /\ pc \in [Proc -> Pc]
    /\ call \in [Proc -> Call \cup {None}]
    /\ tmp \in [Proc -> 0..Wrap-1]
    /\ sig \in [Proc -> BOOLEAN]
    /\ got \in 0..Labels-1 /\ unwoken \in BOOLEAN

(* The bytes between PIPE_START and PIPE_END are those written and not yet *)
(* read, in the order written, and nothing else is kept: whatever readers  *)
(* and writers interleave, none is lost, repeated or overtaken where the   *)
(* buffer wraps round.                                                     *)
StreamIntact ==
    \A i \in 0..PIPE_SIZE-1 :
        base[(start + i) % PIPE_SIZE] = IF i < len THEN (got + i) % Labels ELSE Blank

(* "If count <= PIPE_BUF, we have to make it atomic" (pipe.c:170): a       *)
(* process that waits inside such a write has written nothing of it, so    *)
(* nobody's bytes come between its own.                                    *)
AtomicWrites ==
    \A p \in Proc : call[p] # None /\ call[p].op = "write" /\ call[p].done > 0
                        => call[p].count + call[p].done > PIPE_BUF

(* "Drop the inode semaphore and wait for a pipe event, atomically"        *)
(* (pipe.c:34): nobody sleeps who could go on.  A reader sleeps only while *)
(* the pipe is empty and has writers, a writer only while there is no room *)
(* for it and there are readers, an opener only while the other end is     *)
(* closed.  The exception is a copy that fails after its first chunk,      *)
(* which returns without a wakeup; it lasts until the next one.            *)
NoLostWakeup ==
    unwoken \/ \A p \in Proc :
        /\ pc[p] = "rsleep" => len = 0 /\ writers > 0
        /\ pc[p] = "wsleep" => FREE < Need(call[p]) /\ readers > 0
        /\ pc[p] = "osleep" => ~Met(file[p], readers, writers)

(* The counts are those of the open files, an opener that still waits      *)
(* included, and i_pipe is there as long as anybody has the file open or   *)
(* sleeps on its queue; it is freed with the last.                         *)
EndsCounted ==
    /\ readers = Cardinality({p \in Proc : Reads(file[p])})
    /\ writers = Cardinality({p \in Proc : Writes(file[p])})
    /\ present <=> \E p \in Proc : file[p] # None
    /\ \A p \in Proc : pc[p] # "user" => file[p] # None
=============================================================================
