----------------------------- MODULE PipeProofs -----------------------------
(***************************************************************************)
(* Pipes and FIFOs for every number of processes, every size of the        *)
(* buffer, of PIPE_BUF and of reads and writes, and every width of the     *)
(* count of waiting writers.                                               *)
(***************************************************************************)
EXTENDS Pipe, FiniteSetTheorems, TLAPS

LEMMA ModRange == ASSUME NEW M \in Nat \ {0}, NEW x \in Nat PROVE x % M \in 0..M-1
  OBVIOUS

LEMMA ModWrap ==
    ASSUME NEW M \in Nat \ {0}, NEW x \in 0..2*M-1
    PROVE  x % M = IF x < M THEN x ELSE x - M
<1>1. CASE x < M
  BY <1>1, SMTT(20)
<1>2. CASE x >= M
  BY <1>2, SMTT(20)
<1> QED
  BY <1>1, <1>2

LEMMA MinTwo ==
    ASSUME NEW a \in Int, NEW b \in Int
    PROVE  Min({a, b}) = IF a <= b THEN a ELSE b
<1> DEFINE m == IF a <= b THEN a ELSE b
<1>1. m \in {a, b} /\ \A y \in {a, b} : m <= y
  OBVIOUS
<1>2. \A x \in {a, b} : (\A y \in {a, b} : x <= y) => x = m
  OBVIOUS
<1> QED
  BY <1>1, <1>2 DEF Min

(* One process joins or leaves a set of processes.                         *)
LEMMA CardStep ==
    ASSUME NEW A \in SUBSET Proc, NEW B \in SUBSET Proc, NEW p \in Proc, A \ {p} = B \ {p}
    PROVE  /\ Cardinality(A) \in Nat /\ Cardinality(B) \in Nat
           /\ Cardinality(B) = Cardinality(A) - (IF p \in A THEN 1 ELSE 0) + (IF p \in B THEN 1 ELSE 0)
<1> DEFINE C == A \ {p}
<1>1. IsFiniteSet(A) /\ IsFiniteSet(B) /\ IsFiniteSet(C)
  BY ProcAssumption, FS_Subset
<1>2. Cardinality(A) \in Nat /\ Cardinality(B) \in Nat /\ Cardinality(C) \in Nat
  BY <1>1, FS_CardinalityType
<1>3. Cardinality(A) = Cardinality(C) + IF p \in A THEN 1 ELSE 0
  <2>1. CASE p \in A
    <3>1. C = A \ {p} /\ Cardinality(C) = Cardinality(A) - 1
      BY <2>1, <1>1, FS_RemoveElement
    <3> QED
      BY <2>1, <3>1, <1>2
  <2>2. CASE p \notin A
    <3>1. C = A
      BY <2>2
    <3> QED
      BY <2>2, <3>1, <1>2
  <2> QED
    BY <2>1, <2>2
<1>4. Cardinality(B) = Cardinality(C) + IF p \in B THEN 1 ELSE 0
  <2>1. CASE p \in B
    <3>1. C = B \ {p} /\ Cardinality(C) = Cardinality(B) - 1
      BY <2>1, <1>1, FS_RemoveElement
    <3> QED
      BY <2>1, <3>1, <1>2
  <2>2. CASE p \notin B
    <3>1. C = B
      BY <2>2
    <3> QED
      BY <2>2, <3>1, <1>2
  <2> QED
    BY <2>1, <2>2
<1> QED
  BY <1>2, <1>3, <1>4

-----------------------------------------------------------------------------
(* A call with bytes left.                                                 *)
Begun == [op : {"read", "write"}, count : Nat \ {0}, done : Nat, nonblock : BOOLEAN]
InCall == {"rsleep", "inc", "wsleep", "awake", "dec", "down"}
InOpen == {"osleep", "odown"}

Typed ==
    /\ kind \in {"pipe", "fifo"} /\ present \in BOOLEAN
    /\ start \in 0..PIPE_SIZE-1 /\ len \in 0..PIPE_SIZE /\ readers \in Nat /\ writers \in Nat
    /\ sem \in Proc \cup {None}
    /\ file \in [Proc -> Modes \cup {None}]
    /\ pc \in [Proc -> Pc]
    /\ call \in [Proc -> Begun \cup {None}]
    /\ sig \in [Proc -> BOOLEAN]
    /\ unwoken \in BOOLEAN

(* Between two steps the semaphore belongs to the writer that is about to  *)
(* sleep, and until it does, what it found does not change.                *)
Control ==
    /\ \A p \in Proc : pc[p] = "inc" <=> sem = p
    /\ \A p \in Proc : pc[p] \in InCall => call[p] \in Begun
    /\ \A p \in Proc : pc[p] = "inc" => FREE < Need(call[p]) /\ readers > 0
    /\ \A p \in Proc : pc[p] \in InOpen => kind = "fifo"

IInv == Typed /\ Control /\ EndsCounted /\ NoLostWakeup /\ AtomicWrites

-----------------------------------------------------------------------------
(* After wake_up_interruptible() nobody but the caller sleeps.             *)
LEMMA WakeFacts ==
    ASSUME pc \in [Proc -> Pc], NEW p \in Proc, NEW at \in Pc, WakeUp(p, at)
    PROVE  /\ pc' \in [Proc -> Pc] /\ pc'[p] = at /\ unwoken' = FALSE
           /\ \A q \in Proc : q # p =>
                /\ pc'[q] \notin Asleep
                /\ pc'[q] = "inc" <=> pc[q] = "inc"
                /\ pc'[q] = "user" <=> pc[q] = "user"
                /\ pc'[q] \in InCall <=> pc[q] \in InCall
                /\ pc'[q] \in InOpen <=> pc[q] \in InOpen
  BY DEF WakeUp, Awake, Pc, Asleep, InCall, InOpen

LEMMA GoFacts ==
    ASSUME pc \in [Proc -> Pc], NEW p \in Proc, NEW at \in Pc, Go(p, at)
    PROVE  /\ pc' \in [Proc -> Pc] /\ pc'[p] = at /\ unwoken' = unwoken
           /\ \A q \in Proc : q # p => pc'[q] = pc[q]
  BY DEF Go, Pc

(* The other processes when p reads or writes: the ends are as before, and *)
(* either everybody has been woken, or what they sleep for is unchanged.   *)
LEMMA OthersKeep ==
    ASSUME IInv, Typed', NEW p \in Proc, pc[p] # "inc",
           UNCHANGED <<ends, file>>,
           \A q \in Proc : q # p => call'[q] = call[q],
           \/ \E at \in Pc : WakeUp(p, at)
           \/ (\E at \in Pc : Go(p, at)) /\ len' = len
           \/ unwoken' = TRUE /\ \E at \in Pc : pc' = [pc EXCEPT ![p] = at],
           sem = None
    PROVE  \A q \in Proc : q # p =>
             /\ pc'[q] # "inc"
             /\ pc'[q] \in InCall => call'[q] \in Begun
             /\ pc'[q] \in InOpen => kind' = "fifo"
             /\ pc'[q] # "user" => file'[q] # None
             /\ unwoken' \/ /\ pc'[q] = "rsleep" => len' = 0 /\ writers' > 0
                            /\ pc'[q] = "wsleep" => FREE' < Need(call[q]) /\ readers' > 0
                            /\ pc'[q] = "osleep" => ~Met(file[q], readers', writers')
<1> SUFFICES ASSUME NEW q \in Proc, q # p
             PROVE  /\ pc'[q] # "inc"
                    /\ pc'[q] \in InCall => call'[q] \in Begun
                    /\ pc'[q] \in InOpen => kind' = "fifo"
                    /\ pc'[q] # "user" => file'[q] # None
                    /\ unwoken' \/ /\ pc'[q] = "rsleep" => len' = 0 /\ writers' > 0
                                   /\ pc'[q] = "wsleep" => FREE' < Need(call[q]) /\ readers' > 0
                                   /\ pc'[q] = "osleep" => ~Met(file[q], readers', writers')
  OBVIOUS
<1>1. /\ pc[q] # "inc" /\ (pc[q] \in InCall => call[q] \in Begun) /\ (pc[q] \in InOpen => kind = "fifo")
      /\ pc[q] # "user" => file[q] # None
      /\ call'[q] = call[q] /\ kind' = kind /\ readers' = readers /\ writers' = writers /\ file' = file
  BY ProcAssumption DEF IInv, Control, EndsCounted, ends
<1>2. pc \in [Proc -> Pc]
  BY DEF IInv, Typed
<1>3. CASE \E at \in Pc : WakeUp(p, at)
  <2>1. /\ pc'[q] \notin Asleep /\ (pc'[q] = "inc" <=> pc[q] = "inc")
        /\ (pc'[q] = "user" <=> pc[q] = "user") /\ (pc'[q] \in InCall <=> pc[q] \in InCall)
        /\ pc'[q] \in InOpen <=> pc[q] \in InOpen
    BY <1>2, <1>3, WakeFacts, Zenon
  <2> QED
    BY <2>1, <1>1 DEF Asleep
<1>4. CASE (\E at \in Pc : Go(p, at)) /\ len' = len
  <2>1. pc'[q] = pc[q] /\ unwoken' = unwoken
    BY <1>2, <1>4, GoFacts
  <2> QED
    BY <2>1, <1>1, <1>4 DEF IInv, NoLostWakeup, FREE
<1>5. CASE unwoken' = TRUE /\ \E at \in Pc : pc' = [pc EXCEPT ![p] = at]
  <2>1. pc'[q] = pc[q]
    BY <1>2, <1>5
  <2> QED
    BY <2>1, <1>1, <1>5
<1> QED
  BY <1>3, <1>4, <1>5, Zenon

(* What p itself has to see to.                                            *)
LEMMA Conclude ==
    ASSUME IInv, Typed', NEW p \in Proc, pc[p] # "inc", file[p] # None, sem = None,
           UNCHANGED <<ends, file>>,
           \A q \in Proc : q # p => call'[q] = call[q],
           \/ \E at \in Pc : WakeUp(p, at)
           \/ (\E at \in Pc : Go(p, at)) /\ len' = len
           \/ unwoken' = TRUE /\ \E at \in Pc : pc' = [pc EXCEPT ![p] = at],
           pc'[p] \in {"user", "rsleep", "inc"},
           sem' = IF pc'[p] = "inc" THEN p ELSE None,
           pc'[p] # "user" => call'[p] \in Begun,
           pc'[p] = "rsleep" => len' = 0 /\ writers > 0,
           pc'[p] = "inc" => FREE' < Need(call'[p]) /\ readers > 0,
           call'[p] # None /\ call'[p].op = "write" /\ call'[p].done > 0
              => call'[p].count + call'[p].done > PIPE_BUF
    PROVE  IInv'
<1>1. \A q \in Proc : q # p =>
             /\ pc'[q] # "inc"
             /\ pc'[q] \in InCall => call'[q] \in Begun
             /\ pc'[q] \in InOpen => kind' = "fifo"
             /\ pc'[q] # "user" => file'[q] # None
             /\ unwoken' \/ /\ pc'[q] = "rsleep" => len' = 0 /\ writers' > 0
                            /\ pc'[q] = "wsleep" => FREE' < Need(call[q]) /\ readers' > 0
                            /\ pc'[q] = "osleep" => ~Met(file[q], readers', writers')
  BY OthersKeep, Zenon
<1>2. kind' = kind /\ present' = present /\ readers' = readers /\ writers' = writers /\ file' = file
  BY DEF ends
<1>3. Control'
  <2>1. \A q \in Proc : pc'[q] = "inc" <=> sem' = q
    BY <1>1, ProcAssumption
  <2>2. \A q \in Proc : pc'[q] \in InCall => call'[q] \in Begun
    BY <1>1 DEF InCall
  <2>3. \A q \in Proc : pc'[q] = "inc" => FREE' < Need(call'[q]) /\ readers' > 0
    BY <1>1, <1>2
  <2>4. \A q \in Proc : pc'[q] \in InOpen => kind' = "fifo"
    BY <1>1 DEF InOpen
  <2> QED
    BY <2>1, <2>2, <2>3, <2>4 DEF Control, Need
<1>4. EndsCounted'
  BY <1>1, <1>2 DEF EndsCounted, IInv
<1>5. NoLostWakeup'
  <2> SUFFICES ASSUME ~unwoken', NEW q \in Proc
               PROVE  /\ pc'[q] = "rsleep" => len' = 0 /\ writers' > 0
                      /\ pc'[q] = "wsleep" => FREE' < Need(call'[q]) /\ readers' > 0
                      /\ pc'[q] = "osleep" => ~Met(file'[q], readers', writers')
    BY Zenon DEF NoLostWakeup, Need, Met
  <2>1. CASE q = p
    BY <2>1, <1>2
  <2>2. CASE q # p
    BY <2>2, <1>1, <1>2
  <2> QED
    BY <2>1, <2>2
<1>6. AtomicWrites'
  BY DEF AtomicWrites, IInv
<1> QED
  BY <1>3, <1>4, <1>5, <1>6 DEF IInv

(* The call returns.                                                       *)
LEMMA LeaveKeeps ==
    ASSUME IInv, NEW p \in Proc, pc[p] # "inc", file[p] # None, sem = None, sem' = None,
           UNCHANGED <<ends, file>>, Leave(p), start' \in 0..PIPE_SIZE-1, len' \in 0..PIPE_SIZE,
           \/ WakeUp(p, "user")
           \/ Go(p, "user") /\ len' = len
           \/ unwoken' = TRUE /\ pc' = [pc EXCEPT ![p] = "user"]
    PROVE  IInv'
<1>1. Typed /\ pc \in [Proc -> Pc] /\ "user" \in Pc
  BY DEF IInv, Typed, Pc
<1>2. pc' \in [Proc -> Pc] /\ pc'[p] = "user" /\ unwoken' \in BOOLEAN
  <2>1. CASE WakeUp(p, "user")
    BY <2>1, <1>1, WakeFacts, Zenon
  <2>2. CASE Go(p, "user")
    BY <2>2, <1>1, GoFacts, Zenon DEF Typed
  <2>3. CASE unwoken' = TRUE /\ pc' = [pc EXCEPT ![p] = "user"]
    BY <2>3, <1>1
  <2> QED
    BY <2>1, <2>2, <2>3, Zenon
<1>3. call' = [call EXCEPT ![p] = None] /\ sig' = [sig EXCEPT ![p] = FALSE]
  BY DEF Leave
<1>4. Typed'
  BY <1>1, <1>2, <1>3 DEF Typed, ends
<1>5. call'[p] = None /\ \A q \in Proc : q # p => call'[q] = call[q]
  BY <1>1, <1>3 DEF Typed
<1>6. \/ \E at \in Pc : WakeUp(p, at)
      \/ (\E at \in Pc : Go(p, at)) /\ len' = len
      \/ unwoken' = TRUE /\ \E at \in Pc : pc' = [pc EXCEPT ![p] = at]
  BY <1>1, Zenon
<1> QED
  BY <1>2, <1>4, <1>5, <1>6, Conclude, Zenon

(* The call sleeps, with d left to do.                                     *)
LEMMA StayKeeps ==
    ASSUME IInv, NEW p \in Proc, pc[p] # "inc", file[p] # None, sem = None,
           UNCHANGED <<ends, file>>, UNCHANGED sig, start' \in 0..PIPE_SIZE-1, len' \in 0..PIPE_SIZE,
           NEW d \in Begun, call' = [call EXCEPT ![p] = d],
           NEW at \in {"rsleep", "inc"}, sem' = (IF at = "inc" THEN p ELSE None),
           WakeUp(p, at) \/ (Go(p, at) /\ len' = len),
           at = "rsleep" => len' = 0 /\ writers > 0,
           at = "inc" => FREE' < Need(d) /\ readers > 0,
           d.op = "write" /\ d.done > 0 => d.count + d.done > PIPE_BUF
    PROVE  IInv'
<1>1. Typed /\ pc \in [Proc -> Pc] /\ at \in Pc
  BY DEF IInv, Typed, Pc
<1>2. pc' \in [Proc -> Pc] /\ pc'[p] = at /\ unwoken' \in BOOLEAN
  <2>1. CASE WakeUp(p, at)
    BY <2>1, <1>1, WakeFacts, Zenon
  <2>2. CASE Go(p, at)
    BY <2>2, <1>1, GoFacts, Zenon DEF Typed
  <2> QED
    BY <2>1, <2>2
<1>3. Typed'
  BY <1>1, <1>2 DEF Typed, ends
<1>4. call'[p] = d /\ \A q \in Proc : q # p => call'[q] = call[q]
  BY <1>1 DEF Typed
<1>5. \/ \E x \in Pc : WakeUp(p, x)
      \/ (\E x \in Pc : Go(p, x)) /\ len' = len
  BY <1>1, Zenon
<1>6. pc'[p] \in {"user", "rsleep", "inc"} /\ sem' = IF pc'[p] = "inc" THEN p ELSE None
  BY <1>2
<1>7. /\ pc'[p] # "user" => call'[p] \in Begun
      /\ pc'[p] = "rsleep" => len' = 0 /\ writers > 0
      /\ pc'[p] = "inc" => FREE' < Need(call'[p]) /\ readers > 0
      /\ call'[p] # None /\ call'[p].op = "write" /\ call'[p].done > 0
            => call'[p].count + call'[p].done > PIPE_BUF
  BY <1>2, <1>4
<1> QED
  BY <1>3, <1>4, <1>5, <1>6, <1>7, Conclude, Zenon

(* A copy fails after k bytes, and the call returns.                       *)
LEMMA FaultKeeps ==
    ASSUME IInv, NEW p \in Proc, pc[p] # "inc", file[p] # None, sem = None,
           UNCHANGED <<ends, file>>, start' \in 0..PIPE_SIZE-1, len' \in 0..PIPE_SIZE, NEW k \in Nat,
           k = 0 => len' = len, Fault(p, k > 0)
    PROVE  IInv'
<1>1. Leave(p) /\ sem' = None /\ pc' = [pc EXCEPT ![p] = "user"] /\ unwoken' = (unwoken \/ k > 0)
  BY DEF Fault
<1>2. CASE k = 0
  <2>1. Go(p, "user") /\ len' = len
    BY <1>1, <1>2 DEF Go, IInv, Typed
  <2> QED
    BY <1>1, <2>1, LeaveKeeps, Zenon
<1>3. CASE k > 0
  <2>1. unwoken' = TRUE
    BY <1>1, <1>3, Zenon
  <2> QED
    BY <1>1, <2>1, LeaveKeeps, Zenon
<1> QED
  BY <1>2, <1>3

-----------------------------------------------------------------------------
(* pipe_read() with the semaphore                                          *)
LEMMA TryReadKeeps ==
    ASSUME IInv, NEW p \in Proc, NEW c \in Begun, c.op = "read", file[p] # None,
           pc[p] # "inc", TryRead(p, c)
    PROVE  IInv'
<1>1. /\ sem = None /\ UNCHANGED <<ends, file>>
      /\ start \in 0..PIPE_SIZE-1 /\ len \in 0..PIPE_SIZE /\ writers \in Nat /\ PIPE_SIZE \in Nat \ {0}
  BY SizeAssumption DEF TryRead, IInv, Typed
<1>2. CASE len = 0 /\ ReadEmpty(p, c) /\ UNCHANGED <<ring, waiting, sem, tmp>>
  <2>1. len' = len /\ len' = 0 /\ sem' = None /\ len' \in 0..PIPE_SIZE /\ start' \in 0..PIPE_SIZE-1
    BY <1>1, <1>2 DEF ring
  <2>2. CASE Go(p, "user") /\ Leave(p)
    BY <1>1, <2>1, <2>2, LeaveKeeps, Zenon
  <2>3. CASE writers # 0 /\ Go(p, "rsleep") /\ call' = [call EXCEPT ![p] = c] /\ UNCHANGED sig
    <3>1. writers > 0
      BY <1>1, <2>3
    <3>2. "rsleep" \in {"rsleep", "inc"} /\ "rsleep" # "inc" /\ c.op # "write"
      OBVIOUS
    <3> QED
      BY <1>1, <2>1, <2>3, <3>1, <3>2, StayKeeps, Zenon
  <2> QED
    BY <1>2, <2>2, <2>3, Zenon DEF ReadEmpty
<1>3. CASE len > 0 /\ ReadSome(p, c)
  <2> DEFINE n == Min({c.count, len})
             left == c.count - n
             d == [c EXCEPT !.count = left]
  <2>1. n \in Nat /\ n <= len /\ n <= c.count /\ (n < c.count => n = len) /\ c.count \in Nat
    BY <1>1, <1>3, MinTwo DEF Begun
  <2> HIDE DEF n
  <2>2. len - n \in 0..PIPE_SIZE /\ (start + n) % PIPE_SIZE \in 0..PIPE_SIZE-1 /\ 0 \in 0..PIPE_SIZE-1
    BY <1>1, <2>1, ModRange
  <2>3. CASE /\ len' = len - n /\ sem' = sem /\ start' = (IF len = n THEN 0 ELSE (start + n) % PIPE_SIZE)
             /\ MoreRead(left, c) /\ writers # 0 /\ WakeUp(p, "rsleep")
             /\ call' = [call EXCEPT ![p] = d] /\ UNCHANGED sig
    <3>1. left > 0
      BY <2>3, Zenon DEF MoreRead
    <3>2. left \in Nat \ {0} /\ len' = 0 /\ writers > 0 /\ len' \in 0..PIPE_SIZE
      BY <2>1, <2>2, <2>3, <3>1, <1>1
    <3>3. d \in Begun /\ d.op # "write"
      BY <3>2 DEF Begun
    <3>4. "rsleep" \in {"rsleep", "inc"} /\ "rsleep" # "inc" /\ sem' = None /\ start' \in 0..PIPE_SIZE-1
      BY <1>1, <2>2, <2>3
    <3> HIDE DEF d
    <3> QED
      BY <1>1, <2>3, <3>2, <3>3, <3>4, StayKeeps, Zenon
  <2>4. CASE /\ len' = len - n /\ sem' = sem /\ start' = (IF len = n THEN 0 ELSE (start + n) % PIPE_SIZE)
             /\ WakeUp(p, "user") /\ Leave(p)
    <3>1. start' \in 0..PIPE_SIZE-1
      BY <2>2, <2>4
    <3> QED
      BY <1>1, <2>2, <2>4, <3>1, LeaveKeeps, Zenon
  <2>5. ASSUME NEW k \in {0, RCHUNK(n)} \ {n}, len' = len - k, start' = (start + k) % PIPE_SIZE,
               Fault(p, k > 0)
        PROVE  IInv'
    <3>1. RCHUNK(n) \in Nat /\ RCHUNK(n) <= n
      BY <2>1, <1>1, MinTwo DEF RCHUNK
    <3>2. k \in Nat /\ k <= n
      BY <3>1, <2>1
    <3>3. len' \in 0..PIPE_SIZE /\ start' \in 0..PIPE_SIZE-1 /\ (k = 0 => len' = len)
      BY <3>2, <2>1, <2>5, <1>1, ModRange
    <3> QED
      BY <1>1, <2>5, <3>2, <3>3, FaultKeeps, Zenon
  <2> QED
    BY <1>3, <2>3, <2>4, <2>5, Zenon DEF ReadSome, Take, n
<1> QED
  BY <1>2, <1>3, Zenon DEF TryRead

(* pipe_write() with the semaphore                                         *)
LEMMA TryWriteKeeps ==
    ASSUME IInv, NEW p \in Proc, NEW c \in Begun, file[p] # None, pc[p] # "inc", TryWrite(p, c),
           c.done > 0 => c.count + c.done > PIPE_BUF
    PROVE  IInv'
<1>1. /\ sem = None /\ UNCHANGED <<ends, file>>
      /\ start \in 0..PIPE_SIZE-1 /\ len \in 0..PIPE_SIZE /\ readers \in Nat
      /\ PIPE_SIZE \in Nat \ {0} /\ PIPE_BUF \in Nat
  BY SizeAssumption DEF TryWrite, IInv, Typed
<1>2. CASE Go(p, "user") /\ Leave(p) /\ UNCHANGED <<ring, waiting, sem, tmp>>
  <2>1. len' = len /\ sem' = None /\ len' \in 0..PIPE_SIZE /\ start' \in 0..PIPE_SIZE-1
    BY <1>1, <1>2 DEF ring
  <2> QED
    BY <1>1, <1>2, <2>1, LeaveKeeps, Zenon
<1>3. CASE /\ readers > 0 /\ FREE < Need(c)
           /\ IF c.done > 0 THEN WriteWake(p) ELSE Go(p, "inc")
           /\ LoadCount(p) /\ call' = [call EXCEPT ![p] = c] /\ UNCHANGED <<ring, waiting, sig>>
  <2>1. /\ len' = len /\ sem' = p /\ UNCHANGED sig /\ len' \in 0..PIPE_SIZE /\ start' \in 0..PIPE_SIZE-1
        /\ FREE' < Need(c)
    BY <1>1, <1>3 DEF ring, LoadCount, FREE
  <2>2. WakeUp(p, "inc") \/ (Go(p, "inc") /\ len' = len)
    BY <1>3, <2>1, Zenon DEF WriteWake
  <2>3. "inc" \in {"rsleep", "inc"} /\ "inc" # "rsleep"
    OBVIOUS
  <2> QED
    BY <1>1, <1>3, <2>1, <2>2, <2>3, StayKeeps, Zenon
<1>4. CASE readers > 0 /\ FREE >= Need(c) /\ WriteSome(p, c)
  <2> DEFINE n == Min({c.count, FREE})
             left == c.count - n
             d == [op |-> "write", count |-> left, done |-> c.done + n, nonblock |-> FALSE]
  <2>1. /\ c.count \in Nat \ {0} /\ c.done \in Nat
        /\ n \in Nat \ {0} /\ n <= FREE /\ n <= c.count /\ (n < c.count => n = FREE) /\ FREE \in Nat
    <3>1. /\ c.count \in Nat \ {0} /\ c.done \in Nat
      BY DEF Begun
    <3>2. FREE \in Nat
      BY <1>1 DEF FREE
    <3>3. Need(c) >= 1
      BY <3>1 DEF Need
    <3>4. FREE >= 1
      BY <1>4, <3>1, <3>2, <3>3 DEF Need
    <3>5. n = IF c.count <= FREE THEN c.count ELSE FREE
      BY <3>1, <3>2, MinTwo
    <3> HIDE DEF n
    <3> QED
      BY <3>1, <3>2, <3>4, <3>5
  <2> HIDE DEF n
  <2>2. len + n \in 0..PIPE_SIZE
    BY <1>1, <2>1 DEF FREE
  <2>3. CASE /\ len' = len + n /\ start' = start /\ left > 0
             /\ WriteWake(p) /\ LoadCount(p)
             /\ call' = [call EXCEPT ![p] = d] /\ UNCHANGED sig
    <3>1. left \in Nat \ {0} /\ n = FREE /\ FREE' = 0
      BY <2>1, <2>3, <1>1 DEF FREE
    <3>2. d \in Begun /\ d.done > 0 /\ d.count = left /\ d.done = c.done + n
      BY <3>1, <2>1 DEF Begun
    <3>3. Need(d) = 1
      BY <3>2 DEF Need
    <3>4. d.count + d.done > PIPE_BUF
      <4>1. d.count + d.done = c.count + c.done
        BY <3>2, <2>1
      <4>2. CASE c.done = 0
        BY <4>1, <4>2, <1>1, <1>4, <2>1, <3>1 DEF Need
      <4>3. CASE c.done > 0
        BY <4>1, <4>3
      <4> QED
        BY <4>2, <4>3, <2>1
    <3>5. /\ "inc" \in {"rsleep", "inc"} /\ "inc" # "rsleep" /\ sem' = p /\ start' \in 0..PIPE_SIZE-1
          /\ len' \in 0..PIPE_SIZE /\ FREE' < Need(d) /\ WakeUp(p, "inc")
      BY <1>1, <2>2, <2>3, <3>1, <3>3 DEF LoadCount, WriteWake
    <3> HIDE DEF d
    <3> QED
      BY <1>1, <1>4, <2>3, <3>2, <3>4, <3>5, StayKeeps, Zenon
  <2>4. CASE len' = len + n /\ start' = start /\ sem' = sem /\ WakeUp(p, "user") /\ Leave(p)
    <3>1. start' \in 0..PIPE_SIZE-1 /\ len' \in 0..PIPE_SIZE /\ sem' = None
      BY <1>1, <2>2, <2>4
    <3> QED
      BY <1>1, <2>4, <3>1, LeaveKeeps, Zenon
  <2>5. ASSUME NEW k \in {0, WCHUNK(n)} \ {n}, len' = len + k, start' = start, Fault(p, k > 0)
        PROVE  IInv'
    <3>1. END(0) \in 0..PIPE_SIZE-1
      BY <1>1, ModRange DEF END
    <3>2. WCHUNK(n) \in Nat /\ WCHUNK(n) <= n
      BY <3>1, <2>1, <1>1, MinTwo DEF WCHUNK
    <3>3. k \in Nat /\ k <= n
      BY <3>2, <2>1
    <3>4. len' \in 0..PIPE_SIZE /\ start' \in 0..PIPE_SIZE-1 /\ (k = 0 => len' = len)
      BY <3>3, <2>1, <2>2, <2>5, <1>1
    <3> QED
      BY <1>1, <2>5, <3>3, <3>4, FaultKeeps, Zenon
  <2> QED
    BY <1>4, <2>3, <2>4, <2>5, Zenon DEF WriteSome, Put, n
<1> QED
  BY <1>2, <1>3, <1>4, Zenon DEF TryWrite

-----------------------------------------------------------------------------
(* The sets that PIPE_READERS and PIPE_WRITERS count.                      *)
Readers(f) == {q \in Proc : Reads(f[q])}
Writers(f) == {q \in Proc : Writes(f[q])}

(* One file is opened or closed, and the counts follow.                    *)
LEMMA EndsFollow ==
    ASSUME Typed, EndsCounted, NEW p \in Proc, NEW m \in Modes \cup {None},
           file' = [file EXCEPT ![p] = m],
           NEW r, r = readers - One(Reads(file[p])) + One(Reads(m)),
           NEW w, w = writers - One(Writes(file[p])) + One(Writes(m)),
           Counts(r, w),
           \A q \in Proc : pc'[q] # "user" => file'[q] # None
    PROVE  /\ EndsCounted' /\ r \in Nat /\ w \in Nat
           /\ Unused(r, w) <=> \A q \in Proc : file'[q] = None
<1>1. readers' = r /\ writers' = w /\ present' = ~Unused(r, w)
  BY DEF Counts
<1>2. Readers(file) \in SUBSET Proc /\ Readers(file') \in SUBSET Proc
      /\ Readers(file) \ {p} = Readers(file') \ {p}
      /\ (p \in Readers(file) <=> Reads(file[p])) /\ (p \in Readers(file') <=> Reads(m))
  BY DEF Readers, Typed
<1>3. Writers(file) \in SUBSET Proc /\ Writers(file') \in SUBSET Proc
      /\ Writers(file) \ {p} = Writers(file') \ {p}
      /\ (p \in Writers(file) <=> Writes(file[p])) /\ (p \in Writers(file') <=> Writes(m))
  BY DEF Writers, Typed
<1>4. Cardinality(Readers(file')) = r /\ r \in Nat
  <2> DEFINE A == Readers(file)
             B == Readers(file')
  <2>1. readers = Cardinality(A)
    BY DEF EndsCounted, Readers
  <2>2. /\ A \in SUBSET Proc /\ B \in SUBSET Proc /\ A \ {p} = B \ {p}
        /\ (p \in A <=> Reads(file[p])) /\ (p \in B <=> Reads(m))
    BY <1>2, Zenon
  <2> HIDE DEF A, B
  <2>3. /\ Cardinality(A) \in Nat /\ Cardinality(B) \in Nat
        /\ Cardinality(B) = Cardinality(A) - (IF p \in A THEN 1 ELSE 0) + (IF p \in B THEN 1 ELSE 0)
    BY <2>2, CardStep, Zenon
  <2>4. Cardinality(B) = r
    BY <2>1, <2>2, <2>3 DEF One
  <2> QED
    BY <2>3, <2>4 DEF B
<1>5. Cardinality(Writers(file')) = w /\ w \in Nat
  <2> DEFINE A == Writers(file)
             B == Writers(file')
  <2>1. writers = Cardinality(A)
    BY DEF EndsCounted, Writers
  <2>2. /\ A \in SUBSET Proc /\ B \in SUBSET Proc /\ A \ {p} = B \ {p}
        /\ (p \in A <=> Writes(file[p])) /\ (p \in B <=> Writes(m))
    BY <1>3, Zenon
  <2> HIDE DEF A, B
  <2>3. /\ Cardinality(A) \in Nat /\ Cardinality(B) \in Nat
        /\ Cardinality(B) = Cardinality(A) - (IF p \in A THEN 1 ELSE 0) + (IF p \in B THEN 1 ELSE 0)
    BY <2>2, CardStep, Zenon
  <2>4. Cardinality(B) = w
    BY <2>1, <2>2, <2>3 DEF One
  <2> QED
    BY <2>3, <2>4 DEF B
<1>6. Unused(r, w) <=> \A q \in Proc : file'[q] = None
  <2>1. IsFiniteSet(Readers(file')) /\ IsFiniteSet(Writers(file'))
    BY <1>2, <1>3, ProcAssumption, FS_Subset, Zenon
  <2>2. (r = 0 <=> Readers(file') = {}) /\ (w = 0 <=> Writers(file') = {})
    BY <2>1, <1>4, <1>5, FS_EmptySet, Zenon
  <2>3. file' \in [Proc -> Modes \cup {None}]
    BY DEF Typed
  <2> QED
    BY <2>2, <2>3, ProcAssumption DEF Unused, Readers, Writers, Reads, Writes, Modes
<1> QED
  BY <1>1, <1>4, <1>5, <1>6, Zenon DEF EndsCounted, Readers, Writers

(* What counting leaves of the buffer.                                     *)
LEMMA CountsRing ==
    ASSUME Typed, NEW r \in Nat, NEW w \in Nat, Counts(r, w)
    PROVE  /\ start' \in 0..PIPE_SIZE-1 /\ len' \in 0..PIPE_SIZE /\ present' \in BOOLEAN
           /\ kind' = kind /\ readers' = r /\ writers' = w
           /\ ~Unused(r, w) => len' = len
  BY SizeAssumption DEF Typed, Counts, ring, Unused

(* Opening and closing: with the counts right, p has to see to itself, and *)
(* the others are woken, or sleep for what the new counts do not grant.    *)
LEMMA OpenCloseKeeps ==
    ASSUME IInv, NEW p \in Proc, NEW m \in Modes \cup {None}, pc[p] \in {"user", "odown"},
           sem = None, sem' = None, file' = [file EXCEPT ![p] = m],
           NEW r \in Nat, NEW w \in Nat, Counts(r, w), EndsCounted',
           Unused(r, w) <=> \A q \in Proc : file'[q] = None,
           NEW at \in {"user", "osleep"}, WakeUp(p, at) \/ Go(p, at),
           at = "osleep" => kind = "fifo" /\ ~Met(m, r, w),
           \/ WakeUp(p, at)
           \/ Unused(r, w)
           \/ /\ writers > 0 => w > 0
              /\ readers > 0 => r > 0
              /\ \A q \in Proc : pc[q] = "osleep" /\ ~Met(file[q], readers, writers) => ~Met(file[q], r, w),
           call' = call \/ call' = [call EXCEPT ![p] = None],
           sig' \in [Proc -> BOOLEAN]
    PROVE  IInv'
<1>1. Typed /\ pc \in [Proc -> Pc] /\ at \in Pc
  BY DEF IInv, Typed, Pc
<1>2. /\ start' \in 0..PIPE_SIZE-1 /\ len' \in 0..PIPE_SIZE /\ present' \in BOOLEAN
      /\ kind' = kind /\ readers' = r /\ writers' = w
      /\ ~Unused(r, w) => len' = len
  BY <1>1, CountsRing
<1>3. pc' \in [Proc -> Pc] /\ pc'[p] = at /\ unwoken' \in BOOLEAN
  <2>1. CASE WakeUp(p, at)
    BY <2>1, <1>1, WakeFacts, Zenon
  <2>2. CASE Go(p, at)
    BY <2>2, <1>1, GoFacts, Zenon DEF Typed
  <2> QED
    BY <2>1, <2>2
<1>4. /\ call' \in [Proc -> Begun \cup {None}]
      /\ \A q \in Proc : q # p => call'[q] = call[q]
      /\ call'[p] = call[p] \/ call'[p] = None
  BY <1>1 DEF Typed
<1>5. Typed'
  BY <1>1, <1>2, <1>3, <1>4 DEF Typed
<1>6. \A q \in Proc : q # p =>
        /\ pc'[q] = "inc" <=> pc[q] = "inc"
        /\ pc'[q] \in InCall <=> pc[q] \in InCall
        /\ pc'[q] \in InOpen <=> pc[q] \in InOpen
  <2>1. CASE WakeUp(p, at)
    BY <2>1, <1>1, WakeFacts, Zenon DEF Asleep
  <2>2. CASE Go(p, at)
    BY <2>2, <1>1, GoFacts, Zenon
  <2> QED
    BY <2>1, <2>2, Zenon
<1>7. Control'
  <2>1. \A q \in Proc : pc'[q] # "inc"
    <3>1. \A q \in Proc : pc[q] # "inc"
      BY ProcAssumption DEF IInv, Control
    <3> QED
      BY <3>1, <1>3, <1>6
  <2>2. \A q \in Proc : sem' # q
    BY ProcAssumption
  <2>3. \A q \in Proc : pc'[q] \in InCall => call'[q] \in Begun
    BY <1>3, <1>4, <1>6 DEF IInv, Control, InCall
  <2>4. \A q \in Proc : pc'[q] \in InOpen => kind' = "fifo"
    BY <1>2, <1>3, <1>6 DEF IInv, Control, InOpen
  <2> QED
    BY <2>1, <2>2, <2>3, <2>4 DEF Control
<1>8. NoLostWakeup'
  <2> SUFFICES ASSUME ~unwoken', NEW q \in Proc
               PROVE  /\ pc'[q] = "rsleep" => len' = 0 /\ writers' > 0
                      /\ pc'[q] = "wsleep" => FREE' < Need(call'[q]) /\ readers' > 0
                      /\ pc'[q] = "osleep" => ~Met(file'[q], readers', writers')
    BY Zenon DEF NoLostWakeup, Need, Met
  <2>1. CASE q = p
    <3>1. file'[p] = m
      BY <1>1 DEF Typed
    <3> QED
      BY <2>1, <3>1, <1>2, <1>3
  <2>2. CASE q # p /\ WakeUp(p, at)
    <3>1. pc'[q] \notin Asleep
      BY <2>2, <1>1, WakeFacts, Zenon
    <3> QED
      BY <3>1 DEF Asleep
  <2>3. CASE q # p /\ Unused(r, w)
    BY <2>3 DEF EndsCounted
  <2>4. CASE /\ q # p /\ ~Unused(r, w) /\ Go(p, at)
             /\ writers > 0 => w > 0
             /\ readers > 0 => r > 0
             /\ \A x \in Proc : pc[x] = "osleep" /\ ~Met(file[x], readers, writers) => ~Met(file[x], r, w)
    <3>1. pc'[q] = pc[q] /\ unwoken' = unwoken
      BY <2>4, <1>1, GoFacts, Zenon
    <3>2. file'[q] = file[q] /\ len' = len /\ call'[q] = call[q]
      BY <2>4, <1>1, <1>2, <1>4 DEF Typed
    <3>3. /\ pc[q] = "rsleep" => len = 0 /\ writers > 0
          /\ pc[q] = "wsleep" => FREE < Need(call[q]) /\ readers > 0
          /\ pc[q] = "osleep" => ~Met(file[q], readers, writers)
      BY <3>1 DEF IInv, NoLostWakeup
    <3> QED
      BY <2>4, <3>1, <3>2, <3>3, <1>2 DEF FREE
  <2> QED
    BY <2>1, <2>2, <2>3, <2>4
<1>9. AtomicWrites'
  BY <1>4 DEF AtomicWrites, IInv
<1> QED
  BY <1>5, <1>7, <1>8, <1>9 DEF IInv

LEMMA FifoOpenKeeps == ASSUME IInv, NEW p \in Proc, FifoOpen(p) PROVE IInv'
<1>1. /\ kind = "fifo" /\ pc[p] = "user" /\ file[p] = None /\ sem = None /\ sem' = None
      /\ call' = call /\ sig' = sig
  BY DEF FifoOpen
<1>2. Typed /\ EndsCounted /\ pc \in [Proc -> Pc] /\ readers \in Nat /\ writers \in Nat /\ sig \in [Proc -> BOOLEAN]
  BY DEF IInv, Typed
<1>3. ~Reads(file[p]) /\ ~Writes(file[p])
  BY <1>1, ProcAssumption DEF Reads, Writes
<1>4. CASE Counts(readers, writers) /\ UNCHANGED <<pc, file, unwoken>>
  <2>1. file' = [file EXCEPT ![p] = None] /\ ~Reads(None) /\ ~Writes(None)
    BY <1>1, <1>2, <1>3, <1>4 DEF Typed
  <2>2. \A q \in Proc : pc'[q] # "user" => file'[q] # None
    BY <1>2, <1>4 DEF EndsCounted
  <2>3. EndsCounted' /\ (Unused(readers, writers) <=> \A q \in Proc : file'[q] = None)
    <3>1. readers = readers - One(Reads(file[p])) + One(Reads(None))
      BY <1>2, <1>3, <2>1 DEF One
    <3>2. writers = writers - One(Writes(file[p])) + One(Writes(None))
      BY <1>2, <1>3, <2>1 DEF One
    <3> QED
      BY <1>2, <1>4, <2>1, <2>2, <3>1, <3>2, EndsFollow, Zenon
  <2>4. Go(p, "user") /\ "user" \in {"user", "osleep"} /\ "user" # "osleep"
    BY <1>1, <1>2, <1>4 DEF Go
  <2> QED
    BY <1>1, <1>2, <1>4, <2>1, <2>3, <2>4, OpenCloseKeeps, Zenon
<1>5. ASSUME NEW mode \in Modes, NEW nb \in BOOLEAN,
             NEW r, r = readers + One(Reads(mode)), NEW w, w = writers + One(Writes(mode)),
             NEW at, at = (IF Met(mode, r, w) \/ (mode = "r" /\ nb) THEN "user" ELSE "osleep"),
             Counts(r, w), file' = [file EXCEPT ![p] = mode],
             IF (Reads(mode) /\ r = 1) \/ (Writes(mode) /\ w = 1) THEN WakeUp(p, at) ELSE Go(p, at)
      PROVE  IInv'
  <2>1. at \in {"user", "osleep"} /\ (at = "osleep" => kind = "fifo" /\ ~Met(mode, r, w)) /\ at \in Pc
    BY <1>1, <1>5 DEF Pc
  <2>2. r \in Nat /\ w \in Nat
    BY <1>2, <1>5 DEF One
  <2>3. WakeUp(p, at) \/ Go(p, at)
    BY <1>5, Zenon
  <2>4. \A q \in Proc : pc'[q] # "user" => file'[q] # None
    <3> SUFFICES ASSUME NEW q \in Proc, pc'[q] # "user" PROVE file'[q] # None
      OBVIOUS
    <3>1. CASE q = p
      BY <3>1, <1>2, <1>5, ProcAssumption DEF Typed, Modes
    <3>2. CASE q # p
      <4>1. pc[q] # "user"
        BY <3>2, <2>1, <2>3, <1>2, WakeFacts, GoFacts, Zenon
      <4> QED
        BY <4>1, <3>2, <1>2, <1>5 DEF EndsCounted, Typed
    <3> QED
      BY <3>1, <3>2
  <2>5. EndsCounted' /\ (Unused(r, w) <=> \A q \in Proc : file'[q] = None)
    <3>1. r = readers - One(Reads(file[p])) + One(Reads(mode))
      BY <1>2, <1>3, <1>5 DEF One
    <3>2. w = writers - One(Writes(file[p])) + One(Writes(mode))
      BY <1>2, <1>3, <1>5 DEF One
    <3> QED
      BY <1>2, <1>5, <2>4, <3>1, <3>2, EndsFollow, Zenon
  <2>6. CASE WakeUp(p, at)
    BY <1>1, <1>2, <1>5, <2>1, <2>2, <2>5, <2>6, OpenCloseKeeps, Zenon
  <2>7. CASE Go(p, at) /\ ~(Reads(mode) /\ r = 1) /\ ~(Writes(mode) /\ w = 1)
    <3>1. (writers > 0 => w > 0) /\ (readers > 0 => r > 0)
      BY <1>2, <1>5 DEF One
    <3>2. (writers = 0 => w = 0) /\ (readers = 0 => r = 0)
      BY <1>2, <1>5, <2>7 DEF One
    <3>3. \A q \in Proc : pc[q] = "osleep" /\ ~Met(file[q], readers, writers) => ~Met(file[q], r, w)
      BY <1>2, <2>2, <3>2 DEF Met
    <3> QED
      BY <1>1, <1>2, <1>5, <2>1, <2>2, <2>5, <2>7, <3>1, <3>3, OpenCloseKeeps, Zenon
  <2> QED
    BY <1>5, <2>6, <2>7, Zenon
<1> QED
  BY <1>4, <1>5, Zenon DEF FifoOpen

LEMMA PipeOpenKeeps == ASSUME IInv, NEW p \in Proc, PipeOpen(p) PROVE IInv'
<1>1. /\ kind = "pipe" /\ pc[p] = "user" /\ file[p] = None /\ sem = None /\ sem' = None
      /\ call' = call /\ sig' = sig /\ pc' = pc /\ unwoken' = unwoken
  BY DEF PipeOpen
<1>2. /\ Typed /\ EndsCounted /\ pc \in [Proc -> Pc] /\ readers \in Nat /\ writers \in Nat
      /\ sig \in [Proc -> BOOLEAN]
  BY DEF IInv, Typed
<1>3. ~Reads(file[p]) /\ ~Writes(file[p])
  BY <1>1, ProcAssumption DEF Reads, Writes
<1>4. PICK mode \in Modes : /\ Counts(readers + One(Reads(mode)), writers + One(Writes(mode)))
                            /\ file' = [file EXCEPT ![p] = mode]
  BY Zenon DEF PipeOpen
<1> DEFINE r == readers + One(Reads(mode))
           w == writers + One(Writes(mode))
<1>5. r \in Nat /\ w \in Nat /\ (writers > 0 => w > 0) /\ (readers > 0 => r > 0)
  BY <1>2 DEF One
<1>6. r = readers - One(Reads(file[p])) + One(Reads(mode)) /\ w = writers - One(Writes(file[p])) + One(Writes(mode))
  BY <1>2, <1>3 DEF One
<1>7. Counts(r, w)
  BY <1>4
<1> HIDE DEF r, w
<1>8. \A q \in Proc : pc'[q] # "user" => file'[q] # None
  BY <1>1, <1>2, <1>4, ProcAssumption DEF EndsCounted, Typed, Modes
<1>9. EndsCounted' /\ (Unused(r, w) <=> \A q \in Proc : file'[q] = None)
  BY <1>2, <1>4, <1>6, <1>7, <1>8, EndsFollow, Zenon
<1>10. \A q \in Proc : pc[q] # "osleep"
  BY <1>1 DEF IInv, Control, InOpen
<1>11. Go(p, "user") /\ "user" \in {"user", "osleep"} /\ "user" # "osleep"
  BY <1>1, <1>2 DEF Go
<1> QED
  BY <1>1, <1>2, <1>4, <1>5, <1>7, <1>9, <1>10, <1>11, OpenCloseKeeps, Zenon

LEMMA ReleaseKeeps == ASSUME IInv, NEW p \in Proc, Release(p) PROVE IInv'
<1> DEFINE r == readers - One(Reads(file[p]))
           w == writers - One(Writes(file[p]))
<1>1. /\ pc[p] = "user" /\ sem = None /\ sem' = None /\ file' = [file EXCEPT ![p] = None]
      /\ call' = call /\ sig' = sig /\ Counts(r, w)
      /\ IF Unused(r, w) THEN Go(p, "user") ELSE WakeUp(p, "user")
  BY DEF Release
<1>2. /\ Typed /\ EndsCounted /\ pc \in [Proc -> Pc] /\ readers \in Nat /\ writers \in Nat
      /\ sig \in [Proc -> BOOLEAN] /\ "user" \in {"user", "osleep"} /\ "user" # "osleep" /\ "user" \in Pc
  BY DEF IInv, Typed, Pc
<1>3. ~Reads(None) /\ ~Writes(None)
  BY ProcAssumption DEF Reads, Writes
<1>4. r = readers - One(Reads(file[p])) + One(Reads(None)) /\ w = writers - One(Writes(file[p])) + One(Writes(None))
  BY <1>2, <1>3 DEF One
<1> HIDE DEF r, w
<1>5. \A q \in Proc : pc'[q] # "user" => file'[q] # None
  <2> SUFFICES ASSUME NEW q \in Proc, pc'[q] # "user" PROVE file'[q] # None
    OBVIOUS
  <2>1. q # p /\ pc[q] # "user"
    BY <1>1, <1>2, WakeFacts, GoFacts, Zenon
  <2> QED
    BY <2>1, <1>1, <1>2 DEF EndsCounted, Typed
<1>6. EndsCounted' /\ r \in Nat /\ w \in Nat /\ (Unused(r, w) <=> \A q \in Proc : file'[q] = None)
  BY <1>1, <1>2, <1>4, <1>5, EndsFollow, Zenon
<1> QED
  BY <1>1, <1>2, <1>6, OpenCloseKeeps, Zenon

(* A step of p inside a call that changes neither buffer nor ends.         *)
LEMMA InsideKeeps ==
    ASSUME IInv, NEW p \in Proc, NEW at \in Pc \ {"inc", "rsleep"}, Go(p, at),
           UNCHANGED <<ring, ends, file>>, sig' \in [Proc -> BOOLEAN],
           sem' = IF pc[p] = "inc" THEN None ELSE sem,
           pc[p] # "user",
           call' = IF at = "user" THEN [call EXCEPT ![p] = None] ELSE call,
           at \in InCall => pc[p] \in InCall,
           at \in InOpen => pc[p] \in InOpen,
           at = "wsleep" => pc[p] = "inc",
           at = "osleep" => ~Met(file[p], readers, writers)
    PROVE  IInv'
<1>1. Typed /\ Control /\ EndsCounted /\ NoLostWakeup /\ AtomicWrites /\ pc \in [Proc -> Pc] /\ at \in Pc
  BY DEF IInv, Typed
<1>2. pc' \in [Proc -> Pc] /\ pc'[p] = at /\ unwoken' = unwoken /\ \A q \in Proc : q # p => pc'[q] = pc[q]
  BY <1>1, GoFacts, Zenon
<1>3. /\ start' = start /\ len' = len /\ kind' = kind /\ present' = present /\ readers' = readers
      /\ writers' = writers /\ file' = file
  BY DEF ring, ends
<1>4. /\ call' \in [Proc -> Begun \cup {None}]
      /\ \A q \in Proc : q # p => call'[q] = call[q]
      /\ IF at = "user" THEN call'[p] = None ELSE call'[p] = call[p]
  BY <1>1 DEF Typed
<1>5. Typed'
  BY <1>1, <1>2, <1>3, <1>4 DEF Typed
<1>6. Control'
  <2>1. \A q \in Proc : pc'[q] = "inc" <=> sem' = q
    BY <1>1, <1>2, ProcAssumption DEF Control
  <2>2. \A q \in Proc : pc'[q] \in InCall => call'[q] \in Begun
    BY <1>1, <1>2, <1>4 DEF Control, InCall
  <2>3. \A q \in Proc : pc'[q] = "inc" => FREE' < Need(call'[q]) /\ readers' > 0
    BY <1>1, <1>2, <1>3, <1>4 DEF Control, FREE
  <2>4. \A q \in Proc : pc'[q] \in InOpen => kind' = "fifo"
    BY <1>1, <1>2, <1>3 DEF Control
  <2> QED
    BY <2>1, <2>2, <2>3, <2>4 DEF Control, Need
<1>7. EndsCounted'
  BY <1>1, <1>2, <1>3 DEF EndsCounted
<1>8. NoLostWakeup'
  <2> SUFFICES ASSUME ~unwoken', NEW q \in Proc
               PROVE  /\ pc'[q] = "rsleep" => len' = 0 /\ writers' > 0
                      /\ pc'[q] = "wsleep" => FREE' < Need(call'[q]) /\ readers' > 0
                      /\ pc'[q] = "osleep" => ~Met(file'[q], readers', writers')
    BY Zenon DEF NoLostWakeup, Need, Met
  <2>1. CASE q = p
    BY <2>1, <1>1, <1>2, <1>3, <1>4, SMTT(20) DEF Control, FREE
  <2>2. CASE q # p
    BY <2>2, <1>1, <1>2, <1>3, <1>4, SMTT(20) DEF NoLostWakeup, FREE
  <2> QED
    BY <2>1, <2>2
<1>9. AtomicWrites'
  BY <1>1, <1>4 DEF AtomicWrites
<1> QED
  BY <1>5, <1>6, <1>7, <1>8, <1>9 DEF IInv

LEMMA OpenResumeKeeps == ASSUME IInv, NEW p \in Proc, OpenResume(p) PROVE IInv'
<1>1. /\ pc[p] = "odown" /\ sem = None /\ sem' = None
      /\ Typed /\ EndsCounted /\ pc \in [Proc -> Pc] /\ readers \in Nat /\ writers \in Nat
      /\ start \in 0..PIPE_SIZE-1 /\ len \in 0..PIPE_SIZE
      /\ sig \in [Proc -> BOOLEAN] /\ "user" \in {"user", "osleep"} /\ "user" # "osleep" /\ "user" \in Pc
  BY DEF OpenResume, IInv, Typed, Pc
<1>2. file[p] # None /\ file[p] \in Modes
  BY <1>1 DEF EndsCounted, Typed
<1>3. CASE Go(p, "user") /\ Leave(p) /\ UNCHANGED <<ring, ends, waiting, file>>
  <2>1. /\ len' = len /\ start' \in 0..PIPE_SIZE-1 /\ len' \in 0..PIPE_SIZE /\ pc[p] # "inc"
        /\ UNCHANGED <<ends, file>>
    BY <1>1, <1>3 DEF ring
  <2> QED
    BY <1>1, <1>2, <1>3, <2>1, LeaveKeeps, Zenon
<1>4. CASE /\ ~Met(file[p], readers, writers) /\ Go(p, "osleep")
           /\ UNCHANGED <<ring, ends, waiting, file, call, sig>>
  <2>1. /\ "osleep" \in Pc \ {"inc", "rsleep"} /\ "osleep" # "user" /\ "osleep" \notin InCall /\ pc[p] \in InOpen
        /\ "osleep" # "wsleep" /\ pc[p] # "inc" /\ pc[p] # "user" /\ sig' \in [Proc -> BOOLEAN]
        /\ sem' = (IF pc[p] = "inc" THEN None ELSE sem) /\ UNCHANGED <<ring, ends, file, call>>
    BY <1>1, <1>4 DEF Pc, InCall, InOpen
  <2> QED
    BY <1>4, <2>1, InsideKeeps, Zenon
<1>5. ASSUME ~Met(file[p], readers, writers), file' = [file EXCEPT ![p] = None], Leave(p),
             NEW r, r = readers - One(file[p] = "r"), NEW w, w = writers - One(file[p] = "w"), Counts(r, w),
             IF (file[p] = "r" /\ r = 0) \/ (file[p] = "w" /\ w = 0) THEN WakeUp(p, "user") ELSE Go(p, "user")
      PROVE  IInv'
  <2>1. ~Reads(None) /\ ~Writes(None)
    BY ProcAssumption DEF Reads, Writes
  <2>2. file[p] \in {"r", "w"}
    BY <1>2, <1>5 DEF Met, Modes
  <2>3. r = readers - One(Reads(file[p])) + One(Reads(None)) /\ w = writers - One(Writes(file[p])) + One(Writes(None))
    BY <1>1, <1>5, <2>1, <2>2, SMTT(20) DEF One, Reads, Writes
  <2>4. \A q \in Proc : pc'[q] # "user" => file'[q] # None
    <3> SUFFICES ASSUME NEW q \in Proc, pc'[q] # "user" PROVE file'[q] # None
      OBVIOUS
    <3>1. q # p /\ pc[q] # "user"
      <4>1. CASE WakeUp(p, "user")
        BY <4>1, <1>1, WakeFacts, Zenon
      <4>2. CASE Go(p, "user")
        BY <4>2, <1>1, GoFacts, Zenon
      <4> QED
        BY <4>1, <4>2, <1>5, Zenon
    <3> QED
      BY <3>1, <1>1, <1>5 DEF EndsCounted, Typed
  <2>5. EndsCounted' /\ r \in Nat /\ w \in Nat /\ (Unused(r, w) <=> \A q \in Proc : file'[q] = None)
    BY <1>1, <1>5, <2>3, <2>4, EndsFollow, Zenon
  <2>6. call' = [call EXCEPT ![p] = None] /\ sig' \in [Proc -> BOOLEAN]
    BY <1>1, <1>5 DEF Leave
  <2>7. CASE WakeUp(p, "user")
    BY <1>1, <1>5, <2>5, <2>6, <2>7, OpenCloseKeeps, Zenon
  <2>8. CASE Go(p, "user") /\ ~(file[p] = "r" /\ r = 0) /\ ~(file[p] = "w" /\ w = 0)
    <3>1. (writers > 0 => w > 0) /\ (readers > 0 => r > 0) /\ w <= writers /\ r <= readers
      BY <1>1, <1>5, <2>2, <2>5, <2>8 DEF One
    <3>2. \A q \in Proc : pc[q] = "osleep" /\ ~Met(file[q], readers, writers) => ~Met(file[q], r, w)
      BY <1>1, <2>5, <3>1 DEF Met
    <3> QED
      BY <1>1, <1>5, <2>5, <2>6, <2>8, <3>1, <3>2, OpenCloseKeeps, Zenon
  <2> QED
    BY <1>5, <2>7, <2>8, Zenon
<1> QED
  BY <1>3, <1>4, <1>5, Zenon DEF OpenResume

-----------------------------------------------------------------------------
LEMMA Step == IInv /\ [Next]_vars => IInv'
<1> SUFFICES ASSUME IInv, [Next]_vars PROVE IInv'
  OBVIOUS
<1>1. Typed /\ Control /\ EndsCounted /\ AtomicWrites
  BY DEF IInv
<1>2. ASSUME NEW p \in Proc, Read(p) PROVE IInv'
  <2>1. PICK n \in ReadCounts, nb \in BOOLEAN :
             TryRead(p, [op |-> "read", count |-> n, done |-> 0, nonblock |-> nb])
    BY <1>2 DEF Read
  <2> DEFINE c == [op |-> "read", count |-> n, done |-> 0, nonblock |-> nb]
  <2>2. c \in Begun /\ c.op = "read"
    BY CountsAssumption DEF Begun
  <2>3. pc[p] # "inc" /\ file[p] # None
    BY <1>2, ProcAssumption DEF Read, Reads
  <2> HIDE DEF c
  <2> QED
    BY <2>1, <2>2, <2>3, TryReadKeeps DEF c
<1>3. ASSUME NEW p \in Proc, Write(p) PROVE IInv'
  <2>1. PICK n \in WriteCounts, nb \in BOOLEAN :
             TryWrite(p, [op |-> "write", count |-> n, done |-> 0, nonblock |-> nb])
    BY <1>3 DEF Write
  <2> DEFINE c == [op |-> "write", count |-> n, done |-> 0, nonblock |-> nb]
  <2>2. c \in Begun /\ ~(c.done > 0)
    BY CountsAssumption DEF Begun
  <2>3. pc[p] # "inc" /\ file[p] # None
    BY <1>3, ProcAssumption DEF Write, Writes
  <2> HIDE DEF c
  <2> QED
    BY <2>1, <2>2, <2>3, TryWriteKeeps DEF c
<1>4. ASSUME NEW p \in Proc, Retry(p) PROVE IInv'
  <2>1. pc[p] = "down" /\ call[p] \in Begun /\ file[p] # None /\ pc[p] # "inc"
    BY <1>1, <1>4 DEF Retry, Control, InCall, EndsCounted
  <2>2. CASE Try(p, call[p]) /\ call[p].op = "read"
    <3>1. TryRead(p, call[p])
      BY <2>2 DEF Try
    <3> QED
      BY <2>1, <2>2, <3>1, TryReadKeeps, Zenon
  <2>3. CASE Try(p, call[p]) /\ call[p].op # "read"
    <3>1. call[p].op = "write" /\ TryWrite(p, call[p])
      BY <2>1, <2>3 DEF Try, Begun
    <3>2. call[p].done > 0 => call[p].count + call[p].done > PIPE_BUF
      <4>1. call[p] # None
        BY <2>1, CallAssumption DEF Call, Begun
      <4> QED
        BY <4>1, <3>1, <1>1 DEF AtomicWrites
    <3> QED
      BY <2>1, <3>1, <3>2, TryWriteKeeps, Zenon
  <2>4. CASE Go(p, "user") /\ Leave(p) /\ UNCHANGED <<ring, ends, waiting, sem, file, tmp>>
    <3>1. /\ "user" \in Pc \ {"inc", "rsleep"} /\ "user" \notin InCall /\ "user" \notin InOpen
          /\ "user" # "wsleep" /\ "user" # "osleep" /\ pc[p] # "user"
          /\ sem' = (IF pc[p] = "inc" THEN None ELSE sem) /\ sig' \in [Proc -> BOOLEAN]
          /\ UNCHANGED <<ring, ends, file>> /\ call' = [call EXCEPT ![p] = None]
      BY <2>1, <2>4, <1>1 DEF Leave, Pc, InCall, InOpen, Typed
    <3> QED
      BY <2>4, <3>1, InsideKeeps, Zenon
  <2> QED
    BY <1>4, <2>2, <2>3, <2>4, Zenon DEF Retry
<1>5. ASSUME NEW p \in Proc, StoreInc(p) PROVE IInv'
  <2>1. /\ "wsleep" \in Pc \ {"inc", "rsleep"} /\ "wsleep" # "user" /\ "wsleep" \notin InOpen /\ "wsleep" # "osleep"
        /\ pc[p] = "inc" /\ pc[p] \in InCall /\ pc[p] # "user" /\ sig' \in [Proc -> BOOLEAN]
        /\ sem' = (IF pc[p] = "inc" THEN None ELSE sem)
        /\ UNCHANGED <<ring, ends, file, call>> /\ Go(p, "wsleep")
    BY <1>1, <1>5 DEF StoreInc, Pc, InCall, InOpen, Typed
  <2> QED
    BY <2>1, InsideKeeps, Zenon
<1>6. ASSUME NEW p \in Proc, LoadDec(p) PROVE IInv'
  <2>1. /\ "dec" \in Pc \ {"inc", "rsleep"} /\ "dec" # "user" /\ "dec" \notin InOpen /\ "dec" # "osleep" /\ "dec" # "wsleep"
        /\ pc[p] # "inc" /\ pc[p] \in InCall /\ pc[p] # "user" /\ sig' \in [Proc -> BOOLEAN]
        /\ sem' = (IF pc[p] = "inc" THEN None ELSE sem)
        /\ UNCHANGED <<ring, ends, file, call>> /\ Go(p, "dec")
    BY <1>1, <1>6 DEF LoadDec, Pc, InCall, InOpen, Typed
  <2> QED
    BY <2>1, InsideKeeps, Zenon
<1>7. ASSUME NEW p \in Proc, StoreDec(p) PROVE IInv'
  <2>1. /\ "down" \in Pc \ {"inc", "rsleep"} /\ "down" # "user" /\ "down" \notin InOpen /\ "down" # "osleep" /\ "down" # "wsleep"
        /\ pc[p] # "inc" /\ pc[p] \in InCall /\ pc[p] # "user" /\ sig' \in [Proc -> BOOLEAN]
        /\ sem' = (IF pc[p] = "inc" THEN None ELSE sem)
        /\ UNCHANGED <<ring, ends, file, call>> /\ Go(p, "down")
    BY <1>1, <1>7 DEF StoreDec, Pc, InCall, InOpen, Typed
  <2> QED
    BY <2>1, InsideKeeps, Zenon
<1>8. ASSUME NEW p \in Proc, Signal(p) PROVE IInv'
  <2> DEFINE at == Awake(pc[p])
  <2>1. /\ at \in Pc \ {"inc", "rsleep"} /\ at # "user" /\ at # "osleep" /\ at # "wsleep"
        /\ at \in InCall => pc[p] \in InCall
        /\ at \in InOpen => pc[p] \in InOpen
        /\ pc[p] # "inc" /\ pc[p] # "user"
    BY <1>8 DEF Signal, Awake, Asleep, Pc, InCall, InOpen
  <2>2. /\ sem' = (IF pc[p] = "inc" THEN None ELSE sem) /\ sig' \in [Proc -> BOOLEAN]
        /\ UNCHANGED <<ring, ends, file, call>> /\ Go(p, at)
    BY <1>1, <1>8, <2>1 DEF Signal, Typed
  <2> HIDE DEF at
  <2> QED
    BY <2>1, <2>2, InsideKeeps, Zenon
<1>9. CASE UNCHANGED vars
  <2>1. /\ start' = start /\ len' = len /\ kind' = kind /\ present' = present /\ readers' = readers
        /\ writers' = writers /\ file' = file /\ call' = call /\ sem' = sem /\ pc' = pc /\ sig' = sig
        /\ unwoken' = unwoken
    BY <1>9 DEF vars, ring, ends
  <2> QED
    BY <2>1, Zenon DEF IInv, Typed, Control, EndsCounted, NoLostWakeup, AtomicWrites, FREE, Need, Met
<1> QED
  BY <1>2, <1>3, <1>4, <1>5, <1>6, <1>7, <1>8, <1>9, FifoOpenKeeps, OpenResumeKeeps, PipeOpenKeeps,
     ReleaseKeeps, Zenon DEF Next

LEMMA Start == Init => IInv
<1> SUFFICES ASSUME Init PROVE IInv
  OBVIOUS
<1>0. /\ start \in 0..PIPE_SIZE-1 /\ len \in 0..PIPE_SIZE /\ sem \in Proc \cup {None}
      /\ pc \in [Proc -> Pc] /\ call \in [Proc -> Begun \cup {None}]
      /\ sig \in [Proc -> BOOLEAN] /\ unwoken \in BOOLEAN
  <2>1. /\ start = 0 /\ len = 0 /\ sem = None /\ pc = [p \in Proc |-> "user"] /\ call = [p \in Proc |-> None]
        /\ sig = [p \in Proc |-> FALSE] /\ unwoken = FALSE
    BY Zenon DEF Init
  <2>2. 0 \in 0..PIPE_SIZE-1 /\ 0 \in 0..PIPE_SIZE
    BY SizeAssumption
  <2>3. "user" \in Pc
    BY DEF Pc
  <2> QED
    BY <2>1, <2>2, <2>3, Zenon
<1>1. Typed
  <2>1. CASE kind = "fifo" /\ present = FALSE /\ readers = 0 /\ writers = 0 /\ file = [p \in Proc |-> None]
    BY <2>1, <1>0, Zenon DEF Typed
  <2>2. ASSUME kind = "pipe", present = TRUE, readers = 1, writers = 1, NEW p \in Proc, NEW q \in Proc,
               file = [x \in Proc |-> IF x = p THEN "r" ELSE IF x = q THEN "w" ELSE None]
        PROVE  Typed
    BY <2>2, <1>0 DEF Typed, Modes
  <2> QED
    BY <2>1, <2>2, Zenon DEF Init
<1>2. \A p \in Proc : pc[p] = "user" /\ call[p] = None /\ sem # p
  BY ProcAssumption DEF Init
<1>3. Control /\ NoLostWakeup /\ AtomicWrites
  BY <1>2 DEF Control, NoLostWakeup, AtomicWrites, InCall, InOpen
<1>4. EndsCounted
  <2>1. \A p \in Proc : pc[p] # "user" => file[p] # None
    BY <1>2
  <2>2. CASE present = FALSE /\ readers = 0 /\ writers = 0 /\ file = [p \in Proc |-> None]
    <3>1. {p \in Proc : Reads(file[p])} = {} /\ {p \in Proc : Writes(file[p])} = {}
      BY <2>2, ProcAssumption DEF Reads, Writes
    <3> QED
      BY <2>1, <2>2, <3>1, FS_EmptySet DEF EndsCounted
  <2>3. ASSUME present = TRUE, readers = 1, writers = 1, NEW p \in Proc, NEW q \in Proc, p # q,
               file = [x \in Proc |-> IF x = p THEN "r" ELSE IF x = q THEN "w" ELSE None]
        PROVE  EndsCounted
    <3>1. {x \in Proc : Reads(file[x])} = {p} /\ {x \in Proc : Writes(file[x])} = {q}
      BY <2>3, ProcAssumption DEF Reads, Writes
    <3>2. file[p] # None
      BY <2>3, ProcAssumption
    <3> QED
      BY <2>1, <2>3, <3>1, <3>2, FS_Singleton DEF EndsCounted
  <2> QED
    BY <2>2, <2>3, Zenon DEF Init
<1> QED
  BY <1>1, <1>3, <1>4 DEF IInv

LEMMA IInvHolds == Spec => []IInv
  BY Start, Step, PTL DEF Spec

(* A write of at most PIPE_BUF bytes that waits has written nothing        *)
(* (pipe.c:170-176), for every buffer and every mix of readers and         *)
(* writers.                                                                *)
THEOREM AtomicWritesHolds == Spec => []AtomicWrites
<1>1. IInv => AtomicWrites
  BY DEF IInv
<1> QED
  BY <1>1, IInvHolds, PTL

(* Nobody sleeps in pipe_read(), pipe_write() or fifo_open() who could go  *)
(* on, except after a copy that failed half-way; whatever the racing count *)
(* of waiting writers says.                                                *)
THEOREM NoLostWakeupHolds == Spec => []NoLostWakeup
<1>1. IInv => NoLostWakeup
  BY DEF IInv
<1> QED
  BY <1>1, IInvHolds, PTL

(* pipe_release() and fifo_open() keep the counts of ends, and i_pipe      *)
(* lives as long as a file is open or somebody waits.                      *)
THEOREM EndsCountedHolds == Spec => []EndsCounted
<1>1. IInv => EndsCounted
  BY DEF IInv
<1> QED
  BY <1>1, IInvHolds, PTL
-----------------------------------------------------------------------------
(***************************************************************************)
(* The ring buffer of a pipe keeps the stream of bytes intact, for every   *)
(* size and wherever the stream wraps round.                               *)
(***************************************************************************)
RingTyped ==
    /\ start \in 0..PIPE_SIZE-1 /\ len \in 0..PIPE_SIZE /\ got \in 0..Labels-1
    /\ base \in [0..PIPE_SIZE-1 -> 0..Labels-1 \cup {Blank}]

(* The place of the a-th byte from PIPE_START, and back.                   *)
LEMMA Place ==
    ASSUME NEW M \in Nat \ {0}, NEW s \in 0..M-1, NEW a \in 0..M-1
    PROVE  /\ (s + a) % M \in 0..M-1
           /\ (((s + a) % M) + M - s) % M = a
<1> DEFINE x == s + a
           j == x % M
           y == j + M - s
<1>1. x \in 0..2*M-1
  OBVIOUS
<1>2. j = IF x < M THEN x ELSE x - M
  <2> HIDE DEF x
  <2> QED
    BY <1>1, ModWrap, Zenon
<1> HIDE DEF j
<1>3. y \in 0..2*M-1 /\ j \in 0..M-1 /\ y = IF x < M THEN a + M ELSE a
  BY <1>2
<1>4. y % M = IF y < M THEN y ELSE y - M
  <2> HIDE DEF y
  <2> QED
    BY <1>3, ModWrap, Zenon
<1>5. y % M = a
  BY <1>3, <1>4
<1> QED
  BY <1>3, <1>5 DEF j

LEMMA Distance ==
    ASSUME NEW M \in Nat \ {0}, NEW s \in 0..M-1, NEW j \in 0..M-1
    PROVE  \E a \in 0..M-1 : j = (s + a) % M
<1> DEFINE a == IF j >= s THEN j - s ELSE j + M - s
           x == s + a
<1>1. a \in 0..M-1 /\ x \in 0..2*M-1
  OBVIOUS
<1>2. x % M = IF x < M THEN x ELSE x - M
  <2> HIDE DEF x
  <2> QED
    BY <1>1, ModWrap, Zenon
<1>3. j = (s + a) % M
  BY <1>2
<1> HIDE DEF a
<1> QED
  BY <1>1, <1>3

(* Bytes at different distances have different places.                     *)
LEMMA PlaceInjective ==
    ASSUME NEW M \in Nat \ {0}, NEW s \in 0..M-1, NEW a \in 0..M-1, NEW b \in 0..M-1,
           (s + a) % M = (s + b) % M
    PROVE  a = b
<1>1. (((s + a) % M) + M - s) % M = a
  BY Place
<1>2. (((s + b) % M) + M - s) % M = b
  BY Place
<1> QED
  BY <1>1, <1>2

(* Advancing twice, with one wrap, is advancing once.                      *)
LEMMA Advance ==
    ASSUME NEW M \in Nat \ {0}, NEW s \in 0..M-1, NEW n \in 0..M, NEW i \in 0..M-1
    PROVE  /\ n + i < M => (((s + n) % M) + i) % M = (s + (n + i)) % M
           /\ n + i >= M => (((s + n) % M) + i) % M = (s + (n + i - M)) % M
<1> DEFINE x == s + n
           j == x % M
           y == j + i
           u == s + (n + i)
           v == s + (n + i - M)
<1>1. x \in 0..2*M-1
  OBVIOUS
<1>2. j = IF x < M THEN x ELSE x - M
  <2> HIDE DEF x
  <2> QED
    BY <1>1, ModWrap, Zenon
<1> HIDE DEF j
<1>3. y \in 0..2*M-1
  BY <1>2
<1>4. y % M = IF y < M THEN y ELSE y - M
  <2> HIDE DEF y
  <2> QED
    BY <1>3, ModWrap, Zenon
<1>5. ASSUME n + i < M PROVE y % M = u % M
  <2>1. u \in 0..2*M-1
    BY <1>5
  <2>2. u % M = IF u < M THEN u ELSE u - M
    <3> HIDE DEF u
    <3> QED
      BY <2>1, ModWrap, Zenon
  <2> QED
    BY <1>2, <1>4, <1>5, <2>2
<1>6. ASSUME n + i >= M PROVE y % M = v % M
  <2>1. v \in 0..2*M-1
    BY <1>6
  <2>2. v % M = IF v < M THEN v ELSE v - M
    <3> HIDE DEF v
    <3> QED
      BY <2>1, ModWrap, Zenon
  <2> QED
    BY <1>2, <1>4, <1>6, <2>2
<1> QED
  BY <1>5, <1>6 DEF j

-----------------------------------------------------------------------------
(* What StreamIntact says of the byte at distance a.                       *)
ByteAt(a) == IF a < len THEN (got + a) % Labels ELSE Blank

(* Reading n bytes, with PIPE_START moved on.                              *)
LEMMA TakeIntact ==
    ASSUME RingTyped, StreamIntact, NEW n \in 0..len, Take(n), RingTyped',
           n < len => start' = (start + n) % PIPE_SIZE
    PROVE  StreamIntact'
<1>1. /\ PIPE_SIZE \in Nat \ {0} /\ Labels \in Nat \ {0} /\ Labels > PIPE_SIZE
      /\ start \in 0..PIPE_SIZE-1 /\ start' \in 0..PIPE_SIZE-1 /\ len \in 0..PIPE_SIZE /\ got \in 0..Labels-1
      /\ len' = len - n
  BY SizeAssumption, LabelsAssumption DEF RingTyped, Take
<1>2. \A a \in 0..PIPE_SIZE-1 :
         /\ (start + a) % PIPE_SIZE \in 0..PIPE_SIZE-1
         /\ base'[(start + a) % PIPE_SIZE] = IF a < n THEN Blank ELSE ByteAt(a)
  <2> SUFFICES ASSUME NEW a \in 0..PIPE_SIZE-1
               PROVE  /\ (start + a) % PIPE_SIZE \in 0..PIPE_SIZE-1
                      /\ base'[(start + a) % PIPE_SIZE] = IF a < n THEN Blank ELSE ByteAt(a)
    OBVIOUS
  <2> DEFINE j == (start + a) % PIPE_SIZE
  <2>1. j \in 0..PIPE_SIZE-1 /\ (j + PIPE_SIZE - start) % PIPE_SIZE = a
    BY <1>1, Place, Zenon
  <2>2. base[j] = ByteAt(a)
    BY DEF StreamIntact, ByteAt
  <2> HIDE DEF j
  <2>3. base'[j] = IF (j + PIPE_SIZE - start) % PIPE_SIZE < n THEN Blank ELSE base[j]
    BY <2>1 DEF Take
  <2> QED
    BY <2>1, <2>2, <2>3 DEF j
<1> SUFFICES ASSUME NEW i \in 0..PIPE_SIZE-1
             PROVE  base'[(start' + i) % PIPE_SIZE] = IF i < len' THEN (got' + i) % Labels ELSE Blank
  BY Zenon DEF StreamIntact
<1>3. CASE n = len
  <2> DEFINE j == (start' + i) % PIPE_SIZE
  <2>1. j \in 0..PIPE_SIZE-1
    BY <1>1, Place, Zenon
  <2> HIDE DEF j
  <2>2. PICK a \in 0..PIPE_SIZE-1 : j = (start + a) % PIPE_SIZE
    BY <1>1, <2>1, Distance, Zenon
  <2>3. base'[j] = Blank
    BY <1>1, <1>2, <1>3, <2>2, Zenon DEF ByteAt
  <2>4. ~(i < len')
    BY <1>1, <1>3
  <2> QED
    BY <2>3, <2>4 DEF j
<1>4. CASE n < len
  <2>0. /\ n \in 0..PIPE_SIZE /\ n \in 0..Labels /\ i \in 0..Labels-1
        /\ start' = (start + n) % PIPE_SIZE /\ got' = (got + n) % Labels
    BY <1>1, <1>4 DEF Take
  <2>1. CASE n + i < PIPE_SIZE
    <3>1. (start' + i) % PIPE_SIZE = (start + (n + i)) % PIPE_SIZE
      BY <1>1, <2>0, <2>1, Advance, Zenon
    <3>2. n + i < Labels /\ n + i \in 0..PIPE_SIZE-1 /\ ~(n + i < n) /\ (n + i < len <=> i < len')
      BY <1>1, <2>0, <2>1
    <3>3. (got' + i) % Labels = (got + (n + i)) % Labels
      BY <1>1, <2>0, <3>2, Advance, Zenon
    <3>4. base'[(start + (n + i)) % PIPE_SIZE] = ByteAt(n + i)
      BY <1>2, <3>2, Zenon
    <3> QED
      BY <3>1, <3>2, <3>3, <3>4, Zenon DEF ByteAt
  <2>2. CASE n + i >= PIPE_SIZE
    <3>1. (start' + i) % PIPE_SIZE = (start + (n + i - PIPE_SIZE)) % PIPE_SIZE
      BY <1>1, <2>0, <2>2, Advance, Zenon
    <3>2. n + i - PIPE_SIZE \in 0..PIPE_SIZE-1 /\ n + i - PIPE_SIZE < n /\ ~(i < len')
      BY <1>1, <2>0, <2>2
    <3>3. base'[(start + (n + i - PIPE_SIZE)) % PIPE_SIZE] = Blank
      BY <1>2, <3>2, Zenon
    <3> QED
      BY <3>1, <3>2, <3>3, Zenon
  <2> QED
    BY <2>1, <2>2, <1>1, <2>0
<1> QED
  BY <1>3, <1>4, <1>1

(* Writing n bytes.                                                        *)
LEMMA PutIntact ==
    ASSUME RingTyped, StreamIntact, NEW n \in Nat, len + n <= PIPE_SIZE, Put(n)
    PROVE  StreamIntact' /\ RingTyped'
<1>1. /\ PIPE_SIZE \in Nat \ {0} /\ Labels \in Nat \ {0} /\ Labels > PIPE_SIZE
      /\ start \in 0..PIPE_SIZE-1 /\ len \in 0..PIPE_SIZE /\ got \in 0..Labels-1
      /\ len' = len + n /\ start' = start /\ got' = got
  BY SizeAssumption, LabelsAssumption DEF RingTyped, Put
<1>2. ASSUME NEW i \in 0..PIPE_SIZE-1
      PROVE  base'[(start + i) % PIPE_SIZE] = IF i < len + n THEN (got + i) % Labels ELSE Blank
  <2> DEFINE j == (start + i) % PIPE_SIZE
             K(k) == k \in 0..n-1 /\ END(k) = j
  <2>1. j \in 0..PIPE_SIZE-1
    BY <1>1, Place, Zenon
  <2>2. base[j] = ByteAt(i)
    BY DEF StreamIntact, ByteAt
  <2>3. base'[j] = IF \E k \in 0..n-1 : END(k) = j
                   THEN (got + len + (CHOOSE k \in 0..n-1 : END(k) = j)) % Labels
                   ELSE base[j]
    <3> HIDE DEF j
    <3> QED
      BY <2>1, Zenon DEF Put
  <2>4. ASSUME NEW k \in 0..n-1, END(k) = j PROVE i = len + k
    <3>1. len + k \in 0..PIPE_SIZE-1
      BY <1>1
    <3>2. start + len + k = start + (len + k)
      BY <1>1
    <3>3. (start + (len + k)) % PIPE_SIZE = (start + i) % PIPE_SIZE
      BY <2>4, <3>2, Zenon DEF END
    <3> QED
      BY <1>1, <3>1, <3>3, PlaceInjective, Zenon
  <2>5. ASSUME len <= i, i < len + n PROVE END(i - len) = j /\ i - len \in 0..n-1
    <3>1. start + len + (i - len) = start + i /\ i - len \in 0..n-1
      BY <1>1, <2>5
    <3> QED
      BY <3>1, Zenon DEF END
  <2> HIDE DEF j
  <2>6. CASE len <= i /\ i < len + n
    <3> DEFINE c == CHOOSE k \in 0..n-1 : END(k) = j
    <3>1. c \in 0..n-1 /\ END(c) = j /\ \E k \in 0..n-1 : END(k) = j
      BY <2>5, <2>6, Zenon
    <3>2. base'[j] = (got + len + c) % Labels
      BY <2>3, <3>1, Zenon
    <3> HIDE DEF c
    <3>3. i = len + c
      BY <2>4, <3>1, Zenon
    <3>4. got + len + c = got + i
      BY <1>1, <3>1, <3>3
    <3> QED
      BY <2>6, <3>2, <3>4, Zenon DEF j
  <2>7. CASE ~(len <= i /\ i < len + n)
    <3>1. ~\E k \in 0..n-1 : END(k) = j
      <4> SUFFICES ASSUME NEW k \in 0..n-1, END(k) = j PROVE FALSE
        OBVIOUS
      <4>1. i = len + k
        BY <2>4, Zenon
      <4> QED
        BY <4>1, <2>7, <1>1
    <3>2. base'[j] = ByteAt(i)
      BY <2>2, <2>3, <3>1, Zenon
    <3>3. i < len + n <=> i < len
      BY <2>7, <1>1
    <3> QED
      BY <3>2, <3>3, Zenon DEF ByteAt, j
  <2> QED
    BY <2>6, <2>7, Zenon
<1>3. StreamIntact'
  BY <1>1, <1>2, Zenon DEF StreamIntact
<1>4. base' \in [0..PIPE_SIZE-1 -> 0..Labels-1 \cup {Blank}]
  <2>1. ASSUME NEW j \in 0..PIPE_SIZE-1 PROVE base'[j] \in 0..Labels-1 \cup {Blank}
    <3>1. PICK a \in 0..PIPE_SIZE-1 : j = (start + a) % PIPE_SIZE
      BY <1>1, Distance, Zenon
    <3>2. base'[j] = IF a < len + n THEN (got + a) % Labels ELSE Blank
      BY <1>2, <3>1, Zenon
    <3>3. (got + a) % Labels \in 0..Labels-1
      BY <1>1, ModRange
    <3> QED
      BY <3>2, <3>3
  <2>2. base' = [i \in 0..PIPE_SIZE-1 |-> base'[i]]
    BY Zenon DEF Put
  <2> HIDE DEF RingTyped
  <2> QED
    BY <2>1, <2>2
<1> QED
  BY <1>1, <1>3, <1>4 DEF RingTyped

-----------------------------------------------------------------------------
RInv == RingTyped /\ StreamIntact

LEMMA TakeTyped ==
    ASSUME RingTyped, NEW n \in 0..len, Take(n), start' \in 0..PIPE_SIZE-1
    PROVE  RingTyped'
<1>1. Labels \in Nat \ {0} /\ PIPE_SIZE \in Nat \ {0}
  BY SizeAssumption, LabelsAssumption
<1>2. len' \in 0..PIPE_SIZE
  BY <1>1 DEF RingTyped, Take
<1>3. got' \in 0..Labels-1
  <2>1. got + n \in Nat
    BY <1>1 DEF RingTyped
  <2>2. (got + n) % Labels \in 0..Labels-1 /\ 0 \in 0..Labels-1
    BY <1>1, <2>1, ModRange
  <2> QED
    BY <2>2 DEF Take
<1>4. base' \in [0..PIPE_SIZE-1 -> 0..Labels-1 \cup {Blank}]
  BY Zenon DEF RingTyped, Take
<1> QED
  BY <1>2, <1>3, <1>4 DEF RingTyped

LEMMA SameRing == ASSUME RInv, UNCHANGED ring PROVE RInv'
<1>1. base' = base /\ start' = start /\ len' = len /\ got' = got
  BY DEF ring
<1> QED
  BY <1>1, Zenon DEF RInv, RingTyped, StreamIntact

LEMMA TryReadIntact == ASSUME IInv, RInv, NEW p \in Proc, NEW c \in Begun, TryRead(p, c) PROVE RInv'
<1>1. RingTyped /\ StreamIntact /\ len \in 0..PIPE_SIZE /\ start \in 0..PIPE_SIZE-1 /\ PIPE_SIZE \in Nat \ {0}
  BY SizeAssumption DEF RInv, RingTyped
<1>2. CASE UNCHANGED ring
  BY <1>2, SameRing
<1>3. CASE len > 0 /\ ReadSome(p, c)
  <2> DEFINE n == Min({c.count, len})
  <2>1. n \in 0..len
    BY <1>1, MinTwo DEF Begun
  <2> HIDE DEF n
  <2>2. ASSUME NEW k \in 0..len, Take(k), k < len => start' = (start + k) % PIPE_SIZE,
               k = len => start' = 0
        PROVE  RInv'
    <3>1. start' \in 0..PIPE_SIZE-1
      BY <1>1, <2>2, ModRange
    <3>2. RingTyped'
      BY <1>1, <2>2, <3>1, TakeTyped, Zenon
    <3> QED
      BY <1>1, <2>2, <3>2, TakeIntact, Zenon DEF RInv
  <2>3. CASE Take(n) /\ start' = IF len = n THEN 0 ELSE (start + n) % PIPE_SIZE
    <3>1. (n < len => start' = (start + n) % PIPE_SIZE) /\ (n = len => start' = 0)
      BY <1>1, <2>1, <2>3
    <3> QED
      BY <2>1, <2>2, <2>3, <3>1, Zenon
  <2>4. ASSUME NEW k \in {0, RCHUNK(n)} \ {n}, Take(k), start' = (start + k) % PIPE_SIZE PROVE RInv'
    <3>1. RCHUNK(n) \in Nat /\ RCHUNK(n) <= n
      BY <1>1, <2>1, MinTwo DEF RCHUNK
    <3>2. k \in 0..len /\ k # len
      BY <1>1, <2>1, <3>1
    <3> QED
      BY <2>2, <2>4, <3>2, Zenon
  <2> QED
    BY <1>3, <2>3, <2>4, Zenon DEF ReadSome, n
<1> QED
  BY <1>2, <1>3, Zenon DEF TryRead, ring

LEMMA TryWriteIntact == ASSUME IInv, RInv, NEW p \in Proc, NEW c \in Begun, TryWrite(p, c) PROVE RInv'
<1>1. RingTyped /\ StreamIntact /\ len \in 0..PIPE_SIZE /\ start \in 0..PIPE_SIZE-1 /\ PIPE_SIZE \in Nat \ {0}
  BY SizeAssumption DEF RInv, RingTyped
<1>2. CASE UNCHANGED ring
  BY <1>2, SameRing
<1>3. CASE WriteSome(p, c)
  <2> DEFINE n == Min({c.count, FREE})
  <2>1. n \in Nat /\ len + n <= PIPE_SIZE
    BY <1>1, MinTwo DEF Begun, FREE
  <2> HIDE DEF n
  <2>2. CASE Put(n)
    BY <1>1, <2>1, <2>2, PutIntact, Zenon DEF RInv
  <2>3. ASSUME NEW k \in {0, WCHUNK(n)} \ {n}, Put(k) PROVE RInv'
    <3>1. END(0) \in 0..PIPE_SIZE-1
      BY <1>1, ModRange DEF END
    <3>2. WCHUNK(n) \in Nat /\ WCHUNK(n) <= n
      BY <3>1, <2>1, <1>1, MinTwo DEF WCHUNK
    <3>3. k \in Nat /\ len + k <= PIPE_SIZE
      BY <3>2, <2>1, <1>1
    <3> QED
      BY <1>1, <2>3, <3>3, PutIntact, Zenon DEF RInv
  <2> QED
    BY <1>3, <2>2, <2>3, Zenon DEF WriteSome, n
<1> QED
  BY <1>2, <1>3, Zenon DEF TryWrite, ring

(* A pipe that is freed comes back empty.                                  *)
LEMMA CountsIntact == ASSUME RInv, NEW r, NEW w, Counts(r, w) PROVE RInv'
<1>1. CASE UNCHANGED ring
  BY <1>1, SameRing
<1>2. CASE base' = [i \in 0..PIPE_SIZE-1 |-> Blank] /\ start' = 0 /\ len' = 0 /\ got' = 0
  <2>1. PIPE_SIZE \in Nat \ {0} /\ 0 \in 0..PIPE_SIZE-1 /\ 0 \in 0..PIPE_SIZE /\ 0 \in 0..Labels-1
    BY SizeAssumption, LabelsAssumption
  <2>2. RingTyped'
    BY <1>2, <2>1, Zenon DEF RingTyped
  <2>3. ASSUME NEW i \in 0..PIPE_SIZE-1 PROVE base'[(start' + i) % PIPE_SIZE] = Blank /\ ~(i < len')
    <3>1. (0 + i) % PIPE_SIZE \in 0..PIPE_SIZE-1 /\ ~(i < 0)
      BY <2>1, ModRange
    <3> QED
      BY <1>2, <3>1, Zenon
  <2> QED
    BY <2>2, <2>3, Zenon DEF RInv, StreamIntact
<1> QED
  BY <1>1, <1>2, Zenon DEF Counts

LEMMA RingStep == IInv /\ RInv /\ [Next]_vars => RInv'
<1> SUFFICES ASSUME IInv, RInv, [Next]_vars PROVE RInv'
  OBVIOUS
<1>1. ASSUME NEW p \in Proc, Read(p) PROVE RInv'
  <2>1. PICK n \in ReadCounts, nb \in BOOLEAN :
             TryRead(p, [op |-> "read", count |-> n, done |-> 0, nonblock |-> nb])
    BY <1>1 DEF Read
  <2>2. [op |-> "read", count |-> n, done |-> 0, nonblock |-> nb] \in Begun
    BY CountsAssumption DEF Begun
  <2> QED
    BY <2>1, <2>2, TryReadIntact, Zenon
<1>2. ASSUME NEW p \in Proc, Write(p) PROVE RInv'
  <2>1. PICK n \in WriteCounts, nb \in BOOLEAN :
             TryWrite(p, [op |-> "write", count |-> n, done |-> 0, nonblock |-> nb])
    BY <1>2 DEF Write
  <2>2. [op |-> "write", count |-> n, done |-> 0, nonblock |-> nb] \in Begun
    BY CountsAssumption DEF Begun
  <2> QED
    BY <2>1, <2>2, TryWriteIntact, Zenon
<1>3. ASSUME NEW p \in Proc, Retry(p) PROVE RInv'
  <2>1. call[p] \in Begun
    BY <1>3 DEF Retry, IInv, Control, InCall
  <2>2. TryRead(p, call[p]) \/ TryWrite(p, call[p]) \/ UNCHANGED ring
    BY <1>3, Zenon DEF Retry, Try, ring
  <2> QED
    BY <2>1, <2>2, TryReadIntact, TryWriteIntact, SameRing, Zenon
<1>4. ASSUME NEW p \in Proc, StoreInc(p) \/ LoadDec(p) \/ StoreDec(p) \/ Signal(p) PROVE RInv'
  <2>1. UNCHANGED ring
    BY <1>4, Zenon DEF StoreInc, LoadDec, StoreDec, Signal, ring
  <2> QED
    BY <2>1, SameRing
<1>5. ASSUME NEW p \in Proc, FifoOpen(p) \/ OpenResume(p) \/ PipeOpen(p) \/ Release(p) PROVE RInv'
  <2>1. UNCHANGED ring \/ \E r, w : Counts(r, w)
    <3>1. ASSUME FifoOpen(p) PROVE \E r, w : Counts(r, w)
      BY <3>1, Zenon DEF FifoOpen
    <3>2. ASSUME OpenResume(p) PROVE UNCHANGED ring \/ \E r, w : Counts(r, w)
      BY <3>2, Zenon DEF OpenResume, ring
    <3>3. ASSUME PipeOpen(p) PROVE \E r, w : Counts(r, w)
      BY <3>3, Zenon DEF PipeOpen
    <3>4. ASSUME Release(p) PROVE \E r, w : Counts(r, w)
      BY <3>4, Zenon DEF Release
    <3> QED
      BY <1>5, <3>1, <3>2, <3>3, <3>4, Zenon
  <2> QED
    BY <2>1, SameRing, CountsIntact, Zenon
<1>6. CASE UNCHANGED vars
  <2>1. UNCHANGED ring
    BY <1>6 DEF vars
  <2> QED
    BY <2>1, SameRing
<1> QED
  BY <1>1, <1>2, <1>3, <1>4, <1>5, <1>6, Zenon DEF Next

LEMMA RingStart == Init => RInv
<1> SUFFICES ASSUME Init PROVE RInv
  OBVIOUS
<1>1. base = [i \in 0..PIPE_SIZE-1 |-> Blank] /\ start = 0 /\ len = 0 /\ got = 0
  BY Zenon DEF Init
<1>2. PIPE_SIZE \in Nat \ {0} /\ 0 \in 0..PIPE_SIZE-1 /\ 0 \in 0..PIPE_SIZE /\ 0 \in 0..Labels-1
  BY SizeAssumption, LabelsAssumption
<1>3. RingTyped
  BY <1>1, <1>2, Zenon DEF RingTyped
<1>4. ASSUME NEW i \in 0..PIPE_SIZE-1 PROVE base[(start + i) % PIPE_SIZE] = Blank /\ ~(i < len)
  <2>1. (0 + i) % PIPE_SIZE \in 0..PIPE_SIZE-1 /\ ~(i < 0)
    BY <1>2, ModRange
  <2> QED
    BY <1>1, <2>1, Zenon
<1> QED
  BY <1>3, <1>4, Zenon DEF RInv, StreamIntact

(* The buffer holds exactly the bytes that were written and not yet read,  *)
(* in their order (pipe_read(), pipe_write()), for every size of the       *)
(* buffer, also where it wraps round and when copies fail half-way.        *)
THEOREM StreamIntactHolds == Spec => []StreamIntact
<1>1. RInv => StreamIntact
  BY DEF RInv
<1> QED
  BY <1>1, RingStart, RingStep, IInvHolds, PTL DEF Spec
=============================================================================
