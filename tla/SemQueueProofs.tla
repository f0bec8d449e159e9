--------------------------- MODULE SemQueueProofs ---------------------------
(***************************************************************************)
(* System V semaphores, first part: try_atomic_semop(), update_queue(),    *)
(* the invariant of SysVSem, and the pieces its actions are made of, for   *)
(* every set of processes and of semaphores, every SEMVMX, and arrays of   *)
(* operations of any length.                                               *)
(***************************************************************************)
EXTENDS SysVSem, MCSemOps, DataLaws, TLAPS

(***************************************************************************)
(* No simple type fits Sem \in Sem.  A leaf that has it among its facts is *)
(* given to the SMT solver in the untyped translation, which is the same   *)
(* wherever the leaf stands; it says nothing else.                         *)
(***************************************************************************)
LEMMA Untyped == Sem \in Sem => TRUE
  OBVIOUS

(* A leaf that names no prover is for Zenon.                               *)
USE Untyped, ZenonT(40)

-----------------------------------------------------------------------------
(***************************************************************************)
(* A short: the numbers modulo its width.                                  *)
(***************************************************************************)
Shorts == -(SEMVMX + 1)..SEMVMX
Width  == 2 * (SEMVMX + 1)

LEMMA ShortIs ==
  ASSUME NEW n \in Int
  PROVE  Short(n) \in Shorts /\ \E k \in Int : Short(n) = n + k * Width
<1> DEFINE W == Width
           m == n + SEMVMX + 1
<1>1. SEMVMX \in Int /\ SEMVMX > 0
  BY SEMVMXAssumption, SMT
<1>2. W \in Nat \ {0} /\ m \in Int /\ W = 2 * (SEMVMX + 1)
  BY <1>1, SMT DEF Width
<1>3. Short(n) = (m % W) - (SEMVMX + 1)
  BY SMT DEF Short, Width
<1> HIDE DEF W, m
<1>4. PICK r, d \in Int : r \in 0..W-1 /\ m = W * d + r /\ r = m % W
  <2>1. m % W \in 0..W-1 /\ m = W * (m \div W) + (m % W) /\ m \div W \in Int
    BY <1>2, SMT
  <2>2. m % W \in Int
    BY <1>2, SMT
  <2> QED
    BY <2>1, <2>2
<1>5. m = n + SEMVMX + 1
  BY SMT DEF m
<1>6. Short(n) = r - (SEMVMX + 1)
  BY <1>3, <1>4, SMT
<1>7. -d \in Int /\ (-d) * W = -(W * d) /\ W * d \in Int
  BY <1>2, <1>4, SMT
<1>8. r - (SEMVMX + 1) = n + (-d) * W
  BY <1>1, <1>4, <1>5, <1>7, SMT
<1>9. r - (SEMVMX + 1) \in Shorts
  BY <1>1, <1>2, <1>4, SMT DEF Shorts
<1> QED
  BY <1>6, <1>7, <1>8, <1>9, SMT DEF W

LEMMA ShortUnique ==
  ASSUME NEW x \in Shorts, NEW y \in Shorts, NEW k \in Int, x = y + k * Width
  PROVE  x = y
<1>1. SEMVMX \in Int /\ SEMVMX > 0 /\ x \in Int /\ y \in Int /\ Width \in Int /\ Width > 0
  BY SEMVMXAssumption, SMT DEF Shorts, Width
<1>2. x - y < Width /\ y - x < Width
  BY <1>1, SMT DEF Shorts, Width
<1>3. CASE k >= 1
  <2>1. (k - 1) * Width >= 0
    BY <1>1, <1>3, SMT
  <2>2. k * Width = (k - 1) * Width + Width
    BY <1>1, SMT
  <2> QED
    BY <1>1, <1>2, <2>1, <2>2, SMT
<1>4. CASE k <= -1
  <2>1. (-k - 1) * Width >= 0
    BY <1>1, <1>4, SMT
  <2>2. k * Width = -((-k - 1) * Width) - Width
    BY <1>1, SMT
  <2> QED
    BY <1>1, <1>2, <2>1, <2>2, SMT
<1>5. CASE k = 0
  BY <1>1, <1>5, SMT
<1> QED
  BY <1>3, <1>4, <1>5, SMT

LEMMA ShortId == ASSUME NEW x \in Shorts PROVE x \in Int /\ Short(x) = x
<1>1. x \in Int /\ Width \in Int
  BY SEMVMXAssumption, SMT DEF Shorts, Width
<1>2. PICK k \in Int : Short(x) = x + k * Width
  BY <1>1, ShortIs, SMT
<1>3. Short(x) \in Shorts
  BY <1>1, ShortIs, SMT
<1> QED
  BY <1>1, <1>2, <1>3, ShortUnique, SMT

(* Adjustments add up as the numbers do.                                   *)
LEMMA ShortAdd ==
  \A a \in Int, b \in Int :
    Short(Short(a) + b) = Short(a + b) /\ Short(b - Short(a)) = Short(b - a)
(* What a short is depends on the number modulo the width only.          *)
<1>ShortSame. ASSUME NEW a \in Int, NEW b \in Int, NEW k \in Int, a = b + k * Width
              PROVE  Short(a) = Short(b)
  <2> USE <1>ShortSame
  <2>1. Width \in Int
    BY SEMVMXAssumption, SMT DEF Width
  <2>2. PICK i \in Int : Short(a) = a + i * Width
    BY ShortIs, SMT
  <2>3. PICK j \in Int : Short(b) = b + j * Width
    BY ShortIs, SMT
  <2>4. (k + i - j) \in Int /\ (k + i - j) * Width = k * Width + i * Width - j * Width
    BY <2>1, SMT
  <2>5. k * Width \in Int /\ i * Width \in Int /\ j * Width \in Int
    BY <2>1, SMT
  <2>6. Short(a) = Short(b) + (k + i - j) * Width
    BY <2>2, <2>3, <2>4, <2>5, SMT
  <2>7. Short(a) \in Shorts /\ Short(b) \in Shorts
    BY ShortIs, SMT
  <2> QED
    BY <2>4, <2>6, <2>7, ShortUnique, SMT
<1> SUFFICES ASSUME NEW a \in Int, NEW b \in Int
             PROVE  Short(Short(a) + b) = Short(a + b) /\ Short(b - Short(a)) = Short(b - a)
  OBVIOUS
<1>1. PICK k \in Int : Short(a) = a + k * Width
  BY ShortIs, SMT
<1>2. Width \in Int /\ k * Width \in Int /\ -k \in Int /\ (-k) * Width = -(k * Width)
  BY SEMVMXAssumption, SMT DEF Width
<1>3. Short(a) + b = (a + b) + k * Width /\ b - Short(a) = (b - a) + (-k) * Width
  BY <1>1, <1>2, SMT
<1>4. Short(a) + b \in Int /\ b - Short(a) \in Int /\ a + b \in Int /\ b - a \in Int
  BY <1>1, <1>2, SMT
<1> QED
  BY <1>2, <1>3, <1>4, <1>ShortSame, SMT

-----------------------------------------------------------------------------
(***************************************************************************)
(* Loops.                                                                  *)
(***************************************************************************)
LEMMA EachPass ==
  ASSUME AllNumbers, NEW n \in Nat, NEW T, 0 \in T, \A i \in 1..n : i - 1 \in T => i \in T
  PROVE  \A i \in 0..n : i \in T
<1> DEFINE N == {m \in Nat : m <= n => m \in T}
<1>1. N \in SUBSET Nat /\ 0 \in N
  BY SMT
<1>2. ASSUME NEW m \in N PROVE m + 1 \in N
  <2>1. m \in Nat /\ (m + 1 <= n => m <= n /\ m + 1 \in 1..n /\ (m + 1) - 1 = m)
    BY SMT
  <2> QED
    BY <2>1, SMT
<1> HIDE DEF N
<1>3. N = Nat
  BY <1>1, <1>2, SMT DEF AllNumbers
<1> QED
  BY <1>3, SMT DEF N

(* A loop has one result: whatever obeys the recursion is it.              *)
Obeys(h, x, F, n, S) ==
    /\ h = [i \in 0..n |-> h[i]] /\ h[0] = x
    /\ \A i \in 1..n : h[i-1] \in S => h[i] = F[<<i, h[i-1]>>]

LEMMA LoopIs ==
  ASSUME LoopLaw, AllNumbers
  PROVE  \A S :
         \A n \in Nat, x \in S :
         \A F \in LoopBodies(n, S) :
           \E g : RunsFrom(g, x, F, n, S) /\ \A h : Obeys(h, x, F, n, S) => h = g
<1>LoopUnique. ASSUME NEW n \in Nat, NEW S, NEW x, NEW F, NEW g, RunsFrom(g, x, F, n, S), NEW h,
                      Obeys(h, x, F, n, S)
               PROVE  h = g
  <2> USE <1>LoopUnique
  <2>0. g \in [0..n -> S] /\ g[0] = x /\ \A i \in 1..n : g[i] = F[<<i, g[i-1]>>]
    BY DEF RunsFrom
  <2>1. /\ h = [i \in 0..n |-> h[i]] /\ h[0] = x
        /\ \A i \in 1..n : h[i-1] \in S => h[i] = F[<<i, h[i-1]>>]
    BY DEF Obeys
  <2> DEFINE T == {i \in 0..n : h[i] = g[i]}
  <2>2. 0 \in T
    BY <2>0, <2>1, SMT
  <2>3. ASSUME NEW i \in 1..n, i - 1 \in T PROVE i \in T
    <3>1. i \in 0..n /\ i - 1 \in 0..n /\ h[i-1] = g[i-1]
      BY <2>3, SMT
    <3>2. g[i-1] \in S
      BY <2>0, <3>1, SMT
    <3>3. h[i] = g[i]
      BY <2>0, <2>1, <3>1, <3>2
    <3> QED
      BY <3>1, <3>3
  <2> HIDE DEF T
  <2>4. \A i \in 0..n : i \in T
    BY <2>2, <2>3, EachPass
  <2>5. \A i \in 0..n : h[i] = g[i]
    BY <2>4 DEF T
  <2>6. g = [i \in 0..n |-> g[i]]
    BY <2>0, SMT
  <2> QED
    BY <2>1, <2>5, <2>6, SMT
<1> SUFFICES ASSUME NEW S, NEW n \in Nat, NEW x \in S, NEW F \in LoopBodies(n, S)
             PROVE  \E g : RunsFrom(g, x, F, n, S) /\ \A h : Obeys(h, x, F, n, S) => h = g
  OBVIOUS
<1>1. PICK g : RunsFrom(g, x, F, n, S)
  BY DEF LoopLaw
<1>2. \A h : Obeys(h, x, F, n, S) => h = g
  BY <1>1, <1>LoopUnique
<1> QED
  BY <1>1, <1>2

SumsOf(g, f, i) == IF i = 0 THEN 0 ELSE g[i-1] + f[i]
IsSums(g, f)    == g = [i \in 0..Len(f) |-> SumsOf(g, f, i)]

(* What the first operations of an array add to a semaphore.               *)
Part(ops, s)     == Sums(Adds(ops, s))
UndoPart(ops, s) == Sums(UndoAdds(ops, s))
Add(o, s)        == IF o.num = s THEN o.op ELSE 0
UndoAdd(o, s)    == IF o.num = s /\ o.undo THEN o.op ELSE 0

LEMMA Parts ==
  ASSUME LoopLaw, AllNumbers
  PROVE  \A s :
         \A ops \in Seq(Sembuf) :
           /\ Part(ops, s) \in [0..Len(ops) -> Int] /\ Part(ops, s)[0] = 0
           /\ \A i \in 1..Len(ops) : Part(ops, s)[i] = Part(ops, s)[i-1] + Add(ops[i], s)
           /\ UndoPart(ops, s) \in [0..Len(ops) -> Int] /\ UndoPart(ops, s)[0] = 0
           /\ \A i \in 1..Len(ops) : UndoPart(ops, s)[i] = UndoPart(ops, s)[i-1] + UndoAdd(ops[i], s)
           /\ Delta(ops, s) = Part(ops, s)[Len(ops)] /\ Delta(ops, s) \in Int
           /\ UndoDelta(ops, s) = UndoPart(ops, s)[Len(ops)] /\ UndoDelta(ops, s) \in Int
<1>SumsAre. \A n \in Nat :
            \A f \in [1..n -> Int] :
              Len(f) = n
              => /\ Sums(f) \in [0..n -> Int] /\ Sums(f)[0] = 0
                 /\ \A i \in 1..n : Sums(f)[i] = Sums(f)[i-1] + f[i]
  <2>SumsChosen. ASSUME NEW f
                 PROVE  Sums(f) = CHOOSE g : IsSums(g, f)
    BY SMT DEF Sums, IsSums, SumsOf
  <2> SUFFICES ASSUME NEW n \in Nat, NEW f \in [1..n -> Int], Len(f) = n
               PROVE  /\ Sums(f) \in [0..n -> Int] /\ Sums(f)[0] = 0
                      /\ \A i \in 1..n : Sums(f)[i] = Sums(f)[i-1] + f[i]
    OBVIOUS
  <2> DEFINE F == [a \in (1..n) \X Int |-> a[2] + f[a[1]]]
  <2>1. 0 \in Int /\ \A i \in 1..n : f[i] \in Int /\ i - 1 \in 0..n
    BY SMT
  <2>2. F \in LoopBodies(n, Int)
    BY <2>1, SMT DEF LoopBodies
  <2>3. \A i \in 1..n, x \in Int : F[<<i, x>>] = x + f[i]
    BY <2>1, SMT
  <2> HIDE DEF F
  <2>4. PICK g : RunsFrom(g, 0, F, n, Int) /\ \A h : Obeys(h, 0, F, n, Int) => h = g
    BY <2>1, <2>2, LoopIs
  <2>5. g \in [0..n -> Int] /\ g[0] = 0 /\ \A i \in 1..n : g[i] = F[<<i, g[i-1]>>]
    BY <2>4 DEF RunsFrom
  <2>6. \A i \in 1..n : g[i] = g[i-1] + f[i]
    BY <2>1, <2>3, <2>5
  <2>7. IsSums(g, f)
    <3>1. \A i \in 0..n : g[i] = SumsOf(g, f, i)
      BY <2>1, <2>5, <2>6, SMT DEF SumsOf
    <3> QED
      BY <2>5, <3>1, SMT DEF IsSums
  <2>8. IsSums(Sums(f), f)
    BY <2>7, <2>SumsChosen
  <2> DEFINE h == Sums(f)
  <2> HIDE DEF h
  <2>9. h = [i \in 0..n |-> SumsOf(h, f, i)]
    BY <2>8 DEF IsSums, h
  <2>10. h = [i \in 0..n |-> h[i]] /\ h[0] = 0 /\ \A i \in 1..n : h[i] = h[i-1] + f[i]
    <3>1. 0 \in 0..n /\ \A i \in 1..n : i \in 0..n /\ i # 0
      BY SMT
    <3>2. \A i \in 0..n : h[i] = SumsOf(h, f, i)
      BY <2>9
    <3>3. h = [i \in 0..n |-> h[i]]
      BY <2>9
    <3> QED
      BY <3>1, <3>2, <3>3 DEF SumsOf
  <2>11. h = g
    <3>1. \A i \in 1..n : h[i-1] \in Int => h[i] = F[<<i, h[i-1]>>]
      BY <2>3, <2>10
    <3>2. Obeys(h, 0, F, n, Int)
      BY <2>10, <3>1 DEF Obeys
    <3> QED
      BY <2>4, <3>2
  <2> QED
    BY <2>5, <2>6, <2>11, SMT DEF h
<1> SUFFICES ASSUME NEW s, NEW ops \in Seq(Sembuf)
             PROVE  /\ Part(ops, s) \in [0..Len(ops) -> Int] /\ Part(ops, s)[0] = 0
                    /\ \A i \in 1..Len(ops) : Part(ops, s)[i] = Part(ops, s)[i-1] + Add(ops[i], s)
                    /\ UndoPart(ops, s) \in [0..Len(ops) -> Int] /\ UndoPart(ops, s)[0] = 0
                    /\ \A i \in 1..Len(ops) : UndoPart(ops, s)[i] = UndoPart(ops, s)[i-1] + UndoAdd(ops[i], s)
                    /\ Delta(ops, s) = Part(ops, s)[Len(ops)] /\ Delta(ops, s) \in Int
                    /\ UndoDelta(ops, s) = UndoPart(ops, s)[Len(ops)] /\ UndoDelta(ops, s) \in Int
  OBVIOUS
<1> DEFINE n == Len(ops)
           A == Adds(ops, s)
           U == UndoAdds(ops, s)
<1>1. n \in Nat /\ 0 \in Int /\ n \in 0..n
  BY SMT
<1>2. \A i \in 1..n : ops[i].op \in Int
  <2>1. \A i \in 1..n : ops[i] \in Sembuf
    BY SMT
  <2> QED
    BY <2>1, SMT DEF Sembuf
<1>3. A \in [1..n -> Int] /\ U \in [1..n -> Int]
  BY <1>1, <1>2, SMT DEF Adds, UndoAdds
<1>4. Len(A) = n /\ Len(U) = n
  BY <1>1, SMT DEF Adds, UndoAdds
<1>5. \A i \in 1..n : A[i] = Add(ops[i], s) /\ U[i] = UndoAdd(ops[i], s)
  BY SMT DEF Adds, UndoAdds, Add, UndoAdd
<1>6. Delta(ops, s) = Sums(A)[n] /\ UndoDelta(ops, s) = Sums(U)[n]
  BY DEF Delta, UndoDelta
<1>7. Part(ops, s) = Sums(A) /\ UndoPart(ops, s) = Sums(U)
  BY DEF Part, UndoPart
<1> HIDE DEF n, A, U
<1>8. /\ Sums(A) \in [0..n -> Int] /\ Sums(A)[0] = 0
      /\ \A i \in 1..n : Sums(A)[i] = Sums(A)[i-1] + A[i]
  BY <1>1, <1>3, <1>4, <1>SumsAre
<1>9. /\ Sums(U) \in [0..n -> Int] /\ Sums(U)[0] = 0
      /\ \A i \in 1..n : Sums(U)[i] = Sums(U)[i-1] + U[i]
  BY <1>1, <1>3, <1>4, <1>SumsAre
<1>10. Sums(A)[n] \in Int /\ Sums(U)[n] \in Int
  BY <1>1, <1>8, <1>9, SMT
<1>11. n = Len(ops)
  BY SMT DEF n
<1> QED
  BY <1>5, <1>6, <1>7, <1>8, <1>9, <1>10, <1>11

-----------------------------------------------------------------------------
(***************************************************************************)
(* try_atomic_semop().  Q is the set the process ids are from.             *)
(***************************************************************************)
Passes(Q) == [val : [Sem -> Int], pid : [Sem -> Q \X Q], adj : [Sem -> Shorts],
              result : {"ok", "block", "ERANGE"}, last : Nat]

(* What operation o says of the value v it finds.                          *)
Answer(o, v) == IF o.op = 0 /\ v # 0 THEN "block"
                ELSE IF v + o.op < 0 THEN "block"
                ELSE IF v + o.op > SEMVMX THEN "ERANGE" ELSE "ok"

LEMMA ShortLess ==
  ASSUME NEW a \in Shorts, NEW n \in Int
  PROVE  /\ a \in Int /\ Short(a - n) \in Shorts /\ Short(a + n) \in Shorts
         /\ n = 0 => Short(a - n) = a /\ Short(a + n) = a
<1>1. a \in Int /\ Short(a) = a
  BY ShortId, SMT
<1>2. a - n \in Int /\ a + n \in Int /\ (n = 0 => a - n = a /\ a + n = a)
  BY <1>1, SMT
<1> QED
  BY <1>1, <1>2, ShortIs

(* One pass forth adds the operation even when it stops there: a failed    *)
(* wait for zero has nothing to add.                                       *)
IsPerformed(t, st, o, p, Q) ==
    /\ t \in Passes(Q)
    /\ t.last = st.last
    /\ t.result = Answer(o, st.val[o.num])
    /\ \A s \in Sem : t.val[s] = st.val[s] + Add(o, s)
    /\ \A s \in Sem : t.adj[s] = Short(st.adj[s] - UndoAdd(o, s))
    /\ \A s \in Sem : t.pid[s] =
         IF o.num = s /\ ~(o.op = 0 /\ st.val[s] # 0) THEN Push(st.pid[s], p) ELSE st.pid[s]

LEMMA Performed ==
  ASSUME NEW Q, NEW p \in Q, NEW st \in Passes(Q), NEW o \in Sembuf
  PROVE  IsPerformed(Perform(st, o, p), st, o, p, Q)
<1>1. o.num \in Sem /\ o.op \in Int /\ o.undo \in BOOLEAN
  BY SMT DEF Sembuf
<1>2. /\ st.val \in [Sem -> Int] /\ st.pid \in [Sem -> Q \X Q] /\ st.adj \in [Sem -> Shorts]
      /\ st.result \in {"ok", "block", "ERANGE"} /\ st.last \in Nat
  BY SMT DEF Passes
<1>3. \A s \in Sem : /\ st.adj[s] \in Shorts /\ st.adj[s] \in Int
                     /\ Short(st.adj[s] - o.op) \in Shorts /\ Short(st.adj[s] - 0) = st.adj[s]
  <2>1. 0 \in Int /\ \A s \in Sem : st.adj[s] \in Shorts
    BY <1>2, SMT
  <2> QED
    BY <1>1, <2>1, ShortLess
<1>4. SEMVMX \in Int
  BY SEMVMXAssumption, SMT
<1> DEFINE v == st.val[o.num] + o.op
           t == Perform(st, o, p)
<1>5. CASE o.op = 0 /\ st.val[o.num] # 0
  <2>1. t = [st EXCEPT !.result = "block"]
    BY <1>5, SMT DEF Perform
  <2> HIDE DEF t
  <2>2. /\ t.val = st.val /\ t.pid = st.pid /\ t.adj = st.adj /\ t.last = st.last /\ t.result = "block"
        /\ t \in Passes(Q)
    BY <2>1, SMT DEF Passes
  <2>3. \A s \in Sem : Add(o, s) = 0 /\ UndoAdd(o, s) = 0
    BY <1>5, SMT DEF Add, UndoAdd
  <2>4. \A s \in Sem : t.val[s] = st.val[s] + Add(o, s)
    <3>1. \A s \in Sem : st.val[s] = st.val[s] + 0
      BY <1>2, SMT
    <3> QED
      BY <2>2, <2>3, <3>1
  <2>5. \A s \in Sem : t.adj[s] = Short(st.adj[s] - UndoAdd(o, s))
    BY <1>3, <2>2, <2>3
  <2>6. t.result = Answer(o, st.val[o.num])
    BY <1>5, <2>2, SMT DEF Answer
  <2>7. \A s \in Sem : o.num = s => o.op = 0 /\ st.val[s] # 0
    BY <1>5, SMT
  <2> QED
    BY <2>2, <2>4, <2>5, <2>6, <2>7 DEF t, IsPerformed
<1>6. CASE ~(o.op = 0 /\ st.val[o.num] # 0)
  <2> DEFINE val1 == [st.val EXCEPT ![o.num] = v]
             pid1 == [st.pid EXCEPT ![o.num] = Push(@, p)]
             adj1 == [st.adj EXCEPT ![o.num] = IF o.undo THEN Short(@ - o.op) ELSE @]
             res1 == IF v < 0 THEN "block" ELSE IF v > SEMVMX THEN "ERANGE" ELSE "ok"
  <2>1. t = [st EXCEPT !.val = val1, !.pid = pid1, !.adj = adj1, !.result = res1]
    BY <1>1, <1>2, <1>6, SMT DEF Perform, Passes
  <2>2. val1 \in [Sem -> Int] /\ \A s \in Sem : val1[s] = st.val[s] + Add(o, s)
    BY <1>1, <1>2, SMT DEF Add
  <2>3. adj1 \in [Sem -> Shorts] /\ \A s \in Sem : adj1[s] = Short(st.adj[s] - UndoAdd(o, s))
    <3>1. \A s \in Sem : adj1[s] = IF o.num = s /\ o.undo THEN Short(st.adj[s] - o.op) ELSE st.adj[s]
      BY <1>1, <1>2
    <3>2. \A s \in Sem : adj1[s] = Short(st.adj[s] - UndoAdd(o, s)) /\ adj1[s] \in Shorts
      <4> SUFFICES ASSUME NEW s \in Sem
                   PROVE  adj1[s] = Short(st.adj[s] - UndoAdd(o, s)) /\ adj1[s] \in Shorts
        OBVIOUS
      <4>1. CASE o.num = s /\ o.undo
        <5>1. UndoAdd(o, s) = o.op
          BY <4>1 DEF UndoAdd
        <5> QED
          BY <1>3, <3>1, <4>1, <5>1
      <4>2. CASE ~(o.num = s /\ o.undo)
        <5>1. UndoAdd(o, s) = 0
          BY <4>2 DEF UndoAdd
        <5> QED
          BY <1>3, <3>1, <4>2, <5>1
      <4> QED
        BY <4>1, <4>2
    <3>3. adj1 = [s \in Sem |-> adj1[s]]
      BY <1>2, SMT
    <3> QED
      BY <3>2, <3>3
  <2>4. /\ pid1 \in [Sem -> Q \X Q]
        /\ \A s \in Sem : pid1[s] = IF o.num = s THEN Push(st.pid[s], p) ELSE st.pid[s]
    BY <1>1, <1>2, SMT DEF Push
  <2>5. res1 = Answer(o, st.val[o.num]) /\ res1 \in {"ok", "block", "ERANGE"}
    BY <1>6, SMT DEF Answer
  <2> HIDE DEF t, val1, pid1, adj1, res1
  <2>6. t.val = val1 /\ t.pid = pid1 /\ t.adj = adj1 /\ t.result = res1 /\ t.last = st.last
    BY <2>1, SMT DEF Passes
  <2>7. t \in Passes(Q)
    BY <1>2, <2>1, <2>2, <2>3, <2>4, <2>5 DEF Passes
  <2>8. \A s \in Sem : o.num = s => ~(o.op = 0 /\ st.val[s] # 0)
    BY <1>6, SMT
  <2> QED
    BY <2>2, <2>3, <2>4, <2>5, <2>6, <2>7, <2>8 DEF t, IsPerformed
<1> QED
  BY <1>5, <1>6

(* One pass back takes the operation away.                                 *)
IsUndone(t, st, o, Q) ==
    /\ t \in Passes(Q)
    /\ t.last = st.last /\ t.result = st.result
    /\ \A s \in Sem : t.val[s] = st.val[s] - Add(o, s)
    /\ \A s \in Sem : t.adj[s] = Short(st.adj[s] + UndoAdd(o, s))
    /\ \A s \in Sem : t.pid[s] = IF o.num = s THEN Pop(st.pid[s]) ELSE st.pid[s]

LEMMA Undone ==
  ASSUME NEW Q, NoPid \in Q, NEW st \in Passes(Q), NEW o \in Sembuf
  PROVE  IsUndone(Undo(st, o), st, o, Q)
<1>1. o.num \in Sem /\ o.op \in Int /\ o.undo \in BOOLEAN
  BY SMT DEF Sembuf
<1>2. /\ st.val \in [Sem -> Int] /\ st.pid \in [Sem -> Q \X Q] /\ st.adj \in [Sem -> Shorts]
      /\ st.result \in {"ok", "block", "ERANGE"} /\ st.last \in Nat
  BY SMT DEF Passes
<1>3. \A s \in Sem : /\ st.adj[s] \in Shorts /\ st.adj[s] \in Int
                     /\ Short(st.adj[s] + o.op) \in Shorts /\ Short(st.adj[s] + 0) = st.adj[s]
  <2>1. 0 \in Int /\ \A s \in Sem : st.adj[s] \in Shorts
    BY <1>2, SMT
  <2> QED
    BY <1>1, <2>1, ShortLess
<1> DEFINE t == Undo(st, o)
           val1 == [st.val EXCEPT ![o.num] = @ - o.op]
           pid1 == [st.pid EXCEPT ![o.num] = Pop(@)]
           adj1 == [st.adj EXCEPT ![o.num] = IF o.undo THEN Short(@ + o.op) ELSE @]
<1>4. t = [st EXCEPT !.val = val1, !.pid = pid1, !.adj = adj1]
  BY <1>1, <1>2, SMT DEF Undo, Passes
<1>5. val1 \in [Sem -> Int] /\ \A s \in Sem : val1[s] = st.val[s] - Add(o, s)
  BY <1>1, <1>2, SMT DEF Add
<1>6. adj1 \in [Sem -> Shorts] /\ \A s \in Sem : adj1[s] = Short(st.adj[s] + UndoAdd(o, s))
  <2>1. \A s \in Sem : adj1[s] = IF o.num = s /\ o.undo THEN Short(st.adj[s] + o.op) ELSE st.adj[s]
    BY <1>1, <1>2
  <2>2. \A s \in Sem : adj1[s] = Short(st.adj[s] + UndoAdd(o, s)) /\ adj1[s] \in Shorts
    <3> SUFFICES ASSUME NEW s \in Sem
                 PROVE  adj1[s] = Short(st.adj[s] + UndoAdd(o, s)) /\ adj1[s] \in Shorts
      OBVIOUS
    <3>1. CASE o.num = s /\ o.undo
      BY <1>3, <2>1, <3>1 DEF UndoAdd
    <3>2. CASE ~(o.num = s /\ o.undo)
      BY <1>3, <2>1, <3>2 DEF UndoAdd
    <3> QED
      BY <3>1, <3>2
  <2>3. adj1 = [s \in Sem |-> adj1[s]]
    BY <1>2, SMT
  <2> QED
    BY <2>2, <2>3
<1>7. /\ pid1 \in [Sem -> Q \X Q]
      /\ \A s \in Sem : pid1[s] = IF o.num = s THEN Pop(st.pid[s]) ELSE st.pid[s]
  BY <1>1, <1>2, SMT DEF Pop
<1> HIDE DEF t, val1, pid1, adj1
<1>8. t.val = val1 /\ t.pid = pid1 /\ t.adj = adj1 /\ t.result = st.result /\ t.last = st.last
  BY <1>4, SMT DEF Passes
<1>9. t \in Passes(Q)
  BY <1>2, <1>4, <1>5, <1>6, <1>7 DEF Passes
<1> QED
  BY <1>5, <1>6, <1>7, <1>8, <1>9 DEF t, IsUndone

IsStore(st, Q) ==
    st.val \in [Sem -> Int] /\ st.pid \in [Sem -> Q \X Q] /\ st.adj \in [Sem -> Shorts]

Start(st) == [val |-> st.val, pid |-> st.pid, adj |-> st.adj, result |-> "ok", last |-> 0]
PassForth(st, o, p, i) == IF st.result # "ok" THEN st ELSE [Perform(st, o, p) EXCEPT !.last = i]

ForthOf(g, st, ops, p, i) == IF i = 0 THEN Start(st) ELSE PassForth(g[i-1], ops[i], p, i)
IsForth(g, st, ops, p) == g = [i \in 0..Len(ops) |-> ForthOf(g, st, ops, p, i)]

LEMMA ForthIs ==
  ASSUME LoopLaw, AllNumbers
  PROVE  \A Q, st :
         \A p \in Q, ops \in Seq(Sembuf) :
           IsStore(st, Q)
           => /\ Forth(st, ops, p) \in [0..Len(ops) -> Passes(Q)]
              /\ Forth(st, ops, p)[0] = Start(st)
              /\ \A i \in 1..Len(ops) :
                   Forth(st, ops, p)[i] = PassForth(Forth(st, ops, p)[i-1], ops[i], p, i)
<1>ForthChosen. ASSUME NEW st, NEW ops, NEW p
                PROVE  Forth(st, ops, p) = CHOOSE g : IsForth(g, st, ops, p)
  BY SMT DEF Forth, IsForth, ForthOf, Start, PassForth
<1> SUFFICES ASSUME NEW Q, NEW st, NEW p \in Q, NEW ops \in Seq(Sembuf), IsStore(st, Q)
             PROVE  /\ Forth(st, ops, p) \in [0..Len(ops) -> Passes(Q)]
                    /\ Forth(st, ops, p)[0] = Start(st)
                    /\ \A i \in 1..Len(ops) :
                         Forth(st, ops, p)[i] = PassForth(Forth(st, ops, p)[i-1], ops[i], p, i)
  OBVIOUS
<1> DEFINE n == Len(ops)
           S == Passes(Q)
           F == [a \in (1..n) \X S |-> PassForth(a[2], ops[a[1]], p, a[1])]
<1>0. n \in Nat
  BY SMT
<1>1. \A i \in 1..n : ops[i] \in Sembuf /\ i - 1 \in 0..n /\ i \in Nat
  BY SMT
<1>2. \A i \in 1..n, x \in S : PassForth(x, ops[i], p, i) \in S
  <2> SUFFICES ASSUME NEW i \in 1..n, NEW x \in S PROVE PassForth(x, ops[i], p, i) \in S
    OBVIOUS
  <2>1. Perform(x, ops[i], p) \in S /\ i \in Nat
    BY <1>1, Performed DEF IsPerformed
  <2>2. [Perform(x, ops[i], p) EXCEPT !.last = i] \in S
    BY <2>1 DEF Passes
  <2> QED
    BY <2>2 DEF PassForth
<1>3. Start(st) \in S
  BY SMT DEF Start, IsStore, Passes
<1>4. Len(ops) = n
  BY SMT
<1> HIDE DEF n, S
<1>5. \A i \in 1..n, x \in S : F[<<i, x>>] = PassForth(x, ops[i], p, i)
  BY SMT
<1>6. F \in LoopBodies(n, S)
  BY <1>2, SMT DEF LoopBodies
<1> HIDE DEF F
<1>7. PICK g : RunsFrom(g, Start(st), F, n, S) /\ \A h : Obeys(h, Start(st), F, n, S) => h = g
  BY <1>0, <1>3, <1>6, LoopIs
<1>7a. g \in [0..n -> S] /\ g[0] = Start(st) /\ \A i \in 1..n : g[i] = F[<<i, g[i-1]>>]
  BY <1>7 DEF RunsFrom
<1>8. \A i \in 1..n : g[i] = PassForth(g[i-1], ops[i], p, i)
  BY <1>1, <1>5, <1>7a
<1>9. IsForth(g, st, ops, p)
  <2>1. \A i \in 0..n : i = 0 \/ i \in 1..n
    BY <1>0, SMT
  <2>2. \A i \in 0..n : g[i] = ForthOf(g, st, ops, p, i)
    BY <1>7a, <1>8, <2>1 DEF ForthOf
  <2> QED
    BY <1>4, <1>7a, <2>2, SMT DEF IsForth
<1>10. IsForth(Forth(st, ops, p), st, ops, p)
  BY <1>9, <1>ForthChosen
<1> DEFINE h == Forth(st, ops, p)
<1> HIDE DEF h
<1>11. h = [i \in 0..n |-> ForthOf(h, st, ops, p, i)]
  BY <1>4, <1>10 DEF IsForth, h
<1>12. /\ h = [i \in 0..n |-> h[i]] /\ h[0] = Start(st)
       /\ \A i \in 1..n : h[i] = PassForth(h[i-1], ops[i], p, i)
  <2>1. 0 \in 0..n /\ \A i \in 1..n : i \in 0..n /\ i # 0
    BY <1>0, SMT
  <2>2. \A i \in 0..n : h[i] = ForthOf(h, st, ops, p, i)
    BY <1>11
  <2>3. h = [i \in 0..n |-> h[i]]
    BY <1>11
  <2> QED
    BY <2>1, <2>2, <2>3 DEF ForthOf
<1>13. h = g
  BY <1>5, <1>7, <1>12 DEF Obeys
<1> QED
  BY <1>4, <1>7a, <1>8, <1>13 DEF h, S

BackOf(g, end, ops, i) == IF i = 0 THEN end ELSE Undo(g[i-1], ops[end.last - i + 1])
IsBack(g, end, ops) == g = [i \in 0..end.last |-> BackOf(g, end, ops, i)]

LEMMA BackIs ==
  ASSUME LoopLaw, AllNumbers
  PROVE  \A Q :
         \A end \in Passes(Q), ops \in Seq(Sembuf) :
           /\ NoPid \in Q
           /\ end.last <= Len(ops)
           => /\ Back(end, ops) \in [0..end.last -> Passes(Q)]
              /\ Back(end, ops)[0] = end
              /\ \A i \in 1..end.last :
                   Back(end, ops)[i] = Undo(Back(end, ops)[i-1], ops[end.last - i + 1])
<1>BackChosen. ASSUME NEW end, NEW ops
               PROVE  Back(end, ops) = CHOOSE g : IsBack(g, end, ops)
  BY SMT DEF Back, IsBack, BackOf
<1> SUFFICES ASSUME NEW Q, NEW end \in Passes(Q), NEW ops \in Seq(Sembuf), NoPid \in Q,
                    end.last <= Len(ops)
             PROVE  /\ Back(end, ops) \in [0..end.last -> Passes(Q)]
                    /\ Back(end, ops)[0] = end
                    /\ \A i \in 1..end.last :
                         Back(end, ops)[i] = Undo(Back(end, ops)[i-1], ops[end.last - i + 1])
  OBVIOUS
<1> DEFINE n == end.last
           S == Passes(Q)
           F == [a \in (1..n) \X S |-> Undo(a[2], ops[n - a[1] + 1])]
<1>0. n \in Nat
  BY SMT DEF Passes
<1>1. \A i \in 1..n : ops[n - i + 1] \in Sembuf /\ i - 1 \in 0..n
  BY <1>0, SMT
<1>2. \A i \in 1..n, x \in S : Undo(x, ops[n - i + 1]) \in S
  BY <1>1, Undone DEF IsUndone
<1>3. end \in S
  BY SMT
<1>4. end.last = n
  BY SMT
<1> HIDE DEF n, S
<1>5. \A i \in 1..n, x \in S : F[<<i, x>>] = Undo(x, ops[n - i + 1])
  BY SMT
<1>6. F \in LoopBodies(n, S)
  BY <1>2, SMT DEF LoopBodies
<1> HIDE DEF F
<1>7. PICK g : RunsFrom(g, end, F, n, S) /\ \A h : Obeys(h, end, F, n, S) => h = g
  BY <1>0, <1>3, <1>6, LoopIs
<1>8. g \in [0..n -> S] /\ g[0] = end /\ \A i \in 1..n : g[i] = F[<<i, g[i-1]>>]
  BY <1>7 DEF RunsFrom
<1>9. \A i \in 1..n : g[i] = Undo(g[i-1], ops[n - i + 1])
  BY <1>1, <1>5, <1>8
<1>10. IsBack(g, end, ops)
  <2>1. \A i \in 0..n : i = 0 \/ i \in 1..n
    BY <1>0, SMT
  <2>2. \A i \in 0..n : g[i] = BackOf(g, end, ops, i)
    BY <1>4, <1>8, <1>9, <2>1 DEF BackOf
  <2> QED
    BY <1>4, <1>8, <2>2, SMT DEF IsBack
<1>11. IsBack(Back(end, ops), end, ops)
  BY <1>10, <1>BackChosen
<1> DEFINE h == Back(end, ops)
<1> HIDE DEF h
<1>12. h = [i \in 0..n |-> BackOf(h, end, ops, i)]
  BY <1>4, <1>11 DEF IsBack, h
<1>13. /\ h = [i \in 0..n |-> h[i]] /\ h[0] = end
       /\ \A i \in 1..n : h[i] = Undo(h[i-1], ops[n - i + 1])
  <2>1. 0 \in 0..n /\ \A i \in 1..n : i \in 0..n /\ i # 0
    BY <1>0, SMT
  <2>2. \A i \in 0..n : h[i] = BackOf(h, end, ops, i)
    BY <1>12
  <2>3. h = [i \in 0..n |-> h[i]]
    BY <1>12
  <2> QED
    BY <1>4, <2>1, <2>2, <2>3 DEF BackOf
<1>14. h = g
  BY <1>5, <1>7, <1>13 DEF Obeys
<1> QED
  BY <1>4, <1>8, <1>9, <1>14 DEF h, S

(* Where the loop stands after i operations, t.last of them looked at: the *)
(* values and the adjustments have changed by what those add up to, and    *)
(* none before the last stopped it.                                        *)
Found(v, ops, j) == Answer(ops[j], Before(v, ops, j, ops[j].num))

Reached(st, ops, t, i) ==
    /\ t.last \in 0..i /\ (t.result = "ok" => t.last = i)
    /\ \A s \in Sem : t.val[s] = st.val[s] + Part(ops, s)[t.last]
    /\ \A s \in Sem : t.adj[s] = Short(st.adj[s] - UndoPart(ops, s)[t.last])
    /\ \A j \in 1..t.last : t.result = "ok" \/ j < t.last => Found(st.val, ops, j) = "ok"
    /\ t.result # "ok" => t.last > 0 /\ t.result = Found(st.val, ops, t.last)

LEMMA ForthReaches ==
  ASSUME LoopLaw, AllNumbers
  PROVE  \A Q, st :
         \A p \in Q, ops \in Seq(Sembuf) :
           IsStore(st, Q)
           => \A i \in 0..Len(ops) : Reached(st, ops, Forth(st, ops, p)[i], i)
<1>ForthStep. ASSUME NEW Q, NEW p \in Q, NEW st, IsStore(st, Q), NEW ops \in Seq(Sembuf),
                     NEW i \in 1..Len(ops), NEW t \in Passes(Q), Reached(st, ops, t, i - 1)
              PROVE  Reached(st, ops, PassForth(t, ops[i], p, i), i)
  <2> USE <1>ForthStep
  <2>0. i \in Int /\ Len(ops) \in Nat /\ i - 1 \in 0..Len(ops) /\ i \in 0..Len(ops) /\ ops[i] \in Sembuf
    BY SMT
  <2>1. CASE t.result # "ok"
    <3>1. PassForth(t, ops[i], p, i) = t
      BY <2>1 DEF PassForth
    <3>2. t.last \in 0..(i-1) => t.last \in 0..i
      BY <2>0, SMT
    <3> QED
      BY <2>1, <3>1, <3>2 DEF Reached
  <2>2. CASE t.result = "ok"
    <3> DEFINE o == ops[i]
               u == Perform(t, o, p)
               r == PassForth(t, o, p, i)
    <3>3. o.num \in Sem /\ o \in Sembuf /\ o = ops[i]
      BY <2>0, SMT DEF Sembuf
    <3> HIDE DEF o
    <3>1. /\ u \in Passes(Q) /\ u.result = Answer(o, t.val[o.num])
          /\ \A s \in Sem : u.val[s] = t.val[s] + Add(o, s)
          /\ \A s \in Sem : u.adj[s] = Short(t.adj[s] - UndoAdd(o, s))
      <4>1. IsPerformed(u, t, o, p, Q)
        BY <3>3, Performed
      <4> HIDE DEF u
      <4> QED
        BY <4>1 DEF IsPerformed
    <3>2. r = [u EXCEPT !.last = i]
      BY <2>2 DEF PassForth
    <3> HIDE DEF u, r
    <3>4. r.val = u.val /\ r.adj = u.adj /\ r.result = u.result /\ r.last = i
      BY <3>1, <3>2, SMT DEF Passes
    <3>5. /\ t.last = i - 1
          /\ \A s \in Sem : t.val[s] = st.val[s] + Part(ops, s)[i - 1]
          /\ \A s \in Sem : t.adj[s] = Short(st.adj[s] - UndoPart(ops, s)[i - 1])
          /\ \A j \in 1..(i - 1) : Found(st.val, ops, j) = "ok"
      BY <2>2 DEF Reached
    <3>6. ASSUME NEW s \in Sem PROVE r.val[s] = st.val[s] + Part(ops, s)[i]
      <4>1. Part(ops, s)[i] = Part(ops, s)[i - 1] + Add(o, s) /\ Part(ops, s)[i - 1] \in Int
        BY <2>0, <3>3, Parts, SMT
      <4>2. st.val[s] \in Int /\ Add(o, s) \in Int
        BY <3>3, SMT DEF IsStore, Add, Sembuf
      <4>3. r.val[s] = (st.val[s] + Part(ops, s)[i - 1]) + Add(o, s)
        BY <3>1, <3>4, <3>5, SMT
      <4> HIDE DEF Part
      <4> QED
        BY <4>1, <4>2, <4>3, SMT
    <3>7. ASSUME NEW s \in Sem PROVE r.adj[s] = Short(st.adj[s] - UndoPart(ops, s)[i])
      <4> DEFINE a == st.adj[s]
                 b == UndoPart(ops, s)[i - 1]
                 c == UndoAdd(o, s)
      <4>1. UndoPart(ops, s)[i] = b + c /\ b \in Int
        BY <2>0, <3>3, Parts, SMT
      <4>2. a \in Shorts /\ c \in Int
        BY <3>3, SMT DEF IsStore, UndoAdd, Sembuf
      <4>3. r.adj[s] = Short(Short(a - b) - c)
        BY <3>1, <3>4, <3>5
      <4> HIDE DEF a, b, c
      <4>4. a \in Int
        BY <4>2, ShortId, SMT
      <4>5. Short(Short(a - b) + (-c)) = Short((a - b) + (-c)) /\ Short(a - b) \in Int
        <5>1. a - b \in Int /\ -c \in Int
          BY <4>1, <4>2, <4>4, SMT
        <5>2. Short(a - b) \in Shorts
          BY <5>1, ShortIs, SMT
        <5> QED
          BY <5>1, <5>2, ShortAdd, ShortId, SMT
      <4>6. Short(a - b) - c = Short(a - b) + (-c) /\ (a - b) + (-c) = a - (b + c)
        BY <4>1, <4>2, <4>4, <4>5, SMT
      <4> QED
        BY <4>1, <4>3, <4>5, <4>6, SMT DEF a
    <3>8. r.result = Found(st.val, ops, i)
      <4>1. t.val[o.num] = Before(st.val, ops, i, ops[i].num)
        BY <3>3, <3>5 DEF Before, Part
      <4> QED
        BY <3>1, <3>3, <3>4, <4>1 DEF Found
    <3>9. \A j \in 1..i : r.result = "ok" \/ j < i => Found(st.val, ops, j) = "ok"
      <4> SUFFICES ASSUME NEW j \in 1..i, r.result = "ok" \/ j < i PROVE Found(st.val, ops, j) = "ok"
        OBVIOUS
      <4>1. CASE j = i
        <5>1. ~(j < i)
          BY <4>1, <2>0, SMT
        <5> QED
          BY <3>8, <4>1, <5>1
      <4>2. CASE j # i
        <5>1. j \in 1..(i - 1)
          BY <4>2, <2>0, SMT
        <5> QED
          BY <3>5, <5>1
      <4> QED
        BY <4>1, <4>2
    <3>10. i \in 0..i /\ i > 0
      BY <2>0, SMT
    <3>11. Reached(st, ops, r, i)
      BY <3>4, <3>6, <3>7, <3>8, <3>9, <3>10 DEF Reached
    <3> QED
      BY <3>11, SMT DEF r, o
  <2> QED
    BY <2>1, <2>2
<1> SUFFICES ASSUME NEW Q, NEW st, NEW p \in Q, NEW ops \in Seq(Sembuf), IsStore(st, Q)
             PROVE  \A i \in 0..Len(ops) : Reached(st, ops, Forth(st, ops, p)[i], i)
  OBVIOUS
<1> DEFINE f == Forth(st, ops, p)
           n == Len(ops)
           T == {i \in 0..n : Reached(st, ops, f[i], i)}
<1>0. n \in Nat
  BY SMT
<1>1. f \in [0..n -> Passes(Q)] /\ f[0] = Start(st) /\ \A i \in 1..n : f[i] = PassForth(f[i-1], ops[i], p, i)
  BY ForthIs
<1> HIDE DEF f
<1>2. 0 \in T
  <2>1. /\ f[0].last = 0 /\ f[0].result = "ok" /\ f[0].val = st.val /\ f[0].adj = st.adj
    BY <1>1, SMT DEF Start
  <2>2. \A s \in Sem : st.val[s] = st.val[s] + Part(ops, s)[0]
    <3> SUFFICES ASSUME NEW s \in Sem PROVE st.val[s] = st.val[s] + Part(ops, s)[0]
      OBVIOUS
    <3>1. st.val[s] \in Int /\ Part(ops, s)[0] = 0
      BY Parts, SMT DEF IsStore
    <3> QED
      BY <3>1, SMT
  <2>3. \A s \in Sem : st.adj[s] = Short(st.adj[s] - UndoPart(ops, s)[0])
    <3> SUFFICES ASSUME NEW s \in Sem PROVE st.adj[s] = Short(st.adj[s] - UndoPart(ops, s)[0])
      OBVIOUS
    <3>1. st.adj[s] \in Shorts /\ 0 \in Int
      BY SMT DEF IsStore
    <3>2. UndoPart(ops, s)[0] = 0
      BY Parts
    <3> QED
      BY <3>1, <3>2, ShortLess
  <2>4. 0 \in 0..0 /\ \A j \in 1..0 : FALSE
    BY SMT
  <2>5. Reached(st, ops, f[0], 0)
    BY <2>1, <2>2, <2>3, <2>4 DEF Reached
  <2> QED
    BY <1>0, <2>5, SMT
<1>3. ASSUME NEW i \in 1..n, i - 1 \in T PROVE i \in T
  <2>1. i \in 0..n /\ i - 1 \in 0..n /\ Reached(st, ops, f[i-1], i - 1)
    BY <1>3, SMT
  <2>2. f[i-1] \in Passes(Q)
    BY <1>1, <2>1, SMT
  <2>3. Reached(st, ops, f[i], i)
    BY <1>1, <2>1, <2>2, <1>ForthStep
  <2> QED
    BY <2>1, <2>3
<1> HIDE DEF T, n
<1>4. \A i \in 0..n : i \in T
  BY <1>0, <1>2, <1>3, EachPass
<1> QED
  BY <1>4 DEF T, f, n

(* Where the loop at "undo:" stands after i operations.                    *)
Backed(st, ops, end, t, i) ==
    /\ t.result = end.result
    /\ \A s \in Sem : t.val[s] = st.val[s] + Part(ops, s)[end.last - i]
    /\ \A s \in Sem : t.adj[s] = Short(st.adj[s] - UndoPart(ops, s)[end.last - i])

(* The answer of the loop is that of the first operation that stops it.    *)
LEMMA ForthAnswers ==
  ASSUME LoopLaw, AllNumbers
  PROVE  \A st, end :
         \A ops \in Seq(Sembuf) :
           /\ st.val \in [Sem -> Int]
           /\ Reached(st, ops, end, Len(ops))
           => Expected(st.val, ops) =
              IF end.result = "block" /\ ops[end.last].nowait THEN "EAGAIN" ELSE end.result
<1>StopsFound. ASSUME NEW v \in [Sem -> Int], NEW ops \in Seq(Sembuf), NEW j \in 1..Len(ops)
               PROVE  /\ Stops(v, ops, j) <=> Found(v, ops, j) # "ok"
                      /\ Found(v, ops, j) \in {"ok", "block", "ERANGE"}
                      /\ Found(v, ops, j) = "ERANGE"
                           <=> ops[j].op # 0 /\ Before(v, ops, j, ops[j].num) + ops[j].op > SEMVMX
                      /\ Before(v, ops, j, ops[j].num) \in Int
  <2> DEFINE b == Before(v, ops, j, ops[j].num)
  <2>1. ops[j] \in Sembuf /\ j - 1 \in 0..Len(ops)
    BY SMT
  <2>2. ops[j].num \in Sem /\ ops[j].op \in Int
    BY <2>1, SMT DEF Sembuf
  <2>3. b \in Int
    <3>1. Part(ops, ops[j].num)[j - 1] \in Int
      BY <2>1, Parts, SMT
    <3>2. v[ops[j].num] \in Int
      BY <2>2, SMT
    <3> QED
      BY <3>1, <3>2, SMT DEF Before, Part
  <2>4. Stops(v, ops, j) <=> (ops[j].op = 0 /\ b # 0) \/ b + ops[j].op \notin 0..SEMVMX
    BY DEF Stops
  <2>5. Found(v, ops, j) = Answer(ops[j], b)
    BY DEF Found
  <2>6. SEMVMX \in Nat
    BY SEMVMXAssumption, SMT
  <2> HIDE DEF b
  <2>7. Answer(ops[j], b) # "ok" <=> (ops[j].op = 0 /\ b # 0) \/ b + ops[j].op \notin 0..SEMVMX
    BY <2>2, <2>3, <2>6, SMT DEF Answer
  <2>8. /\ Answer(ops[j], b) \in {"ok", "block", "ERANGE"}
        /\ Answer(ops[j], b) = "ERANGE" <=> ops[j].op # 0 /\ b + ops[j].op > SEMVMX
    BY <2>2, <2>3, <2>6, SMT DEF Answer
  <2> QED
    BY <2>3, <2>4, <2>5, <2>7, <2>8 DEF b
<1> SUFFICES ASSUME NEW st, NEW end, NEW ops \in Seq(Sembuf), st.val \in [Sem -> Int],
                    Reached(st, ops, end, Len(ops))
             PROVE  Expected(st.val, ops) =
                    IF end.result = "block" /\ ops[end.last].nowait THEN "EAGAIN" ELSE end.result
  OBVIOUS
<1> DEFINE v == st.val
           n == Len(ops)
           k == end.last
<1>0. DOMAIN ops = 1..n /\ n \in Nat
  BY SMT
<1>1. /\ k \in 0..n /\ (end.result = "ok" => k = n)
      /\ \A j \in 1..k : end.result = "ok" \/ j < k => Found(v, ops, j) = "ok"
      /\ end.result # "ok" => k > 0 /\ end.result = Found(v, ops, k)
  BY DEF Reached
<1>2. \A j \in 1..n : /\ Stops(v, ops, j) <=> Found(v, ops, j) # "ok"
                      /\ Found(v, ops, j) \in {"ok", "block", "ERANGE"}
                      /\ Found(v, ops, j) = "ERANGE"
                           <=> ops[j].op # 0 /\ Before(v, ops, j, ops[j].num) + ops[j].op > SEMVMX
  BY <1>StopsFound
<1> HIDE DEF v, n, k
<1>3. CASE end.result = "ok"
  <2>1. \A i \in DOMAIN ops : ~Stops(v, ops, i)
    BY <1>0, <1>1, <1>2, <1>3
  <2>2. Expected(v, ops) = "ok"
    BY <2>1 DEF Expected
  <2> QED
    BY <1>3, <2>2, SMT DEF v
<1>4. CASE end.result # "ok"
  <2>1. k \in 1..n /\ end.result = Found(v, ops, k)
    BY <1>0, <1>1, <1>4, SMT
  <2>2. Stops(v, ops, k)
    BY <1>2, <1>4, <2>1
  <2>3. \A j \in 1..(k-1) : ~Stops(v, ops, j)
    <3>1. \A j \in 1..(k-1) : j \in 1..k /\ j \in 1..n /\ j < k
      BY <1>0, <2>1, SMT
    <3> QED
      BY <1>1, <1>2, <3>1
  <2>4. k \in DOMAIN ops /\ FirstStop(v, ops, k)
    BY <1>0, <2>1, <2>2, <2>3 DEF FirstStop
  <2>5. ASSUME NEW i \in DOMAIN ops, FirstStop(v, ops, i) PROVE i = k
    <3>1. i \in 1..n /\ i \in Int /\ k \in Int
      BY <1>0, <2>1, SMT
    <3>2. ~(i < k)
      <4> SUFFICES ASSUME i < k PROVE FALSE
        BY SMT
      <4>1. i \in 1..(k-1)
        BY <3>1, SMT
      <4> QED
        BY <2>3, <2>5, <4>1 DEF FirstStop
    <3>3. ~(k < i)
      <4> SUFFICES ASSUME k < i PROVE FALSE
        BY SMT
      <4>1. k \in 1..(i-1)
        BY <2>1, <3>1, SMT
      <4> QED
        BY <2>2, <2>5, <4>1 DEF FirstStop
    <3> QED
      BY <3>1, <3>2, <3>3, SMT
  <2>6. (CHOOSE i \in DOMAIN ops : FirstStop(v, ops, i)) = k
    BY <2>4, <2>5
  <2>7. ~\A i \in DOMAIN ops : ~Stops(v, ops, i)
    BY <2>2, <2>4
  <2>8. Expected(v, ops) = IF ops[k].op # 0 /\ Before(v, ops, k, ops[k].num) + ops[k].op > SEMVMX THEN "ERANGE"
                           ELSE IF ops[k].nowait THEN "EAGAIN" ELSE "block"
    BY <2>6, <2>7 DEF Expected
  <2>9. end.result \in {"block", "ERANGE"} /\ (end.result = "ERANGE"
          <=> ops[k].op # 0 /\ Before(v, ops, k, ops[k].num) + ops[k].op > SEMVMX)
    BY <1>2, <1>4, <2>1
  <2>10. CASE end.result = "ERANGE"
    BY <2>8, <2>9, <2>10, SMT DEF v
  <2>11. CASE end.result = "block"
    <3>1. Expected(v, ops) = IF ops[k].nowait THEN "EAGAIN" ELSE "block"
      BY <2>8, <2>9, <2>11, SMT
    <3> QED
      BY <2>11, <3>1, SMT DEF v, k
  <2> QED
    BY <2>9, <2>10, <2>11, SMT
<1> QED
  BY <1>3, <1>4

(* What try_atomic_semop() returns.                                        *)
IsTried(r, st, ops, doUndo, Q) ==
    /\ IsStore(r, Q)
    /\ r.result = Expected(st.val, ops)
    /\ r.result = "ok" /\ ~doUndo => \A s \in Sem :
         /\ r.val[s] = st.val[s] + Delta(ops, s)
         /\ r.adj[s] = Short(st.adj[s] - UndoDelta(ops, s))
    /\ ~(r.result = "ok" /\ ~doUndo) => \A s \in Sem :
         r.val[s] = st.val[s] /\ r.adj[s] = st.adj[s]

LEMMA TryIs ==
  ASSUME LoopLaw, AllNumbers
  PROVE  \A Q, st :
         \A p \in Q, ops \in Seq(Sembuf), doUndo \in BOOLEAN :
           /\ NoPid \in Q
           /\ IsStore(st, Q)
           => IsTried(TryAtomicSemop(st, ops, p, doUndo), st, ops, doUndo, Q)
<1>BackReaches. \A Q, st :
                \A ops \in Seq(Sembuf), end \in Passes(Q) :
                  /\ NoPid \in Q
                  /\ IsStore(st, Q)
                  /\ end.last \in 0..Len(ops)
                  /\ Reached(st, ops, end, Len(ops))
                  => \A i \in 0..end.last : Backed(st, ops, end, Back(end, ops)[i], i)
  <2>BackStep. ASSUME NEW Q, NoPid \in Q, NEW st, IsStore(st, Q), NEW ops \in Seq(Sembuf), NEW end,
                      end.last \in 0..Len(ops), NEW i \in 1..end.last, NEW t \in Passes(Q),
                      Backed(st, ops, end, t, i - 1)
               PROVE  Backed(st, ops, end, Undo(t, ops[end.last - i + 1]), i)
    <3> USE <2>BackStep
    <3> DEFINE k == end.last - i + 1
               o == ops[k]
               r == Undo(t, o)
    <3>0. /\ Len(ops) \in Nat /\ end.last \in Int /\ i \in Int
          /\ k \in 1..Len(ops) /\ k - 1 \in 0..Len(ops) /\ end.last - (i - 1) = k /\ end.last - i = k - 1
      BY SMT
    <3>1. o \in Sembuf /\ o = ops[k]
      BY <3>0, SMT
    <3>2. Undo(t, ops[end.last - i + 1]) = r
      BY SMT
    <3> HIDE DEF k, o
    <3>3. IsUndone(r, t, o, Q)
      BY <3>1, Undone
    <3> HIDE DEF r
    <3>4. /\ r.result = t.result
          /\ \A s \in Sem : r.val[s] = t.val[s] - Add(o, s)
          /\ \A s \in Sem : r.adj[s] = Short(t.adj[s] + UndoAdd(o, s))
      BY <3>3 DEF IsUndone
    <3>5. /\ t.result = end.result
          /\ \A s \in Sem : t.val[s] = st.val[s] + Part(ops, s)[k]
          /\ \A s \in Sem : t.adj[s] = Short(st.adj[s] - UndoPart(ops, s)[k])
      BY <3>0 DEF Backed
    <3>6. ASSUME NEW s \in Sem PROVE r.val[s] = st.val[s] + Part(ops, s)[k - 1]
      <4>1. Part(ops, s)[k] = Part(ops, s)[k - 1] + Add(o, s) /\ Part(ops, s)[k - 1] \in Int
        BY <3>0, <3>1, Parts, SMT
      <4>2. st.val[s] \in Int /\ Add(o, s) \in Int
        BY <3>1, SMT DEF IsStore, Add, Sembuf
      <4>3. r.val[s] = (st.val[s] + Part(ops, s)[k]) - Add(o, s)
        BY <3>4, <3>5, SMT
      <4> HIDE DEF Part
      <4> QED
        BY <4>1, <4>2, <4>3, SMT
    <3>7. ASSUME NEW s \in Sem PROVE r.adj[s] = Short(st.adj[s] - UndoPart(ops, s)[k - 1])
      <4> DEFINE a == st.adj[s]
                 b == UndoPart(ops, s)[k - 1]
                 c == UndoAdd(o, s)
      <4>1. UndoPart(ops, s)[k] = b + c /\ b \in Int
        BY <3>0, <3>1, Parts, SMT
      <4>2. a \in Shorts /\ c \in Int
        BY <3>1, SMT DEF IsStore, UndoAdd, Sembuf
      <4>3. r.adj[s] = Short(Short(a - (b + c)) + c)
        BY <3>4, <3>5, <4>1
      <4> HIDE DEF a, b, c
      <4>4. a \in Int
        BY <4>2, ShortId, SMT
      <4>5. a - (b + c) \in Int /\ (a - (b + c)) + c = a - b
        BY <4>1, <4>2, <4>4, SMT
      <4>6. Short(Short(a - (b + c)) + c) = Short((a - (b + c)) + c)
        BY <4>2, <4>5, ShortAdd
      <4> QED
        BY <4>3, <4>5, <4>6, SMT DEF a, b
    <3>8. Backed(st, ops, end, r, i)
      BY <3>0, <3>4, <3>5, <3>6, <3>7 DEF Backed
    <3> QED
      BY <3>2, <3>8
  <2> SUFFICES ASSUME NEW Q, NEW st, NEW ops \in Seq(Sembuf), NEW end \in Passes(Q), NoPid \in Q,
                      IsStore(st, Q), end.last \in 0..Len(ops), Reached(st, ops, end, Len(ops))
               PROVE  \A i \in 0..end.last : Backed(st, ops, end, Back(end, ops)[i], i)
    OBVIOUS
  <2> DEFINE f == Back(end, ops)
             n == end.last
             T == {i \in 0..n : Backed(st, ops, end, f[i], i)}
  <2>0. n \in Nat /\ end.last <= Len(ops)
    BY SMT
  <2>1. f \in [0..n -> Passes(Q)] /\ f[0] = end /\ \A i \in 1..n : f[i] = Undo(f[i-1], ops[n - i + 1])
    BY <2>0, BackIs
  <2> HIDE DEF f
  <2>2. 0 \in T
    <3>1. end.last - 0 = end.last
      BY <2>0, SMT
    <3>2. Backed(st, ops, end, f[0], 0)
      BY <2>1, <3>1 DEF Backed, Reached
    <3> QED
      BY <2>0, <3>2, SMT
  <2>3. ASSUME NEW i \in 1..n, i - 1 \in T PROVE i \in T
    <3>1. i \in 0..n /\ i - 1 \in 0..n /\ Backed(st, ops, end, f[i-1], i - 1)
      BY <2>3, SMT
    <3>2. f[i-1] \in Passes(Q)
      BY <2>1, <3>1, SMT
    <3>3. Backed(st, ops, end, f[i], i)
      BY <2>1, <3>1, <3>2, <2>BackStep
    <3> QED
      BY <3>1, <3>3
  <2> HIDE DEF T, n
  <2>4. \A i \in 0..n : i \in T
    BY <2>0, <2>2, <2>3, EachPass
  <2> QED
    BY <2>4 DEF T, f, n
<1> TAKE Q, st
<1> TAKE p \in Q, ops \in Seq(Sembuf), doUndo \in BOOLEAN
<1> HAVE /\ NoPid \in Q
         /\ IsStore(st, Q)
<1> DEFINE n == Len(ops)
           end == Forth(st, ops, p)[n]
           final == IF end.result = "ok" /\ ~doUndo THEN end ELSE Back(end, ops)[end.last]
           r == TryAtomicSemop(st, ops, p, doUndo)
<1>0. n \in Nat /\ n \in 0..n
  BY SMT
<1>1. end \in Passes(Q)
  <2>1. Forth(st, ops, p) \in [0..n -> Passes(Q)]
    BY ForthIs
  <2> QED
    BY <1>0, <2>1, SMT
<1>2. Reached(st, ops, end, n)
  BY <1>0, ForthReaches
<1>3. r = [val |-> final.val, pid |-> final.pid, adj |-> final.adj,
           result |-> IF end.result = "block" /\ ops[end.last].nowait THEN "EAGAIN" ELSE end.result]
  BY DEF TryAtomicSemop
<1>4. r.val = final.val /\ r.pid = final.pid /\ r.adj = final.adj
  BY <1>3, SMT
<1>5. r.result = IF end.result = "block" /\ ops[end.last].nowait THEN "EAGAIN" ELSE end.result
  BY <1>3, SMT
<1> SUFFICES IsTried(r, st, ops, doUndo, Q)
  BY DEF r
<1> HIDE DEF end, r
<1>6. st.val \in [Sem -> Int] /\ st.adj \in [Sem -> Shorts]
  BY SMT DEF IsStore
<1>7. r.result = Expected(st.val, ops)
  BY <1>2, <1>5, <1>6, ForthAnswers
<1>8. r.result = "ok" <=> end.result = "ok"
  BY <1>5, SMT
<1>9. end.last \in 0..n
  BY <1>2 DEF Reached
<1>10. CASE r.result = "ok" /\ ~doUndo
  <2>1. final = end /\ end.last = n
    BY <1>2, <1>8, <1>10 DEF Reached
  <2>2. IsStore(r, Q)
    BY <1>1, <1>4, <2>1, SMT DEF Passes, IsStore
  <2>3. \A s \in Sem : r.val[s] = st.val[s] + Delta(ops, s) /\ r.adj[s] = Short(st.adj[s] - UndoDelta(ops, s))
    <3>1. \A s \in Sem : Delta(ops, s) = Part(ops, s)[n] /\ UndoDelta(ops, s) = UndoPart(ops, s)[n]
      BY Parts
    <3> QED
      BY <1>2, <1>4, <2>1, <3>1 DEF Reached
  <2> QED
    BY <1>7, <1>10, <2>2, <2>3 DEF IsTried
<1>11. CASE ~(r.result = "ok" /\ ~doUndo)
  <2> DEFINE m == end.last
             b == Back(end, ops)[m]
  <2>1. final = b
    BY <1>8, <1>11
  <2>2. m \in 0..m /\ m \in Nat /\ m <= n /\ m - m = 0
    BY <1>0, <1>9, SMT
  <2>3. b \in Passes(Q)
    <3>1. Back(end, ops) \in [0..m -> Passes(Q)]
      BY <1>1, <2>2, BackIs
    <3> QED
      BY <2>2, <3>1, SMT
  <2>4. Backed(st, ops, end, b, m)
    BY <1>1, <1>2, <1>9, <2>2, <1>BackReaches
  <2> HIDE DEF m, b
  <2>5. IsStore(r, Q)
    BY <1>4, <2>1, <2>3, SMT DEF Passes, IsStore
  <2>6. \A s \in Sem : r.val[s] = st.val[s] + Part(ops, s)[0] /\ r.adj[s] = Short(st.adj[s] - UndoPart(ops, s)[0])
    BY <1>4, <2>1, <2>2, <2>4 DEF Backed, m
  <2>7. \A s \in Sem : Part(ops, s)[0] = 0 /\ UndoPart(ops, s)[0] = 0
    BY Parts
  <2>8. \A s \in Sem : st.val[s] + 0 = st.val[s] /\ st.adj[s] \in Shorts
    BY <1>6, SMT
  <2>9. \A s \in Sem : Short(st.adj[s] - 0) = st.adj[s]
    <3>1. 0 \in Int
      BY SMT
    <3> QED
      BY <2>8, <3>1, ShortLess
  <2>10. \A s \in Sem : r.val[s] = st.val[s] /\ r.adj[s] = st.adj[s]
    BY <2>6, <2>7, <2>8, <2>9
  <2> QED
    BY <1>7, <1>11, <2>5, <2>10 DEF IsTried
<1> QED
  BY <1>10, <1>11

-----------------------------------------------------------------------------
(* sempid.  A semaphore an array names at most once, not in a wait for     *)
(* zero that fails, gets the caller's pid on the way forth and loses it on *)
(* the way back.                                                           *)
Once(v, ops, s) ==
    /\ \A i, j \in 1..Len(ops) : ops[i].num = s /\ ops[j].num = s => i = j
    /\ \A i \in 1..Len(ops) : ops[i].num = s => ops[i].op # 0 \/ v[s] = 0

Names(ops, s, a, b) == \E j \in a..b : ops[j].num = s

PidForth(st, ops, p, t) ==
    \A s \in Sem :
        /\ t.result = "ok" /\ Names(ops, s, 1, t.last) => LastPid(t.pid[s]) = p
        /\ ~Names(ops, s, 1, t.last) => t.pid[s] = st.pid[s] /\ t.val[s] = st.val[s]
        /\ Once(st.val, ops, s) /\ Names(ops, s, 1, t.last) => t.pid[s] = Push(st.pid[s], p)

LEMMA NamesNext ==
  ASSUME NEW ops, NEW s, NEW i \in Nat \ {0}
  PROVE  Names(ops, s, 1, i) <=> Names(ops, s, 1, i - 1) \/ ops[i].num = s
<1>1. \A j : j \in 1..i <=> j \in 1..(i - 1) \/ j = i
  BY SMT
<1> QED
  BY <1>1 DEF Names

PidBack(st, ops, p, end, t, i) ==
    \A s \in Sem :
        /\ ~Names(ops, s, 1, end.last) => t.pid[s] = st.pid[s]
        /\ Once(st.val, ops, s) /\ Names(ops, s, 1, end.last - i) => t.pid[s] = Push(st.pid[s], p)
        /\ Once(st.val, ops, s) /\ Names(ops, s, end.last - i + 1, end.last)
             => LastPid(t.pid[s]) = LastPid(st.pid[s])

PidsTried(r, st, ops, p, doUndo) ==
    \A s \in Sem :
        /\ r.result = "ok" /\ ~doUndo /\ Names(ops, s, 1, Len(ops)) => LastPid(r.pid[s]) = p
        /\ ~(r.result = "ok" /\ ~doUndo /\ Names(ops, s, 1, Len(ops))) /\ Once(st.val, ops, s)
             => LastPid(r.pid[s]) = LastPid(st.pid[s])

-----------------------------------------------------------------------------
(* Sequences of calls on one set: try_atomic_semop() keeps the store a     *)
(* store.                                                                  *)
Pids == Pid \cup {NoPid}

StoreType ==
    /\ store.val \in [Sem -> Int] /\ store.pid \in [Sem -> Pids \X Pids]
    /\ store.adj \in [Pid -> [Sem -> Shorts]]

LEMMA StoreIs ==
  ASSUME StoreType, NEW p \in Pid
  PROVE  /\ IsStore(Store(p), Pids) /\ p \in Pids /\ NoPid \in Pids
         /\ Store(p).val = store.val /\ Store(p).pid = store.pid /\ Store(p).adj = store.adj[p]
BY SMT DEF StoreType, IsStore, Store, Pids

LEMMA StoreInitType == StoreInit => StoreType
<1> SUFFICES ASSUME StoreInit PROVE StoreType
  BY SMT
<1>1. SEMVMX \in Nat /\ 0 \in Shorts /\ NoPid \in Pids
  BY SEMVMXAssumption, SMT DEF Shorts, Pids
<1>2. \A v : v \in [Sem -> 0..SEMVMX] => v \in [Sem -> Int]
  BY SMT
<1>3. [s \in Sem |-> <<NoPid, NoPid>>] \in [Sem -> Pids \X Pids]
  BY <1>1, SMT
<1>4. [p \in Pid |-> [s \in Sem |-> 0]] \in [Pid -> [Sem -> Shorts]]
  BY <1>1, SMT
<1>5. /\ store.val \in [Sem -> 0..SEMVMX] /\ store.pid = [s \in Sem |-> <<NoPid, NoPid>>]
      /\ store.adj = [p \in Pid |-> [s \in Sem |-> 0]]
  BY SMT DEF StoreInit
<1> QED
  BY <1>2, <1>3, <1>4, <1>5 DEF StoreType

LEMMA StoreNextType ==
  ASSUME LoopLaw, AllNumbers, StoreType, StoreNext PROVE StoreType'
<1>1. PICK ops \in Ops, p \in Pid, doUndo \in BOOLEAN : Call(ops, p, doUndo)
  BY DEF StoreNext
<1>2. ops \in Seq(Sembuf)
  BY OpsAssumption, SMT
<1> DEFINE r == TryAtomicSemop(Store(p), ops, p, doUndo)
<1>3. IsStore(r, Pids)
  <2>1. IsTried(r, Store(p), ops, doUndo, Pids)
    BY <1>2, StoreIs, TryIs
  <2> HIDE DEF r
  <2> QED
    BY <2>1 DEF IsTried
<1>4. store' = [val |-> r.val, pid |-> r.pid, adj |-> [store.adj EXCEPT ![p] = r.adj]]
  BY <1>1 DEF Call
<1> HIDE DEF r
<1>5. [store.adj EXCEPT ![p] = r.adj] \in [Pid -> [Sem -> Shorts]]
  BY <1>3, SMT DEF IsStore, StoreType
<1> QED
  BY <1>3, <1>4, <1>5, SMT DEF IsStore, StoreType

LEMMA StoreAllOrNothing ==
  ASSUME LoopLaw, AllNumbers, StoreType PROVE AllOrNothing
<1> SUFFICES ASSUME NEW ops \in Ops, NEW p \in Pid, NEW doUndo \in BOOLEAN
             PROVE  LET r == TryAtomicSemop(Store(p), ops, p, doUndo) IN
                    /\ r.result = Expected(store.val, ops)
                    /\ \A s \in Sem :
                         /\ r.val[s] = store.val[s] + (IF r.result = "ok" /\ ~doUndo THEN Delta(ops, s) ELSE 0)
                         /\ r.adj[s] = IF r.result = "ok" /\ ~doUndo
                                         THEN Short(store.adj[p][s] - UndoDelta(ops, s)) ELSE store.adj[p][s]
  BY DEF AllOrNothing
<1> DEFINE r == TryAtomicSemop(Store(p), ops, p, doUndo)
<1>1. ops \in Seq(Sembuf)
  BY OpsAssumption, SMT
<1>2. IsTried(r, Store(p), ops, doUndo, Pids)
  BY <1>1, StoreIs, TryIs
<1> HIDE DEF r
<1>3. Store(p).val = store.val /\ Store(p).adj = store.adj[p]
  BY StoreIs
<1>4. \A s \in Sem : store.val[s] + 0 = store.val[s]
  BY SMT DEF StoreType
<1>5. /\ r.result = Expected(store.val, ops)
      /\ \A s \in Sem :
           /\ r.val[s] = store.val[s] + (IF r.result = "ok" /\ ~doUndo THEN Delta(ops, s) ELSE 0)
           /\ r.adj[s] = IF r.result = "ok" /\ ~doUndo
                           THEN Short(store.adj[p][s] - UndoDelta(ops, s)) ELSE store.adj[p][s]
  BY <1>2, <1>3, <1>4 DEF IsTried
<1> QED
  BY <1>5 DEF r

LEMMA StorePids ==
  ASSUME FiniteLaws, LoopLaw
  PROVE    StoreType
           => PidOfLastOperation
<1>TryPids. \A Q, st :
            \A p \in Q, ops \in Seq(Sembuf), doUndo \in BOOLEAN :
              /\ AllNumbers
              /\ NoPid \in Q
              /\ IsStore(st, Q)
              => PidsTried(TryAtomicSemop(st, ops, p, doUndo), st, ops, p, doUndo)
  <2>PidForthReaches. \A Q, st :
                      \A p \in Q, ops \in Seq(Sembuf) :
                        /\ AllNumbers
                        /\ IsStore(st, Q)
                        => PidForth(st, ops, p, Forth(st, ops, p)[Len(ops)])
    <3>PidForthStep. ASSUME NEW Q, NEW p \in Q, NEW st, IsStore(st, Q), NEW ops \in Seq(Sembuf),
                            NEW i \in 1..Len(ops), NEW t \in Passes(Q), Reached(st, ops, t, i - 1),
                            PidForth(st, ops, p, t)
                     PROVE  PidForth(st, ops, p, PassForth(t, ops[i], p, i))
      <4> USE <3>PidForthStep
      <4>0. i \in Nat \ {0} /\ i - 1 \in Nat /\ ops[i] \in Sembuf
        BY SMT
      <4>1. CASE t.result # "ok"
        BY <4>1 DEF PassForth
      <4>2. CASE t.result = "ok"
        <5> DEFINE o == ops[i]
                   u == Perform(t, o, p)
                   r == PassForth(t, o, p, i)
        <5>3. o.num \in Sem /\ o.op \in Int /\ o \in Sembuf /\ o = ops[i]
          BY <4>0, SMT DEF Sembuf
        <5> HIDE DEF o
        <5>1. /\ u \in Passes(Q) /\ u.result = Answer(o, t.val[o.num])
              /\ \A s \in Sem : u.val[s] = t.val[s] + Add(o, s)
              /\ \A s \in Sem : u.pid[s] =
                   IF o.num = s /\ ~(o.op = 0 /\ t.val[s] # 0) THEN Push(t.pid[s], p) ELSE t.pid[s]
          <6>1. IsPerformed(u, t, o, p, Q)
            BY <5>3, Performed
          <6> HIDE DEF u
          <6> QED
            BY <6>1 DEF IsPerformed
        <5>2. r = [u EXCEPT !.last = i]
          BY <4>2 DEF PassForth
        <5> HIDE DEF u, r
        <5>4. r.val = u.val /\ r.pid = u.pid /\ r.result = u.result /\ r.last = i
          BY <5>1, <5>2, SMT DEF Passes
        <5>5. t.last = i - 1
          BY <4>2 DEF Reached
        <5>6. ASSUME NEW s \in Sem
              PROVE  /\ r.result = "ok" /\ Names(ops, s, 1, i) => LastPid(r.pid[s]) = p
                     /\ ~Names(ops, s, 1, i) => r.pid[s] = st.pid[s] /\ r.val[s] = st.val[s]
                     /\ Once(st.val, ops, s) /\ Names(ops, s, 1, i) => r.pid[s] = Push(st.pid[s], p)
          <6>1. /\ Names(ops, s, 1, i - 1) => LastPid(t.pid[s]) = p
                /\ ~Names(ops, s, 1, i - 1) => t.pid[s] = st.pid[s] /\ t.val[s] = st.val[s]
                /\ Once(st.val, ops, s) /\ Names(ops, s, 1, i - 1) => t.pid[s] = Push(st.pid[s], p)
            BY <4>2, <5>5 DEF PidForth
          <6>2. Names(ops, s, 1, i) <=> Names(ops, s, 1, i - 1) \/ o.num = s
            BY <4>0, <5>3, NamesNext
          <6>3. CASE o.num = s
            <7>1. Names(ops, s, 1, i)
              BY <6>2, <6>3
            <7>2. ASSUME r.result = "ok" PROVE LastPid(r.pid[s]) = p
              <8>1. ~(o.op = 0 /\ t.val[s] # 0)
                <9>1. Answer(o, t.val[s]) = "ok"
                  BY <5>1, <5>4, <6>3, <7>2
                <9> QED
                  BY <9>1, SMT DEF Answer
              <8>2. r.pid[s] = Push(t.pid[s], p)
                BY <5>1, <5>4, <6>3, <8>1
              <8> QED
                BY <8>2, SMT DEF Push, LastPid
            <7>3. ASSUME Once(st.val, ops, s) PROVE r.pid[s] = Push(st.pid[s], p)
              <8>1. ~Names(ops, s, 1, i - 1)
                <9>1. \A j \in 1..(i - 1) : j \in 1..Len(ops) /\ j # i
                  BY <4>0, SMT
                <9> QED
                  BY <5>3, <6>3, <7>3, <9>1 DEF Names, Once
              <8>2. o.op # 0 \/ st.val[s] = 0
                BY <5>3, <6>3, <7>3 DEF Once
              <8> QED
                BY <5>1, <5>4, <6>1, <6>3, <8>1, <8>2
            <7> QED
              BY <7>1, <7>2, <7>3
          <6>4. CASE o.num # s
            <7>1. r.pid[s] = t.pid[s]
              BY <5>1, <5>4, <6>4
            <7>2. r.val[s] = t.val[s]
              <8>1. t.val[s] \in Int /\ Add(o, s) = 0
                BY <6>4, SMT DEF Passes, Add
              <8>2. r.val[s] = t.val[s] + Add(o, s)
                BY <5>1, <5>4
              <8> QED
                BY <8>1, <8>2, SMT
            <7> QED
              BY <6>1, <6>2, <6>4, <7>1, <7>2
          <6> QED
            BY <6>3, <6>4
        <5>7. PidForth(st, ops, p, r)
          BY <5>4, <5>6 DEF PidForth
        <5> QED
          BY <5>7, SMT DEF r, o
      <4> QED
        BY <4>1, <4>2
    <3> SUFFICES ASSUME NEW Q, NEW st, NEW p \in Q, NEW ops \in Seq(Sembuf), AllNumbers,
                        IsStore(st, Q)
                 PROVE  PidForth(st, ops, p, Forth(st, ops, p)[Len(ops)])
      OBVIOUS
    <3> DEFINE f == Forth(st, ops, p)
               n == Len(ops)
               T == {i \in 0..n : PidForth(st, ops, p, f[i])}
    <3>0. n \in Nat /\ n \in 0..n
      BY SMT
    <3>1. f \in [0..n -> Passes(Q)] /\ f[0] = Start(st) /\ \A i \in 1..n : f[i] = PassForth(f[i-1], ops[i], p, i)
      BY ForthIs
    <3>5. \A i \in 0..n : Reached(st, ops, f[i], i)
      BY ForthReaches
    <3> HIDE DEF f
    <3>2. 0 \in T
      <4>1. /\ f[0].last = 0 /\ f[0].pid = st.pid /\ f[0].val = st.val
        BY <3>1, SMT DEF Start
      <4>2. \A s : ~Names(ops, s, 1, 0)
        BY SMT DEF Names
      <4>3. PidForth(st, ops, p, f[0])
        BY <4>1, <4>2 DEF PidForth
      <4> QED
        BY <3>0, <4>3, SMT
    <3>3. ASSUME NEW i \in 1..n, i - 1 \in T PROVE i \in T
      <4>1. i \in 0..n /\ i - 1 \in 0..n /\ PidForth(st, ops, p, f[i-1])
        BY <3>3, SMT
      <4>2. f[i-1] \in Passes(Q)
        BY <3>1, <4>1, SMT
      <4>3. Reached(st, ops, f[i-1], i - 1)
        BY <3>5, <4>1
      <4>4. PidForth(st, ops, p, f[i])
        BY <3>1, <4>1, <4>2, <4>3, <3>PidForthStep
      <4> QED
        BY <4>1, <4>4
    <3> HIDE DEF T, n
    <3>4. \A i \in 0..n : i \in T
      BY <3>0, <3>2, <3>3, EachPass
    <3> QED
      BY <3>0, <3>4 DEF T, f, n
  <2>PidBackReaches. \A Q, st :
                     \A p \in Q, ops \in Seq(Sembuf), end \in Passes(Q) :
                       /\ AllNumbers
                       /\ NoPid \in Q
                       /\ IsStore(st, Q)
                       /\ end.last \in 0..Len(ops)
                       /\ PidForth(st, ops, p, end)
                       => PidBack(st, ops, p, end, Back(end, ops)[end.last], end.last)
    <3>PidBackStep. ASSUME NEW Q, NoPid \in Q, NEW p \in Q, NEW st, IsStore(st, Q),
                           NEW ops \in Seq(Sembuf), NEW end, end.last \in 0..Len(ops),
                           NEW i \in 1..end.last, NEW t \in Passes(Q),
                           PidBack(st, ops, p, end, t, i - 1)
                    PROVE  PidBack(st, ops, p, end, Undo(t, ops[end.last - i + 1]), i)
      <4> USE <3>PidBackStep
      <4> DEFINE k == end.last - i + 1
                 o == ops[k]
                 r == Undo(t, o)
      <4>0. /\ Len(ops) \in Nat /\ end.last \in Int /\ i \in Int /\ k \in Int /\ k \in 1..end.last
            /\ k \in 1..Len(ops) /\ k \in Nat \ {0}
            /\ end.last - (i - 1) = k /\ end.last - i = k - 1 /\ end.last - (i - 1) + 1 = k + 1
            /\ end.last - i + 1 = k
        BY SMT
      <4>1. o \in Sembuf /\ o = ops[k]
        BY <4>0, SMT
      <4>2. Undo(t, ops[end.last - i + 1]) = r
        BY SMT
      <4> HIDE DEF k, o
      <4>3. IsUndone(r, t, o, Q)
        BY <4>1, Undone
      <4> HIDE DEF r
      <4>4. \A s \in Sem : r.pid[s] = IF o.num = s THEN Pop(t.pid[s]) ELSE t.pid[s]
        BY <4>3 DEF IsUndone
      <4>5. ASSUME NEW s \in Sem
            PROVE  /\ ~Names(ops, s, 1, end.last) => r.pid[s] = st.pid[s]
                   /\ Once(st.val, ops, s) /\ Names(ops, s, 1, k - 1) => r.pid[s] = Push(st.pid[s], p)
                   /\ Once(st.val, ops, s) /\ Names(ops, s, k, end.last)
                        => LastPid(r.pid[s]) = LastPid(st.pid[s])
        <5>1. /\ ~Names(ops, s, 1, end.last) => t.pid[s] = st.pid[s]
              /\ Once(st.val, ops, s) /\ Names(ops, s, 1, k) => t.pid[s] = Push(st.pid[s], p)
              /\ Once(st.val, ops, s) /\ Names(ops, s, k + 1, end.last)
                   => LastPid(t.pid[s]) = LastPid(st.pid[s])
          BY <4>0 DEF PidBack
        <5>2. Names(ops, s, 1, k) <=> Names(ops, s, 1, k - 1) \/ o.num = s
          BY <4>0, <4>1, NamesNext
        <5>3. Names(ops, s, k, end.last) <=> Names(ops, s, k + 1, end.last) \/ o.num = s
          <6>1. \A j : j \in k..end.last <=> j \in (k + 1)..end.last \/ j = k
            BY <4>0, SMT
          <6> QED
            BY <4>1, <6>1 DEF Names
        <5>4. CASE o.num = s
          <6>1. Names(ops, s, 1, end.last)
            BY <4>0, <4>1, <5>4 DEF Names
          <6>2. Once(st.val, ops, s) => ~Names(ops, s, 1, k - 1)
            <7>1. \A j \in 1..(k - 1) : j \in 1..Len(ops) /\ j # k
              BY <4>0, SMT
            <7> QED
              BY <4>0, <4>1, <5>4, <7>1 DEF Names, Once
          <6>3. Once(st.val, ops, s) => LastPid(r.pid[s]) = LastPid(st.pid[s])
            <7>1. Once(st.val, ops, s) => r.pid[s] = Pop(Push(st.pid[s], p))
              BY <4>4, <5>1, <5>2, <5>4
            <7>2. LastPid(Pop(Push(st.pid[s], p))) = LastPid(st.pid[s])
              BY SMT DEF LastPid, Pop, Push
            <7> QED
              BY <7>1, <7>2
          <6> QED
            BY <6>1, <6>2, <6>3
        <5>5. CASE o.num # s
          BY <4>4, <5>1, <5>2, <5>3, <5>5
        <5> QED
          BY <5>4, <5>5
      <4>6. PidBack(st, ops, p, end, r, i)
        BY <4>0, <4>5 DEF PidBack
      <4> QED
        BY <4>2, <4>6
    <3> TAKE Q, st
    <3> TAKE p \in Q, ops \in Seq(Sembuf), end \in Passes(Q)
    <3> HAVE /\ AllNumbers
             /\ NoPid \in Q
             /\ IsStore(st, Q)
             /\ end.last \in 0..Len(ops)
             /\ PidForth(st, ops, p, end)
    <3> DEFINE f == Back(end, ops)
               n == end.last
               T == {i \in 0..n : PidBack(st, ops, p, end, f[i], i)}
    <3>0. n \in Nat /\ n \in 0..n /\ end.last <= Len(ops)
      BY SMT
    <3>1. f \in [0..n -> Passes(Q)] /\ f[0] = end /\ \A i \in 1..n : f[i] = Undo(f[i-1], ops[n - i + 1])
      BY <3>0, BackIs
    <3> HIDE DEF f
    <3>2. 0 \in T
      <4>1. end.last - 0 = end.last /\ (end.last + 1)..end.last = {}
        BY <3>0, SMT
      <4>2. \A s \in Sem : ~Names(ops, s, end.last - 0 + 1, end.last)
        BY <4>1 DEF Names
      <4>3. PidBack(st, ops, p, end, f[0], 0)
        BY <3>1, <4>1, <4>2 DEF PidBack, PidForth
      <4> QED
        BY <3>0, <4>3, SMT
    <3>3. ASSUME NEW i \in 1..n, i - 1 \in T PROVE i \in T
      <4>1. i \in 0..n /\ i - 1 \in 0..n /\ PidBack(st, ops, p, end, f[i-1], i - 1)
        BY <3>3, SMT
      <4>2. f[i-1] \in Passes(Q)
        BY <3>1, <4>1, SMT
      <4>4. PidBack(st, ops, p, end, Undo(f[i-1], ops[end.last - i + 1]), i)
        BY <4>1, <4>2, <3>PidBackStep
      <4>3. PidBack(st, ops, p, end, f[i], i)
        BY <3>1, <4>4
      <4> QED
        BY <4>1, <4>3
    <3> HIDE DEF T, n
    <3>4. \A i \in 0..n : i \in T
      BY <3>0, <3>2, <3>3, EachPass
    <3> QED
      BY <3>0, <3>4 DEF T, f, n
  <2> TAKE Q, st
  <2> TAKE p \in Q, ops \in Seq(Sembuf), doUndo \in BOOLEAN
  <2> HAVE /\ AllNumbers
           /\ NoPid \in Q
           /\ IsStore(st, Q)
  <2> DEFINE n == Len(ops)
             end == Forth(st, ops, p)[n]
             final == IF end.result = "ok" /\ ~doUndo THEN end ELSE Back(end, ops)[end.last]
             r == TryAtomicSemop(st, ops, p, doUndo)
  <2>0. n \in Nat /\ n \in 0..n
    BY SMT
  <2>1. end \in Passes(Q)
    <3>1. Forth(st, ops, p) \in [0..n -> Passes(Q)]
      BY ForthIs
    <3> QED
      BY <2>0, <3>1, SMT
  <2>2. Reached(st, ops, end, n) /\ PidForth(st, ops, p, end)
    BY <2>0, ForthReaches, <2>PidForthReaches
  <2>3. r = [val |-> final.val, pid |-> final.pid, adj |-> final.adj,
             result |-> IF end.result = "block" /\ ops[end.last].nowait THEN "EAGAIN" ELSE end.result]
    BY DEF TryAtomicSemop
  <2>4. r.pid = final.pid
    BY <2>3, SMT
  <2>5. r.result = IF end.result = "block" /\ ops[end.last].nowait THEN "EAGAIN" ELSE end.result
    BY <2>3, SMT
  <2> SUFFICES PidsTried(r, st, ops, p, doUndo)
    BY DEF r
  <2> HIDE DEF end, r
  <2>8. r.result = "ok" <=> end.result = "ok"
    BY <2>5, SMT
  <2>9. end.last \in 0..n /\ (end.result = "ok" => end.last = n)
    BY <2>2 DEF Reached
  <2>10. CASE r.result = "ok" /\ ~doUndo
    <3>1. final = end /\ end.last = n /\ end.result = "ok"
      BY <2>8, <2>9, <2>10
    <3> QED
      BY <2>2, <2>4, <2>10, <3>1 DEF PidForth, PidsTried
  <2>11. CASE ~(r.result = "ok" /\ ~doUndo)
    <3> DEFINE m == end.last
               b == Back(end, ops)[m]
    <3>1. r.pid = b.pid
      BY <2>4, <2>8, <2>11
    <3>2. PidBack(st, ops, p, end, b, m)
      BY <2>1, <2>2, <2>9, <2>PidBackReaches
    <3>3. m - m + 1 = 1
      BY <2>9, SMT
    <3> HIDE DEF b
    <3>4. \A s \in Sem : Once(st.val, ops, s) => LastPid(r.pid[s]) = LastPid(st.pid[s])
      BY <3>1, <3>2, <3>3 DEF PidBack
    <3> QED
      BY <2>11, <3>4 DEF PidsTried
  <2> QED
    BY <2>10, <2>11
<1> SUFFICES ASSUME StoreType
             PROVE  PidOfLastOperation
  OBVIOUS
<1>0. AllNumbers
  BY DEF FiniteLaws
<1> SUFFICES ASSUME NEW ops \in Ops, NEW p \in Pid, NEW doUndo \in BOOLEAN, NEW s \in Sem
             PROVE  LET r == TryAtomicSemop(Store(p), ops, p, doUndo) IN
                    IF r.result = "ok" /\ ~doUndo /\ Named(ops, s) # {}
                      THEN LastPid(r.pid[s]) = p
                      ELSE Cardinality(Named(ops, s)) <= 1
                           /\ (\A i \in Named(ops, s) : ops[i].op # 0 \/ store.val[s] = 0)
                              => LastPid(r.pid[s]) = LastPid(store.pid[s])
  BY DEF PidOfLastOperation
<1> DEFINE r == TryAtomicSemop(Store(p), ops, p, doUndo)
<1>1. ops \in Seq(Sembuf) /\ DOMAIN ops = 1..Len(ops) /\ Len(ops) \in Nat
  BY OpsAssumption, SMT
<1>2. PidsTried(r, Store(p), ops, p, doUndo)
  BY <1>0, <1>1, StoreIs, <1>TryPids
<1> HIDE DEF r
<1>3. Store(p).val = store.val /\ Store(p).pid = store.pid
  BY StoreIs
<1>4. Named(ops, s) # {} <=> Names(ops, s, 1, Len(ops))
  BY <1>1 DEF Named, Names
<1>5. ASSUME Cardinality(Named(ops, s)) <= 1, NEW i \in Named(ops, s), NEW j \in Named(ops, s)
      PROVE  i = j
  <2> SUFFICES ASSUME i # j PROVE FALSE
    BY SMT
  <2>1. IsFiniteSet(1..Len(ops)) /\ Named(ops, s) \subseteq 1..Len(ops)
    <3>1. 1 \in Int /\ Len(ops) \in Int
      BY <1>1, SMT
    <3> QED
      BY <1>1, <3>1 DEF FiniteLaws, IntervalFinite, Named
  <2>2. IsFiniteSet(Named(ops, s))
    BY <2>1 DEF FiniteLaws, SubsetSize
  <2>3. IsFiniteSet({i}) /\ Cardinality({i}) = 1
    BY DEF FiniteLaws, SingletonSize
  <2>4. Cardinality({i} \cup {j}) = Cardinality({i}) + 1
    BY <2>3 DEF FiniteLaws, AddSize
  <2>5. Cardinality({i} \cup {j}) <= Cardinality(Named(ops, s))
    <3>1. {i} \cup {j} \subseteq Named(ops, s)
      BY SMT
    <3> QED
      BY <2>2, <3>1 DEF FiniteLaws, SubsetSize
  <2>6. Cardinality(Named(ops, s)) \in Nat
    BY <2>2 DEF FiniteLaws, SizeIsNat
  <2> QED
    BY <1>5, <2>3, <2>4, <2>5, <2>6, SMT
<1>6. Cardinality(Named(ops, s)) <= 1 /\ (\A i \in Named(ops, s) : ops[i].op # 0 \/ store.val[s] = 0)
        => Once(store.val, ops, s)
  BY <1>1, <1>5 DEF Named, Once
<1>7. IF r.result = "ok" /\ ~doUndo /\ Named(ops, s) # {}
        THEN LastPid(r.pid[s]) = p
        ELSE Cardinality(Named(ops, s)) <= 1
             /\ (\A i \in Named(ops, s) : ops[i].op # 0 \/ store.val[s] = 0)
                => LastPid(r.pid[s]) = LastPid(store.pid[s])
  BY <1>2, <1>3, <1>4, <1>6 DEF PidsTried
<1> QED
  BY <1>7 DEF r

-----------------------------------------------------------------------------
(***************************************************************************)
(* What an array does, by its kind.                                        *)
(***************************************************************************)
LEMMA ExpectedIs ==
  ASSUME LoopLaw, AllNumbers, NEW v \in [Sem -> Int], NEW ops \in Seq(Sembuf)
  PROVE  /\ Expected(v, ops) \in {"ok", "block", "EAGAIN", "ERANGE"}
         /\ Expected(v, ops) = "ok" <=> \A i \in 1..Len(ops) : Found(v, ops, i) = "ok"
         /\ Expected(v, ops) = "block" => \E i \in 1..Len(ops) : Found(v, ops, i) = "block"
<1> DEFINE Q == {NoPid}
           st == [val |-> v, pid |-> [s \in Sem |-> <<NoPid, NoPid>>], adj |-> [s \in Sem |-> 0]]
           n == Len(ops)
           end == Forth(st, ops, NoPid)[n]
<1>1. n \in Nat /\ n \in 0..n /\ NoPid \in Q /\ st.val = v
  BY SMT
<1>2. IsStore(st, Q)
  <2>1. 0 \in Shorts
    BY SEMVMXAssumption, SMT DEF Shorts
  <2> QED
    BY <2>1, SMT DEF IsStore
<1> HIDE DEF st, Q
<1>3. end \in Passes(Q) /\ Reached(st, ops, end, n)
  <2>1. Forth(st, ops, NoPid) \in [0..n -> Passes(Q)]
    BY <1>1, <1>2, ForthIs
  <2>2. end \in Passes(Q)
    BY <1>1, <2>1, SMT
  <2> QED
    BY <1>1, <1>2, <2>2, ForthReaches
<1>4. end.result \in {"ok", "block", "ERANGE"}
  BY <1>3, SMT DEF Passes
<1> HIDE DEF end
<1>5. Expected(v, ops) = IF end.result = "block" /\ ops[end.last].nowait THEN "EAGAIN" ELSE end.result
  BY <1>1, <1>2, <1>3, ForthAnswers DEF IsStore
<1>6. /\ end.last \in 0..n /\ (end.result = "ok" => end.last = n)
      /\ \A j \in 1..end.last : end.result = "ok" \/ j < end.last => Found(v, ops, j) = "ok"
      /\ end.result # "ok" => end.last > 0 /\ end.result = Found(v, ops, end.last)
  BY <1>1, <1>3 DEF Reached
<1>7. end.result # "ok" => end.last \in 1..n
  BY <1>1, <1>6, SMT
<1>8. end.result = "ok" <=> \A i \in 1..n : Found(v, ops, i) = "ok"
  BY <1>6, <1>7
<1>9. /\ Expected(v, ops) \in {"ok", "block", "EAGAIN", "ERANGE"}
      /\ Expected(v, ops) = "ok" <=> end.result = "ok"
      /\ Expected(v, ops) = "block" => end.result = "block"
  BY <1>4, <1>5, SMT
<1>10. end.result = "block" => end.result # "ok"
  BY SMT
<1> QED
  BY <1>6, <1>7, <1>8, <1>9, <1>10

(* An array that decreases nothing adds nothing negative, one that alters  *)
(* nothing adds nothing; an array without SEM_UNDO owes nothing.           *)
LEMMA KindsAdd ==
  ASSUME LoopLaw, AllNumbers, NEW ops \in Seq(Sembuf), NEW s
  PROVE  /\ ~Decrease(ops) => \A i \in 0..Len(ops) : Part(ops, s)[i] >= 0
         /\ ~Alter(ops) => \A i \in 0..Len(ops) : Part(ops, s)[i] = 0
         /\ ~Undos(ops) => \A i \in 0..Len(ops) : UndoPart(ops, s)[i] = 0
<1> DEFINE n == Len(ops)
           P == Part(ops, s)
           U == UndoPart(ops, s)
           T == {i \in 0..n : P[i] >= 0}
           Z == {i \in 0..n : P[i] = 0}
           V == {i \in 0..n : U[i] = 0}
<1>1. n \in Nat /\ n \in 0..n /\ DOMAIN ops = 1..n
  BY SMT
<1>2. /\ P \in [0..n -> Int] /\ P[0] = 0 /\ \A i \in 1..n : P[i] = P[i-1] + Add(ops[i], s)
      /\ U \in [0..n -> Int] /\ U[0] = 0 /\ \A i \in 1..n : U[i] = U[i-1] + UndoAdd(ops[i], s)
  BY Parts
<1> HIDE DEF P, U
<1>3. 0 \in T /\ 0 \in Z /\ 0 \in V
  BY <1>1, <1>2, SMT
<1>4. \A i \in 1..n : /\ i \in 0..n /\ i - 1 \in 0..n /\ ops[i].op \in Int
                      /\ P[i-1] \in Int /\ P[i] = P[i-1] + Add(ops[i], s)
                      /\ U[i-1] \in Int /\ U[i] = U[i-1] + UndoAdd(ops[i], s)
  <2> SUFFICES ASSUME NEW i \in 1..n
               PROVE  /\ i \in 0..n /\ i - 1 \in 0..n /\ ops[i].op \in Int
                      /\ P[i-1] \in Int /\ P[i] = P[i-1] + Add(ops[i], s)
                      /\ U[i-1] \in Int /\ U[i] = U[i-1] + UndoAdd(ops[i], s)
    OBVIOUS
  <2>1. i \in 0..n /\ i - 1 \in 0..n /\ ops[i] \in Sembuf
    BY SMT
  <2>2. ops[i].op \in Int
    BY <2>1, SMT DEF Sembuf
  <2> QED
    BY <1>2, <2>1, <2>2, SMT
<1>5. ASSUME ~Decrease(ops) PROVE \A i \in 0..n : P[i] >= 0
  <2>1. \A i \in 1..n : i - 1 \in T => i \in T
    <3>1. \A i \in 1..n : ~(ops[i].op < 0)
      BY <1>1, <1>5 DEF Decrease
    <3> QED
      BY <1>4, <3>1, SMT DEF Add
  <2> HIDE DEF T, n
  <2>2. \A i \in 0..n : i \in T
    BY <1>1, <1>3, <2>1, EachPass
  <2> QED
    BY <2>2 DEF T
<1>6. ASSUME ~Alter(ops) PROVE \A i \in 0..n : P[i] = 0
  <2>1. \A i \in 1..n : i - 1 \in Z => i \in Z
    <3>1. \A i \in 1..n : ops[i].op = 0
      BY <1>1, <1>6 DEF Alter
    <3>2. ASSUME NEW i \in 1..n, i - 1 \in Z PROVE i \in Z
      <4>1. Add(ops[i], s) = 0
        BY <3>1 DEF Add
      <4>2. i \in 0..n /\ P[i-1] = 0 /\ P[i] = P[i-1] + 0
        BY <1>4, <3>2, <4>1
      <4>3. P[i] = 0
        BY <4>2, SMT
      <4> QED
        BY <4>2, <4>3
    <3> QED
      BY <3>2
  <2> HIDE DEF Z, n
  <2>2. \A i \in 0..n : i \in Z
    BY <1>1, <1>3, <2>1, EachPass
  <2> QED
    BY <2>2 DEF Z
<1>7. ASSUME ~Undos(ops) PROVE \A i \in 0..n : U[i] = 0
  <2>1. \A i \in 1..n : i - 1 \in V => i \in V
    <3>1. \A i \in 1..n : UndoAdd(ops[i], s) = 0
      BY <1>1, <1>7 DEF Undos, UndoAdd
    <3> SUFFICES ASSUME NEW i \in 1..n, U[i-1] = 0 PROVE i \in 0..n /\ U[i] = 0
      OBVIOUS
    <3>2. i \in 0..n /\ U[i] = U[i-1] + UndoAdd(ops[i], s)
      BY <1>4
    <3>3. U[i] = U[i-1] + 0
      BY <3>1, <3>2
    <3> QED
      BY <3>2, <3>3, SMT
  <2> HIDE DEF V, n
  <2>2. \A i \in 0..n : i \in V
    BY <1>1, <1>3, <2>1, EachPass
  <2> QED
    BY <2>2 DEF V
<1> QED
  BY <1>5, <1>6, <1>7 DEF P, U

LEMMA KindsDelta ==
  ASSUME LoopLaw, AllNumbers, NEW ops \in Seq(Sembuf), NEW s
  PROVE  /\ ~Decrease(ops) => Delta(ops, s) >= 0
         /\ ~Alter(ops) => Delta(ops, s) = 0
         /\ ~Undos(ops) => UndoDelta(ops, s) = 0
<1>1. Len(ops) \in 0..Len(ops)
  BY SMT
<1>2. Delta(ops, s) = Part(ops, s)[Len(ops)] /\ UndoDelta(ops, s) = UndoPart(ops, s)[Len(ops)]
  BY Parts
<1> QED
  BY <1>1, <1>2, KindsAdd

(* A wait for zero blocks on a value that is not zero.                     *)
LEMMA ZeroBlocks ==
  ASSUME LoopLaw, AllNumbers, NEW v \in [Sem -> Nat], NEW ops \in Seq(Sembuf), ~Alter(ops),
         Expected(v, ops) = "block"
  PROVE  \E i \in DOMAIN ops : v[ops[i].num] # 0
<1>1. v \in [Sem -> Int] /\ DOMAIN ops = 1..Len(ops)
  BY SMT
<1>2. PICK i \in 1..Len(ops) : Found(v, ops, i) = "block"
  BY <1>1, ExpectedIs
<1>3. i - 1 \in 0..Len(ops) /\ ops[i] \in Sembuf
  BY SMT
<1>4. ops[i].num \in Sem /\ ops[i].op = 0
  <2>1. ops[i].num \in Sem
    BY <1>3, SMT DEF Sembuf
  <2>2. ops[i].op = 0
    BY <1>1 DEF Alter
  <2> QED
    BY <2>1, <2>2, SMT
<1> DEFINE x == v[ops[i].num]
           b == Part(ops, ops[i].num)[i-1]
<1>5. b = 0
  BY <1>3, KindsAdd
<1>6. Found(v, ops, i) = Answer(ops[i], x + b)
  BY DEF Found, Before, Part
<1>7. x \in Nat
  BY <1>4, SMT
<1> HIDE DEF x, b
<1>8. x # 0
  <2>1. SEMVMX \in Nat
    BY SEMVMXAssumption, SMT
  <2> QED
    BY <1>2, <1>4, <1>5, <1>6, <1>7, <2>1, SMT DEF Answer
<1> QED
  BY <1>1, <1>8 DEF x

-----------------------------------------------------------------------------
(***************************************************************************)
(* update_queue().                                                         *)
(***************************************************************************)
Queues == [val : [Sem -> Nat], adj : [Proc -> [Sem -> Shorts]], pend : Seq(Proc),
           status : [Proc -> Status], woken : SUBSET Proc, stop : BOOLEAN]

Tries(r, v, a, ops, doUndo) ==
    /\ r.result = Expected(v, ops) /\ r.result \in {"ok", "block", "EAGAIN", "ERANGE"}
    /\ r.val \in [Sem -> Nat] /\ r.adj \in [Sem -> Shorts]
    /\ r.result = "ok" /\ ~doUndo => \A s \in Sem :
         r.val[s] = v[s] + Delta(ops, s) /\ r.adj[s] = Short(a[s] - UndoDelta(ops, s))
    /\ ~(r.result = "ok" /\ ~doUndo) => r.val = v /\ r.adj = a

LEMMA TryOnly ==
  ASSUME LoopLaw, AllNumbers
  PROVE  \A S :
         \A p \in Proc, ops \in Seq(Sembuf), doUndo \in BOOLEAN :
           /\ S.val \in [Sem -> Nat]
           /\ S.adj \in [Proc -> [Sem -> Shorts]]
           => Tries(Try(S, p, ops, doUndo), S.val, S.adj[p], ops, doUndo)
(* A performed array leaves no value below zero.                         *)
<1>OkNat. ASSUME NEW v \in [Sem -> Nat], NEW ops \in Seq(Sembuf), Expected(v, ops) = "ok",
                 NEW s \in Sem
          PROVE  v[s] + Delta(ops, s) \in Nat
  <2> USE <1>OkNat
  <2> DEFINE n == Len(ops)
             P == Part(ops, s)
             T == {i \in 0..n : v[s] + P[i] >= 0}
  <2>1. n \in Nat /\ n \in 0..n /\ v \in [Sem -> Int] /\ v[s] \in Nat
    BY SMT
  <2>2. /\ P \in [0..n -> Int] /\ P[0] = 0 /\ Delta(ops, s) = P[n]
        /\ \A i \in 1..n : P[i] = P[i-1] + Add(ops[i], s)
    BY Parts
  <2> HIDE DEF P
  <2>3. 0 \in T
    BY <2>1, <2>2, SMT
  <2>4. ASSUME NEW i \in 1..n, i - 1 \in T PROVE i \in T
    <3>1. i \in 0..n /\ i - 1 \in 0..n /\ v[s] + P[i-1] >= 0 /\ ops[i] \in Sembuf
      BY <2>4, SMT
    <3>2. P[i-1] \in Int /\ P[i] \in Int /\ P[i] = P[i-1] + Add(ops[i], s)
      BY <2>2, <3>1, SMT
    <3>3. CASE ops[i].num # s
      <4>1. P[i] = P[i-1]
        BY <3>2, <3>3, SMT DEF Add
      <4> QED
        BY <3>1, <4>1
    <3>4. CASE ops[i].num = s
      <4>1. Answer(ops[i], v[s] + P[i-1]) = "ok"
        BY <2>1, <3>4, ExpectedIs DEF Found, Before, P, Part
      <4>2. ops[i].op \in Int /\ Add(ops[i], s) = ops[i].op
        BY <3>1, <3>4, SMT DEF Sembuf, Add
      <4>3. ~((v[s] + P[i-1]) + ops[i].op < 0)
        BY <4>1, SMT DEF Answer
      <4>4. v[s] + P[i] >= 0
        BY <2>1, <3>2, <4>2, <4>3, SMT
      <4> QED
        BY <3>1, <4>4
    <3> QED
      BY <3>3, <3>4
  <2> HIDE DEF T, n
  <2>5. \A i \in 0..n : i \in T
    BY <2>1, <2>3, <2>4, EachPass
  <2>6. v[s] + P[n] >= 0 /\ P[n] \in Int
    <3>1. n \in T
      BY <2>1, <2>5, SMT
    <3> QED
      BY <2>1, <2>2, <3>1, SMT DEF T
  <2> QED
    BY <2>1, <2>2, <2>6, SMT
<1> SUFFICES ASSUME NEW S, NEW p \in Proc, NEW ops \in Seq(Sembuf), NEW doUndo \in BOOLEAN,
                    S.val \in [Sem -> Nat], S.adj \in [Proc -> [Sem -> Shorts]]
             PROVE  Tries(Try(S, p, ops, doUndo), S.val, S.adj[p], ops, doUndo)
  OBVIOUS
<1> DEFINE Q == Proc \cup {NoPid}
           st == [val |-> S.val, pid |-> [s \in Sem |-> <<NoPid, NoPid>>], adj |-> S.adj[p]]
           r == Try(S, p, ops, doUndo)
<1>1. S.val \in [Sem -> Int] /\ S.adj[p] \in [Sem -> Shorts]
  BY SMT
<1>2. IsStore(st, Q) /\ NoPid \in Q /\ p \in Q /\ st.val = S.val /\ st.adj = S.adj[p]
  BY <1>1, SMT DEF IsStore
<1>3. r = TryAtomicSemop(st, ops, p, doUndo)
  BY DEF Try
<1> HIDE DEF st, Q
<1>4. IsTried(r, st, ops, doUndo, Q)
  BY <1>2, <1>3, TryIs
<1> HIDE DEF r
<1>5. /\ r.val \in [Sem -> Int] /\ r.adj \in [Sem -> Shorts] /\ r.result = Expected(S.val, ops)
  BY <1>2, <1>4 DEF IsTried, IsStore
<1>6. r.result \in {"ok", "block", "EAGAIN", "ERANGE"}
  BY <1>1, <1>5, ExpectedIs
<1>7. r.result = "ok" /\ ~doUndo => \A s \in Sem :
        r.val[s] = S.val[s] + Delta(ops, s) /\ r.adj[s] = Short(S.adj[p][s] - UndoDelta(ops, s))
  BY <1>2, <1>4 DEF IsTried
<1>8. ~(r.result = "ok" /\ ~doUndo) => r.val = S.val /\ r.adj = S.adj[p]
  <2> SUFFICES ASSUME ~(r.result = "ok" /\ ~doUndo) PROVE r.val = S.val /\ r.adj = S.adj[p]
    OBVIOUS
  <2>1. \A s \in Sem : r.val[s] = S.val[s] /\ r.adj[s] = S.adj[p][s]
    BY <1>2, <1>4 DEF IsTried
  <2>2. r.val = S.val
    BY <1>1, <1>5, <2>1, SMT
  <2>3. r.adj = S.adj[p]
    BY <1>1, <1>5, <2>1, SMT
  <2> QED
    BY <2>2, <2>3, SMT
<1>9. r.val \in [Sem -> Nat]
  <2>1. CASE r.result = "ok" /\ ~doUndo
    <3>1. \A s \in Sem : r.val[s] \in Nat
      BY <1>5, <1>7, <2>1, <1>OkNat
    <3> QED
      BY <1>5, <3>1, SMT
  <2>2. CASE ~(r.result = "ok" /\ ~doUndo)
    BY <1>8, <2>2, SMT
  <2> QED
    BY <2>1, <2>2
<1>10. Tries(r, S.val, S.adj[p], ops, doUndo)
  BY <1>5, <1>6, <1>7, <1>8, <1>9 DEF Tries
<1> QED
  BY <1>10 DEF r

(* One pass of the loop over the queue: nothing, told to retry, or off the *)
(* queue.                                                                  *)
Skips(S, p, T) ==
    /\ S.stop \/ S.status[p] = "retry"
    /\ T.stop = TRUE /\ T.val = S.val /\ T.adj = S.adj /\ T.pend = S.pend /\ T.status = S.status
    /\ T.woken = S.woken
Blocks(S, p, T) ==
    ~S.stop /\ S.status[p] # "retry" /\ Expected(S.val, arg[p].ops) = "block" /\ T = S
Tells(S, p, T) ==
    /\ ~S.stop /\ S.status[p] # "retry" /\ Expected(S.val, arg[p].ops) = "ok" /\ Decrease(arg[p].ops)
    /\ T.stop = TRUE /\ T.val = S.val /\ T.adj = S.adj /\ T.pend = S.pend
    /\ T.status = [S.status EXCEPT ![p] = "retry"] /\ T.woken = S.woken \cup {p}
Serves(S, p, T) ==
    LET X == Expected(S.val, arg[p].ops) IN
    /\ ~S.stop /\ S.status[p] # "retry" /\ X \in {"ok", "EAGAIN", "ERANGE"}
    /\ X = "ok" => ~Decrease(arg[p].ops)
    /\ T.stop = S.stop /\ T.pend = Without(S.pend, {p})
    /\ T.status = [S.status EXCEPT ![p] = X] /\ T.woken = S.woken \cup {p}
    /\ X # "ok" => T.val = S.val /\ T.adj = S.adj
    /\ X = "ok" => /\ \A s \in Sem : T.val[s] = S.val[s] + Delta(arg[p].ops, s)
                   /\ \A q \in Proc : q # p => T.adj[q] = S.adj[q]
                   /\ \A s \in Sem : T.adj[p][s] = Short(S.adj[p][s] - UndoDelta(arg[p].ops, s))

VisitIs(S, p, T) ==
    T \in Queues /\ (Skips(S, p, T) \/ Blocks(S, p, T) \/ Tells(S, p, T) \/ Serves(S, p, T))

LEMMA Visited ==
  ASSUME LoopLaw, AllNumbers, WithoutLaw, NEW S \in Queues, NEW p \in Proc, arg[p].ops \in Seq(Sembuf)
  PROVE  VisitIs(S, p, Visit(S, p))
<1> DEFINE ops == arg[p].ops
           r == Probe(S, p)
           C == Commit(S, p, r)
           T == Visit(S, p)
           X == Expected(S.val, ops)
<1>1. /\ S.val \in [Sem -> Nat] /\ S.adj \in [Proc -> [Sem -> Shorts]] /\ S.pend \in Seq(Proc)
      /\ S.status \in [Proc -> Status] /\ S.woken \in SUBSET Proc /\ S.stop \in BOOLEAN
  BY SMT DEF Queues
<1>2. Decrease(ops) \in BOOLEAN
  BY SMT DEF Decrease
<1>3. Tries(r, S.val, S.adj[p], ops, Decrease(ops))
  BY <1>1, <1>2, TryOnly DEF Probe
<1>4. T = IF S.stop \/ S.status[p] = "retry" THEN [S EXCEPT !.stop = TRUE]
          ELSE IF r.result = "block" THEN C
          ELSE IF r.result = "ok" /\ Decrease(ops)
            THEN [C EXCEPT !.status[p] = "retry", !.woken = @ \union {p}, !.stop = TRUE]
            ELSE [C EXCEPT !.status[p] = r.result, !.woken = @ \union {p}, !.pend = Without(@, {p})]
  BY DEF Visit
<1>5. C = [S EXCEPT !.val = r.val, !.adj[p] = r.adj]
  BY DEF Commit
<1> HIDE DEF r, C, T
<1>6. /\ r.result = X /\ X \in {"ok", "block", "EAGAIN", "ERANGE"}
      /\ r.val \in [Sem -> Nat] /\ r.adj \in [Sem -> Shorts]
      /\ X = "ok" /\ ~Decrease(ops) => \A s \in Sem :
           r.val[s] = S.val[s] + Delta(ops, s) /\ r.adj[s] = Short(S.adj[p][s] - UndoDelta(ops, s))
      /\ ~(X = "ok" /\ ~Decrease(ops)) => r.val = S.val /\ r.adj = S.adj[p]
  BY <1>3 DEF Tries
<1> HIDE DEF X, ops
<1>7. /\ C \in Queues /\ C.val = r.val /\ C.adj = [S.adj EXCEPT ![p] = r.adj] /\ C.pend = S.pend
      /\ C.status = S.status /\ C.woken = S.woken /\ C.stop = S.stop
  BY <1>1, <1>5, <1>6 DEF Queues
<1>8. ~(X = "ok" /\ ~Decrease(ops)) => C = S
  <2> SUFFICES ASSUME ~(X = "ok" /\ ~Decrease(ops)) PROVE C = S
    OBVIOUS
  <2>1. r.val = S.val /\ [S.adj EXCEPT ![p] = r.adj] = S.adj
    BY <1>1, <1>6
  <2> QED
    BY <1>5, <1>1, <2>1 DEF Queues
<1>9. CASE S.stop \/ S.status[p] = "retry"
  <2>1. T = [S EXCEPT !.stop = TRUE]
    BY <1>4, <1>9
  <2>2. T \in Queues
    BY <1>1, <2>1 DEF Queues
  <2>3. Skips(S, p, T)
    BY <1>9, <2>1, SMT DEF Skips, Queues
  <2> QED
    BY <2>2, <2>3 DEF VisitIs, T
<1>10. CASE ~(S.stop \/ S.status[p] = "retry") /\ X = "block"
  <2>1. T = S
    BY <1>4, <1>6, <1>8, <1>10, SMT
  <2> QED
    BY <1>10, <2>1 DEF VisitIs, Blocks, T, X, ops
<1>11. CASE ~(S.stop \/ S.status[p] = "retry") /\ X = "ok" /\ Decrease(ops)
  <2>1. T = [S EXCEPT !.status[p] = "retry", !.woken = @ \union {p}, !.stop = TRUE]
    BY <1>4, <1>6, <1>8, <1>11, SMT
  <2>2. /\ T.val = S.val /\ T.adj = S.adj /\ T.pend = S.pend /\ T.stop = TRUE
        /\ T.status = [S.status EXCEPT ![p] = "retry"] /\ T.woken = S.woken \cup {p}
    BY <1>1, <2>1, SMT DEF Queues
  <2>3. T \in Queues
    BY <1>1, <2>1 DEF Queues, Status
  <2> QED
    BY <1>11, <2>2, <2>3 DEF VisitIs, Tells, T, X, ops
<1>12. CASE ~(S.stop \/ S.status[p] = "retry") /\ X # "block" /\ ~(X = "ok" /\ Decrease(ops))
  <2>1. T = [C EXCEPT !.status[p] = X, !.woken = @ \union {p}, !.pend = Without(@, {p})]
    BY <1>4, <1>6, <1>12, SMT
  <2>2. /\ T.val = C.val /\ T.adj = C.adj /\ T.pend = Without(S.pend, {p}) /\ T.stop = S.stop
        /\ T.status = [S.status EXCEPT ![p] = X] /\ T.woken = S.woken \cup {p}
    BY <1>1, <1>7, <2>1, SMT DEF Queues
  <2>3. Without(S.pend, {p}) \in Seq(Proc)
    BY <1>1 DEF WithoutLaw
  <2>4. X \in {"ok", "EAGAIN", "ERANGE"} /\ X \in Status
    BY <1>6, <1>12, SMT DEF Status
  <2>5. T \in Queues
    BY <1>1, <1>7, <2>1, <2>3, <2>4 DEF Queues
  <2>6. X # "ok" => T.val = S.val /\ T.adj = S.adj
    BY <1>8, <2>2
  <2>7. X = "ok" => /\ \A s \in Sem : T.val[s] = S.val[s] + Delta(ops, s)
                    /\ \A q \in Proc : q # p => T.adj[q] = S.adj[q]
                    /\ \A s \in Sem : T.adj[p][s] = Short(S.adj[p][s] - UndoDelta(ops, s))
    <3> SUFFICES ASSUME X = "ok"
                 PROVE  /\ \A s \in Sem : T.val[s] = S.val[s] + Delta(ops, s)
                        /\ \A q \in Proc : q # p => T.adj[q] = S.adj[q]
                        /\ \A s \in Sem : T.adj[p][s] = Short(S.adj[p][s] - UndoDelta(ops, s))
      OBVIOUS
    <3>1. T.val = r.val /\ (\A q \in Proc : q # p => T.adj[q] = S.adj[q]) /\ T.adj[p] = r.adj
      BY <1>1, <1>7, <2>2, SMT
    <3> QED
      BY <1>6, <1>12, <3>1
  <2>8. Serves(S, p, T)
    BY <1>12, <2>2, <2>4, <2>6, <2>7 DEF Serves, X, ops
  <2> QED
    BY <2>5, <2>8 DEF VisitIs, T
<1> QED
  BY <1>6, <1>9, <1>10, <1>11, <1>12

QueueOf(g, S, i) == IF i = 0 THEN S ELSE Visit(g[i-1], S.pend[i])
IsQueue(g, S) == g = [i \in 0..Len(S.pend) |-> QueueOf(g, S, i)]

IsCalls(A) == \A p \in Proc : A[p].ops \in Seq(Sembuf)

Passed(g, S) ==
    /\ g \in [0..Len(S.pend) -> Queues] /\ g[0] = S
    /\ \A i \in 1..Len(S.pend) : g[i] = Visit(g[i-1], S.pend[i])
    /\ UpdateQueue(S) = g[Len(S.pend)]

(***************************************************************************)
(* What the loop keeps.  S0 is where it started, S where it is, i the      *)
(* number of processes it has visited.                                     *)
(***************************************************************************)
Ahead(q, x, y) == \E j, k \in 1..Len(q) : j < k /\ q[j] = x /\ q[k] = y

KeepsOrder(S0, S) ==
    /\ NoRepeat(S.pend) /\ Range(S.pend) \subseteq Range(S0.pend)
    /\ \A x, y : Ahead(S.pend, x, y) => Ahead(S0.pend, x, y)

(* Those who were not on the queue, those who still are, those who left.   *)
KeepsOne(S0, S, A, q) ==
    /\ q \notin Range(S0.pend) => S.status[q] = S0.status[q] /\ S.adj[q] = S0.adj[q]
    /\ q \in Range(S.pend) =>
         /\ S.adj[q] = S0.adj[q]
         /\ \/ S.status[q] = S0.status[q]
            \/ S.status[q] = "retry" /\ q \in S.woken /\ Decrease(A[q].ops)
    /\ q \in Range(S0.pend) /\ q \notin Range(S.pend) =>
         /\ q \in S.woken /\ S.status[q] \in {"ok", "EAGAIN", "ERANGE"}
         /\ S.status[q] # "ok" => S.adj[q] = S0.adj[q]
         /\ S.status[q] = "ok" =>
              ~Decrease(A[q].ops) /\ \A s \in Sem : S.adj[q][s] = Short(S0.adj[q][s] - UndoDelta(A[q].ops, s))

KeepsRest(S0, S, A) == \A q \in Proc : KeepsOne(S0, S, A, q)

Added(A, D, s) == SumFunctionOnSet([p \in Proc |-> Delta(A[p].ops, s)], D)
Fresh(S0, S) == {q \in Range(S0.pend) \ Range(S.pend) : S.status[q] = "ok"}

AddsUp(S0, S, A) ==
    \A D \in SUBSET Proc, s \in Sem : D \cap Range(S0.pend) = {}
        => S.val[s] - Added(A, D \cup Fresh(S0, S), s) = S0.val[s] - Added(A, D, s)

Pending(S0, S, i) ==
    \A j \in (i + 1)..Len(S0.pend) : S0.pend[j] \in Range(S.pend) /\ S.status[S0.pend[j]] = S0.status[S0.pend[j]]

Told(S0, S, k) == S0.pend[k] \in Range(S.pend) /\ S.status[S0.pend[k]] = "retry"

StopSeen(S0, S, i) == S.stop => \E k \in 1..i : Told(S0, S, k)

LEMMA LeavesOrder ==
  ASSUME WithoutLaw, WithoutOrder, NEW q \in Seq(Proc), NEW T
  PROVE  \A x, y : Ahead(Without(q, T), x, y) => Ahead(q, x, y)
<1> SUFFICES ASSUME NEW x, NEW y, Ahead(Without(q, T), x, y) PROVE Ahead(q, x, y)
  OBVIOUS
<1> DEFINE w == Without(q, T)
<1>1. PICK e : Embeds(e, w, q, T, Len(q))
  BY DEF WithoutOrder
<1>2. PICK j \in 1..Len(w), k \in 1..Len(w) : j < k /\ w[j] = x /\ w[k] = y
  BY DEF Ahead
<1>3. /\ e \in [1..Len(w) -> 1..Len(q)] /\ e[j] < e[k] /\ w[j] = q[e[j]] /\ w[k] = q[e[k]]
  BY <1>1, <1>2 DEF Embeds
<1>4. e[j] \in 1..Len(q) /\ e[k] \in 1..Len(q)
  BY <1>3, SMT
<1> QED
  BY <1>2, <1>3, <1>4 DEF Ahead

Untouched(S, T, q) ==
    /\ T.status[q] = S.status[q] /\ T.adj[q] = S.adj[q]
    /\ q \in Range(T.pend) <=> q \in Range(S.pend)
    /\ S.woken \subseteq T.woken /\ (S.stop => T.stop)

LEMMA VisitOthers ==
  ASSUME WithoutLaw, NEW S \in Queues, NEW p \in Proc, NEW T, VisitIs(S, p, T)
  PROVE  \A q \in Proc : q # p => Untouched(S, T, q)
<1> SUFFICES ASSUME NEW q \in Proc, q # p
             PROVE  /\ T.status[q] = S.status[q] /\ T.adj[q] = S.adj[q]
                    /\ q \in Range(T.pend) <=> q \in Range(S.pend)
                    /\ S.woken \subseteq T.woken /\ (S.stop => T.stop)
  BY DEF Untouched
<1>1. S.pend \in Seq(Proc) /\ S.status \in [Proc -> Status]
  BY SMT DEF Queues
<1>2. Range(Without(S.pend, {p})) = Range(S.pend) \ {p}
  BY <1>1 DEF WithoutLaw
<1>3. CASE Skips(S, p, T)
  BY <1>3 DEF Skips
<1>4. CASE Blocks(S, p, T)
  BY <1>4 DEF Blocks
<1>5. CASE Tells(S, p, T)
  BY <1>1, <1>5 DEF Tells
<1>6. CASE Serves(S, p, T)
  <2>1. /\ T.status = [S.status EXCEPT ![p] = Expected(S.val, arg[p].ops)]
        /\ T.woken = S.woken \cup {p} /\ T.stop = S.stop /\ T.pend = Without(S.pend, {p})
        /\ T.adj[q] = S.adj[q]
    BY <1>6 DEF Serves
  <2> QED
    BY <1>1, <1>2, <2>1
<1> QED
  BY <1>3, <1>4, <1>5, <1>6 DEF VisitIs

LEMMA AddedIs ==
  ASSUME LoopLaw, FiniteLaws, SumLaws, NEW A, IsCalls(A), NEW D \in SUBSET Proc, NEW s \in Sem
  PROVE  /\ IsFiniteSet(D) /\ Added(A, D, s) \in Int
         /\ \A p \in Proc \ D : Added(A, D \cup {p}, s) = Delta(A[p].ops, s) + Added(A, D, s)
         /\ \A p \in D : Added(A, D, s) = Delta(A[p].ops, s) + Added(A, D \ {p}, s)
         /\ \A p \in Proc : Delta(A[p].ops, s) \in Int
<1> DEFINE f == [p \in Proc |-> Delta(A[p].ops, s)]
<1>1. IsFiniteSet(D)
  BY ProcAssumption DEF FiniteLaws, SubsetSize
<1>2. \A p \in Proc : Delta(A[p].ops, s) \in Int
  BY Parts DEF IsCalls, FiniteLaws
<1>3. \A p \in Proc : f[p] = Delta(A[p].ops, s)
  BY SMT
<1>4. \A E : Added(A, E, s) = SumFunctionOnSet(f, E)
  BY DEF Added
<1> HIDE DEF f
<1>5. \A p \in D : f[p] \in Int
  BY <1>2, <1>3
<1>6. SumFunctionOnSet(f, D) \in Int
  BY <1>1, <1>5 DEF SumLaws, SumIsInt
<1>7. \A p \in Proc \ D : SumFunctionOnSet(f, D \cup {p}) = f[p] + SumFunctionOnSet(f, D)
  BY <1>1, <1>2, <1>3, <1>5 DEF SumLaws, SumAdded
<1>8. \A p \in D : SumFunctionOnSet(f, D) = f[p] + SumFunctionOnSet(f, D \ {p})
  <2> SUFFICES ASSUME NEW p \in D
               PROVE  SumFunctionOnSet(f, D) = f[p] + SumFunctionOnSet(f, D \ {p})
    OBVIOUS
  <2> DEFINE E == D \ {p}
  <2>1. E \cup {p} = D /\ E \subseteq D /\ p \notin E
    BY SMT
  <2> HIDE DEF E
  <2>2. IsFiniteSet(E) /\ (\A y \in E : f[y] \in Int) /\ f[p] \in Int
    BY <1>1, <1>5, <2>1 DEF FiniteLaws, SubsetSize
  <2>3. SumFunctionOnSet(f, E \cup {p}) = f[p] + SumFunctionOnSet(f, E)
    BY <2>1, <2>2 DEF SumLaws, SumAdded
  <2> QED
    BY <2>1, <2>3 DEF E
<1> QED
  BY <1>1, <1>2, <1>3, <1>4, <1>6, <1>7, <1>8

LEMMA ToldKept ==
  ASSUME WithoutLaw, NEW S0 \in Queues, NoRepeat(S0.pend), NEW S \in Queues, NEW i \in 1..Len(S0.pend),
         NEW T, VisitIs(S, S0.pend[i], T)
  PROVE  \A k \in 1..(i - 1) : Told(S0, S, k) => Told(S0, T, k)
<1> SUFFICES ASSUME NEW k \in 1..(i - 1), Told(S0, S, k) PROVE Told(S0, T, k)
  OBVIOUS
<1>1. S0.pend \in Seq(Proc) /\ Len(S0.pend) \in Nat
  BY SMT DEF Queues
<1>2. k \in 1..Len(S0.pend) /\ i # k
  BY <1>1, SMT
<1>3. S0.pend[i] \in Proc /\ S0.pend[k] \in Proc
  BY <1>1, <1>2, SMT
<1>4. S0.pend[k] # S0.pend[i]
  BY <1>2 DEF NoRepeat
<1>5. Untouched(S, T, S0.pend[k])
  BY <1>3, <1>4, VisitOthers
<1> QED
  BY <1>5 DEF Told, Untouched

Ready(S, A) ==
    /\ S \in Queues /\ NoRepeat(S.pend) /\ ~S.stop
    /\ \A q \in Range(S.pend) : S.status[q] = "retry" => Decrease(A[q].ops)
    /\ \A x, y : Ahead(S.pend, x, y) /\ ~Alter(A[y].ops) => ~Alter(A[x].ops)

LEMMA RetryDecreases ==
  ASSUME NEW S0, Ready(S0, arg), NEW S \in Queues, KeepsRest(S0, S, arg),
         Range(S.pend) \subseteq Range(S0.pend), NEW q \in Range(S.pend), S.status[q] = "retry"
  PROVE  Decrease(arg[q].ops) /\ Alter(arg[q].ops)
<1>1. q \in Proc
  BY SMT DEF Queues, Range
<1>2. Decrease(arg[q].ops)
  BY <1>1 DEF KeepsRest, KeepsOne, Ready
<1>3. \A n : n < 0 => n # 0
  BY SMT
<1> QED
  BY <1>2, <1>3 DEF Decrease, Alter

Waits(v, ops) == \E i \in DOMAIN ops : v[ops[i].num] # 0

ZeroSeen(S0, S, A, i) ==
    \A j \in 1..i : S0.pend[j] \in Range(S.pend) /\ ~Alter(A[S0.pend[j]].ops)
        => Waits(S.val, A[S0.pend[j]].ops)

(* No array on the queue increases values only.                            *)
Mild(S, A) == \A q \in Range(S.pend) : ~OnlyAdds(A[q].ops)

ServedSeen(S0, S, A, i) ==
    \A j \in 1..i : S0.pend[j] \in Range(S.pend)
        => \/ Told(S0, S, j)
           \/ Expected(S.val, A[S0.pend[j]].ops) = "block"
           \/ \E k \in 1..(j - 1) : Told(S0, S, k)

(***************************************************************************)
(* The loop as a whole.                                                    *)
(***************************************************************************)
Visiting(S0, S, i) ==
    /\ S \in Queues /\ KeepsOrder(S0, S) /\ KeepsRest(S0, S, arg) /\ AddsUp(S0, S, arg)
    /\ Pending(S0, S, i) /\ StopSeen(S0, S, i) /\ ZeroSeen(S0, S, arg, i)
    /\ Mild(S0, arg) => ServedSeen(S0, S, arg, i)

(* What it leaves: no wait for zero that could end, and if Mild the first  *)
(* process that would change a value told to retry or blocked.             *)
ZeroOK(v, q, A) == \A y \in Range(q) : ~Alter(A[y].ops) => Waits(v, A[y].ops)

FirstOK(v, q, st, A) ==
    \A y \in Range(q) : Alter(A[y].ops) /\ (\A x : Ahead(q, x, y) => ~Alter(A[x].ops))
        => st[y] = "retry" \/ Expected(v, A[y].ops) = "block"

Updated(S0, S, A) ==
    /\ S \in Queues /\ KeepsOrder(S0, S) /\ KeepsRest(S0, S, A) /\ AddsUp(S0, S, A)
    /\ ZeroOK(S.val, S.pend, A)
    /\ Mild(S0, A) => FirstOK(S.val, S.pend, S.status, A)

LEMMA QueueUpdated ==
  ASSUME LoopLaw, FiniteLaws, SumLaws, WithoutLaw, WithoutOrder
  PROVE  \A S0 :
           /\ IsCalls(arg)
           /\ Ready(S0, arg)
           => Updated(S0, UpdateQueue(S0), arg)
<1>QueueIs. \A S \in Queues :
              /\ AllNumbers
              /\ IsCalls(arg)
              => \E g : Passed(g, S)
  <2>QueueChosen. ASSUME NEW S
                  PROVE  UpdateQueue(S) = (CHOOSE g : IsQueue(g, S))[Len(S.pend)]
    BY SMT DEF UpdateQueue, IsQueue, QueueOf
  <2> SUFFICES ASSUME NEW S \in Queues, AllNumbers, IsCalls(arg)
               PROVE  \E g : Passed(g, S)
    OBVIOUS
  <2> DEFINE q == S.pend
             n == Len(q)
             R == Queues
             F == [a \in (1..n) \X R |-> Visit(a[2], q[a[1]])]
  <2>0. q \in Seq(Proc)
    BY SMT DEF Queues
  <2>1. n \in Nat /\ n \in 0..n /\ 0 \in 0..n /\ \A i \in 1..n : q[i] \in Proc /\ i - 1 \in 0..n
    BY <2>0, SMT
  <2>2. \A i \in 1..n, x \in R : Visit(x, q[i]) \in R
    BY <2>1, Visited DEF VisitIs, IsCalls
  <2>3. S \in R /\ Len(S.pend) = n /\ S.pend = q
    BY SMT
  <2> HIDE DEF n, R, q
  <2>5. \A i \in 1..n, x \in R : F[<<i, x>>] = Visit(x, q[i])
    BY SMT
  <2>6. F \in LoopBodies(n, R)
    BY <2>2, SMT DEF LoopBodies
  <2> HIDE DEF F
  <2>7. PICK g : RunsFrom(g, S, F, n, R) /\ \A h : Obeys(h, S, F, n, R) => h = g
    BY <2>1, <2>3, <2>6, LoopIs
  <2>7a. g \in [0..n -> R] /\ g[0] = S /\ \A i \in 1..n : g[i] = F[<<i, g[i-1]>>]
    BY <2>7 DEF RunsFrom
  <2>8. \A i \in 1..n : g[i] = Visit(g[i-1], q[i])
    BY <2>1, <2>5, <2>7a
  <2>9. IsQueue(g, S)
    <3>1. \A i \in 0..n : i = 0 \/ i \in 1..n
      BY <2>1, SMT
    <3>2. \A i \in 0..n : g[i] = QueueOf(g, S, i)
      BY <2>3, <2>7a, <2>8, <3>1 DEF QueueOf
    <3> QED
      BY <2>3, <2>7a, <3>2, SMT DEF IsQueue
  <2> DEFINE h == CHOOSE f : IsQueue(f, S)
  <2>10. IsQueue(h, S)
    BY <2>9
  <2>10a. UpdateQueue(S) = h[n]
    BY <2>3, <2>QueueChosen
  <2> HIDE DEF h
  <2>11. h = [i \in 0..n |-> QueueOf(h, S, i)]
    BY <2>3, <2>10 DEF IsQueue
  <2>12. /\ h = [i \in 0..n |-> h[i]] /\ h[0] = S
         /\ \A i \in 1..n : h[i] = Visit(h[i-1], q[i])
    <3>1. 0 \in 0..n /\ \A i \in 1..n : i \in 0..n /\ i # 0
      BY <2>1, SMT
    <3>2. \A i \in 0..n : h[i] = QueueOf(h, S, i)
      BY <2>11
    <3>3. h = [i \in 0..n |-> h[i]]
      BY <2>11
    <3> QED
      BY <2>3, <3>1, <3>2, <3>3 DEF QueueOf
  <2>13. h = g
    BY <2>5, <2>7, <2>12 DEF Obeys
  <2> QED
    BY <2>3, <2>7a, <2>8, <2>10a, <2>13 DEF Passed, R
<1>VisitingStart. ASSUME IsCalls(arg), NEW S0, Ready(S0, arg)
                  PROVE  Visiting(S0, S0, 0)
  <2> USE <1>VisitingStart
  <2>1. S0 \in Queues /\ NoRepeat(S0.pend) /\ ~S0.stop /\ S0.pend \in Seq(Proc)
    BY SMT DEF Queues, Ready
  <2>2. KeepsOrder(S0, S0)
    BY <2>1 DEF KeepsOrder
  <2>3. KeepsRest(S0, S0, arg)
    BY DEF KeepsRest, KeepsOne
  <2>4. AddsUp(S0, S0, arg)
    <3>1. \A D : D \cup Fresh(S0, S0) = D
      BY SMT DEF Fresh
    <3> QED
      BY <3>1 DEF AddsUp
  <2>5. Pending(S0, S0, 0)
    <3>1. \A j \in (0 + 1)..Len(S0.pend) : S0.pend[j] \in Range(S0.pend)
      BY <2>1, SMT DEF Range
    <3> QED
      BY <3>1 DEF Pending
  <2>6. \A j : j \notin 1..0
    BY SMT
  <2> QED
    BY <2>1, <2>2, <2>3, <2>4, <2>5, <2>6 DEF Visiting, StopSeen, ZeroSeen, ServedSeen
<1>VisitingStep. \A S0, S :
                 \A i \in 1..Len(S0.pend) :
                   /\ IsCalls(arg)
                   /\ Ready(S0, arg)
                   /\ Visiting(S0, S, i - 1)
                   => Visiting(S0, Visit(S, S0.pend[i]), i)
  <2>OrderStep. ASSUME NEW S0, NEW S \in Queues, NEW p, NEW T, VisitIs(S, p, T), KeepsOrder(S0, S)
                PROVE  KeepsOrder(S0, T) /\ Range(T.pend) \subseteq Range(S.pend)
    <3> USE <2>OrderStep
    <3>1. S.pend \in Seq(Proc)
      BY SMT DEF Queues
    <3>2. T.pend = S.pend \/ T.pend = Without(S.pend, {p})
      BY DEF VisitIs, Skips, Blocks, Tells, Serves
    <3>3. CASE T.pend = S.pend
      BY <3>3 DEF KeepsOrder
    <3>4. CASE T.pend = Without(S.pend, {p})
      <4>1. Range(T.pend) = Range(S.pend) \ {p} /\ NoRepeat(T.pend)
        <5>1. NoRepeat(S.pend)
          BY DEF KeepsOrder
        <5>2. /\ Range(Without(S.pend, {p})) = Range(S.pend) \ {p}
              /\ NoRepeat(S.pend) => NoRepeat(Without(S.pend, {p}))
          BY <3>1 DEF WithoutLaw
        <5> QED
          BY <3>4, <5>1, <5>2
      <4>2. \A x, y : Ahead(T.pend, x, y) => Ahead(S.pend, x, y)
        BY <3>1, <3>4, LeavesOrder
      <4>3. Range(T.pend) \subseteq Range(S.pend) /\ Range(T.pend) \subseteq Range(S0.pend)
        BY <4>1 DEF KeepsOrder
      <4> QED
        BY <4>1, <4>2, <4>3 DEF KeepsOrder
    <3> QED
      BY <3>2, <3>3, <3>4
  <2>RestStep. ASSUME NEW S0, NEW S \in Queues, NEW p \in Proc, p \in Range(S.pend), NEW T,
                      VisitIs(S, p, T), Range(S.pend) \subseteq Range(S0.pend),
                      KeepsRest(S0, S, arg)
               PROVE  KeepsRest(S0, T, arg)
    <3> USE <2>RestStep
    <3>1. S.pend \in Seq(Proc) /\ S.status \in [Proc -> Status] /\ p \in Range(S0.pend)
      BY SMT DEF Queues
    <3>2. ASSUME NEW q \in Proc, q # p PROVE KeepsOne(S0, T, arg, q)
      <4>1. /\ T.status[q] = S.status[q] /\ T.adj[q] = S.adj[q]
            /\ q \in Range(T.pend) <=> q \in Range(S.pend)
            /\ q \in S.woken => q \in T.woken
        <5>1. Untouched(S, T, q)
          BY <3>2, VisitOthers
        <5> QED
          BY <5>1 DEF Untouched
      <4>2. KeepsOne(S0, S, arg, q)
        BY DEF KeepsRest
      <4> QED
        BY <4>1, <4>2 DEF KeepsOne
    <3>3. KeepsOne(S0, T, arg, p)
      <4>1. KeepsOne(S0, S, arg, p)
        BY DEF KeepsRest
      <4>2. CASE Skips(S, p, T) \/ Blocks(S, p, T)
        <5>1. T.adj = S.adj /\ T.pend = S.pend /\ T.status = S.status /\ T.woken = S.woken
          BY <4>2 DEF Skips, Blocks
        <5> QED
          BY <4>1, <5>1 DEF KeepsOne
      <4>3. CASE Tells(S, p, T)
        <5>1. /\ T.adj = S.adj /\ T.pend = S.pend /\ p \in T.woken
              /\ Decrease(arg[p].ops) /\ T.status[p] = "retry"
          BY <3>1, <4>3 DEF Tells
        <5> QED
          BY <3>1, <4>1, <5>1 DEF KeepsOne
      <4>4. CASE Serves(S, p, T)
        <5> DEFINE X == Expected(S.val, arg[p].ops)
        <5>1. p \notin Range(T.pend) /\ p \in T.woken /\ T.status[p] = X /\ X \in {"ok", "EAGAIN", "ERANGE"}
          <6>1. Range(Without(S.pend, {p})) = Range(S.pend) \ {p}
            BY <3>1 DEF WithoutLaw
          <6> QED
            BY <3>1, <4>4, <6>1 DEF Serves
        <5>2. X # "ok" => T.adj = S.adj
          BY <4>4 DEF Serves
        <5>3. X = "ok" =>
                ~Decrease(arg[p].ops) /\ \A s \in Sem : T.adj[p][s] = Short(S.adj[p][s] - UndoDelta(arg[p].ops, s))
          BY <4>4 DEF Serves
        <5>4. S.adj[p] = S0.adj[p]
          BY <4>1 DEF KeepsOne
        <5> HIDE DEF X
        <5> QED
          BY <3>1, <5>1, <5>2, <5>3, <5>4 DEF KeepsOne
      <4> QED
        BY <4>2, <4>3, <4>4 DEF VisitIs
    <3> QED
      BY <3>2, <3>3 DEF KeepsRest
  <2>PendingStep. ASSUME NEW S0 \in Queues, NoRepeat(S0.pend), NEW S \in Queues,
                         NEW i \in 1..Len(S0.pend), NEW T, VisitIs(S, S0.pend[i], T),
                         Pending(S0, S, i - 1)
                  PROVE  Pending(S0, T, i)
    <3> USE <2>PendingStep
    <3>1. S0.pend \in Seq(Proc) /\ Len(S0.pend) \in Nat
      BY SMT DEF Queues
    <3> SUFFICES ASSUME NEW j \in (i + 1)..Len(S0.pend)
                 PROVE  S0.pend[j] \in Range(T.pend) /\ T.status[S0.pend[j]] = S0.status[S0.pend[j]]
      BY DEF Pending
    <3>2. j \in ((i - 1) + 1)..Len(S0.pend) /\ j \in 1..Len(S0.pend) /\ i # j
      BY <3>1, SMT
    <3>3. S0.pend[i] \in Proc /\ S0.pend[j] \in Proc
      BY <3>1, <3>2, SMT
    <3>4. S0.pend[j] # S0.pend[i]
      BY <3>2 DEF NoRepeat
    <3>5. S0.pend[j] \in Range(S.pend) /\ S.status[S0.pend[j]] = S0.status[S0.pend[j]]
      BY <3>2 DEF Pending
    <3>6. Untouched(S, T, S0.pend[j])
      BY <3>3, <3>4, VisitOthers
    <3> QED
      BY <3>5, <3>6 DEF Untouched
  <2>AddStep. ASSUME IsCalls(arg), NEW S0 \in Queues, NEW S \in Queues, NEW p \in Proc,
                     p \in Range(S.pend), NEW T, VisitIs(S, p, T),
                     Range(S.pend) \subseteq Range(S0.pend), AddsUp(S0, S, arg)
              PROVE  AddsUp(S0, T, arg)
    <3> USE <2>AddStep
    <3>1. S.pend \in Seq(Proc) /\ S.status \in [Proc -> Status] /\ S0.pend \in Seq(Proc) /\ S.val \in [Sem -> Nat]
          /\ S0.val \in [Sem -> Nat]
      BY SMT DEF Queues
    <3>2. Range(S0.pend) \subseteq Proc
      BY <3>1, SMT DEF Range
    <3>3. \A q \in Proc : q # p => (q \in Fresh(S0, T) <=> q \in Fresh(S0, S))
      <4> SUFFICES ASSUME NEW q \in Proc, q # p PROVE q \in Fresh(S0, T) <=> q \in Fresh(S0, S)
        OBVIOUS
      <4>1. Untouched(S, T, q)
        BY VisitOthers
      <4> QED
        BY <4>1 DEF Untouched, Fresh
    <3>4. Fresh(S0, T) \subseteq Proc /\ Fresh(S0, S) \subseteq Proc /\ p \notin Fresh(S0, S)
      BY <3>2 DEF Fresh
    <3>5. CASE p \notin Fresh(S0, T) /\ T.val = S.val
      <4>1. Fresh(S0, T) = Fresh(S0, S)
        BY <3>3, <3>4, <3>5, SMT
      <4> QED
        BY <3>5, <4>1 DEF AddsUp
    <3>6. CASE p \in Fresh(S0, T) /\ \A s \in Sem : T.val[s] = S.val[s] + Delta(arg[p].ops, s)
      <4>1. Fresh(S0, T) = Fresh(S0, S) \cup {p}
        BY <3>3, <3>4, <3>6, SMT
      <4> SUFFICES ASSUME NEW D \in SUBSET Proc, NEW s \in Sem, D \cap Range(S0.pend) = {}
                   PROVE  T.val[s] - Added(arg, D \cup Fresh(S0, T), s) = S0.val[s] - Added(arg, D, s)
        BY DEF AddsUp
      <4> DEFINE E == D \cup Fresh(S0, S)
      <4>2. E \in SUBSET Proc /\ p \in Proc \ E
        BY <3>4, SMT
      <4>3. D \cup Fresh(S0, T) = E \cup {p}
        BY <4>1, SMT
      <4>4. S.val[s] - Added(arg, E, s) = S0.val[s] - Added(arg, D, s)
        BY DEF AddsUp
      <4> HIDE DEF E
      <4>5. Added(arg, E \cup {p}, s) = Delta(arg[p].ops, s) + Added(arg, E, s)
        <5>1. \A r \in Proc \ E : Added(arg, E \cup {r}, s) = Delta(arg[r].ops, s) + Added(arg, E, s)
          BY <4>2, AddedIs
        <5> QED
          BY <4>2, <5>1
      <4>6. Delta(arg[p].ops, s) \in Int /\ Added(arg, E, s) \in Int /\ Added(arg, D, s) \in Int
        BY <4>2, AddedIs
      <4>7. T.val[s] = S.val[s] + Delta(arg[p].ops, s)
        BY <3>6
      <4>8. S.val[s] \in Int /\ S0.val[s] \in Int
        BY <3>1, SMT
      <4>9. T.val[s] - Added(arg, E \cup {p}, s) = S0.val[s] - Added(arg, D, s)
        <5> DEFINE a == Added(arg, E, s)
                   b == Added(arg, D, s)
                   c == Added(arg, E \cup {p}, s)
                   d == Delta(arg[p].ops, s)
        <5>1. /\ c = d + a /\ d \in Int /\ a \in Int /\ b \in Int /\ T.val[s] = S.val[s] + d
              /\ S.val[s] - a = S0.val[s] - b
          BY <4>4, <4>5, <4>6, <4>7
        <5> HIDE DEF a, b, c, d
        <5>2. T.val[s] - c = S0.val[s] - b
          BY <4>8, <5>1, SMT
        <5> QED
          BY <5>2 DEF b, c
      <4> QED
        BY <4>3, <4>9
    <3>7. CASE ~Serves(S, p, T)
      <4>1. T.val = S.val /\ T.pend = S.pend
        BY <3>7 DEF VisitIs, Skips, Blocks, Tells
      <4> QED
        BY <3>5, <4>1 DEF Fresh
    <3>8. CASE Serves(S, p, T)
      <4> DEFINE X == Expected(S.val, arg[p].ops)
      <4>1. T.status[p] = X
        BY <3>1, <3>8 DEF Serves
      <4>2. p \in Range(S0.pend) /\ p \notin Range(T.pend)
        <5>1. Range(Without(S.pend, {p})) = Range(S.pend) \ {p}
          BY <3>1 DEF WithoutLaw
        <5> QED
          BY <3>8, <5>1 DEF Serves
      <4>3. CASE X = "ok"
        <5>1. \A s \in Sem : T.val[s] = S.val[s] + Delta(arg[p].ops, s)
          BY <3>8, <4>3 DEF Serves
        <5> QED
          BY <3>6, <4>1, <4>2, <4>3, <5>1 DEF Fresh
      <4>4. CASE X # "ok"
        <5>1. T.val = S.val
          BY <3>8, <4>4 DEF Serves
        <5> QED
          BY <3>5, <4>1, <4>4, <5>1 DEF Fresh
      <4> QED
        BY <4>3, <4>4
    <3> QED
      BY <3>7, <3>8
  (* A process that is told to retry, or was, is at hand when the loop stops.*)
  <2>StopStep. ASSUME NEW S0 \in Queues, NoRepeat(S0.pend), NEW S \in Queues,
                      NEW i \in 1..Len(S0.pend), S0.pend[i] \in Range(S.pend), NEW T,
                      VisitIs(S, S0.pend[i], T), StopSeen(S0, S, i - 1)
               PROVE  StopSeen(S0, T, i)
    <3> USE <2>StopStep
    <3> DEFINE p == S0.pend[i]
    <3>1. S0.pend \in Seq(Proc) /\ Len(S0.pend) \in Nat /\ S.status \in [Proc -> Status]
      BY SMT DEF Queues
    <3>2. i \in 1..i /\ (\A k \in 1..(i - 1) : k \in 1..i) /\ p \in Proc
      BY <3>1, SMT
    <3> SUFFICES ASSUME T.stop PROVE \E k \in 1..i : Told(S0, T, k)
      BY DEF StopSeen
    <3>3. CASE S.stop
      BY <3>2, <3>3, ToldKept DEF StopSeen
    <3>4. CASE ~S.stop /\ S.status[p] = "retry"
      <4>1. T.pend = S.pend /\ T.status = S.status
        BY <3>4 DEF VisitIs, Skips, Blocks, Tells, Serves
      <4>2. Told(S0, T, i)
        BY <3>4, <4>1 DEF Told
      <4> QED
        BY <3>2, <4>2
    <3>5. CASE ~S.stop /\ S.status[p] # "retry"
      <4>1. Tells(S, p, T)
        BY <3>5 DEF VisitIs, Skips, Blocks, Serves
      <4>2. T.pend = S.pend /\ T.status[p] = "retry"
        BY <3>1, <3>2, <4>1 DEF Tells
      <4>3. Told(S0, T, i)
        BY <4>2 DEF Told
      <4> QED
        BY <3>2, <4>3
    <3> QED
      BY <3>3, <3>4, <3>5
  <2>ZeroStep. \A S0, T :
               \A S \in Queues, i \in 1..Len(S0.pend) :
                 /\ AllNumbers
                 /\ IsCalls(arg)
                 /\ Ready(S0, arg)
                 /\ S0.pend[i] \in Range(S.pend)
                 /\ VisitIs(S, S0.pend[i], T)
                 /\ Range(S.pend) \subseteq Range(S0.pend)
                 /\ Range(T.pend) \subseteq Range(S.pend)
                 /\ KeepsRest(S0, S, arg)
                 /\ StopSeen(S0, S, i - 1)
                 /\ ZeroSeen(S0, S, arg, i - 1)
                 => ZeroSeen(S0, T, arg, i)
    (* update_queue() performs no decrease: the values only grow.            *)
    <3>VisitGrows. ASSUME AllNumbers, IsCalls(arg), NEW S \in Queues, NEW p \in Proc, NEW T,
                          VisitIs(S, p, T), NEW s \in Sem
                   PROVE  T.val[s] >= S.val[s]
      <4> USE <3>VisitGrows
      <4>1. S.val[s] \in Nat
        BY SMT DEF Queues
      <4>2. CASE T.val = S.val
        BY <4>1, <4>2, SMT
      <4>3. CASE T.val # S.val
        <5>1. /\ Serves(S, p, T) /\ Expected(S.val, arg[p].ops) = "ok"
          BY <4>3 DEF VisitIs, Skips, Blocks, Tells, Serves
        <5>2. ~Decrease(arg[p].ops) /\ T.val[s] = S.val[s] + Delta(arg[p].ops, s)
          BY <5>1 DEF Serves
        <5>3. Delta(arg[p].ops, s) >= 0 /\ Delta(arg[p].ops, s) \in Int
          BY <5>2, KindsDelta, Parts DEF IsCalls
        <5> QED
          BY <4>1, <5>2, <5>3, SMT
      <4> QED
        BY <4>2, <4>3
    <3>WaitsGrow. ASSUME NEW v \in [Sem -> Nat], NEW w \in [Sem -> Nat], \A s \in Sem : w[s] >= v[s],
                         NEW ops \in Seq(Sembuf), Waits(v, ops)
                  PROVE  Waits(w, ops)
      <4> USE <3>WaitsGrow
      <4>1. PICK i \in DOMAIN ops : v[ops[i].num] # 0
        BY DEF Waits
      <4>2. ops[i] \in Sembuf
        BY SMT
      <4>3. ops[i].num \in Sem
        BY <4>2, SMT DEF Sembuf
      <4>4. w[ops[i].num] # 0
        BY <4>1, <4>3, SMT
      <4> QED
        BY <4>4 DEF Waits
    <3> SUFFICES ASSUME NEW S0, NEW T, NEW S \in Queues, NEW i \in 1..Len(S0.pend), AllNumbers,
                        IsCalls(arg), Ready(S0, arg), S0.pend[i] \in Range(S.pend),
                        VisitIs(S, S0.pend[i], T), Range(S.pend) \subseteq Range(S0.pend),
                        Range(T.pend) \subseteq Range(S.pend), KeepsRest(S0, S, arg),
                        StopSeen(S0, S, i - 1), ZeroSeen(S0, S, arg, i - 1)
                 PROVE  ZeroSeen(S0, T, arg, i)
      OBVIOUS
    <3> DEFINE p == S0.pend[i]
    <3>1. S0 \in Queues /\ S0.pend \in Seq(Proc) /\ Len(S0.pend) \in Nat /\ S.pend \in Seq(Proc)
          /\ S.val \in [Sem -> Nat] /\ T.val \in [Sem -> Nat]
      BY SMT DEF Queues, Ready, VisitIs
    <3>2. p \in Proc /\ i \in Nat /\ arg[p].ops \in Seq(Sembuf)
      BY <3>1, SMT DEF IsCalls
    <3> SUFFICES ASSUME NEW j \in 1..i, S0.pend[j] \in Range(T.pend), ~Alter(arg[S0.pend[j]].ops)
                 PROVE  Waits(T.val, arg[S0.pend[j]].ops)
      BY DEF ZeroSeen
    <3>3. CASE j # i
      <4>1. j \in 1..(i - 1) /\ j \in 1..Len(S0.pend)
        BY <3>1, <3>2, <3>3, SMT
      <4>2. Waits(S.val, arg[S0.pend[j]].ops)
        BY <4>1 DEF ZeroSeen
      <4>3. \A s \in Sem : T.val[s] >= S.val[s]
        BY <3>2, <3>VisitGrows
      <4>4. arg[S0.pend[j]].ops \in Seq(Sembuf)
        <5>1. S0.pend[j] \in Proc
          BY <3>1, <4>1, SMT
        <5> QED
          BY <5>1 DEF IsCalls
      <4> QED
        BY <3>1, <4>2, <4>3, <4>4, <3>WaitsGrow
    <3>4. CASE j = i
      <4>1. p \in Range(T.pend) /\ ~Alter(arg[p].ops)
        BY <3>4, SMT
      <4>2. ~S.stop
        <5> SUFFICES ASSUME S.stop PROVE FALSE
          OBVIOUS
        <5>1. PICK k \in 1..(i - 1) : Told(S0, S, k)
          BY DEF StopSeen
        <5>2. Alter(arg[S0.pend[k]].ops)
          BY <5>1, RetryDecreases DEF Told
        <5>3. k \in 1..Len(S0.pend) /\ k < i
          BY <3>1, <3>2, SMT
        <5>4. Ahead(S0.pend, S0.pend[k], p)
          BY <5>3 DEF Ahead
        <5> QED
          BY <4>1, <5>2, <5>4 DEF Ready
      <4>3. S.status[p] # "retry"
        BY <4>1, RetryDecreases
      <4>4. ~Decrease(arg[p].ops)
        <5>1. \A n : n < 0 => n # 0
          BY SMT
        <5> QED
          BY <4>1, <5>1 DEF Decrease, Alter
      <4>5. ~Serves(S, p, T)
        <5>1. Range(Without(S.pend, {p})) = Range(S.pend) \ {p}
          BY <3>1 DEF WithoutLaw
        <5> QED
          BY <4>1, <5>1 DEF Serves
      <4>6. Blocks(S, p, T)
        BY <4>2, <4>3, <4>4, <4>5 DEF VisitIs, Skips, Tells
      <4>7. Expected(S.val, arg[p].ops) = "block" /\ T = S
        BY <4>6 DEF Blocks
      <4>8. Waits(S.val, arg[p].ops)
        BY <3>1, <3>2, <4>1, <4>7, ZeroBlocks DEF Waits
      <4> QED
        BY <3>4, <4>7, <4>8
    <3> QED
      BY <3>3, <3>4
  <2>ServedStep. \A S0, T :
                 \A S \in Queues, i \in 1..Len(S0.pend) :
                   /\ AllNumbers
                   /\ IsCalls(arg)
                   /\ Ready(S0, arg)
                   /\ Mild(S0, arg)
                   /\ S0.pend[i] \in Range(S.pend)
                   /\ VisitIs(S, S0.pend[i], T)
                   /\ Range(S.pend) \subseteq Range(S0.pend)
                   /\ Range(T.pend) \subseteq Range(S.pend)
                   /\ StopSeen(S0, S, i - 1)
                   /\ ServedSeen(S0, S, arg, i - 1)
                   => ServedSeen(S0, T, arg, i)
    <3>MildStep. ASSUME AllNumbers, IsCalls(arg), NEW S0, Mild(S0, arg), NEW S \in Queues,
                        NEW p \in Proc, p \in Range(S0.pend), NEW T, VisitIs(S, p, T)
                 PROVE  T.val = S.val
      <4> USE <3>MildStep
      <4> SUFFICES ASSUME T.val # S.val PROVE FALSE
        BY SMT
      <4>1. S.val \in [Sem -> Nat] /\ T.val \in [Sem -> Nat]
        BY SMT DEF VisitIs, Queues
      <4>2. /\ Serves(S, p, T) /\ Expected(S.val, arg[p].ops) = "ok"
        BY DEF VisitIs, Skips, Blocks, Tells, Serves
      <4>3. ~Decrease(arg[p].ops) /\ \A s \in Sem : T.val[s] = S.val[s] + Delta(arg[p].ops, s)
        BY <4>2 DEF Serves
      <4>4. ~Alter(arg[p].ops)
        BY <4>3 DEF Mild, OnlyAdds
      <4>5. \A s \in Sem : Delta(arg[p].ops, s) = 0
        BY <4>4, KindsDelta DEF IsCalls
      <4>6. \A s \in Sem : T.val[s] = S.val[s] + 0
        BY <4>3, <4>5
      <4> QED
        BY <4>1, <4>6, SMT
    <3> SUFFICES ASSUME NEW S0, NEW T, NEW S \in Queues, NEW i \in 1..Len(S0.pend), AllNumbers,
                        IsCalls(arg), Ready(S0, arg), Mild(S0, arg), S0.pend[i] \in Range(S.pend),
                        VisitIs(S, S0.pend[i], T), Range(S.pend) \subseteq Range(S0.pend),
                        Range(T.pend) \subseteq Range(S.pend), StopSeen(S0, S, i - 1),
                        ServedSeen(S0, S, arg, i - 1)
                 PROVE  ServedSeen(S0, T, arg, i)
      OBVIOUS
    <3> DEFINE p == S0.pend[i]
    <3>1. S0 \in Queues /\ S0.pend \in Seq(Proc) /\ Len(S0.pend) \in Nat /\ S.pend \in Seq(Proc)
          /\ S.status \in [Proc -> Status]
      BY SMT DEF Queues, Ready, VisitIs
    <3>2. p \in Proc /\ i \in Nat /\ p \in Range(S0.pend)
      BY <3>1, SMT
    <3>3. T.val = S.val
      BY <3>2, <3>MildStep
    <3>4. \A k \in 1..(i - 1) : Told(S0, S, k) => Told(S0, T, k)
      BY <3>1, ToldKept DEF Ready
    <3> SUFFICES ASSUME NEW j \in 1..i, S0.pend[j] \in Range(T.pend)
                 PROVE  \/ Told(S0, T, j)
                        \/ Expected(T.val, arg[S0.pend[j]].ops) = "block"
                        \/ \E k \in 1..(j - 1) : Told(S0, T, k)
      BY DEF ServedSeen
    <3>5. CASE j # i
      <4>1. j \in 1..(i - 1) /\ \A k \in 1..(j - 1) : k \in 1..(i - 1)
        BY <3>1, <3>2, <3>5, SMT
      <4>2. \/ Told(S0, S, j)
            \/ Expected(S.val, arg[S0.pend[j]].ops) = "block"
            \/ \E k \in 1..(j - 1) : Told(S0, S, k)
        BY <4>1 DEF ServedSeen
      <4> QED
        BY <3>3, <3>4, <4>1, <4>2
    <3>6. CASE j = i
      <4>1. p \in Range(T.pend)
        BY <3>6, SMT
      <4>2. CASE S.stop
        BY <3>4, <3>6, <4>2 DEF StopSeen
      <4>3. CASE ~S.stop /\ S.status[p] = "retry"
        <5>1. T.status = S.status
          BY <4>3 DEF VisitIs, Skips, Blocks, Tells, Serves
        <5> QED
          BY <3>6, <4>1, <4>3, <5>1 DEF Told
      <4>4. CASE ~S.stop /\ S.status[p] # "retry"
        <5>1. ~Serves(S, p, T)
          <6>1. Range(Without(S.pend, {p})) = Range(S.pend) \ {p}
            BY <3>1 DEF WithoutLaw
          <6> QED
            BY <4>1, <6>1 DEF Serves
        <5>2. CASE Blocks(S, p, T)
          BY <3>3, <3>6, <5>2 DEF Blocks
        <5>3. CASE Tells(S, p, T)
          <6>1. T.status[p] = "retry"
            BY <3>1, <3>2, <5>3 DEF Tells
          <6> QED
            BY <3>6, <4>1, <6>1 DEF Told
        <5> QED
          BY <4>4, <5>1, <5>2, <5>3 DEF VisitIs, Skips
      <4> QED
        BY <4>2, <4>3, <4>4
    <3> QED
      BY <3>5, <3>6
  <2> SUFFICES ASSUME NEW S0, NEW S, NEW i \in 1..Len(S0.pend), IsCalls(arg), Ready(S0, arg),
                      Visiting(S0, S, i - 1)
               PROVE  Visiting(S0, Visit(S, S0.pend[i]), i)
    OBVIOUS
  <2> DEFINE p == S0.pend[i]
             T == Visit(S, p)
  <2>0. AllNumbers
    BY DEF FiniteLaws
  <2>1. S0 \in Queues /\ NoRepeat(S0.pend) /\ S0.pend \in Seq(Proc) /\ Len(S0.pend) \in Nat /\ p \in Proc
    BY SMT DEF Queues, Ready
  <2>2. /\ S \in Queues /\ KeepsOrder(S0, S) /\ KeepsRest(S0, S, arg) /\ AddsUp(S0, S, arg)
        /\ Pending(S0, S, i - 1) /\ StopSeen(S0, S, i - 1) /\ ZeroSeen(S0, S, arg, i - 1)
        /\ Mild(S0, arg) => ServedSeen(S0, S, arg, i - 1)
    BY DEF Visiting
  <2>3. VisitIs(S, p, T)
    BY <2>0, <2>1, <2>2, Visited DEF IsCalls
  <2> HIDE DEF T
  <2>4. p \in Range(S.pend)
    <3>1. i \in ((i - 1) + 1)..Len(S0.pend)
      BY <2>1, SMT
    <3> QED
      BY <2>2, <3>1 DEF Pending
  <2>5. Range(S.pend) \subseteq Range(S0.pend)
    BY <2>2 DEF KeepsOrder
  <2>6. KeepsOrder(S0, T) /\ Range(T.pend) \subseteq Range(S.pend)
    BY <2>2, <2>3, <2>OrderStep
  <2>7. KeepsRest(S0, T, arg)
    BY <2>1, <2>2, <2>3, <2>4, <2>5, <2>RestStep
  <2>8. AddsUp(S0, T, arg)
    BY <2>1, <2>2, <2>3, <2>4, <2>5, <2>AddStep
  <2>9. Pending(S0, T, i)
    BY <2>1, <2>2, <2>3, <2>PendingStep
  <2>10. StopSeen(S0, T, i)
    BY <2>1, <2>2, <2>3, <2>4, <2>StopStep
  <2>11. ZeroSeen(S0, T, arg, i)
    BY <2>0, <2>2, <2>3, <2>4, <2>5, <2>6, <2>ZeroStep
  <2>12. Mild(S0, arg) => ServedSeen(S0, T, arg, i)
    BY <2>0, <2>2, <2>3, <2>4, <2>5, <2>6, <2>ServedStep
  <2>13. T \in Queues
    BY <2>3 DEF VisitIs
  <2> QED
    BY <2>6, <2>7, <2>8, <2>9, <2>10, <2>11, <2>12, <2>13 DEF Visiting, T
<1>StillAhead. ASSUME NEW S0 \in Queues, NEW S \in Queues, NoRepeat(S0.pend), KeepsOrder(S0, S),
                      NEW k \in 1..Len(S0.pend), NEW j \in 1..Len(S0.pend), k < j,
                      S0.pend[k] \in Range(S.pend), S0.pend[j] \in Range(S.pend)
               PROVE  Ahead(S.pend, S0.pend[k], S0.pend[j])
  <2> USE <1>StillAhead
  <2> DEFINE x == S0.pend[k]
             y == S0.pend[j]
             w == S.pend
  <2>1. w \in Seq(Proc) /\ S0.pend \in Seq(Proc)
    BY SMT DEF Queues
  <2>2. DOMAIN w = 1..Len(w) /\ Len(w) \in Nat
    BY <2>1, SMT
  <2>3. PICK a \in 1..Len(w) : w[a] = x
    BY <2>2 DEF Range
  <2>4. PICK b \in 1..Len(w) : w[b] = y
    BY <2>2 DEF Range
  <2>5. k # j /\ ~(j < k)
    BY SMT
  <2>6. x # y
    BY <2>5 DEF NoRepeat
  <2>7. a # b
    BY <2>3, <2>4, <2>6
  <2>8. ~(b < a)
    <3> SUFFICES ASSUME b < a PROVE FALSE
      OBVIOUS
    <3>1. Ahead(w, y, x)
      BY <2>3, <2>4 DEF Ahead
    <3>2. Ahead(S0.pend, y, x)
      BY <3>1 DEF KeepsOrder
    <3>3. PICK c \in 1..Len(S0.pend), d \in 1..Len(S0.pend) : c < d /\ S0.pend[c] = y /\ S0.pend[d] = x
      BY <3>2 DEF Ahead
    <3>4. c = j /\ d = k
      BY <3>3 DEF NoRepeat
    <3> QED
      BY <2>5, <3>3, <3>4
  <2>9. a < b
    BY <2>2, <2>7, <2>8, SMT
  <2> QED
    BY <2>3, <2>4, <2>9 DEF Ahead
<1> SUFFICES ASSUME NEW S0, IsCalls(arg), Ready(S0, arg)
             PROVE  Updated(S0, UpdateQueue(S0), arg)
  OBVIOUS
<1> DEFINE n == Len(S0.pend)
           S == UpdateQueue(S0)
<1>0. AllNumbers
  BY DEF FiniteLaws
<1>1. S0 \in Queues /\ NoRepeat(S0.pend) /\ S0.pend \in Seq(Proc) /\ n \in Nat /\ n \in 0..n
      /\ DOMAIN S0.pend = 1..n
  BY SMT DEF Queues, Ready
<1>2. PICK g : Passed(g, S0)
  BY <1>0, <1>1, <1>QueueIs
<1>3. g[0] = S0 /\ (\A i \in 1..n : g[i] = Visit(g[i-1], S0.pend[i])) /\ S = g[n]
  BY <1>2 DEF Passed
<1> HIDE DEF S
<1> DEFINE T == {i \in 0..n : Visiting(S0, g[i], i)}
<1>4. 0 \in T
  BY <1>1, <1>3, <1>VisitingStart, SMT
<1>5. ASSUME NEW i \in 1..n, i - 1 \in T PROVE i \in T
  <2>1. i \in 0..n /\ Visiting(S0, g[i-1], i - 1)
    BY <1>5, SMT
  <2>2. Visiting(S0, g[i], i)
    BY <1>3, <2>1, <1>VisitingStep
  <2> QED
    BY <2>1, <2>2
<1> HIDE DEF T
<1>6. \A i \in 0..n : i \in T
  <2> HIDE DEF n
  <2> QED
    BY <1>0, <1>1, <1>4, <1>5, EachPass
<1>7. Visiting(S0, S, n)
  BY <1>1, <1>3, <1>6 DEF T
<1>8. /\ S \in Queues /\ KeepsOrder(S0, S) /\ KeepsRest(S0, S, arg) /\ AddsUp(S0, S, arg)
      /\ ZeroSeen(S0, S, arg, n) /\ (Mild(S0, arg) => ServedSeen(S0, S, arg, n))
  BY <1>7 DEF Visiting
<1>9. \A y \in Range(S.pend) : \E j \in 1..n : y = S0.pend[j]
  BY <1>1, <1>8 DEF KeepsOrder, Range
<1>10. ZeroOK(S.val, S.pend, arg)
  BY <1>8, <1>9 DEF ZeroOK, ZeroSeen
<1>11. ASSUME Mild(S0, arg) PROVE FirstOK(S.val, S.pend, S.status, arg)
  <2> SUFFICES ASSUME NEW y \in Range(S.pend), \A x : Ahead(S.pend, x, y) => ~Alter(arg[x].ops)
               PROVE  S.status[y] = "retry" \/ Expected(S.val, arg[y].ops) = "block"
    BY DEF FirstOK
  <2>1. PICK j \in 1..n : y = S0.pend[j]
    BY <1>9
  <2>2. ~(\E k \in 1..(j - 1) : Told(S0, S, k))
    <3> SUFFICES ASSUME NEW k \in 1..(j - 1), Told(S0, S, k) PROVE FALSE
      OBVIOUS
    <3>1. k \in 1..n /\ k < j
      BY <1>1, SMT
    <3>2. Ahead(S.pend, S0.pend[k], S0.pend[j])
      BY <1>1, <1>8, <2>1, <3>1, <1>StillAhead DEF Told
    <3>3. Alter(arg[S0.pend[k]].ops)
      BY <1>8, RetryDecreases DEF Told, KeepsOrder
    <3> QED
      BY <2>1, <3>2, <3>3
  <2> QED
    BY <1>8, <1>11, <2>1, <2>2 DEF ServedSeen, Told
<1>12. Updated(S0, S, arg)
  BY <1>8, <1>10, <1>11 DEF Updated
<1> QED
  BY <1>12 DEF S

-----------------------------------------------------------------------------
(***************************************************************************)
(* The invariant.  Its parts are operators on the pieces of the state, so  *)
(* that a step can be taken in stages: a process leaves the queue, its     *)
(* operations are performed, the queue is updated.                         *)
(***************************************************************************)
InCall == {"sleep", "awake"}
Unlocked == {"alloc", "setall"}
Calls  == [id : {NoSet} \cup 0..MaxSeq, ops : Menu \cup {<<>>}, vals : [Sem -> 0..SEMVMX]]
MenuMild == \A ops \in Menu : OnlyAdds(ops) => \A i \in DOMAIN ops : ops[i].op # 0

Types(v, ad, q, st, A, P, led, ow) ==
    /\ v \in [Sem -> Nat] /\ ad \in [Proc -> [Sem -> Shorts]] /\ q \in Seq(Proc) /\ NoRepeat(q)
    /\ st \in [Proc -> Status] /\ A \in [Proc -> Calls] /\ P \in [Proc -> Pc]
    /\ led \in [Sem -> Int] /\ ow \in [Proc -> [Sem -> Shorts]]

(* A process on the queue sleeps or is about to look at its status.        *)
QueuedOne(st, A, P, id, p) ==
    /\ P[p] \in InCall /\ A[p].id = id /\ id # NoSet /\ st[p] \in {"EINTR", "retry"}
    /\ P[p] = "sleep" => st[p] = "EINTR"
    /\ st[p] = "retry" => Decrease(A[p].ops)
    /\ MenuMild => ~OnlyAdds(A[p].ops)
QueuedOK(q, st, A, P, id) == \A p \in Range(q) : QueuedOne(st, A, P, id, p)

(* A process inside semop() is on the queue until its status says          *)
(* otherwise, and has the undo structure it needs.                         *)
InCallOne(q, st, A, P, id, u, p) ==
    /\ st[p] \in {"EINTR", "retry"} => p \in Range(q)
    /\ P[p] = "sleep" => p \in Range(q)
    /\ id # NoSet /\ A[p].id = id /\ Undos(A[p].ops) => u[p] = id
InCallOK(q, st, A, P, id, u) == \A p \in Proc : P[p] \in InCall => InCallOne(q, st, A, P, id, u, p)

ZeroFirst(q, A) == \A x, y : Ahead(q, x, y) /\ ~Alter(A[y].ops) => ~Alter(A[x].ops)

DoneIn(st, A, P, id) == {p \in Proc : P[p] \in InCall /\ st[p] = "ok" /\ A[p].id = id}

LedgerOK(v, led, A, D) == \A s \in Sem : v[s] = led[s] + Added(A, D, s)

Owing(A, D, p, s) == IF p \in D THEN UndoDelta(A[p].ops, s) ELSE 0
UndoOne(ad, ow, u, id, A, D, p) ==
    /\ u[p] = id => \A s \in Sem : ad[p][s] = Short(-(ow[p][s] + Owing(A, D, p, s)))
    /\ u[p] # id => \A s \in Sem : ow[p][s] = 0
UndoOK(ad, ow, u, id, A, D) == \A p \in Proc : UndoOne(ad, ow, u, id, A, D, p)

Sound(v, ad, q, st, A, P, id, u, led, ow) ==
    /\ Types(v, ad, q, st, A, P, led, ow)
    /\ QueuedOK(q, st, A, P, id) /\ InCallOK(q, st, A, P, id, u) /\ ZeroFirst(q, A)
    /\ id # NoSet => /\ LedgerOK(v, led, A, DoneIn(st, A, P, id))
                     /\ UndoOK(ad, ow, u, id, A, DoneIn(st, A, P, id))

Numbers ==
    /\ semid \in {NoSet} \cup 0..MaxSeq /\ seq \in 0..(MaxSeq + 1) /\ semid < seq
    /\ un \in [Proc -> {NoSet} \cup 0..MaxSeq] /\ sig \in [Proc -> BOOLEAN]
    /\ \A p \in Proc : /\ un[p] < seq /\ arg[p].id < seq
                       /\ pc[p] = "alloc" => un[p] = NoSet
                       /\ pc[p] \in Unlocked => arg[p].id # NoSet

Whole(v, ad, q, st, A, P, id, u, led, ow) ==
    /\ Sound(v, ad, q, st, A, P, id, u, led, ow)
    /\ ZeroOK(v, q, A) /\ (MenuMild => FirstOK(v, q, st, A))

Inv == Numbers /\ Whole(val, adj, pend, status, arg, pc, semid, un, ledger, owed)

Agrees(f, g, P) == \A p \in Proc : P[p] \in InCall => f[p] = g[p]

LEMMA CallsAre == ASSUME NEW A \in [Proc -> Calls] PROVE IsCalls(A)
<1>1. <<>> \in Seq(Sembuf) /\ Menu \subseteq Seq(Sembuf)
  BY MenuAssumption, SMT
<1>2. \A p \in Proc : A[p].ops \in Menu \cup {<<>>}
  BY SMT DEF Calls
<1> QED
  BY <1>1, <1>2 DEF IsCalls

LEMMA AheadIn ==
  ASSUME NEW q \in Seq(Proc), NEW x, NEW y, Ahead(q, x, y)
  PROVE  x \in Range(q) /\ y \in Range(q)
<1>1. DOMAIN q = 1..Len(q)
  BY SMT
<1> QED
  BY <1>1 DEF Ahead, Range

(* The queue of a state that is sound is ready for update_queue().         *)
LEMMA SoundReady ==
  ASSUME NEW S \in Queues, ~S.stop, NEW st, NEW A, NEW P, NEW id, NEW u, NEW led, NEW ow,
         Sound(S.val, S.adj, S.pend, st, A, P, id, u, led, ow),
         Agrees(A, arg, P), Agrees(st, S.status, P)
  PROVE  Ready(S, arg) /\ (MenuMild => Mild(S, arg))
<1>1. NoRepeat(S.pend) /\ QueuedOK(S.pend, st, A, P, id) /\ ZeroFirst(S.pend, A) /\ S.pend \in Seq(Proc)
  BY DEF Sound, Types
<1>2. \A q \in Range(S.pend) : q \in Proc
  BY <1>1, SMT DEF Range
<1>3. \A q \in Range(S.pend) : QueuedOne(st, A, P, id, q) /\ P[q] \in InCall
  BY <1>1 DEF QueuedOK, QueuedOne
<1>4. \A q \in Range(S.pend) : A[q] = arg[q] /\ st[q] = S.status[q]
  BY <1>2, <1>3 DEF Agrees
<1>5. \A q \in Range(S.pend) : S.status[q] = "retry" => Decrease(arg[q].ops)
  BY <1>3, <1>4 DEF QueuedOne
<1>6. \A x, y : Ahead(S.pend, x, y) /\ ~Alter(arg[y].ops) => ~Alter(arg[x].ops)
  <2> SUFFICES ASSUME NEW x, NEW y, Ahead(S.pend, x, y), ~Alter(arg[y].ops) PROVE ~Alter(arg[x].ops)
    OBVIOUS
  <2>1. A[x] = arg[x] /\ A[y] = arg[y]
    BY <1>1, <1>4, AheadIn
  <2> QED
    BY <1>1, <2>1 DEF ZeroFirst
<1>7. MenuMild => Mild(S, arg)
  BY <1>3, <1>4 DEF Mild, QueuedOne
<1> QED
  BY <1>1, <1>5, <1>6, <1>7 DEF Ready

(***************************************************************************)
(* update_queue() keeps a state sound.  p is the process whose step it is: *)
(* it is not in the call any more, or not yet, and its status and          *)
(* arguments may differ.                                                   *)
(***************************************************************************)
Wakes(P, U, P1) == \A q \in Proc : P1[q] = IF q \in U.woken /\ P[q] = "sleep" THEN "awake" ELSE P[q]

LEMMA WakesInCall ==
  ASSUME NEW P, NEW U, NEW P1, Wakes(P, U, P1), NEW q \in Proc
  PROVE  /\ P1[q] \in InCall <=> P[q] \in InCall
         /\ P1[q] = "sleep" => P[q] = "sleep" /\ q \notin U.woken
<1>1. P1[q] = IF q \in U.woken /\ P[q] = "sleep" THEN "awake" ELSE P[q]
  BY DEF Wakes
<1> QED
  BY <1>1, SMT DEF InCall

(* One process: where it was and where it is after the update.             *)
Moved(S, U, st, st1, A, q) ==
    \/ /\ q \notin Range(S.pend) /\ q \notin Range(U.pend) /\ U.adj[q] = S.adj[q] /\ st1[q] = st[q]
    \/ /\ q \in Range(S.pend) /\ q \in Range(U.pend) /\ U.adj[q] = S.adj[q]
       /\ st1[q] = st[q] \/ (st1[q] = "retry" /\ q \in U.woken /\ Decrease(A[q].ops))
    \/ /\ q \in Range(S.pend) /\ q \notin Range(U.pend) /\ q \in U.woken
       /\ \/ /\ st1[q] = "ok"
             /\ \A s \in Sem : U.adj[q][s] = Short(S.adj[q][s] - UndoDelta(A[q].ops, s))
          \/ st1[q] \in {"EAGAIN", "ERANGE"} /\ U.adj[q] = S.adj[q]

LEMMA MovedOne ==
  ASSUME NEW S, NEW U, Updated(S, U, arg), NEW st, NEW st1, NEW A, NEW P,
         Agrees(A, arg, P), Agrees(st, S.status, P), Agrees(st1, U.status, P),
         NEW q \in Proc, P[q] \in InCall
  PROVE  Moved(S, U, st, st1, A, q)
<1>1. A[q] = arg[q] /\ st[q] = S.status[q] /\ st1[q] = U.status[q]
  BY DEF Agrees
<1>2. KeepsOne(S, U, arg, q) /\ (q \in Range(U.pend) => q \in Range(S.pend))
  BY DEF Updated, KeepsRest, KeepsOrder
<1>3. CASE q \notin Range(S.pend)
  BY <1>1, <1>2, <1>3 DEF KeepsOne, Moved
<1>4. CASE q \in Range(U.pend)
  BY <1>1, <1>2, <1>4 DEF KeepsOne, Moved
<1>5. CASE q \in Range(S.pend) /\ q \notin Range(U.pend)
  <2>1. q \in U.woken /\ U.status[q] \in {"ok", "EAGAIN", "ERANGE"}
    BY <1>2, <1>5 DEF KeepsOne
  <2>2. CASE U.status[q] = "ok"
    BY <1>1, <1>2, <1>5, <2>1, <2>2 DEF KeepsOne, Moved
  <2>3. CASE U.status[q] # "ok"
    BY <1>1, <1>2, <1>5, <2>1, <2>3 DEF KeepsOne, Moved
  <2> QED
    BY <2>2, <2>3
<1> QED
  BY <1>3, <1>4, <1>5

(* Who has been served by update_queue() and not returned.                 *)
SameOn(D, A, B) == \A p \in D : A[p] = B[p]
Joins(D1, D, S, U) == D1 = D \cup Fresh(S, U) /\ D \cap Range(S.pend) = {}

LEMMA AddedAgrees ==
  ASSUME FiniteLaws, SumLaws, NEW A, NEW B, NEW D \in SUBSET Proc, SameOn(D, A, B), NEW s
  PROVE  Added(A, D, s) = Added(B, D, s)
<1> DEFINE f == [p \in Proc |-> Delta(A[p].ops, s)]
           g == [p \in Proc |-> Delta(B[p].ops, s)]
<1>1. IsFiniteSet(D)
  BY ProcAssumption DEF FiniteLaws, SubsetSize
<1>2. \A p \in D : f[p] = g[p]
  <2>1. \A p \in D : p \in Proc
    BY SMT
  <2> QED
    BY <2>1 DEF SameOn
<1>3. Added(A, D, s) = SumFunctionOnSet(f, D) /\ Added(B, D, s) = SumFunctionOnSet(g, D)
  BY DEF Added
<1> HIDE DEF f, g
<1> QED
  BY <1>1, <1>2, <1>3 DEF SumLaws, SumAgrees

(* One more call performed on behalf of a process.                         *)
Owes(a, o) == \A s \in Sem : a[s] = Short(-(o[s] + 0))
Charged(z, a, ops) == \A s \in Sem : z[s] = Short(a[s] - UndoDelta(ops, s))
OwesToo(z, o, ops) == \A s \in Sem : z[s] = Short(-(o[s] + UndoDelta(ops, s)))

LEMMA OweMore ==
  ASSUME LoopLaw, FiniteLaws
  PROVE  \A a, z :
         \A o \in [Sem -> Shorts], ops \in Seq(Sembuf) :
           /\ Owes(a, o)
           /\ Charged(z, a, ops)
           => OwesToo(z, o, ops)
<1>ShortOwe. ASSUME NEW o \in Int, NEW d \in Int
             PROVE  Short(Short(-(o + 0)) - d) = Short(-(o + d))
  <2>1. -(o + 0) \in Int /\ -d \in Int /\ -(o + 0) + (-d) = -(o + d)
    BY SMT
  <2>2. Short(Short(-(o + 0)) + (-d)) = Short(-(o + d))
    BY <2>1, ShortAdd, SMT
  <2>3. Short(-(o + 0)) \in Shorts
    BY <2>1, ShortIs, SMT
  <2>4. Short(-(o + 0)) \in Int
    BY <2>3, ShortId, SMT
  <2>5. Short(-(o + 0)) + (-d) = Short(-(o + 0)) - d
    BY <2>4, SMT
  <2> QED
    BY <2>2, <2>5, SMT
<1> SUFFICES ASSUME NEW a, NEW z, NEW o \in [Sem -> Shorts], NEW ops \in Seq(Sembuf), Owes(a, o),
                    Charged(z, a, ops)
             PROVE  OwesToo(z, o, ops)
  OBVIOUS
<1> SUFFICES ASSUME NEW s \in Sem PROVE z[s] = Short(-(o[s] + UndoDelta(ops, s)))
  BY DEF OwesToo
<1>1. UndoDelta(ops, s) \in Int
  BY Parts DEF FiniteLaws
<1>2. o[s] \in Int
  BY ShortId, SMT
<1>3. z[s] = Short(Short(-(o[s] + 0)) - UndoDelta(ops, s))
  BY DEF Owes, Charged
<1> QED
  BY <1>1, <1>2, <1>3, <1>ShortOwe

(* Together: the state before the update need not have the variables'      *)
(* values for processes outside semop().                                   *)
Suits(S, U, st, st1, A, P, P1) ==
    /\ Updated(S, U, arg) /\ Wakes(P, U, P1)
    /\ Agrees(A, arg, P) /\ Agrees(st, S.status, P) /\ Agrees(st1, U.status, P)
    /\ st1 \in [Proc -> Status] /\ P1 \in [Proc -> Pc] /\ A \in [Proc -> Calls]

LEMMA Update ==
  ASSUME LoopLaw, FiniteLaws, SumLaws, WithoutLaw, WithoutOrder
  PROVE  \A st, A, P, id, u, led, ow, U :
         \A S \in Queues, st1 \in [Proc -> Status], P1 \in [Proc -> Pc] :
           /\ IsCalls(arg)
           /\ ~S.stop
           /\ Sound(S.val, S.adj, S.pend, st, A, P, id, u, led, ow)
           /\ Agrees(A, arg, P)
           /\ Agrees(st, S.status, P)
           /\ U = UpdateQueue(S)
           /\ Agrees(st1, U.status, P)
           /\ Wakes(P, U, P1)
           => Whole(U.val, U.adj, U.pend, st1, A, P1, id, u, led, ow)
<1>Wake. \A U, st, st1, A, P, P1, id, u, led, ow :
         \A S \in Queues :
           /\ IsCalls(arg)
           /\ Suits(S, U, st, st1, A, P, P1)
           /\ Sound(S.val, S.adj, S.pend, st, A, P, id, u, led, ow)
           => Sound(U.val, U.adj, U.pend, st1, A, P1, id, u, led, ow)
  <2>WakeQueued. ASSUME NEW S \in Queues, NEW U, Updated(S, U, arg), NEW st, NEW st1, NEW A, NEW P,
                        NEW P1, NEW id, QueuedOK(S.pend, st, A, P, id), Agrees(A, arg, P),
                        Agrees(st, S.status, P), Agrees(st1, U.status, P), Wakes(P, U, P1)
                 PROVE  QueuedOK(U.pend, st1, A, P1, id)
    <3> USE <2>WakeQueued
    <3> SUFFICES ASSUME NEW q \in Range(U.pend) PROVE QueuedOne(st1, A, P1, id, q)
      BY DEF QueuedOK
    <3>1. q \in Range(S.pend) /\ q \in Proc
      <4>1. q \in Range(S.pend)
        BY DEF Updated, KeepsOrder
      <4> QED
        BY <4>1, SMT DEF Range, Queues
    <3>2. QueuedOne(st, A, P, id, q) /\ P[q] \in InCall
      BY <3>1 DEF QueuedOK, QueuedOne
    <3>3. Moved(S, U, st, st1, A, q)
      BY <3>1, <3>2, MovedOne
    <3>4. st1[q] = st[q] \/ (st1[q] = "retry" /\ q \in U.woken /\ Decrease(A[q].ops))
      BY <3>1, <3>3 DEF Moved
    <3>5. /\ P1[q] \in InCall
          /\ P1[q] = "sleep" => P[q] = "sleep" /\ q \notin U.woken
      BY <3>1, <3>2, WakesInCall
    <3> QED
      BY <3>2, <3>4, <3>5 DEF QueuedOne
  <2>WakeInCall. ASSUME NEW S \in Queues, NEW U, Updated(S, U, arg), NEW st, NEW st1, NEW A, NEW P,
                        NEW P1, NEW id, NEW u, InCallOK(S.pend, st, A, P, id, u),
                        Agrees(A, arg, P), Agrees(st, S.status, P), Agrees(st1, U.status, P),
                        Wakes(P, U, P1)
                 PROVE  InCallOK(U.pend, st1, A, P1, id, u)
    <3> USE <2>WakeInCall
    <3> SUFFICES ASSUME NEW q \in Proc, P1[q] \in InCall PROVE InCallOne(U.pend, st1, A, P1, id, u, q)
      BY DEF InCallOK
    <3>1. P[q] \in InCall /\ (P1[q] = "sleep" => P[q] = "sleep" /\ q \notin U.woken)
      BY WakesInCall
    <3>2. InCallOne(S.pend, st, A, P, id, u, q)
      BY <3>1 DEF InCallOK
    <3>3. Moved(S, U, st, st1, A, q)
      BY <3>1, MovedOne
    <3>4. /\ P1[q] = "sleep" => q \in Range(U.pend)
          /\ st1[q] \in {"EINTR", "retry"} => q \in Range(U.pend)
      <4>1. CASE q \in Range(U.pend)
        BY <4>1, SMT
      <4>2. CASE q \notin Range(S.pend)
        BY <3>1, <3>2, <3>3, <4>2 DEF InCallOne, Moved
      <4>3. CASE q \in Range(S.pend) /\ q \notin Range(U.pend)
        <5>1. q \in U.woken /\ st1[q] \in {"ok", "EAGAIN", "ERANGE"}
          BY <3>3, <4>3 DEF Moved
        <5> QED
          BY <3>1, <5>1, SMT
      <4> QED
        BY <4>1, <4>2, <4>3
    <3> QED
      BY <3>2, <3>4 DEF InCallOne
  <2>WakeDone. ASSUME NEW S \in Queues, NEW U, Updated(S, U, arg), NEW st, NEW st1, NEW A, NEW P,
                      NEW P1, NEW id, QueuedOK(S.pend, st, A, P, id),
                      QueuedOK(U.pend, st1, A, P1, id), Agrees(A, arg, P), Agrees(st, S.status, P),
                      Agrees(st1, U.status, P), Wakes(P, U, P1)
               PROVE  /\ Joins(DoneIn(st1, A, P1, id), DoneIn(st, A, P, id), S, U)
                      /\ SameOn(DoneIn(st1, A, P1, id), A, arg)
    <3> USE <2>WakeDone
    <3> DEFINE D  == DoneIn(st, A, P, id)
               D1 == DoneIn(st1, A, P1, id)
               F  == Fresh(S, U)
    <3>1. ASSUME NEW q \in F PROVE q \in D1
      <4>1. q \in Range(S.pend) /\ U.status[q] = "ok"
        BY DEF Fresh
      <4>2. q \in Proc
        BY <4>1, SMT DEF Range, Queues
      <4>3. P[q] \in InCall /\ A[q].id = id
        BY <4>1 DEF QueuedOK, QueuedOne
      <4>4. st1[q] = "ok" /\ P1[q] \in InCall
        BY <4>1, <4>2, <4>3, WakesInCall DEF Agrees
      <4> QED
        BY <4>2, <4>3, <4>4 DEF DoneIn
    <3>2. ASSUME NEW q \in D PROVE q \notin Range(S.pend) /\ q \in D1
      <4>1. q \in Proc /\ P[q] \in InCall /\ st[q] = "ok" /\ A[q].id = id
        BY DEF DoneIn
      <4>2. "ok" \notin {"EINTR", "retry"}
        BY SMT
      <4>3. q \notin Range(S.pend)
        BY <4>1, <4>2 DEF QueuedOK, QueuedOne
      <4>4. Moved(S, U, st, st1, A, q)
        BY <4>1, MovedOne
      <4>5. P1[q] \in InCall
        BY <4>1, WakesInCall
      <4>6. st1[q] = "ok"
        BY <4>1, <4>3, <4>4 DEF Moved
      <4> QED
        BY <4>1, <4>3, <4>5, <4>6 DEF DoneIn
    <3>3. ASSUME NEW q \in D1, q \notin F PROVE q \in D
      <4>1. q \in Proc /\ P1[q] \in InCall /\ st1[q] = "ok" /\ A[q].id = id
        BY DEF DoneIn
      <4>2. "ok" \notin {"EINTR", "retry"}
        BY SMT
      <4>3. q \notin Range(U.pend)
        BY <4>1, <4>2 DEF QueuedOK, QueuedOne
      <4>4. P[q] \in InCall
        BY <4>1, WakesInCall
      <4>5. U.status[q] = "ok"
        BY <4>1, <4>4 DEF Agrees
      <4>6. q \notin Range(S.pend)
        BY <3>3, <4>3, <4>5 DEF Fresh
      <4>7. Moved(S, U, st, st1, A, q)
        BY <4>1, <4>4, MovedOne
      <4>8. st[q] = "ok"
        BY <4>1, <4>6, <4>7 DEF Moved
      <4> QED
        BY <4>1, <4>4, <4>8 DEF DoneIn
    <3> HIDE DEF D, D1, F
    <3>4. D1 = D \cup F /\ D \cap Range(S.pend) = {}
      BY <3>1, <3>2, <3>3, SMT
    <3>5. ASSUME NEW q \in D1 PROVE A[q] = arg[q]
      <4>1. q \in Proc /\ P1[q] \in InCall
        BY DEF D1, DoneIn
      <4> QED
        BY <4>1, WakesInCall DEF Agrees
    <3> QED
      BY <3>4, <3>5 DEF D, D1, F, SameOn, Joins
  <2>WakeLedger. ASSUME NEW S \in Queues, NEW U \in Queues, AddsUp(S, U, arg), NEW A, IsCalls(A),
                        IsCalls(arg), NEW led \in [Sem -> Int], NEW D \in SUBSET Proc,
                        NEW D1 \in SUBSET Proc, Joins(D1, D, S, U), SameOn(D1, A, arg),
                        LedgerOK(S.val, led, A, D)
                 PROVE  LedgerOK(U.val, led, A, D1)
    <3> USE <2>WakeLedger
    <3> SUFFICES ASSUME NEW s \in Sem PROVE U.val[s] = led[s] + Added(A, D1, s)
      BY DEF LedgerOK
    <3>1. \A q \in D : q \in D1
      BY SMT DEF Joins
    <3>2. U.val[s] - Added(arg, D1, s) = S.val[s] - Added(arg, D, s)
      BY DEF AddsUp, Joins
    <3>10. SameOn(D, A, arg)
      BY <3>1 DEF SameOn
    <3>3. Added(A, D1, s) = Added(arg, D1, s)
      BY AddedAgrees, SMT
    <3>4. Added(A, D, s) = Added(arg, D, s)
      BY <3>10, AddedAgrees, SMT
    <3>5. Added(A, D1, s) \in Int /\ Added(A, D, s) \in Int
      BY <3>1, AddedIs
    <3>6. S.val[s] = led[s] + Added(A, D, s)
      BY DEF LedgerOK
    <3>7. U.val[s] \in Int /\ S.val[s] \in Int /\ led[s] \in Int
      BY SMT DEF Queues
    <3> DEFINE a == Added(A, D1, s)
               b == Added(A, D, s)
    <3>8. U.val[s] - a = S.val[s] - b /\ S.val[s] = led[s] + b /\ a \in Int /\ b \in Int
      BY <3>2, <3>3, <3>4, <3>5, <3>6
    <3>9. U.val[s] = led[s] + a
      <4> HIDE DEF a, b
      <4> QED
        BY <3>7, <3>8, SMT
    <3> QED
      BY <3>9, SMT
  <2>WakeUndo. ASSUME NEW S \in Queues, NEW U \in Queues, KeepsRest(S, U, arg), NEW A, IsCalls(A),
                      NEW u, NEW id, NEW ow \in [Proc -> [Sem -> Shorts]], NEW D \in SUBSET Proc,
                      NEW D1 \in SUBSET Proc, Joins(D1, D, S, U), SameOn(D1, A, arg),
                      UndoOK(S.adj, ow, u, id, A, D)
               PROVE  UndoOK(U.adj, ow, u, id, A, D1)
    <3> USE <2>WakeUndo
    <3> SUFFICES ASSUME NEW q \in Proc PROVE UndoOne(U.adj, ow, u, id, A, D1, q)
      BY DEF UndoOK
    <3>1. UndoOne(S.adj, ow, u, id, A, D, q) /\ KeepsOne(S, U, arg, q)
      BY DEF UndoOK, KeepsRest
    <3>2. CASE q \notin Fresh(S, U)
      <4>1. U.adj[q] = S.adj[q]
        BY <3>1, <3>2 DEF KeepsOne, Fresh
      <4>2. q \in D1 <=> q \in D
        BY <3>2, SMT DEF Joins
      <4> QED
        BY <3>1, <4>1, <4>2 DEF UndoOne, Owing
    <3>3. CASE q \in Fresh(S, U)
      <4>1. q \in D1 /\ q \notin D /\ q \in Range(S.pend) /\ q \notin Range(U.pend) /\ U.status[q] = "ok"
        BY <3>3, SMT DEF Fresh, Joins
      <4>2. A[q] = arg[q]
        BY <4>1 DEF SameOn
      <4>3. Charged(U.adj[q], S.adj[q], A[q].ops)
        BY <3>1, <4>1, <4>2 DEF KeepsOne, Charged
      <4>4. \A s \in Sem : Owing(A, D, q, s) = 0 /\ Owing(A, D1, q, s) = UndoDelta(A[q].ops, s)
        BY <4>1 DEF Owing
      <4>5. CASE u[q] = id
        <5>1. Owes(S.adj[q], ow[q])
          BY <3>1, <4>4, <4>5 DEF UndoOne, Owes
        <5>2. A[q].ops \in Seq(Sembuf) /\ ow[q] \in [Sem -> Shorts]
          BY DEF IsCalls
        <5>3. OwesToo(U.adj[q], ow[q], A[q].ops)
          BY <4>3, <5>1, <5>2, OweMore
        <5> QED
          BY <4>4, <4>5, <5>3 DEF UndoOne, OwesToo
      <4>6. CASE u[q] # id
        BY <3>1, <4>6 DEF UndoOne
      <4> QED
        BY <4>5, <4>6
    <3> QED
      BY <3>2, <3>3
  <2> TAKE U, st, st1, A, P, P1, id, u, led, ow
  <2> TAKE S \in Queues
  <2> HAVE /\ IsCalls(arg)
           /\ Suits(S, U, st, st1, A, P, P1)
           /\ Sound(S.val, S.adj, S.pend, st, A, P, id, u, led, ow)
  <2>1. /\ Updated(S, U, arg) /\ Wakes(P, U, P1)
        /\ Agrees(A, arg, P) /\ Agrees(st, S.status, P) /\ Agrees(st1, U.status, P)
        /\ st1 \in [Proc -> Status] /\ P1 \in [Proc -> Pc]
    BY DEF Suits
  <2>2. /\ Types(S.val, S.adj, S.pend, st, A, P, led, ow)
        /\ QueuedOK(S.pend, st, A, P, id) /\ InCallOK(S.pend, st, A, P, id, u) /\ ZeroFirst(S.pend, A)
        /\ id # NoSet => /\ LedgerOK(S.val, led, A, DoneIn(st, A, P, id))
                         /\ UndoOK(S.adj, ow, u, id, A, DoneIn(st, A, P, id))
    BY DEF Sound
  <2>3. U \in Queues /\ KeepsOrder(S, U) /\ KeepsRest(S, U, arg) /\ AddsUp(S, U, arg)
    BY <2>1 DEF Updated
  <2>4. QueuedOK(U.pend, st1, A, P1, id)
    BY <2>1, <2>2, <2>WakeQueued
  <2>5. InCallOK(U.pend, st1, A, P1, id, u)
    BY <2>1, <2>2, <2>WakeInCall
  <2>6. ZeroFirst(U.pend, A)
    BY <2>2, <2>3 DEF ZeroFirst, KeepsOrder
  <2>7. Types(U.val, U.adj, U.pend, st1, A, P1, led, ow)
    <3>1. U.val \in [Sem -> Nat] /\ U.adj \in [Proc -> [Sem -> Shorts]] /\ U.pend \in Seq(Proc)
      BY <2>3, SMT DEF Queues
    <3> QED
      BY <2>1, <2>2, <2>3, <3>1 DEF Types, KeepsOrder
  <2> DEFINE D  == DoneIn(st, A, P, id)
             D1 == DoneIn(st1, A, P1, id)
  <2>8. Joins(D1, D, S, U) /\ SameOn(D1, A, arg)
    BY <2>1, <2>2, <2>4, <2>WakeDone
  <2>10. D \in SUBSET Proc /\ D1 \in SUBSET Proc
    BY SMT DEF DoneIn
  <2> HIDE DEF D, D1
  <2>13. IsCalls(A) /\ led \in [Sem -> Int] /\ ow \in [Proc -> [Sem -> Shorts]]
    BY <2>2, CallsAre DEF Types
  <2>14. ASSUME id # NoSet PROVE LedgerOK(U.val, led, A, D1)
    <3>1. LedgerOK(S.val, led, A, D)
      BY <2>2, <2>14 DEF D
    <3> QED
      BY <3>1, <2>3, <2>8, <2>10, <2>13, <2>WakeLedger
  <2>15. ASSUME id # NoSet PROVE UndoOK(U.adj, ow, u, id, A, D1)
    <3>1. UndoOK(S.adj, ow, u, id, A, D)
      BY <2>2, <2>15 DEF D
    <3> QED
      BY <3>1, <2>3, <2>8, <2>10, <2>13, <2>WakeUndo
  <2> QED
    BY <2>4, <2>5, <2>6, <2>7, <2>14, <2>15 DEF Sound, D1
(* What ZeroOK and FirstOK say depends on the processes on the queue only. *)
<1>ServedAgrees. ASSUME NEW v, NEW q \in Seq(Proc), NEW st, NEW st1, NEW A, NEW B,
                        SameOn(Range(q), A, B), SameOn(Range(q), st, st1)
                 PROVE  /\ ZeroOK(v, q, B) => ZeroOK(v, q, A)
                        /\ FirstOK(v, q, st1, B) => FirstOK(v, q, st, A)
  <2> USE <1>ServedAgrees
  <2>1. \A y \in Range(q) : A[y] = B[y] /\ st[y] = st1[y]
    BY DEF SameOn
  <2>2. \A x, y : Ahead(q, x, y) => A[x] = B[x]
    BY <2>1, AheadIn
  <2>3. ASSUME ZeroOK(v, q, B) PROVE ZeroOK(v, q, A)
    BY <2>1, <2>3 DEF ZeroOK
  <2>4. ASSUME FirstOK(v, q, st1, B) PROVE FirstOK(v, q, st, A)
    <3> SUFFICES ASSUME NEW y \in Range(q), Alter(A[y].ops), \A x : Ahead(q, x, y) => ~Alter(A[x].ops)
                 PROVE  st[y] = "retry" \/ Expected(v, A[y].ops) = "block"
      BY DEF FirstOK
    <3>1. A[y] = B[y] /\ st[y] = st1[y]
      BY <2>1
    <3>2. \A x : Ahead(q, x, y) => ~Alter(B[x].ops)
      BY <2>2
    <3>3. st1[y] = "retry" \/ Expected(v, B[y].ops) = "block"
      BY <2>4, <3>1, <3>2 DEF FirstOK
    <3> QED
      BY <3>1, <3>3
  <2> QED
    BY <2>3, <2>4
<1> TAKE st, A, P, id, u, led, ow, U
<1> TAKE S \in Queues, st1 \in [Proc -> Status], P1 \in [Proc -> Pc]
<1> HAVE /\ IsCalls(arg)
         /\ ~S.stop
         /\ Sound(S.val, S.adj, S.pend, st, A, P, id, u, led, ow)
         /\ Agrees(A, arg, P)
         /\ Agrees(st, S.status, P)
         /\ U = UpdateQueue(S)
         /\ Agrees(st1, U.status, P)
         /\ Wakes(P, U, P1)
<1>1. Ready(S, arg) /\ (MenuMild => Mild(S, arg))
  BY SoundReady
<1>2. Updated(S, U, arg)
  BY <1>1, QueueUpdated
<1>3. A \in [Proc -> Calls] /\ QueuedOK(S.pend, st, A, P, id)
  BY DEF Sound, Types
<1>4. Suits(S, U, st, st1, A, P, P1)
  BY <1>2, <1>3 DEF Suits
<1>5. Sound(U.val, U.adj, U.pend, st1, A, P1, id, u, led, ow)
  BY <1>4, <1>Wake
<1>6. U.pend \in Seq(Proc) /\ Range(U.pend) \subseteq Range(S.pend)
  BY <1>2, <1>5 DEF Updated, KeepsOrder, Sound, Types
<1>7. \A y \in Range(U.pend) : y \in Proc
  BY <1>6, SMT DEF Range
<1>8. \A y \in Range(U.pend) : P[y] \in InCall
  BY <1>3, <1>6 DEF QueuedOK, QueuedOne
<1>9. SameOn(Range(U.pend), A, arg) /\ SameOn(Range(U.pend), st1, U.status)
  BY <1>7, <1>8 DEF SameOn, Agrees
<1>10. ZeroOK(U.val, U.pend, arg) /\ (MenuMild => FirstOK(U.val, U.pend, U.status, arg))
  BY <1>1, <1>2 DEF Updated
<1>11. ZeroOK(U.val, U.pend, A) /\ (MenuMild => FirstOK(U.val, U.pend, st1, A))
  BY <1>6, <1>9, <1>10, <1>ServedAgrees
<1> QED
  BY <1>5, <1>11 DEF Whole

-----------------------------------------------------------------------------
(***************************************************************************)
(* A process leaves semop(), and the queue if it is on it.                 *)
(***************************************************************************)
OutOf(q, q2, p) ==
    /\ q2 \in Seq(Proc) /\ NoRepeat(q2) /\ Range(q2) = Range(q) \ {p}
    /\ \A x, y : Ahead(q2, x, y) => Ahead(q, x, y)
    /\ \A x, y : Ahead(q, x, y) /\ x # p /\ y # p => Ahead(q2, x, y)

LEMMA OutOfWithout ==
  ASSUME WithoutLaw, WithoutOrder
  PROVE  \A p :
         \A q \in Seq(Proc) :
           NoRepeat(q)
           => OutOf(q, Without(q, {p}), p)
<1>OrderLeft. ASSUME NEW q \in Seq(Proc), NEW T, NEW x, NEW y, Ahead(q, x, y), x \notin T,
                     y \notin T
              PROVE  Ahead(Without(q, T), x, y)
  <2> USE <1>OrderLeft
  <2> DEFINE w == Without(q, T)
  <2>1. PICK e : Embeds(e, w, q, T, Len(q))
    BY DEF WithoutOrder
  <2>2. PICK a \in 1..Len(q), b \in 1..Len(q) : a < b /\ q[a] = x /\ q[b] = y
    BY DEF Ahead
  <2>3. PICK j \in 1..Len(w) : e[j] = a
    BY <2>1, <2>2 DEF Embeds
  <2>4. PICK k \in 1..Len(w) : e[k] = b
    BY <2>1, <2>2 DEF Embeds
  <2>5. j # k /\ ~(k < j)
    <3>1. k < j => e[k] < e[j]
      BY <2>1 DEF Embeds
    <3>2. a # b /\ ~(b < a)
      BY <2>2, SMT
    <3> QED
      BY <2>3, <2>4, <3>1, <3>2
  <2>6. j < k
    <3> HIDE DEF w
    <3> QED
      BY <2>5, SMT
  <2>7. w[j] = x /\ w[k] = y
    BY <2>1, <2>2, <2>3, <2>4 DEF Embeds
  <2> QED
    BY <2>6, <2>7 DEF Ahead
<1> SUFFICES ASSUME NEW p, NEW q \in Seq(Proc), NoRepeat(q)
             PROVE  OutOf(q, Without(q, {p}), p)
  OBVIOUS
<1>1. Without(q, {p}) \in Seq(Proc) /\ Range(Without(q, {p})) = Range(q) \ {p} /\ NoRepeat(Without(q, {p}))
  BY DEF WithoutLaw
<1>2. \A x, y : Ahead(Without(q, {p}), x, y) => Ahead(q, x, y)
  BY LeavesOrder
<1>3. ASSUME NEW x, NEW y, Ahead(q, x, y), x # p, y # p PROVE Ahead(Without(q, {p}), x, y)
  <2>1. x \notin {p} /\ y \notin {p}
    BY <1>3, SMT
  <2> QED
    BY <1>3, <2>1, <1>OrderLeft
<1> QED
  BY <1>1, <1>2, <1>3 DEF OutOf

LEMMA OutOfSame ==
  ASSUME NEW q \in Seq(Proc), NoRepeat(q), NEW p, p \notin Range(q)
  PROVE  OutOf(q, q, p)
<1>1. Range(q) = Range(q) \ {p}
  BY SMT
<1> QED
  BY <1>1 DEF OutOf

(* f and g are the same but for p.                                         *)
Besides(p, f, g) == \A r \in Proc : r # p => f[r] = g[r]

Leaves(p, st, A, P, st2, A2, P2) ==
    /\ st2 \in [Proc -> Status] /\ A2 \in [Proc -> Calls] /\ P2 \in [Proc -> Pc]
    /\ Besides(p, st2, st) /\ Besides(p, A2, A) /\ Besides(p, P2, P) /\ P2[p] \notin InCall

LEMMA LeaveShape ==
  ASSUME NEW p \in Proc, NEW q, NEW q2, OutOf(q, q2, p),
         NEW st, NEW A, NEW P, NEW st2, NEW A2, NEW P2, Leaves(p, st, A, P, st2, A2, P2), NEW id, NEW u,
         QueuedOK(q, st, A, P, id), InCallOK(q, st, A, P, id, u), ZeroFirst(q, A)
  PROVE  QueuedOK(q2, st2, A2, P2, id) /\ InCallOK(q2, st2, A2, P2, id, u) /\ ZeroFirst(q2, A2)
<1>1. ASSUME NEW r \in Proc, r # p PROVE st2[r] = st[r] /\ A2[r] = A[r] /\ P2[r] = P[r]
  BY <1>1 DEF Leaves, Besides
<1>2. \A r : r \in Range(q2) <=> r \in Range(q) /\ r # p
  <2>1. Range(q2) = Range(q) \ {p}
    BY DEF OutOf
  <2> QED
    BY <2>1, SMT
<1>3. \A r \in Range(q2) : r \in Proc
  <2>1. q2 \in Seq(Proc)
    BY DEF OutOf
  <2> QED
    BY <2>1, SMT DEF Range
<1>4. ASSUME NEW r \in Range(q2) PROVE QueuedOne(st2, A2, P2, id, r)
  BY <1>1, <1>2, <1>3 DEF QueuedOK, QueuedOne
<1>5. ASSUME NEW r \in Proc, P2[r] \in InCall PROVE InCallOne(q2, st2, A2, P2, id, u, r)
  <2>1. r # p
    BY <1>5 DEF Leaves
  <2>2. InCallOne(q, st, A, P, id, u, r)
    BY <1>1, <1>5, <2>1 DEF InCallOK
  <2> QED
    BY <1>1, <1>2, <2>1, <2>2 DEF InCallOne
<1>6. ASSUME NEW x, NEW y, Ahead(q2, x, y), ~Alter(A2[y].ops) PROVE ~Alter(A2[x].ops)
  <2>1. x \in Range(q2) /\ y \in Range(q2)
    BY <1>6, AheadIn DEF OutOf
  <2>2. A2[x] = A[x] /\ A2[y] = A[y]
    BY <1>1, <1>2, <1>3, <2>1
  <2>3. Ahead(q, x, y)
    BY <1>6 DEF OutOf
  <2> QED
    BY <1>6, <2>2, <2>3 DEF ZeroFirst
<1> QED
  BY <1>4, <1>5, <1>6 DEF QueuedOK, InCallOK, ZeroFirst

LEMMA LeaveDone ==
  ASSUME NEW p \in Proc, NEW st, NEW A, NEW P, NEW st2, NEW A2, NEW P2, Leaves(p, st, A, P, st2, A2, P2), NEW id
  PROVE  /\ DoneIn(st2, A2, P2, id) = DoneIn(st, A, P, id) \ {p}
         /\ SameOn(DoneIn(st2, A2, P2, id), A2, A)
<1>1. ASSUME NEW r \in Proc, r # p PROVE st2[r] = st[r] /\ A2[r] = A[r] /\ P2[r] = P[r]
  BY <1>1 DEF Leaves, Besides
<1>2. p \notin DoneIn(st2, A2, P2, id)
  BY DEF DoneIn, Leaves
<1>3. \A r \in Proc : r # p => (r \in DoneIn(st2, A2, P2, id) <=> r \in DoneIn(st, A, P, id))
  BY <1>1 DEF DoneIn
<1>4. \A r \in DoneIn(st2, A2, P2, id) : r \in Proc
  BY DEF DoneIn
<1>5. \A r \in DoneIn(st, A, P, id) : r \in Proc
  BY DEF DoneIn
<1>6. DoneIn(st2, A2, P2, id) = DoneIn(st, A, P, id) \ {p}
  BY <1>2, <1>3, <1>4, <1>5, SMT
<1> QED
  BY <1>1, <1>2, <1>4, <1>6 DEF SameOn

LEMMA BooksAgree ==
  ASSUME FiniteLaws, SumLaws, NEW v, NEW led, NEW ad, NEW ow, NEW u, NEW id, NEW A, NEW B,
         NEW D \in SUBSET Proc, SameOn(D, B, A), LedgerOK(v, led, A, D), UndoOK(ad, ow, u, id, A, D)
  PROVE  LedgerOK(v, led, B, D) /\ UndoOK(ad, ow, u, id, B, D)
<1>1. \A s \in Sem : Added(B, D, s) = Added(A, D, s)
  BY AddedAgrees, SMT
<1>2. LedgerOK(v, led, B, D)
  BY <1>1 DEF LedgerOK
<1>3. \A r, s : Owing(B, D, r, s) = Owing(A, D, r, s)
  BY DEF Owing, SameOn
<1>4. UndoOK(ad, ow, u, id, B, D)
  BY <1>3 DEF UndoOK, UndoOne
<1> QED
  BY <1>2, <1>4

LEMMA Leave ==
  ASSUME FiniteLaws, SumLaws, NEW p \in Proc, NEW v, NEW ad, NEW q, NEW q2, OutOf(q, q2, p),
         NEW st, NEW A, NEW P, NEW st2, NEW A2, NEW P2, Leaves(p, st, A, P, st2, A2, P2), NEW id, NEW u, NEW led, NEW ow,
         Sound(v, ad, q, st, A, P, id, u, led, ow), p \notin DoneIn(st, A, P, id)
  PROVE  Sound(v, ad, q2, st2, A2, P2, id, u, led, ow)
<1>1. /\ Types(v, ad, q, st, A, P, led, ow)
      /\ QueuedOK(q, st, A, P, id) /\ InCallOK(q, st, A, P, id, u) /\ ZeroFirst(q, A)
      /\ id # NoSet => /\ LedgerOK(v, led, A, DoneIn(st, A, P, id))
                       /\ UndoOK(ad, ow, u, id, A, DoneIn(st, A, P, id))
  BY DEF Sound
<1>2. QueuedOK(q2, st2, A2, P2, id) /\ InCallOK(q2, st2, A2, P2, id, u) /\ ZeroFirst(q2, A2)
  BY <1>1, LeaveShape
<1>3. Types(v, ad, q2, st2, A2, P2, led, ow)
  BY <1>1 DEF Types, OutOf, Leaves
<1> DEFINE D  == DoneIn(st, A, P, id)
           D2 == DoneIn(st2, A2, P2, id)
<1>4. D2 = D \ {p} /\ SameOn(D2, A2, A)
  BY LeaveDone
<1>5. D2 = D
  <2> HIDE DEF D2
  <2>1. p \notin D
    OBVIOUS
  <2> HIDE DEF D
  <2> QED
    BY <1>4, <2>1, SMT
<1>6. D \in SUBSET Proc
  BY SMT DEF DoneIn
<1> HIDE DEF D, D2
<1>7. SameOn(D, A2, A)
  BY <1>4, <1>5
<1>8. ASSUME id # NoSet PROVE LedgerOK(v, led, A2, D2) /\ UndoOK(ad, ow, u, id, A2, D2)
  <2>1. LedgerOK(v, led, A, D) /\ UndoOK(ad, ow, u, id, A, D)
    BY <1>1, <1>8 DEF D
  <2>2. LedgerOK(v, led, A2, D) /\ UndoOK(ad, ow, u, id, A2, D)
    BY <1>6, <1>7, <2>1, BooksAgree
  <2> QED
    BY <1>5, <2>2
<1> QED
  BY <1>2, <1>3, <1>8 DEF Sound, D2

(* The others are served as before.                                        *)
LEMMA LeaveServed ==
  ASSUME NEW p \in Proc, NEW v, NEW q \in Seq(Proc), NEW q2, OutOf(q, q2, p),
         NEW st, NEW A, NEW P, NEW st2, NEW A2, NEW P2, Leaves(p, st, A, P, st2, A2, P2),
         p \in Range(q) => ~Alter(A[p].ops)
  PROVE  /\ ZeroOK(v, q, A) => ZeroOK(v, q2, A2)
         /\ FirstOK(v, q, st, A) => FirstOK(v, q2, st2, A2)
<1>1. ASSUME NEW r \in Proc, r # p PROVE st2[r] = st[r] /\ A2[r] = A[r]
  BY <1>1 DEF Leaves, Besides
<1>2. \A r : r \in Range(q2) <=> r \in Range(q) /\ r # p
  <2>1. Range(q2) = Range(q) \ {p}
    BY DEF OutOf
  <2> QED
    BY <2>1, SMT
<1>3. \A r \in Range(q) : r \in Proc
  BY SMT DEF Range
<1>4. ASSUME NEW r \in Range(q2) PROVE r \in Range(q) /\ r # p /\ st2[r] = st[r] /\ A2[r] = A[r]
  BY <1>1, <1>2, <1>3
<1>5. ASSUME ZeroOK(v, q, A) PROVE ZeroOK(v, q2, A2)
  BY <1>4, <1>5 DEF ZeroOK
<1>6. ASSUME FirstOK(v, q, st, A) PROVE FirstOK(v, q2, st2, A2)
  <2> SUFFICES ASSUME NEW y \in Range(q2), Alter(A2[y].ops), \A x : Ahead(q2, x, y) => ~Alter(A2[x].ops)
               PROVE  st2[y] = "retry" \/ Expected(v, A2[y].ops) = "block"
    BY DEF FirstOK
  <2>1. y \in Range(q) /\ y # p /\ st2[y] = st[y] /\ A2[y] = A[y]
    BY <1>4
  <2>2. ASSUME NEW x, Ahead(q, x, y) PROVE ~Alter(A[x].ops)
    <3>1. x \in Range(q)
      BY <2>2, AheadIn
    <3>2. CASE x = p
      BY <3>1, <3>2
    <3>3. CASE x # p
      <4>1. Ahead(q2, x, y) /\ A2[x] = A[x]
        BY <1>1, <1>3, <2>1, <2>2, <3>1, <3>3 DEF OutOf
      <4> QED
        BY <4>1
    <3> QED
      BY <3>2, <3>3
  <2>3. st[y] = "retry" \/ Expected(v, A[y].ops) = "block"
    BY <1>6, <2>1, <2>2 DEF FirstOK
  <2> QED
    BY <2>1, <2>3
<1> QED
  BY <1>5, <1>6

(* A call that update_queue() performed returns and is recorded.           *)
Recorded(p, ops, led, ow, led2, ow2) ==
    /\ led2 \in [Sem -> Int] /\ ow2 \in [Proc -> [Sem -> Shorts]] /\ Besides(p, ow2, ow)
    /\ \A s \in Sem : led2[s] = led[s] + Delta(ops, s)
    /\ \A s \in Sem : ow2[p][s] = Short(ow[p][s] + UndoDelta(ops, s))

LEMMA ShortNeg ==
  ASSUME NEW o \in Int, NEW d \in Int
  PROVE  Short(-(Short(o + d) + 0)) = Short(-(o + d)) /\ Short(0) = 0
<1>1. o + d \in Int /\ 0 - (o + d) = -(o + d)
  BY SMT
<1>2. Short(0 - Short(o + d)) = Short(-(o + d))
  BY <1>1, ShortAdd, SMT
<1>3. Short(o + d) \in Shorts
  BY <1>1, ShortIs, SMT
<1>4. Short(o + d) \in Int
  BY <1>3, ShortId, SMT
<1>5. 0 - Short(o + d) = -(Short(o + d) + 0)
  BY <1>4, SMT
<1>6. 0 \in Shorts
  BY SEMVMXAssumption, SMT DEF Shorts
<1> QED
  BY <1>2, <1>5, <1>6, ShortId, SMT

LEMMA Settle ==
  ASSUME LoopLaw, FiniteLaws, SumLaws
  PROVE  \A v, ad, q, q2, st, A, P, st2, A2, P2, id, u, led, ow, led2, ow2 :
         \A p \in Proc :
           /\ OutOf(q, q2, p)
           /\ Leaves(p, st, A, P, st2, A2, P2)
           /\ Recorded(p, A[p].ops, led, ow, led2, ow2)
           /\ Sound(v, ad, q, st, A, P, id, u, led, ow)
           /\ p \in DoneIn(st, A, P, id)
           /\ id # NoSet
           => Sound(v, ad, q2, st2, A2, P2, id, u, led2, ow2)
<1>SettleUndo. ASSUME NEW p \in Proc, NEW ad, NEW u, NEW id, NEW A, IsCalls(A), NEW D, p \in D,
                      NEW led, NEW ow \in [Proc -> [Sem -> Shorts]], NEW led2, NEW ow2,
                      Recorded(p, A[p].ops, led, ow, led2, ow2), UndoOK(ad, ow, u, id, A, D),
                      Undos(A[p].ops) => u[p] = id
               PROVE  UndoOK(ad, ow2, u, id, A, D \ {p})
  <2> USE <1>SettleUndo
  <2> SUFFICES ASSUME NEW r \in Proc PROVE UndoOne(ad, ow2, u, id, A, D \ {p}, r)
    BY DEF UndoOK
  <2>1. UndoOne(ad, ow, u, id, A, D, r)
    BY DEF UndoOK
  <2>2. CASE r # p
    <3>1. ow2[r] = ow[r]
      BY <2>2 DEF Recorded, Besides
    <3>2. r \in D \ {p} <=> r \in D
      BY <2>2, SMT
    <3>3. \A s : Owing(A, D \ {p}, r, s) = Owing(A, D, r, s)
      BY <3>2 DEF Owing
    <3> QED
      BY <2>1, <3>1, <3>3 DEF UndoOne
  <2>3. CASE r = p
    <3> DEFINE ops == A[p].ops
    <3>1. ops \in Seq(Sembuf) /\ AllNumbers
      BY DEF IsCalls, FiniteLaws
    <3>2. \A s \in Sem : ow2[p][s] = Short(ow[p][s] + UndoDelta(ops, s))
      BY DEF Recorded
    <3>3. \A s \in Sem : UndoDelta(ops, s) \in Int
      BY <3>1, Parts
    <3>4. \A s : Owing(A, D \ {p}, p, s) = 0 /\ Owing(A, D, p, s) = UndoDelta(ops, s)
      <4>1. p \notin D \ {p}
        BY SMT
      <4> QED
        BY <4>1 DEF Owing
    <3>5. \A s \in Sem : ow[p][s] \in Int
      BY ShortId, SMT
    <3> HIDE DEF ops
    <3>6. CASE u[p] = id
      <4> SUFFICES ASSUME NEW s \in Sem PROVE ad[p][s] = Short(-(ow2[p][s] + 0))
        BY <2>3, <3>4, <3>6 DEF UndoOne
      <4>1. ad[p][s] = Short(-(ow[p][s] + UndoDelta(ops, s)))
        BY <2>1, <2>3, <3>4, <3>6 DEF UndoOne
      <4> QED
        BY <3>2, <3>3, <3>5, <4>1, ShortNeg
    <3>7. CASE u[p] # id
      <4> SUFFICES ASSUME NEW s \in Sem PROVE ow2[p][s] = 0
        BY <2>3, <3>7 DEF UndoOne
      <4>1. ow[p][s] = 0
        BY <2>1, <2>3, <3>7 DEF UndoOne
      <4>2. ~Undos(ops)
        BY <3>7 DEF ops
      <4>3. UndoDelta(ops, s) = 0
        BY <3>1, <4>2, KindsDelta
      <4>4. ow[p][s] + UndoDelta(ops, s) = 0
        BY <4>1, <4>3, SMT
      <4>5. Short(0) = 0
        BY <3>5, ShortNeg
      <4> QED
        BY <3>2, <4>4, <4>5
    <3> QED
      BY <3>6, <3>7
  <2> QED
    BY <2>2, <2>3
<1>SettleLedger. ASSUME NEW p \in Proc, NEW A, IsCalls(A), NEW D \in SUBSET Proc, p \in D, NEW v,
                        NEW led \in [Sem -> Int], NEW ow, NEW led2, NEW ow2,
                        Recorded(p, A[p].ops, led, ow, led2, ow2), LedgerOK(v, led, A, D)
                 PROVE  LedgerOK(v, led2, A, D \ {p})
  <2> USE <1>SettleLedger
  <2> SUFFICES ASSUME NEW s \in Sem PROVE v[s] = led2[s] + Added(A, D \ {p}, s)
    BY DEF LedgerOK
  <2> DEFINE a == Added(A, D, s)
             b == Added(A, D \ {p}, s)
             d == Delta(A[p].ops, s)
  <2>1. a = d + b /\ d \in Int
    BY AddedIs
  <2>2. D \ {p} \in SUBSET Proc
    BY SMT
  <2>3. b \in Int
    BY <2>2, AddedIs
  <2>4. v[s] = led[s] + a /\ led2[s] = led[s] + d
    BY DEF LedgerOK, Recorded
  <2>5. led[s] \in Int
    BY SMT
  <2> HIDE DEF a, b, d
  <2>6. v[s] = led2[s] + b
    BY <2>1, <2>3, <2>4, <2>5, SMTT(20)
  <2> QED
    BY <2>6 DEF b
<1> TAKE v, ad, q, q2, st, A, P, st2, A2, P2, id, u, led, ow, led2, ow2
<1> TAKE p \in Proc
<1> HAVE /\ OutOf(q, q2, p)
         /\ Leaves(p, st, A, P, st2, A2, P2)
         /\ Recorded(p, A[p].ops, led, ow, led2, ow2)
         /\ Sound(v, ad, q, st, A, P, id, u, led, ow)
         /\ p \in DoneIn(st, A, P, id)
         /\ id # NoSet
<1>1. /\ Types(v, ad, q, st, A, P, led, ow)
      /\ QueuedOK(q, st, A, P, id) /\ InCallOK(q, st, A, P, id, u) /\ ZeroFirst(q, A)
      /\ LedgerOK(v, led, A, DoneIn(st, A, P, id))
      /\ UndoOK(ad, ow, u, id, A, DoneIn(st, A, P, id))
  BY DEF Sound
<1>2. QueuedOK(q2, st2, A2, P2, id) /\ InCallOK(q2, st2, A2, P2, id, u) /\ ZeroFirst(q2, A2)
  BY <1>1, LeaveShape
<1>3. Types(v, ad, q2, st2, A2, P2, led2, ow2)
  BY <1>1 DEF Types, OutOf, Leaves, Recorded
<1>4. IsCalls(A) /\ led \in [Sem -> Int] /\ ow \in [Proc -> [Sem -> Shorts]]
  BY <1>1, CallsAre DEF Types
<1>5. P[p] \in InCall /\ A[p].id = id
  BY DEF DoneIn
<1>6. Undos(A[p].ops) => u[p] = id
  BY <1>1, <1>5 DEF InCallOK, InCallOne
<1> DEFINE D  == DoneIn(st, A, P, id)
           D2 == DoneIn(st2, A2, P2, id)
<1>7. D2 = D \ {p} /\ SameOn(D2, A2, A)
  BY LeaveDone
<1>8. D \in SUBSET Proc /\ D2 \in SUBSET Proc
  BY SMT DEF DoneIn
<1>9. p \in D /\ LedgerOK(v, led, A, D) /\ UndoOK(ad, ow, u, id, A, D)
  BY <1>1
<1> HIDE DEF D, D2
<1>10. LedgerOK(v, led2, A, D \ {p})
  BY <1>4, <1>8, <1>9, <1>SettleLedger
<1>11. UndoOK(ad, ow2, u, id, A, D \ {p})
  BY <1>4, <1>6, <1>9, <1>SettleUndo
<1>12. LedgerOK(v, led2, A, D2) /\ UndoOK(ad, ow2, u, id, A, D2)
  BY <1>7, <1>10, <1>11
<1>13. LedgerOK(v, led2, A2, D2) /\ UndoOK(ad, ow2, u, id, A2, D2)
  BY <1>7, <1>8, <1>12, BooksAgree
<1> QED
  BY <1>2, <1>3, <1>13 DEF Sound, D2

-----------------------------------------------------------------------------
(***************************************************************************)
(* The values, and the adjustments of a process outside semop(), change.   *)
(***************************************************************************)
Shifts(v, led, v2, led2) == \A s \in Sem : v2[s] - led2[s] = v[s] - led[s]

Clean(ad, ow, u, id, p) ==
    /\ u[p] = id => Owes(ad[p], ow[p])
    /\ u[p] # id => \A s \in Sem : ow[p][s] = 0

Changes(p, v, ad, u, id, led, ow, v2, ad2, u2, led2, ow2) ==
    /\ v2 \in [Sem -> Nat] /\ led2 \in [Sem -> Int]
    /\ ad2 \in [Proc -> [Sem -> Shorts]] /\ ow2 \in [Proc -> [Sem -> Shorts]]
    /\ Besides(p, ad2, ad) /\ Besides(p, ow2, ow) /\ Besides(p, u2, u)
    /\ id # NoSet => Shifts(v, led, v2, led2) /\ Clean(ad2, ow2, u2, id, p)

LEMMA Alone ==
  ASSUME LoopLaw, FiniteLaws, SumLaws
  PROVE  \A v, ad, q, st, A, P, id, u, led, ow, v2, ad2, u2, led2, ow2 :
         \A p \in Proc :
           /\ Changes(p, v, ad, u, id, led, ow, v2, ad2, u2, led2, ow2)
           /\ P[p] \notin InCall
           /\ Sound(v, ad, q, st, A, P, id, u, led, ow)
           => Sound(v2, ad2, q, st, A, P, id, u2, led2, ow2)
<1>AloneLedger. ASSUME NEW A, IsCalls(A), NEW D \in SUBSET Proc, NEW v \in [Sem -> Nat],
                       NEW led \in [Sem -> Int], NEW v2 \in [Sem -> Nat],
                       NEW led2 \in [Sem -> Int], Shifts(v, led, v2, led2),
                       LedgerOK(v, led, A, D)
                PROVE  LedgerOK(v2, led2, A, D)
  <2> USE <1>AloneLedger
  <2> SUFFICES ASSUME NEW s \in Sem PROVE v2[s] = led2[s] + Added(A, D, s)
    BY DEF LedgerOK
  <2> DEFINE a == Added(A, D, s)
  <2>1. a \in Int
    BY AddedIs
  <2>2. v[s] = led[s] + a /\ v2[s] - led2[s] = v[s] - led[s]
    BY DEF LedgerOK, Shifts
  <2>3. v[s] \in Int /\ v2[s] \in Int /\ led[s] \in Int /\ led2[s] \in Int
    BY SMT
  <2> HIDE DEF a
  <2>4. v2[s] = led2[s] + a
    BY <2>1, <2>2, <2>3, SMT
  <2> QED
    BY <2>4 DEF a
<1>AloneUndo. ASSUME NEW p \in Proc, NEW A, NEW D, p \notin D, NEW ad, NEW ow, NEW u, NEW id,
                     NEW ad2, NEW ow2, NEW u2, Besides(p, ad2, ad), Besides(p, ow2, ow),
                     Besides(p, u2, u), Clean(ad2, ow2, u2, id, p), UndoOK(ad, ow, u, id, A, D)
              PROVE  UndoOK(ad2, ow2, u2, id, A, D)
  <2> USE <1>AloneUndo
  <2> SUFFICES ASSUME NEW r \in Proc PROVE UndoOne(ad2, ow2, u2, id, A, D, r)
    BY DEF UndoOK
  <2>1. CASE r # p
    <3>1. ad2[r] = ad[r] /\ ow2[r] = ow[r] /\ u2[r] = u[r]
      BY <2>1 DEF Besides
    <3> QED
      BY <3>1 DEF UndoOK, UndoOne
  <2>2. CASE r = p
    <3>1. \A s : Owing(A, D, p, s) = 0
      BY DEF Owing
    <3> QED
      BY <2>2, <3>1 DEF UndoOne, Clean, Owes
  <2> QED
    BY <2>1, <2>2
<1> TAKE v, ad, q, st, A, P, id, u, led, ow, v2, ad2, u2, led2, ow2
<1> TAKE p \in Proc
<1> HAVE /\ Changes(p, v, ad, u, id, led, ow, v2, ad2, u2, led2, ow2)
         /\ P[p] \notin InCall
         /\ Sound(v, ad, q, st, A, P, id, u, led, ow)
<1>1. /\ Types(v, ad, q, st, A, P, led, ow)
      /\ QueuedOK(q, st, A, P, id) /\ InCallOK(q, st, A, P, id, u) /\ ZeroFirst(q, A)
      /\ id # NoSet => /\ LedgerOK(v, led, A, DoneIn(st, A, P, id))
                       /\ UndoOK(ad, ow, u, id, A, DoneIn(st, A, P, id))
  BY DEF Sound
<1>2. Types(v2, ad2, q, st, A, P, led2, ow2)
  BY <1>1 DEF Types, Changes
<1>3. ASSUME NEW r \in Proc, P[r] \in InCall PROVE InCallOne(q, st, A, P, id, u2, r)
  <2>1. r # p
    BY <1>3
  <2>2. u2[r] = u[r]
    BY <2>1 DEF Changes, Besides
  <2> QED
    BY <1>1, <1>3, <2>2 DEF InCallOK, InCallOne
<1>4. InCallOK(q, st, A, P, id, u2)
  BY <1>3 DEF InCallOK
<1> DEFINE D == DoneIn(st, A, P, id)
<1>5. D \in SUBSET Proc /\ p \notin D
  BY SMT DEF DoneIn
<1>6. IsCalls(A) /\ v \in [Sem -> Nat] /\ led \in [Sem -> Int]
  BY <1>1, CallsAre DEF Types
<1>7. v2 \in [Sem -> Nat] /\ led2 \in [Sem -> Int] /\ Besides(p, ad2, ad) /\ Besides(p, ow2, ow) /\ Besides(p, u2, u)
  BY DEF Changes
<1>8. ASSUME id # NoSet PROVE LedgerOK(v2, led2, A, D) /\ UndoOK(ad2, ow2, u2, id, A, D)
  <2>1. Shifts(v, led, v2, led2) /\ Clean(ad2, ow2, u2, id, p)
    BY <1>8 DEF Changes
  <2>2. LedgerOK(v, led, A, D) /\ UndoOK(ad, ow, u, id, A, D)
    BY <1>1, <1>8
  <2> HIDE DEF D
  <2>3. LedgerOK(v2, led2, A, D)
    BY <1>5, <1>6, <1>7, <2>1, <2>2, <1>AloneLedger
  <2>4. UndoOK(ad2, ow2, u2, id, A, D)
    BY <1>5, <1>7, <2>1, <2>2, <1>AloneUndo
  <2> QED
    BY <2>3, <2>4
<1> QED
  BY <1>1, <1>2, <1>4, <1>8 DEF Sound

-----------------------------------------------------------------------------
(***************************************************************************)
(* A process goes to sleep on the queue.                                   *)
(***************************************************************************)
InTo(q, q2, p, ops) ==
    /\ q2 \in Seq(Proc) /\ NoRepeat(q2) /\ Range(q2) = Range(q) \cup {p}
    /\ \A x, y : Ahead(q, x, y) => Ahead(q2, x, y)
    /\ \A x, y : Ahead(q2, x, y) => \/ Ahead(q, x, y)
                                    \/ Alter(ops) /\ y = p
                                    \/ ~Alter(ops) /\ x = p

Sleeps(p, a, st, A, P, st2, A2, P2) ==
    /\ st2 \in [Proc -> Status] /\ A2 \in [Proc -> Calls] /\ P2 \in [Proc -> Pc]
    /\ Besides(p, st2, st) /\ Besides(p, A2, A) /\ Besides(p, P2, P)
    /\ P2[p] \in InCall /\ A2[p] = a /\ st2[p] = "EINTR"

LEMMA Blocked ==
  ASSUME LoopLaw, FiniteLaws, SumLaws, AppendLaw
  PROVE  \A v, ad, q, st, A, P, st2, A2, P2, id, u, led, ow :
         \A p \in Proc, a \in Calls :
           /\ Sleeps(p, a, st, A, P, st2, A2, P2)
           /\ id # NoSet
           /\ a.id = id
           /\ (Undos(a.ops) => u[p] = id)
           /\ Expected(v, a.ops) = "block"
           /\ P[p] \notin InCall
           /\ Whole(v, ad, q, st, A, P, id, u, led, ow)
           => Whole(v, ad, Enqueue(q, p, a.ops), st2, A2, P2, id, u, led, ow)
<1>Enqueued. \A ops :
             \A q \in Seq(Proc), p \in Proc :
               /\ NoRepeat(q)
               /\ p \notin Range(q)
               => InTo(q, Enqueue(q, p, ops), p, ops)
  <2>InToTail. ASSUME NEW q \in Seq(Proc), NoRepeat(q), NEW p \in Proc, p \notin Range(q), NEW ops,
                      Alter(ops)
               PROVE  InTo(q, Append(q, p), p, ops)
    <3> USE <2>InToTail
    <3> DEFINE w == Append(q, p)
               n == Len(q)
    <3>1. w \in Seq(Proc) /\ NoRepeat(w) /\ Range(w) = Range(q) \cup {p}
      BY DEF AppendLaw
    <3>2. n \in Nat /\ Len(w) = n + 1 /\ w[n + 1] = p /\ \A i \in 1..n : w[i] = q[i]
      BY SMT
    <3> HIDE DEF w, n
    <3>3. ASSUME NEW x, NEW y, Ahead(q, x, y) PROVE Ahead(w, x, y)
      <4>1. PICK a \in 1..n, b \in 1..n : a < b /\ q[a] = x /\ q[b] = y
        BY <3>3 DEF Ahead, n
      <4>2. a \in 1..Len(w) /\ b \in 1..Len(w)
        BY <3>2, SMT
      <4> QED
        BY <3>2, <4>1, <4>2 DEF Ahead
    <3>4. ASSUME NEW x, NEW y, Ahead(w, x, y), y # p PROVE Ahead(q, x, y)
      <4>1. PICK a \in 1..Len(w), b \in 1..Len(w) : a < b /\ w[a] = x /\ w[b] = y
        BY <3>4 DEF Ahead
      <4>2. b # n + 1
        BY <3>2, <3>4, <4>1
      <4>3. a \in 1..n /\ b \in 1..n
        BY <3>2, <4>1, <4>2, SMT
      <4> QED
        BY <3>2, <4>1, <4>3 DEF Ahead, n
    <3>5. InTo(q, w, p, ops)
      BY <3>1, <3>3, <3>4 DEF InTo
    <3> QED
      BY <3>5 DEF w
  <2>InToHead. ASSUME NEW q \in Seq(Proc), NoRepeat(q), NEW p \in Proc, p \notin Range(q), NEW ops,
                      ~Alter(ops)
               PROVE  InTo(q, <<p>> \o q, p, ops)
    <3> USE <2>InToHead
    <3> DEFINE w == <<p>> \o q
               n == Len(q)
    <3>1. w \in Seq(Proc) /\ DOMAIN w = 1..Len(w)
      BY SMT
    <3>2. n \in Nat /\ Len(w) = n + 1 /\ w[1] = p /\ \A i \in 2..(n + 1) : w[i] = q[i - 1] /\ i - 1 \in 1..n
      BY SMT
    <3>3. DOMAIN q = 1..n
      BY SMT
    <3> HIDE DEF w, n
    <3>4. \A i \in 1..n : i + 1 \in 2..(n + 1) /\ (i + 1) - 1 = i /\ i + 1 \in 1..Len(w)
      BY <3>2, SMT
    <3>5. \A i \in 1..n : w[i + 1] = q[i]
      BY <3>2, <3>4, SMT
    <3>6. \A i \in 1..Len(w) : i = 1 \/ i \in 2..(n + 1)
      BY <3>2, SMT
    <3>7. 1 \in 1..Len(w) /\ \A i \in 1..n : q[i] # p
      BY <3>2, <3>3, SMT DEF Range
    <3>8. NoRepeat(w)
      <4> SUFFICES ASSUME NEW i \in 1..Len(w), NEW j \in 1..Len(w), w[i] = w[j] PROVE i = j
        BY DEF NoRepeat
      <4>1. CASE i = 1 \/ j = 1
        BY <3>2, <3>6, <3>7, <4>1
      <4>2. CASE i \in 2..(n + 1) /\ j \in 2..(n + 1)
        <5>1. i - 1 \in 1..n /\ j - 1 \in 1..n /\ q[i - 1] = q[j - 1]
          BY <3>2, <4>2
        <5>2. i - 1 = j - 1
          BY <5>1 DEF NoRepeat, n
        <5> QED
          BY <3>2, <4>2, <5>2, SMT
      <4> QED
        BY <3>6, <4>1, <4>2
    <3>9. Range(w) = Range(q) \cup {p}
      <4>4. \A i \in 1..n : q[i] \in Range(q)
        BY <3>3 DEF Range
      <4>5. \A i \in 1..Len(w) : w[i] \in Range(w)
        BY <3>1 DEF Range
      <4>1. ASSUME NEW x \in Range(w) PROVE x \in Range(q) \/ x = p
        <5>1. PICK i \in 1..Len(w) : x = w[i]
          BY <3>1 DEF Range
        <5> QED
          BY <3>2, <3>6, <4>4, <5>1
      <4>2. ASSUME NEW x \in Range(q) PROVE x \in Range(w)
        <5>1. PICK i \in 1..n : x = q[i]
          BY <3>3 DEF Range
        <5> QED
          BY <3>4, <3>5, <4>5, <5>1
      <4>3. p \in Range(w)
        BY <3>1, <3>2, <3>7 DEF Range
      <4> QED
        BY <4>1, <4>2, <4>3, SMT
    <3>10. ASSUME NEW x, NEW y, Ahead(q, x, y) PROVE Ahead(w, x, y)
      <4>1. PICK a \in 1..n, b \in 1..n : a < b /\ q[a] = x /\ q[b] = y
        BY <3>10 DEF Ahead, n
      <4>2. a + 1 < b + 1
        BY <3>2, <4>1, SMT
      <4> QED
        BY <3>4, <3>5, <4>1, <4>2 DEF Ahead
    <3>11. ASSUME NEW x, NEW y, Ahead(w, x, y), x # p PROVE Ahead(q, x, y)
      <4>1. PICK a \in 1..Len(w), b \in 1..Len(w) : a < b /\ w[a] = x /\ w[b] = y
        BY <3>11 DEF Ahead
      <4>2. a # 1
        BY <3>2, <3>11, <4>1
      <4>3. a \in 2..(n + 1) /\ b \in 2..(n + 1) /\ a - 1 < b - 1
        BY <3>2, <4>1, <4>2, SMT
      <4>4. a - 1 \in 1..n /\ b - 1 \in 1..n /\ q[a - 1] = x /\ q[b - 1] = y
        BY <3>2, <4>1, <4>3
      <4> QED
        BY <4>3, <4>4 DEF Ahead, n
    <3>12. InTo(q, w, p, ops)
      BY <3>1, <3>8, <3>9, <3>10, <3>11 DEF InTo
    <3> QED
      BY <3>12 DEF w
  <2> SUFFICES ASSUME NEW ops, NEW q \in Seq(Proc), NEW p \in Proc, NoRepeat(q), p \notin Range(q)
               PROVE  InTo(q, Enqueue(q, p, ops), p, ops)
    OBVIOUS
  <2>1. CASE Alter(ops)
    BY <2>1, <2>InToTail DEF Enqueue
  <2>2. CASE ~Alter(ops)
    BY <2>2, <2>InToHead DEF Enqueue
  <2> QED
    BY <2>1, <2>2
<1>BlockedShape. \A q2, st, A, P, st2, A2, P2, id, u :
                 \A p \in Proc, a \in Calls, v \in [Sem -> Nat], q \in Seq(Proc) :
                   /\ InTo(q, q2, p, a.ops)
                   /\ Sleeps(p, a, st, A, P, st2, A2, P2)
                   /\ id # NoSet
                   /\ a.id = id
                   /\ (Undos(a.ops) => u[p] = id)
                   /\ Expected(v, a.ops) = "block"
                   /\ P[p] \notin InCall
                   /\ QueuedOK(q, st, A, P, id)
                   /\ InCallOK(q, st, A, P, id, u)
                   /\ ZeroFirst(q, A)
                   => QueuedOK(q2, st2, A2, P2, id) /\ InCallOK(q2, st2, A2, P2, id, u) /\ ZeroFirst(q2, A2)
  (* An array that only increases values blocks only to wait for zero.     *)
  <2>NotOnlyAdds. \A v \in [Sem -> Nat], a \in Calls :
                    /\ Expected(v, a.ops) = "block"
                    /\ MenuMild
                    => ~OnlyAdds(a.ops)
    (* An array that only adds, and does not wait, does not block.           *)
    <3>AddsNeverBlock. ASSUME AllNumbers, NEW v \in [Sem -> Nat], NEW ops \in Seq(Sembuf),
                              ~Decrease(ops), \A i \in DOMAIN ops : ops[i].op # 0
                       PROVE  Expected(v, ops) # "block"
      <4> USE <3>AddsNeverBlock
      <4> SUFFICES ASSUME Expected(v, ops) = "block" PROVE FALSE
        BY SMT
      <4>1. v \in [Sem -> Int] /\ DOMAIN ops = 1..Len(ops)
        BY SMT
      <4>2. PICK i \in 1..Len(ops) : Found(v, ops, i) = "block"
        BY <4>1, ExpectedIs
      <4>3. i - 1 \in 0..Len(ops) /\ ops[i] \in Sembuf
        BY SMT
      <4>4. ops[i].num \in Sem /\ ops[i].op \in Int
        BY <4>3, SMT DEF Sembuf
      <4>4a. ops[i].op # 0 /\ ~(ops[i].op < 0)
        BY <4>1 DEF Decrease
      <4> DEFINE x == v[ops[i].num]
                 b == Part(ops, ops[i].num)[i-1]
      <4>5. b >= 0 /\ b \in Int
        <5>1. b >= 0
          BY <4>3, KindsAdd
        <5>2. Part(ops, ops[i].num) \in [0..Len(ops) -> Int]
          BY Parts
        <5> QED
          BY <4>3, <5>1, <5>2, SMT
      <4>6. Found(v, ops, i) = Answer(ops[i], x + b)
        BY DEF Found, Before, Part
      <4>7. x \in Nat
        BY <4>4, SMT
      <4> HIDE DEF x, b
      <4>8. SEMVMX \in Nat
        BY SEMVMXAssumption, SMT
      <4> QED
        BY <4>2, <4>4, <4>4a, <4>5, <4>6, <4>7, <4>8, SMT DEF Answer
    <3> SUFFICES ASSUME NEW v \in [Sem -> Nat], NEW a \in Calls, Expected(v, a.ops) = "block",
                        MenuMild
                 PROVE  ~OnlyAdds(a.ops)
      OBVIOUS
    <3> SUFFICES ASSUME OnlyAdds(a.ops) PROVE FALSE
      OBVIOUS
    <3>1. Alter(a.ops) /\ ~Decrease(a.ops) /\ AllNumbers
      BY DEF OnlyAdds, FiniteLaws
    <3>2. a.ops \in Menu \cup {<<>>}
      BY SMT DEF Calls
    <3>3. a.ops # <<>>
      BY <3>1, SMT DEF Alter
    <3>4. a.ops \in Menu
      BY <3>2, <3>3, SMT
    <3>5. a.ops \in Seq(Sembuf)
      BY <3>4, MenuAssumption, SMT
    <3>6. \A i \in DOMAIN a.ops : a.ops[i].op # 0
      BY <3>4 DEF MenuMild
    <3> QED
      BY <3>1, <3>5, <3>6, <3>AddsNeverBlock
  <2> TAKE q2, st, A, P, st2, A2, P2, id, u
  <2> TAKE p \in Proc, a \in Calls, v \in [Sem -> Nat], q \in Seq(Proc)
  <2> HAVE /\ InTo(q, q2, p, a.ops)
           /\ Sleeps(p, a, st, A, P, st2, A2, P2)
           /\ id # NoSet
           /\ a.id = id
           /\ (Undos(a.ops) => u[p] = id)
           /\ Expected(v, a.ops) = "block"
           /\ P[p] \notin InCall
           /\ QueuedOK(q, st, A, P, id)
           /\ InCallOK(q, st, A, P, id, u)
           /\ ZeroFirst(q, A)
  <2>1. ASSUME NEW r \in Proc, r # p PROVE st2[r] = st[r] /\ A2[r] = A[r] /\ P2[r] = P[r]
    BY <2>1 DEF Sleeps, Besides
  <2>2. P2[p] \in InCall /\ A2[p] = a /\ st2[p] = "EINTR" /\ "EINTR" \in {"EINTR", "retry"} /\ "EINTR" # "retry"
    BY SMT DEF Sleeps
  <2>3. p \notin Range(q)
    BY DEF QueuedOK, QueuedOne
  <2>4. \A r : r \in Range(q2) <=> r \in Range(q) \/ r = p
    <3>1. Range(q2) = Range(q) \cup {p}
      BY DEF InTo
    <3> QED
      BY <3>1, SMT
  <2>5. \A r \in Range(q) : r \in Proc /\ r # p
    <3>1. \A r \in Range(q) : r \in Proc
      BY SMT DEF Range
    <3> QED
      BY <2>3, <3>1
  <2>6. ASSUME NEW r \in Range(q2) PROVE QueuedOne(st2, A2, P2, id, r)
    <3>1. CASE r = p
      <4>1. MenuMild => ~OnlyAdds(a.ops)
        BY <2>NotOnlyAdds
      <4> QED
        BY <2>2, <3>1, <4>1 DEF QueuedOne
    <3>2. CASE r # p
      BY <2>1, <2>4, <2>5, <3>2 DEF QueuedOK, QueuedOne
    <3> QED
      BY <3>1, <3>2
  <2>7. ASSUME NEW r \in Proc, P2[r] \in InCall PROVE InCallOne(q2, st2, A2, P2, id, u, r)
    <3>1. CASE r = p
      BY <2>2, <2>4, <3>1 DEF InCallOne
    <3>2. CASE r # p
      <4>1. InCallOne(q, st, A, P, id, u, r)
        BY <2>1, <2>7, <3>2 DEF InCallOK
      <4> QED
        BY <2>1, <2>4, <3>2, <4>1 DEF InCallOne
    <3> QED
      BY <3>1, <3>2
  <2>8. ASSUME NEW x, NEW y, Ahead(q2, x, y), ~Alter(A2[y].ops) PROVE ~Alter(A2[x].ops)
    <3>1. Ahead(q, x, y) \/ (Alter(a.ops) /\ y = p) \/ (~Alter(a.ops) /\ x = p)
      BY <2>8 DEF InTo
    <3>2. CASE Ahead(q, x, y)
      <4>1. A2[x] = A[x] /\ A2[y] = A[y]
        BY <2>1, <2>5, <3>2, AheadIn
      <4> QED
        BY <2>8, <3>2, <4>1 DEF ZeroFirst
    <3> QED
      BY <2>2, <2>8, <3>1, <3>2
  <2> QED
    BY <2>6, <2>7, <2>8 DEF QueuedOK, InCallOK, ZeroFirst
<1>BlockedServed. ASSUME NEW p \in Proc, NEW a \in Calls, NEW v \in [Sem -> Nat],
                         NEW q \in Seq(Proc), NEW q2, InTo(q, q2, p, a.ops), p \notin Range(q),
                         NEW st, NEW A, NEW P, NEW st2, NEW A2, NEW P2,
                         Sleeps(p, a, st, A, P, st2, A2, P2), Expected(v, a.ops) = "block",
                         a.ops \in Seq(Sembuf)
                  PROVE  /\ ZeroOK(v, q, A) => ZeroOK(v, q2, A2)
                         /\ FirstOK(v, q, st, A) => FirstOK(v, q2, st2, A2)
  <2> USE <1>BlockedServed
  <2>1. \A r \in Proc : r # p => st2[r] = st[r] /\ A2[r] = A[r]
    BY DEF Sleeps, Besides
  <2>2. \A r : r \in Range(q2) <=> r \in Range(q) \/ r = p
    <3>1. Range(q2) = Range(q) \cup {p}
      BY DEF InTo
    <3> QED
      BY <3>1, SMT
  <2>3. \A r \in Range(q) : r \in Proc /\ r # p
    <3>1. \A r \in Range(q) : r \in Proc
      BY SMT DEF Range
    <3> QED
      BY <3>1
  <2>4. \A r \in Range(q2) : r = p \/ (r \in Range(q) /\ st2[r] = st[r] /\ A2[r] = A[r])
    BY <2>1, <2>2, <2>3
  <2>5. A2[p] = a /\ AllNumbers
    BY DEF Sleeps, FiniteLaws
  <2>6. ASSUME ZeroOK(v, q, A) PROVE ZeroOK(v, q2, A2)
    <3>1. ~Alter(a.ops) => Waits(v, a.ops)
      BY <2>5, ZeroBlocks DEF Waits
    <3> QED
      BY <2>4, <2>5, <2>6, <3>1 DEF ZeroOK
  <2>7. ASSUME FirstOK(v, q, st, A) PROVE FirstOK(v, q2, st2, A2)
    <3> SUFFICES ASSUME NEW y \in Range(q2), Alter(A2[y].ops), \A x : Ahead(q2, x, y) => ~Alter(A2[x].ops)
                 PROVE  st2[y] = "retry" \/ Expected(v, A2[y].ops) = "block"
      BY DEF FirstOK
    <3>1. CASE y = p
      BY <2>5, <3>1
    <3>2. CASE y # p
      <4>1. y \in Range(q) /\ st2[y] = st[y] /\ A2[y] = A[y]
        BY <2>4, <3>2
      <4>2. ASSUME NEW x, Ahead(q, x, y) PROVE ~Alter(A[x].ops)
        <5>1. A2[x] = A[x]
          BY <2>1, <2>3, <4>2, AheadIn
        <5>2. Ahead(q2, x, y)
          BY <4>2 DEF InTo
        <5> QED
          BY <5>1, <5>2
      <4> QED
        BY <2>7, <4>1, <4>2 DEF FirstOK
    <3> QED
      BY <3>1, <3>2
  <2> QED
    BY <2>6, <2>7
<1> TAKE v, ad, q, st, A, P, st2, A2, P2, id, u, led, ow
<1> TAKE p \in Proc, a \in Calls
<1> HAVE /\ Sleeps(p, a, st, A, P, st2, A2, P2)
         /\ id # NoSet
         /\ a.id = id
         /\ (Undos(a.ops) => u[p] = id)
         /\ Expected(v, a.ops) = "block"
         /\ P[p] \notin InCall
         /\ Whole(v, ad, q, st, A, P, id, u, led, ow)
<1> DEFINE q2 == Enqueue(q, p, a.ops)
<1>1. /\ Types(v, ad, q, st, A, P, led, ow)
      /\ QueuedOK(q, st, A, P, id) /\ InCallOK(q, st, A, P, id, u) /\ ZeroFirst(q, A)
      /\ LedgerOK(v, led, A, DoneIn(st, A, P, id))
      /\ UndoOK(ad, ow, u, id, A, DoneIn(st, A, P, id))
      /\ ZeroOK(v, q, A) /\ (MenuMild => FirstOK(v, q, st, A))
  BY DEF Sound, Whole
<1>2. v \in [Sem -> Nat] /\ q \in Seq(Proc) /\ NoRepeat(q)
  BY <1>1 DEF Types
<1>3. p \notin Range(q)
  BY <1>1 DEF QueuedOK, QueuedOne
<1>4. InTo(q, q2, p, a.ops)
  BY <1>2, <1>3, <1>Enqueued
<1> HIDE DEF q2
<1>5. QueuedOK(q2, st2, A2, P2, id) /\ InCallOK(q2, st2, A2, P2, id, u) /\ ZeroFirst(q2, A2)
  BY <1>1, <1>2, <1>4, <1>BlockedShape
<1>6. a.ops \in Seq(Sembuf)
  <2>1. a.ops \in Menu \cup {<<>>}
    BY SMT DEF Calls
  <2>2. <<>> \in Seq(Sembuf) /\ Menu \subseteq Seq(Sembuf)
    BY MenuAssumption, SMT
  <2> QED
    BY <2>1, <2>2
<1>7. ZeroOK(v, q2, A2) /\ (MenuMild => FirstOK(v, q2, st2, A2))
  BY <1>1, <1>2, <1>3, <1>4, <1>6, <1>BlockedServed
<1>8. Types(v, ad, q2, st2, A2, P2, led, ow)
  BY <1>1, <1>4 DEF Types, InTo, Sleeps
<1> DEFINE D  == DoneIn(st, A, P, id)
           D2 == DoneIn(st2, A2, P2, id)
<1>9. ASSUME NEW r \in Proc, r # p PROVE st2[r] = st[r] /\ A2[r] = A[r] /\ P2[r] = P[r]
  BY <1>9 DEF Sleeps, Besides
<1>10. p \notin D /\ p \notin D2
  BY SMT DEF DoneIn, Sleeps
<1>11. D \in SUBSET Proc /\ D2 \in SUBSET Proc
  BY SMT DEF DoneIn
<1>12. \A r \in Proc : r # p => (r \in D <=> r \in D2)
  BY <1>9 DEF DoneIn
<1>13. LedgerOK(v, led, A, D) /\ UndoOK(ad, ow, u, id, A, D)
  BY <1>1
<1> HIDE DEF D, D2
<1>14. D2 = D
  BY <1>10, <1>11, <1>12, SMT
<1>15. SameOn(D, A2, A)
  <2>1. \A r \in D : r \in Proc /\ r # p
    BY <1>10, <1>11, SMT
  <2> QED
    BY <2>1, <1>9 DEF SameOn
<1>16. LedgerOK(v, led, A2, D) /\ UndoOK(ad, ow, u, id, A2, D)
  BY <1>11, <1>13, <1>15, BooksAgree
<1>17. LedgerOK(v, led, A2, D2) /\ UndoOK(ad, ow, u, id, A2, D2)
  BY <1>14, <1>16
<1>18. Whole(v, ad, q2, st2, A2, P2, id, u, led, ow)
  BY <1>5, <1>7, <1>8, <1>17 DEF Sound, Whole, D2
<1> QED
  BY <1>18 DEF q2

(* A process inside semop() wakes up, or goes back to sleep.               *)
Stirs(p, v, q, st, A, P, st2, P2) ==
    /\ st2 \in [Proc -> Status] /\ P2 \in [Proc -> Pc] /\ Besides(p, st2, st) /\ Besides(p, P2, P)
    /\ P[p] \in InCall /\ P2[p] \in InCall
    /\ \/ st2[p] = st[p]
       \/ p \in Range(q) /\ st2[p] = "EINTR" /\ Expected(v, A[p].ops) = "block"
    /\ P2[p] = "sleep" => p \in Range(q) /\ st2[p] = "EINTR"

LEMMA Stir ==
  ASSUME NEW p \in Proc, NEW v, NEW ad, NEW q, NEW st, NEW A, NEW P, NEW st2, NEW P2, Stirs(p, v, q, st, A, P, st2, P2),
         NEW id, NEW u, NEW led, NEW ow, Whole(v, ad, q, st, A, P, id, u, led, ow)
  PROVE  Whole(v, ad, q, st2, A, P2, id, u, led, ow)
<1>1. /\ Types(v, ad, q, st, A, P, led, ow)
      /\ QueuedOK(q, st, A, P, id) /\ InCallOK(q, st, A, P, id, u) /\ ZeroFirst(q, A)
      /\ id # NoSet => /\ LedgerOK(v, led, A, DoneIn(st, A, P, id))
                       /\ UndoOK(ad, ow, u, id, A, DoneIn(st, A, P, id))
      /\ ZeroOK(v, q, A) /\ (MenuMild => FirstOK(v, q, st, A))
  BY DEF Sound, Whole
<1>2. ASSUME NEW r \in Proc, r # p PROVE st2[r] = st[r] /\ P2[r] = P[r]
  BY <1>2 DEF Stirs, Besides
<1>3. /\ P[p] \in InCall /\ P2[p] \in InCall
      /\ st2[p] = st[p] \/ (p \in Range(q) /\ st2[p] = "EINTR" /\ Expected(v, A[p].ops) = "block")
      /\ P2[p] = "sleep" => p \in Range(q) /\ st2[p] = "EINTR"
  BY DEF Stirs
<1>4. "EINTR" \in {"EINTR", "retry"} /\ "EINTR" # "retry" /\ "ok" \notin {"EINTR", "retry"} /\ "ok" # "EINTR"
  BY SMT
<1>5. \A r \in Range(q) : r \in Proc
  <2>1. q \in Seq(Proc)
    BY <1>1 DEF Types
  <2> QED
    BY <2>1, SMT DEF Range
<1>6. ASSUME NEW r \in Range(q) PROVE QueuedOne(st2, A, P2, id, r)
  <2>1. QueuedOne(st, A, P, id, r)
    BY <1>1 DEF QueuedOK
  <2>2. CASE r # p
    BY <1>2, <1>5, <2>1, <2>2 DEF QueuedOne
  <2>3. CASE r = p
    BY <1>3, <1>4, <2>1, <2>3 DEF QueuedOne
  <2> QED
    BY <2>2, <2>3
<1>7. ASSUME NEW r \in Proc, P2[r] \in InCall PROVE InCallOne(q, st2, A, P2, id, u, r)
  <2>1. CASE r # p
    BY <1>1, <1>2, <1>7, <2>1 DEF InCallOK, InCallOne
  <2>2. CASE r = p
    <3>1. InCallOne(q, st, A, P, id, u, p)
      BY <1>1, <1>3 DEF InCallOK
    <3> QED
      BY <1>3, <2>2, <3>1 DEF InCallOne
  <2> QED
    BY <2>1, <2>2
<1>8. QueuedOK(q, st2, A, P2, id) /\ InCallOK(q, st2, A, P2, id, u)
  BY <1>6, <1>7 DEF QueuedOK, InCallOK
<1>9. ASSUME NEW r \in Proc PROVE P2[r] \in InCall /\ st2[r] = "ok" <=> P[r] \in InCall /\ st[r] = "ok"
  <2>1. CASE r # p
    BY <1>2, <2>1
  <2>2. CASE r = p
    <3>1. p \in Range(q) => st[p] # "ok"
      BY <1>1, <1>4 DEF QueuedOK, QueuedOne
    <3> QED
      BY <1>3, <1>4, <2>2, <3>1
  <2> QED
    BY <2>1, <2>2
<1>10. DoneIn(st2, A, P2, id) = DoneIn(st, A, P, id)
  BY <1>9, SMT DEF DoneIn
<1>11. Types(v, ad, q, st2, A, P2, led, ow)
  BY <1>1 DEF Types, Stirs
<1>12. ASSUME FirstOK(v, q, st, A) PROVE FirstOK(v, q, st2, A)
  <2>1. \A r \in Range(q) : st2[r] = st[r] \/ Expected(v, A[r].ops) = "block"
    BY <1>2, <1>3, <1>5
  <2> QED
    BY <1>12, <2>1 DEF FirstOK
<1> QED
  BY <1>1, <1>8, <1>10, <1>11, <1>12 DEF Sound, Whole

-----------------------------------------------------------------------------
(***************************************************************************)
(* SETVAL and SETALL set the values w of the semaphores ss.                *)
(***************************************************************************)
Sets(ss, w, v, ad, A, D, id, u, led, ow, v2, ad2, led2, ow2) ==
    /\ v2 \in [Sem -> Nat] /\ led2 \in [Sem -> Int]
    /\ ad2 \in [Proc -> [Sem -> Shorts]] /\ ow2 \in [Proc -> [Sem -> Shorts]]
    /\ \A s \in Sem : IF s \in ss THEN v2[s] = w[s] /\ led2[s] = w[s] - Added(A, D, s)
                                  ELSE v2[s] = v[s] /\ led2[s] = led[s]
    /\ \A r \in Proc, s \in Sem :
         /\ ad2[r][s] = IF u[r] = id /\ s \in ss THEN 0 ELSE ad[r][s]
         /\ ow2[r][s] = IF s \in ss THEN Short(-Owing(A, D, r, s)) ELSE ow[r][s]

LEMMA ShortBack ==
  ASSUME NEW n \in Int
  PROVE  Short(-(Short(-n) + n)) = 0 /\ (n = 0 => Short(-n) = 0)
<1>1. -n \in Int /\ (-n) - (-n) = 0 /\ (n = 0 => -n = 0)
  BY SMT
<1>2. Short((-n) - Short(-n)) = Short((-n) - (-n))
  BY <1>1, ShortAdd, SMT
<1>3. Short(-n) \in Shorts
  BY <1>1, ShortIs, SMT
<1>4. Short(-n) \in Int
  BY <1>3, ShortId, SMT
<1>5. (-n) - Short(-n) = -(Short(-n) + n)
  BY <1>4, SMT
<1>6. Short(0) = 0
  BY ShortNeg, SMT
<1> QED
  BY <1>1, <1>2, <1>5, <1>6, SMT

LEMMA SetSound ==
  ASSUME LoopLaw, FiniteLaws, SumLaws
  PROVE  \A ss, v, ad, q, st, A, P, id, u, led, ow, v2, ad2, led2, ow2 :
         \A w \in [Sem -> Nat] :
           /\ id # NoSet
           /\ Sets(ss, w, v, ad, A, DoneIn(st, A, P, id), id, u, led, ow, v2, ad2, led2, ow2)
           /\ Sound(v, ad, q, st, A, P, id, u, led, ow)
           => Sound(v2, ad2, q, st, A, P, id, u, led2, ow2)
<1>SetUndo. ASSUME NEW ss, NEW w, NEW v, NEW ad, NEW A, IsCalls(A), NEW D, NEW id, NEW u,
                   NEW led, NEW ow, NEW v2, NEW ad2, NEW led2, NEW ow2,
                   Sets(ss, w, v, ad, A, D, id, u, led, ow, v2, ad2, led2, ow2),
                   \A r \in D : Undos(A[r].ops) => u[r] = id, UndoOK(ad, ow, u, id, A, D)
            PROVE  UndoOK(ad2, ow2, u, id, A, D)
  <2> USE <1>SetUndo
  <2> SUFFICES ASSUME NEW r \in Proc PROVE UndoOne(ad2, ow2, u, id, A, D, r)
    BY DEF UndoOK
  <2>1. UndoOne(ad, ow, u, id, A, D, r)
    BY DEF UndoOK
  <2>2. A[r].ops \in Seq(Sembuf) /\ AllNumbers
    BY DEF IsCalls, FiniteLaws
  <2>3. \A s \in Sem : Owing(A, D, r, s) \in Int
    <3>1. \A s \in Sem : UndoDelta(A[r].ops, s) \in Int
      BY <2>2, Parts
    <3>2. 0 \in Int
      BY SMT
    <3> QED
      BY <3>1, <3>2 DEF Owing
  <2>4. ASSUME u[r] # id, NEW s \in Sem PROVE Owing(A, D, r, s) = 0
    <3>1. CASE r \in D
      <4>1. ~Undos(A[r].ops)
        BY <2>4, <3>1
      <4> QED
        BY <2>2, <3>1, <4>1, KindsDelta DEF Owing
    <3>2. CASE r \notin D
      BY <3>2 DEF Owing
    <3> QED
      BY <3>1, <3>2
  <2>5. ASSUME u[r] = id, NEW s \in Sem PROVE ad2[r][s] = Short(-(ow2[r][s] + Owing(A, D, r, s)))
    <3>1. CASE s \in ss
      <4>1. ad2[r][s] = 0 /\ ow2[r][s] = Short(-Owing(A, D, r, s))
        BY <2>5, <3>1 DEF Sets
      <4> QED
        BY <2>3, <4>1, ShortBack
    <3>2. CASE s \notin ss
      <4>1. ad2[r][s] = ad[r][s] /\ ow2[r][s] = ow[r][s]
        BY <3>2 DEF Sets
      <4> QED
        BY <2>1, <2>5, <4>1 DEF UndoOne
    <3> QED
      BY <3>1, <3>2
  <2>6. ASSUME u[r] # id, NEW s \in Sem PROVE ow2[r][s] = 0
    <3>1. CASE s \in ss
      <4>1. ow2[r][s] = Short(-Owing(A, D, r, s)) /\ Owing(A, D, r, s) = 0
        BY <2>4, <2>6, <3>1 DEF Sets
      <4>2. Short(-Owing(A, D, r, s)) = 0
        BY <2>3, <4>1, ShortBack
      <4> QED
        BY <4>1, <4>2
    <3>2. CASE s \notin ss
      BY <2>1, <2>6, <3>2 DEF UndoOne, Sets
    <3> QED
      BY <3>1, <3>2
  <2> QED
    BY <2>5, <2>6 DEF UndoOne
<1>SetLedger. ASSUME NEW ss, NEW w \in [Sem -> Nat], NEW v, NEW ad, NEW A, IsCalls(A),
                     NEW D \in SUBSET Proc, NEW id, NEW u, NEW led, NEW ow, NEW v2, NEW ad2,
                     NEW led2, NEW ow2,
                     Sets(ss, w, v, ad, A, D, id, u, led, ow, v2, ad2, led2, ow2),
                     LedgerOK(v, led, A, D)
              PROVE  LedgerOK(v2, led2, A, D)
  <2> USE <1>SetLedger
  <2> SUFFICES ASSUME NEW s \in Sem PROVE v2[s] = led2[s] + Added(A, D, s)
    BY DEF LedgerOK
  <2>1. CASE s \notin ss
    BY <2>1 DEF LedgerOK, Sets
  <2>2. CASE s \in ss
    <3> DEFINE a == Added(A, D, s)
    <3>1. v2[s] = w[s] /\ led2[s] = w[s] - a
      BY <2>2 DEF Sets
    <3>2. a \in Int
      BY AddedIs
    <3>3. w[s] \in Int
      BY SMT
    <3> HIDE DEF a
    <3>4. v2[s] = led2[s] + a
      BY <3>1, <3>2, <3>3, SMTT(20)
    <3> QED
      BY <3>4 DEF a
  <2> QED
    BY <2>1, <2>2
<1> TAKE ss, v, ad, q, st, A, P, id, u, led, ow, v2, ad2, led2, ow2
<1> TAKE w \in [Sem -> Nat]
<1> HAVE /\ id # NoSet
         /\ Sets(ss, w, v, ad, A, DoneIn(st, A, P, id), id, u, led, ow, v2, ad2, led2, ow2)
         /\ Sound(v, ad, q, st, A, P, id, u, led, ow)
<1> DEFINE D == DoneIn(st, A, P, id)
<1>1. /\ Types(v, ad, q, st, A, P, led, ow)
      /\ QueuedOK(q, st, A, P, id) /\ InCallOK(q, st, A, P, id, u) /\ ZeroFirst(q, A)
      /\ LedgerOK(v, led, A, D) /\ UndoOK(ad, ow, u, id, A, D)
  BY DEF Sound
<1>2. Types(v2, ad2, q, st, A, P, led2, ow2)
  BY <1>1 DEF Types, Sets
<1>3. D \in SUBSET Proc
  BY SMT DEF DoneIn
<1>4. \A r \in D : r \in Proc /\ P[r] \in InCall /\ A[r].id = id
  BY DEF DoneIn
<1>5. \A r \in D : Undos(A[r].ops) => u[r] = id
  BY <1>1, <1>4 DEF InCallOK, InCallOne
<1>6. IsCalls(A)
  BY <1>1, CallsAre DEF Types
<1>7. Sets(ss, w, v, ad, A, D, id, u, led, ow, v2, ad2, led2, ow2)
  OBVIOUS
<1> HIDE DEF D
<1>8. LedgerOK(v2, led2, A, D)
  BY <1>1, <1>3, <1>6, <1>7, <1>SetLedger
<1>9. UndoOK(ad2, ow2, u, id, A, D)
  BY <1>1, <1>5, <1>6, <1>7, <1>SetUndo, SMT
<1> QED
  BY <1>1, <1>2, <1>8, <1>9 DEF Sound, D

-----------------------------------------------------------------------------
(* No set, a set that is removed, a new set.                               *)
LEMMA EmptyQueue ==
  ASSUME NEW v, NEW st, NEW A, NEW P, NEW id
  PROVE  /\ <<>> \in Seq(Proc) /\ NoRepeat(<<>>) /\ Range(<<>>) = {} /\ QueuedOK(<<>>, st, A, P, id) /\ ZeroFirst(<<>>, A)
         /\ ZeroOK(v, <<>>, A) /\ FirstOK(v, <<>>, st, A)
<1>1. <<>> \in Seq(Proc) /\ Range(<<>>) = {} /\ NoRepeat(<<>>)
  BY SMT DEF Range, NoRepeat
<1>2. \A x, y : ~Ahead(<<>>, x, y)
  BY SMT DEF Ahead
<1>3. \A x : x \notin Range(<<>>)
  BY <1>1, SMT
<1> QED
  BY <1>1, <1>2, <1>3 DEF QueuedOK, ZeroFirst, ZeroOK, FirstOK

LEMMA ZeroIs == Zero \in [Sem -> Nat] /\ Zero \in [Sem -> Int] /\ Zero \in [Sem -> Shorts] /\ \A s \in Sem : Zero[s] = 0
<1>1. 0 \in Shorts
  BY SEMVMXAssumption, SMT DEF Shorts
<1> QED
  BY <1>1, SMT DEF Zero

LEMMA NoArgIs == NoArg \in Calls /\ NoArg.id = NoSet /\ NoArg.ops = <<>>
<1>1. Zero \in [Sem -> 0..SEMVMX]
  BY SEMVMXAssumption, SMT DEF Zero
<1> QED
  BY <1>1, SMT DEF NoArg, Calls, NoSet

LEMMA Removal ==
  ASSUME NEW v, NEW ad, NEW q, NEW st, NEW A, NEW P, NEW id, NEW u, NEW led, NEW ow,
         Sound(v, ad, q, st, A, P, id, u, led, ow),
         NEW st2 \in [Proc -> Status], NEW P2 \in [Proc -> Pc], NEW u2,
         \A r \in Proc : st2[r] = IF r \in Range(q) THEN "EIDRM" ELSE st[r],
         \A r \in Proc : P2[r] = IF r \in Range(q) /\ P[r] = "sleep" THEN "awake" ELSE P[r]
  PROVE  Whole(Zero, [r \in Proc |-> Zero], <<>>, st2, A, P2, NoSet, u2, Zero, [r \in Proc |-> Zero])
<1>1. Types(v, ad, q, st, A, P, led, ow) /\ InCallOK(q, st, A, P, id, u)
  BY DEF Sound
<1>2. [r \in Proc |-> Zero] \in [Proc -> [Sem -> Shorts]]
  BY ZeroIs, SMT
<1>3. Types(Zero, [r \in Proc |-> Zero], <<>>, st2, A, P2, Zero, [r \in Proc |-> Zero])
  BY <1>1, <1>2, ZeroIs, EmptyQueue DEF Types
<1>4. ASSUME NEW r \in Proc, P2[r] \in InCall PROVE InCallOne(<<>>, st2, A, P2, NoSet, u2, r)
  <2>1. /\ st2[r] = IF r \in Range(q) THEN "EIDRM" ELSE st[r]
        /\ P2[r] = IF r \in Range(q) /\ P[r] = "sleep" THEN "awake" ELSE P[r]
    OBVIOUS
  <2>2. P[r] \in InCall
    BY <1>4, <2>1, SMTT(20) DEF InCall
  <2>3. (st[r] \in {"EINTR", "retry"} => r \in Range(q)) /\ (P[r] = "sleep" => r \in Range(q))
    BY <1>1, <2>2 DEF InCallOK, InCallOne
  <2>4. st2[r] \notin {"EINTR", "retry"} /\ P2[r] # "sleep"
    BY <2>1, <2>3, SMT
  <2> QED
    BY <2>4 DEF InCallOne
<1>5. InCallOK(<<>>, st2, A, P2, NoSet, u2)
  BY <1>4 DEF InCallOK
<1> QED
  BY <1>3, <1>5, EmptyQueue DEF Sound, Whole

LEMMA Creation ==
  ASSUME SumLaws, NEW v, NEW ad, NEW q, NEW st, NEW A, NEW P, NEW u, NEW led, NEW ow,
         Sound(v, ad, q, st, A, P, NoSet, u, led, ow),
         NEW id, \A r \in Proc : A[r].id # id /\ u[r] # id
  PROVE  Whole(Zero, ad, <<>>, st, A, P, id, u, Zero, [r \in Proc |-> Zero])
<1>1. Types(v, ad, q, st, A, P, led, ow) /\ InCallOK(q, st, A, P, NoSet, u) /\ QueuedOK(q, st, A, P, NoSet)
  BY DEF Sound
<1>2. [r \in Proc |-> Zero] \in [Proc -> [Sem -> Shorts]] /\ \A r \in Proc, s \in Sem : [t \in Proc |-> Zero][r][s] = 0
  BY ZeroIs, SMT
<1>3. Types(Zero, ad, <<>>, st, A, P, Zero, [r \in Proc |-> Zero])
  BY <1>1, <1>2, ZeroIs, EmptyQueue DEF Types
<1>4. \A r : r \notin Range(q)
  BY <1>1 DEF QueuedOK, QueuedOne
<1>5. InCallOK(<<>>, st, A, P, id, u)
  BY <1>1, <1>4 DEF InCallOK, InCallOne
<1>6. DoneIn(st, A, P, id) = {}
  BY SMT DEF DoneIn
<1>7. ASSUME NEW s \in Sem PROVE Zero[s] = Zero[s] + Added(A, {}, s)
  <2>1. Added(A, {}, s) = 0
    BY DEF Added, SumLaws, SumOfNone
  <2>2. Zero[s] = 0
    BY ZeroIs
  <2> QED
    BY <2>1, <2>2, SMT
<1>8. LedgerOK(Zero, Zero, A, {})
  BY <1>7 DEF LedgerOK
<1>9. UndoOK(ad, [r \in Proc |-> Zero], u, id, A, {})
  BY <1>2 DEF UndoOK, UndoOne
<1> QED
  BY <1>3, <1>5, <1>6, <1>8, <1>9, EmptyQueue DEF Sound, Whole

-----------------------------------------------------------------------------
(***************************************************************************)
(* The pieces of a step: the attempt, the return, the update at the end.   *)
(***************************************************************************)
Tried(S, p, ops, r, T) ==
    /\ r.result = Expected(S.val, ops) /\ T \in Queues
    /\ T.pend = S.pend /\ T.status = S.status /\ T.woken = S.woken /\ T.stop = S.stop
    /\ Besides(p, T.adj, S.adj)
    /\ r.result # "ok" => T.val = S.val /\ T.adj = S.adj
    /\ r.result = "ok" => /\ Charged(T.adj[p], S.adj[p], ops)
                          /\ \A s \in Sem : T.val[s] = S.val[s] + Delta(ops, s)

LEMMA Attempted ==
  ASSUME LoopLaw, FiniteLaws, NEW S \in Queues, NEW p \in Proc, NEW ops \in Seq(Sembuf)
  PROVE  Tried(S, p, ops, Try(S, p, ops, FALSE), Commit(S, p, Try(S, p, ops, FALSE)))
<1> DEFINE r == Try(S, p, ops, FALSE)
           T == Commit(S, p, r)
<1>1. S.val \in [Sem -> Nat] /\ S.adj \in [Proc -> [Sem -> Shorts]] /\ FALSE \in BOOLEAN
  BY SMT DEF Queues
<1>2. Tries(r, S.val, S.adj[p], ops, FALSE)
  BY <1>1, TryOnly DEF FiniteLaws
<1> HIDE DEF r
<1>3. r.val \in [Sem -> Nat] /\ r.adj \in [Sem -> Shorts] /\ r.result = Expected(S.val, ops)
  BY <1>2 DEF Tries
<1>4. /\ T \in Queues /\ T.val = r.val /\ T.adj = [S.adj EXCEPT ![p] = r.adj]
      /\ T.pend = S.pend /\ T.status = S.status /\ T.woken = S.woken /\ T.stop = S.stop
  BY <1>3 DEF Commit, Queues
<1> HIDE DEF T
<1>5. T.adj[p] = r.adj /\ Besides(p, T.adj, S.adj)
  BY <1>1, <1>4, SMT DEF Besides
<1>6. ASSUME r.result # "ok" PROVE T.val = S.val /\ T.adj = S.adj
  <2>1. r.val = S.val /\ r.adj = S.adj[p]
    BY <1>2, <1>6 DEF Tries
  <2> QED
    BY <1>1, <1>4, <2>1
<1>7. ASSUME r.result = "ok" PROVE Charged(T.adj[p], S.adj[p], ops) /\ \A s \in Sem : T.val[s] = S.val[s] + Delta(ops, s)
  BY <1>2, <1>4, <1>5, <1>7 DEF Tries, Charged
<1>8. Tried(S, p, ops, r, T)
  BY <1>3, <1>4, <1>5, <1>6, <1>7 DEF Tried
<1> QED
  BY <1>8 DEF r, T

(* A call that p performs itself: p is in no call, has performed ops on S, and its books say so.  *)
Granted(S, p, ops, r, T, st, A, P, id, u, led, ow, led2, ow2) ==
    /\ Tried(S, p, ops, r, T) /\ r.result = "ok" /\ Recorded(p, ops, led, ow, led2, ow2)
    /\ P[p] \notin InCall /\ (Undos(ops) => u[p] = id)
    /\ Sound(S.val, S.adj, S.pend, st, A, P, id, u, led, ow)

LEMMA Performs ==
  ASSUME LoopLaw, FiniteLaws, SumLaws
  PROVE  \A r, T, st, A, P, id, u, led, ow, led2, ow2 :
         \A S \in Queues, p \in Proc, ops \in Seq(Sembuf) :
           Granted(S, p, ops, r, T, st, A, P, id, u, led, ow, led2, ow2)
           => /\ Sound(T.val, T.adj, T.pend, st, A, P, id, u, led2, ow2)
              /\ ~Alter(ops) => T.val = S.val
<1>PaidClean. ASSUME NEW p \in Proc, NEW ops \in Seq(Sembuf), NEW ad, NEW ad2,
                     NEW ow \in [Proc -> [Sem -> Shorts]], NEW ow2, NEW u, NEW id,
                     Clean(ad, ow, u, id, p), Undos(ops) => u[p] = id,
                     Charged(ad2[p], ad[p], ops),
                     \A s \in Sem : ow2[p][s] = Short(ow[p][s] + UndoDelta(ops, s))
              PROVE  Clean(ad2, ow2, u, id, p)
  <2> USE <1>PaidClean
  <2>1. \A s \in Sem : UndoDelta(ops, s) \in Int /\ ow[p][s] \in Int
    <3>1. \A s \in Sem : UndoDelta(ops, s) \in Int
      BY Parts DEF FiniteLaws
    <3>2. \A s \in Sem : ow[p][s] \in Int
      BY ShortId
    <3> QED
      BY <3>1, <3>2
  <2>2. ASSUME u[p] = id PROVE Owes(ad2[p], ow2[p])
    <3>1. Owes(ad[p], ow[p])
      BY <2>2 DEF Clean
    <3>2. OwesToo(ad2[p], ow[p], ops)
      BY <3>1, OweMore
    <3> SUFFICES ASSUME NEW s \in Sem PROVE ad2[p][s] = Short(-(ow2[p][s] + 0))
      BY DEF Owes
    <3>3. ad2[p][s] = Short(-(ow[p][s] + UndoDelta(ops, s)))
      BY <3>2 DEF OwesToo
    <3> QED
      BY <2>1, <3>3, ShortNeg
  <2>3. ASSUME u[p] # id, NEW s \in Sem PROVE ow2[p][s] = 0
    <3>1. ow[p][s] = 0
      BY <2>3 DEF Clean
    <3>2. UndoDelta(ops, s) = 0
      BY <2>3, KindsDelta DEF FiniteLaws
    <3>3. ow[p][s] + UndoDelta(ops, s) = 0
      BY <3>1, <3>2, SMT
    <3>4. Short(0) = 0
      BY <2>1, ShortNeg
    <3> QED
      BY <3>3, <3>4
  <2> QED
    BY <2>2, <2>3 DEF Clean
<1> TAKE r, T, st, A, P, id, u, led, ow, led2, ow2
<1> TAKE S \in Queues, p \in Proc, ops \in Seq(Sembuf)
<1> HAVE Granted(S, p, ops, r, T, st, A, P, id, u, led, ow, led2, ow2)
<1>0. /\ Tried(S, p, ops, r, T) /\ r.result = "ok" /\ Recorded(p, ops, led, ow, led2, ow2)
      /\ P[p] \notin InCall /\ (Undos(ops) => u[p] = id) /\ Sound(S.val, S.adj, S.pend, st, A, P, id, u, led, ow)
  BY DEF Granted
<1> USE <1>0
<1>1. Types(S.val, S.adj, S.pend, st, A, P, led, ow)
  BY DEF Sound
<1>2. /\ T.val \in [Sem -> Nat] /\ T.adj \in [Proc -> [Sem -> Shorts]]
      /\ S.val \in [Sem -> Nat] /\ S.adj \in [Proc -> [Sem -> Shorts]]
  <2>1. T \in Queues
    BY DEF Tried
  <2> QED
    BY <2>1, SMT DEF Queues
<1>3. \A s \in Sem : T.val[s] = S.val[s] + Delta(ops, s) /\ led2[s] = led[s] + Delta(ops, s)
  BY DEF Tried, Recorded
<1>4. led \in [Sem -> Int] /\ led2 \in [Sem -> Int] /\ ow \in [Proc -> [Sem -> Shorts]] /\ ow2 \in [Proc -> [Sem -> Shorts]]
  BY <1>1 DEF Types, Recorded
<1>5. \A s \in Sem : Delta(ops, s) \in Int
  BY Parts DEF FiniteLaws
<1>6. Shifts(S.val, led, T.val, led2)
  <2> SUFFICES ASSUME NEW s \in Sem PROVE T.val[s] - led2[s] = S.val[s] - led[s]
    BY DEF Shifts
  <2> DEFINE d == Delta(ops, s)
  <2>1. T.val[s] = S.val[s] + d /\ led2[s] = led[s] + d /\ d \in Int
    BY <1>3, <1>5
  <2> HIDE DEF d
  <2>2. S.val[s] \in Int /\ led[s] \in Int
    BY <1>2, <1>4, SMT
  <2> QED
    BY <2>1, <2>2, SMT
<1>7. ASSUME id # NoSet PROVE Clean(T.adj, ow2, u, id, p)
  <2>1. UndoOne(S.adj, ow, u, id, A, DoneIn(st, A, P, id), p)
    BY <1>7 DEF Sound, UndoOK
  <2>2. \A s : Owing(A, DoneIn(st, A, P, id), p, s) = 0
    BY DEF Owing, DoneIn
  <2>3. Clean(S.adj, ow, u, id, p)
    BY <2>1, <2>2 DEF UndoOne, Clean, Owes
  <2>4. Charged(T.adj[p], S.adj[p], ops) /\ \A s \in Sem : ow2[p][s] = Short(ow[p][s] + UndoDelta(ops, s))
    BY DEF Tried, Recorded
  <2> QED
    BY <1>4, <2>3, <2>4, <1>PaidClean
<1>8. Besides(p, T.adj, S.adj) /\ Besides(p, ow2, ow) /\ Besides(p, u, u)
  BY DEF Tried, Recorded, Besides
<1>9. Changes(p, S.val, S.adj, u, id, led, ow, T.val, T.adj, u, led2, ow2)
  BY <1>2, <1>4, <1>6, <1>7, <1>8 DEF Changes
<1>10. Sound(T.val, T.adj, S.pend, st, A, P, id, u, led2, ow2)
  BY <1>9, Alone, SMT
<1>11. T.pend = S.pend
  BY DEF Tried
<1>12. ASSUME ~Alter(ops) PROVE T.val = S.val
  <2>1. \A s \in Sem : Delta(ops, s) = 0
    BY <1>12, KindsDelta DEF FiniteLaws
  <2>2. \A s \in Sem : T.val[s] = S.val[s] + 0
    BY <1>3, <2>1
  <2> QED
    BY <1>2, <2>2, SMT
<1> QED
  BY <1>10, <1>11, <1>12

(* Where p is when it has left the call and before the others are woken.   *)
PcOf(p, at)  == [pc EXCEPT ![p] = at]
StatusOf(p)  == [status EXCEPT ![p] = "none"]
ArgOf(p)     == [arg EXCEPT ![p] = NoArg]
VarTypes     == pc \in [Proc -> Pc] /\ status \in [Proc -> Status] /\ arg \in [Proc -> Calls]

NoneNew(p, P) == \A r \in Proc : r # p => (P[r] \in Unlocked => P[r] = pc[r])
Quiet(U, p, at) == U.woken = {} => Run(U, p, at) = PcOf(p, at)

LEMMA RunIs ==
  ASSUME VarTypes, NEW p \in Proc, NEW at \in Pc, at \notin InCall, NEW U
  PROVE  /\ Run(U, p, at) \in [Proc -> Pc] /\ PcOf(p, at) \in [Proc -> Pc]
         /\ Besides(p, PcOf(p, at), pc) /\ PcOf(p, at)[p] = at
         /\ Wakes(PcOf(p, at), U, Run(U, p, at)) /\ Run(U, p, at)[p] = at
         /\ NoneNew(p, Run(U, p, at))
         /\ Quiet(U, p, at)
<1>1. pc \in [Proc -> Pc] /\ "awake" \in Pc /\ at # "sleep"
  BY SMT DEF VarTypes, Pc, InCall
<1>2. PcOf(p, at) \in [Proc -> Pc] /\ PcOf(p, at)[p] = at /\ \A r \in Proc : r # p => PcOf(p, at)[r] = pc[r]
  BY <1>1, SMT DEF PcOf
<1>3. /\ Run(U, p, at) \in [Proc -> Pc] /\ Run(U, p, at)[p] = at
      /\ \A r \in Proc : r # p => Run(U, p, at)[r] = IF r \in U.woken /\ pc[r] = "sleep" THEN "awake" ELSE pc[r]
  BY <1>1, SMT DEF Run
<1>4. Wakes(PcOf(p, at), U, Run(U, p, at))
  BY <1>1, <1>2, <1>3 DEF Wakes
<1>5. ASSUME U.woken = {} PROVE Run(U, p, at) = PcOf(p, at)
  <2>1. \A r \in Proc : Run(U, p, at)[r] = PcOf(p, at)[r]
    BY <1>2, <1>3, <1>5, SMTT(20)
  <2> QED
    BY <1>2, <1>3, <2>1, SMTT(20)
<1>6. \A r \in Proc : r # p => (Run(U, p, at)[r] \in Unlocked => Run(U, p, at)[r] = pc[r])
  BY <1>3, SMT DEF Unlocked
<1> QED
  BY <1>2, <1>3, <1>4, <1>5, <1>6 DEF Besides, Quiet, NoneNew

LEMMA LeftIs ==
  ASSUME VarTypes, NEW p \in Proc
  PROVE  /\ Leaves(p, status, arg, pc, StatusOf(p), ArgOf(p), PcOf(p, "user"))
         /\ Agrees(ArgOf(p), arg, PcOf(p, "user")) /\ Agrees(StatusOf(p), status, PcOf(p, "user"))
         /\ ArgOf(p)[p] = NoArg /\ Besides(p, ArgOf(p), arg)
<1>1. "user" \in Pc /\ "user" \notin InCall /\ "none" \in Status
  BY SMT DEF Pc, InCall, Status
<1>2. PcOf(p, "user") \in [Proc -> Pc] /\ Besides(p, PcOf(p, "user"), pc) /\ PcOf(p, "user")[p] = "user"
  BY <1>1, RunIs
<1>3. StatusOf(p) \in [Proc -> Status] /\ \A r \in Proc : r # p => StatusOf(p)[r] = status[r]
  BY <1>1, SMT DEF StatusOf, VarTypes
<1>4. ArgOf(p) \in [Proc -> Calls] /\ ArgOf(p)[p] = NoArg /\ \A r \in Proc : r # p => ArgOf(p)[r] = arg[r]
  BY NoArgIs, SMT DEF ArgOf, VarTypes
<1> QED
  BY <1>1, <1>2, <1>3, <1>4 DEF Leaves, Agrees, Besides

(* The queue is updated, then p returns.                                   *)
LEMMA UpdateReturn ==
  ASSUME LoopLaw, FiniteLaws, SumLaws, WithoutLaw, WithoutOrder, VarTypes, NEW p \in Proc, NEW S \in Queues, ~S.stop,
         S.status = status, NEW U, U = UpdateQueue(S), Return(U, p), NEW id, NEW u, NEW led, NEW ow,
         Sound(S.val, S.adj, S.pend, StatusOf(p), ArgOf(p), PcOf(p, "user"), id, u, led, ow)
  PROVE  Whole(U.val, U.adj, U.pend, status', arg', pc', id, u, led, ow)
<1>1. IsCalls(arg)
  BY CallsAre DEF VarTypes
<1>2. "user" \in Pc /\ "user" \notin InCall /\ "none" \in Status
  BY SMT DEF Pc, InCall, Status
<1>3. /\ Agrees(ArgOf(p), arg, PcOf(p, "user")) /\ Agrees(StatusOf(p), S.status, PcOf(p, "user"))
      /\ PcOf(p, "user")[p] = "user"
  BY <1>2, LeftIs, RunIs
<1>4. Ready(S, arg)
  BY <1>3, SoundReady
<1>5. Updated(S, U, arg)
  BY <1>1, <1>4, QueueUpdated
<1>6. U.status \in [Proc -> Status]
  <2>1. U \in Queues
    BY <1>5 DEF Updated
  <2> QED
    BY <2>1, SMT DEF Queues
<1>7. pc' = Run(U, p, "user") /\ arg' = ArgOf(p) /\ status' = [U.status EXCEPT ![p] = "none"]
  BY DEF Return, ArgOf
<1>8. status' \in [Proc -> Status] /\ \A r \in Proc : r # p => status'[r] = U.status[r]
  BY <1>2, <1>6, <1>7, SMTT(20)
<1>9. Agrees(status', U.status, PcOf(p, "user"))
  BY <1>2, <1>3, <1>8 DEF Agrees
<1>10. pc' \in [Proc -> Pc] /\ Wakes(PcOf(p, "user"), U, pc')
  BY <1>2, <1>7, RunIs
<1>11. Whole(U.val, U.adj, U.pend, status', ArgOf(p), pc', id, u, led, ow)
  BY <1>1, <1>3, <1>8, <1>9, <1>10, Update
<1> QED
  BY <1>7, <1>11

(* p returns and the queue is left alone.                                  *)
LEMMA StayReturn ==
  ASSUME VarTypes, NEW p \in Proc, NEW S, S.status = status, S.woken = {}, Return(S, p)
  PROVE  status' = StatusOf(p) /\ arg' = ArgOf(p) /\ pc' = PcOf(p, "user")
<1>1. "user" \in Pc /\ "user" \notin InCall
  BY SMT DEF Pc, InCall
<1>2. pc' = Run(S, p, "user") /\ arg' = ArgOf(p) /\ status' = StatusOf(p)
  BY DEF Return, ArgOf, StatusOf
<1>3. Quiet(S, p, "user")
  BY <1>1, RunIs
<1> QED
  BY <1>2, <1>3 DEF Quiet

Served(v, q, st, A) == ZeroOK(v, q, A) /\ (MenuMild => FirstOK(v, q, st, A))

LEMMA FinishReturn ==
  ASSUME LoopLaw, FiniteLaws, SumLaws, WithoutLaw, WithoutOrder, VarTypes, NEW p \in Proc, NEW S \in Queues, ~S.stop,
         S.status = status, S.woken = {}, NEW ops, NEW U, U = Finish(S, ops), Return(U, p), NEW id, NEW u, NEW led, NEW ow,
         Sound(S.val, S.adj, S.pend, StatusOf(p), ArgOf(p), PcOf(p, "user"), id, u, led, ow),
         Alter(ops) \/ Served(S.val, S.pend, StatusOf(p), ArgOf(p))
  PROVE  Whole(U.val, U.adj, U.pend, status', arg', pc', id, u, led, ow)
<1>1. CASE Alter(ops)
  <2>1. U = UpdateQueue(S)
    BY <1>1 DEF Finish
  <2> QED
    BY <2>1, UpdateReturn
<1>2. CASE ~Alter(ops)
  <2>1. U = S
    BY <1>2 DEF Finish
  <2>2. status' = StatusOf(p) /\ arg' = ArgOf(p) /\ pc' = PcOf(p, "user")
    BY <2>1, StayReturn
  <2> QED
    BY <1>2, <2>1, <2>2 DEF Whole, Served
<1> QED
  BY <1>1, <1>2

LEMMA RecordIs ==
  ASSUME LoopLaw, FiniteLaws, NEW p \in Proc, NEW ops \in Seq(Sembuf), ledger \in [Sem -> Int],
         owed \in [Proc -> [Sem -> Shorts]], Record(p, ops)
  PROVE  Recorded(p, ops, ledger, owed, ledger', owed')
<1>1. \A s \in Sem : Delta(ops, s) \in Int /\ UndoDelta(ops, s) \in Int
  BY Parts DEF FiniteLaws
<1>2. \A s \in Sem : ledger[s] + Delta(ops, s) \in Int
  <2> SUFFICES ASSUME NEW s \in Sem PROVE ledger[s] + Delta(ops, s) \in Int
    OBVIOUS
  <2>1. Delta(ops, s) \in Int /\ ledger[s] \in Int
    BY <1>1
  <2> QED
    BY <2>1, SMT
<1>3. \A s \in Sem : Short(owed[p][s] + UndoDelta(ops, s)) \in Shorts
  <2> SUFFICES ASSUME NEW s \in Sem PROVE Short(owed[p][s] + UndoDelta(ops, s)) \in Shorts
    OBVIOUS
  <2>1. owed[p][s] \in Int
    BY ShortId, SMT
  <2>2. owed[p][s] + UndoDelta(ops, s) \in Int
    BY <1>1, <2>1, SMTT(20)
  <2> QED
    BY <2>2, ShortIs
<1>4. /\ ledger' = [s \in Sem |-> ledger[s] + Delta(ops, s)]
      /\ owed' = [owed EXCEPT ![p] = [s \in Sem |-> Short(owed[p][s] + UndoDelta(ops, s))]]
  BY SMT DEF Record
<1> DEFINE z == [s \in Sem |-> Short(owed[p][s] + UndoDelta(ops, s))]
<1>5. z \in [Sem -> Shorts] /\ \A s \in Sem : z[s] = Short(owed[p][s] + UndoDelta(ops, s))
  BY <1>3
<1>6. owed' = [owed EXCEPT ![p] = z]
  BY <1>4
<1>7. ledger' \in [Sem -> Int] /\ \A s \in Sem : ledger'[s] = ledger[s] + Delta(ops, s)
  BY <1>2, <1>4
<1> HIDE DEF z
<1>8. owed' \in [Proc -> [Sem -> Shorts]] /\ owed'[p] = z /\ \A r \in Proc : r # p => owed'[r] = owed[r]
  BY <1>5, <1>6, SMT
<1> QED
  BY <1>5, <1>7, <1>8 DEF Recorded, Besides

LEMMA OutsideQueue ==
  ASSUME NEW p \in Proc, NEW v, NEW ad, NEW q, NEW st, NEW A, NEW P, NEW id, NEW u, NEW led, NEW ow,
         Sound(v, ad, q, st, A, P, id, u, led, ow), P[p] \notin InCall
  PROVE  OutOf(q, q, p) /\ p \notin Range(q) /\ p \notin DoneIn(st, A, P, id)
<1>1. q \in Seq(Proc) /\ NoRepeat(q) /\ QueuedOK(q, st, A, P, id)
  BY DEF Sound, Types
<1>2. p \notin Range(q)
  BY <1>1 DEF QueuedOK, QueuedOne
<1>3. p \notin DoneIn(st, A, P, id)
  BY DEF DoneIn
<1> QED
  BY <1>1, <1>2, <1>3, OutOfSame

(* p, which is outside semop(), returns from another call: nothing else.   *)
LEMMA LeaveWhole ==
  ASSUME FiniteLaws, SumLaws, NEW p \in Proc, NEW v, NEW ad, NEW q,
         NEW st, NEW A, NEW P, NEW st2, NEW A2, NEW P2, Leaves(p, st, A, P, st2, A2, P2), NEW id, NEW u, NEW led, NEW ow,
         Whole(v, ad, q, st, A, P, id, u, led, ow), P[p] \notin InCall
  PROVE  Whole(v, ad, q, st2, A2, P2, id, u, led, ow)
<1>1. Sound(v, ad, q, st, A, P, id, u, led, ow) /\ ZeroOK(v, q, A) /\ (MenuMild => FirstOK(v, q, st, A)) /\ q \in Seq(Proc)
  BY DEF Whole, Sound, Types
<1>2. OutOf(q, q, p) /\ p \notin Range(q) /\ p \notin DoneIn(st, A, P, id)
  BY <1>1, OutsideQueue
<1>3. Sound(v, ad, q, st2, A2, P2, id, u, led, ow)
  BY <1>1, <1>2, Leave
<1>4. /\ ZeroOK(v, q, A) => ZeroOK(v, q, A2)
      /\ FirstOK(v, q, st, A) => FirstOK(v, q, st2, A2)
  BY <1>1, <1>2, LeaveServed
<1> QED
  BY <1>1, <1>3, <1>4 DEF Whole
=============================================================================
