--------------------------- MODULE IpcIdsGCProofs ---------------------------
(***************************************************************************)
(* Two parts that share nothing but this module.                           *)
(*                                                                         *)
(* For every size of the table, every number of processes and every        *)
(* sequence limit: the bookkeeping of an id table is exact, keys are       *)
(* unique, and an id is refused once its object is gone.                   *)
(*                                                                         *)
(* For every set of sockets, every number of processes and every limit on  *)
(* queues and messages: what the mark phase of the collector of Unix       *)
(* sockets finds.                                                          *)
(***************************************************************************)
EXTENDS IpcIds, UnixGC, FiniteSetTheorems, TLAPS

(***************************************************************************)
(* Arithmetic.                                                             *)
(***************************************************************************)

(* What ipc_buildid() packs, ipc_lock() and ipc_checkid() take apart.      *)
LEMMA RoundTrip ==
    ASSUME NEW M \in Nat \ {0}, NEW s \in Nat, NEW lid \in 0..(M - 1)
    PROVE  (M * s + lid) % M = lid /\ (M * s + lid) \div M = s
<1>1. (M * s + lid) % M = lid
  BY SMTT(20)
<1>2. (M * s + lid) \div M = s
  BY SMTT(20)
<1> QED BY <1>1, <1>2

(* Division with remainder.                                                *)
LEMMA DivMod ==
    ASSUME NEW M \in Nat \ {0}, NEW a \in Nat
    PROVE  /\ a % M \in 0..(M - 1)
           /\ a \div M \in Nat
           /\ a = M * (a \div M) + (a % M)
<1>1. a % M \in 0..(M - 1)
  BY SMTT(20)
<1>2. a \div M \in Nat
  BY SMTT(20)
<1>3. a = M * (a \div M) + (a % M)
  BY SMTT(20)
<1> QED BY <1>1, <1>2, <1>3

(* Numbers with the same remainder that are close are equal.               *)
LEMMA SameRemainder ==
    ASSUME NEW M \in Nat \ {0}, NEW a \in Nat, NEW b \in Nat,
           a % M = b % M, b <= a, a - b < M
    PROVE  a = b
<1> DEFINE q == a \div M
           r == b \div M
<1>1. q \in Nat /\ r \in Nat /\ a = M * q + (a % M) /\ b = M * r + (a % M) /\ a % M \in Nat
  <2>1. q \in Nat /\ a = M * q + (a % M) /\ a % M \in 0..(M - 1)
    BY DivMod, Zenon
  <2>2. r \in Nat /\ b = M * r + (b % M)
    BY DivMod, Zenon
  <2> QED BY <2>1, <2>2
<1> HIDE DEF q, r
<1>2. a - b = M * q - M * r
  <2>1. M * q \in Nat /\ M * r \in Nat
    BY <1>1
  <2> QED BY <1>1, <2>1
<1>3. M * q - M * r = M * (q - r)
  BY <1>1
<1>4. CASE q - r >= 1
  <2>1. M * (q - r) >= M
    BY <1>1, <1>4
  <2> QED BY <1>2, <1>3, <2>1
<1>5. CASE q - r <= -1
  <2>1. M * (q - r) <= -M
    BY <1>1, <1>5
  <2> QED BY <1>2, <1>3, <2>1
<1>6. CASE q = r
  BY <1>1, <1>6
<1> QED BY <1>1, <1>4, <1>5, <1>6

(* NextSeq() counts modulo SeqMax + 1.                                     *)
LEMMA NextSeqCounts ==
    ASSUME NEW n \in Nat
    PROVE  NextSeq(n % (SeqMax + 1)) = (n + 1) % (SeqMax + 1)
<1> DEFINE M == SeqMax + 1
           q == n \div M
           r == n % M
<1>1. M \in Nat \ {0}
  BY SeqMaxAssumption
<1>2. q \in Nat /\ r \in 0..(M - 1) /\ n = M * q + r
  BY <1>1, DivMod, Zenon
<1>3. NextSeq(r) = IF r + 1 > M - 1 THEN 0 ELSE r + 1
  BY SeqMaxAssumption DEF NextSeq
<1> HIDE DEF M, q, r
<1>4. M * q \in Nat
  BY <1>1, <1>2
<1>5. CASE r + 1 <= M - 1
  <2>1. r + 1 \in 0..(M - 1) /\ n + 1 = M * q + (r + 1)
    BY <1>1, <1>2, <1>4, <1>5
  <2>2. (n + 1) % M = r + 1
    BY <2>1, <1>1, <1>2, RoundTrip
  <2> QED BY <1>1, <1>2, <1>3, <1>5, <2>2 DEF M, r
<1>6. CASE r + 1 > M - 1
  <2>1. n + 1 = M * (q + 1) + 0
    BY <1>1, <1>2, <1>4, <1>6
  <2>2. (n + 1) % M = 0
    BY <2>1, <1>1, <1>2, RoundTrip
  <2> QED BY <1>1, <1>2, <1>3, <1>6, <2>2 DEF M, r
<1> QED BY <1>1, <1>2, <1>5, <1>6

-----------------------------------------------------------------------------
(***************************************************************************)
(* The inductive invariant.  ids->sem, unlike ids->ary, does exclude: the  *)
(* process between ipc_addid() and up(), or between down() and ipc_rmid(), *)
(* is its holder, and its object stays in the table.  Sequence numbers are *)
(* the births modulo SeqMax + 1, births in a slot only grow.               *)
(***************************************************************************)
SemExcludes ==
    \A p \in Proc : /\ pc[p] \in {"init", "rm"} <=> sem = p
                    /\ sem = p => at[p] \in Used

SeqIsBirth ==
    /\ seq = births % (SeqMax + 1)
    /\ \A i \in Used : /\ entries[i].seq = entries[i].birth % (SeqMax + 1)
                       /\ entries[i].birth < births

IdsAge ==
    \A h \in issued :
        /\ IdSlot(h.id) \in Slot
        /\ IdSeq(h.id) = h.birth % (SeqMax + 1)
        /\ h.birth < births
        /\ IdSlot(h.id) \in Used => h.birth <= entries[IdSlot(h.id)].birth

IInv == TypeOK /\ Bookkeeping /\ UniqueKeys /\ SemExcludes /\ SeqIsBirth /\ IdsAge

(* The used slots are finitely many.                                       *)
LEMMA UsedFinite == IsFiniteSet(Used) /\ Used \subseteq Slot
<1>1. Used \subseteq Slot
  BY DEF Used
<1>2. IsFiniteSet(0..(IPCMNI - 1))
  BY FS_Interval, IPCMNIAssumption
<1> QED BY <1>1, <1>2, FS_Subset, Zenon DEF Slot

(* Steps that leave the table alone leave what is said of it alone.        *)
LEMMA TableKept ==
    ASSUME IInv, UNCHANGED <<table, births>>
    PROVE  Bookkeeping' /\ UniqueKeys' /\ SeqIsBirth' /\ Used' = Used
<1>1. Used' = Used
  BY DEF table, Used
<1> QED BY <1>1 DEF IInv, table, Bookkeeping, UniqueKeys, SeqIsBirth

(* ipc_init_ids() establishes the invariant.                               *)
LEMMA InitIInv == Init => IInv
<1> SUFFICES ASSUME Init PROVE IInv
  OBVIOUS
<1>1. TypeOK
  <2>1. limit \in Nat /\ size \in 1..IPCMNI /\ maxId \in -1..(IPCMNI - 1) /\ 0 \in Slot
    BY IPCMNIAssumption DEF Init, Slot
  <2>2. inUse \in Int /\ seq \in 0..SeqMax /\ births \in Nat
    BY SeqMaxAssumption DEF Init
  <2>3. entries \in [Slot -> Perm \union {None}]
    BY DEF Init
  <2>4. /\ sem \in Proc \union {None} /\ ary \in BOOLEAN
        /\ pc \in [Proc -> Pc] /\ at \in [Proc -> Slot]
        /\ issued \subseteq [id : Nat, birth : Nat]
    BY <2>1, Zenon DEF Init, Pc
  <2> QED BY <2>1, <2>2, <2>3, <2>4 DEF TypeOK
<1>2. Used = {}
  BY DEF Init, Used
<1>3. Bookkeeping /\ UniqueKeys
  BY <1>2, FS_EmptySet DEF Init, Bookkeeping, UniqueKeys
<1>4. SemExcludes
  BY NoneAssumption DEF Init, SemExcludes
<1>5. 0 % (SeqMax + 1) = 0
  <2>1. SeqMax + 1 \in Nat \ {0} /\ 0 \in 0..((SeqMax + 1) - 1)
    BY SeqMaxAssumption
  <2>2. ((SeqMax + 1) * 0 + 0) % (SeqMax + 1) = 0
    BY <2>1, RoundTrip
  <2> QED BY <2>1, <2>2
<1>6. SeqIsBirth /\ IdsAge
  BY <1>2, <1>5 DEF Init, SeqIsBirth, IdsAge
<1> QED BY <1>1, <1>3, <1>4, <1>6 DEF IInv

(* ipc_addid(), when it finds a slot: what it leaves in the table.         *)
Adds(p, k, id) ==
    /\ pc[p] = "user" /\ sem = None
    /\ k \in Key \union {PRIVATE}
    /\ k = PRIVATE \/ Found(k) = {}
    /\ id \in Slot /\ id < size' /\ entries[id] = None
    /\ inUse' = inUse + 1
    /\ maxId' = IF id > maxId THEN id ELSE maxId
    /\ seq' = NextSeq(seq)
    /\ entries' = [entries EXCEPT ![id] = [key |-> k, seq |-> seq, birth |-> births]]
    /\ births' = births + 1
    /\ sem' = p
    /\ pc' = [pc EXCEPT ![p] = "init"]
    /\ at' = [at EXCEPT ![p] = id]
    /\ UNCHANGED <<limit, ary, issued>>

(* A creation either adds an object or fails and at most grows the table.  *)
LEMMA GetCases ==
    ASSUME TypeOK, NEW p \in Proc, Get(p)
    PROVE  /\ size' \in 1..IPCMNI /\ size <= size'
           /\ \/ UNCHANGED <<limit, inUse, maxId, seq, entries, sem, ary, pc, at, births, issued>>
              \/ \E k, id : Adds(p, k, id)
<1>1. PICK k \in Key \union {PRIVATE}, n \in 0..IPCMNI, sz \in 1..IPCMNI :
        /\ k = PRIVATE \/ Found(k) = {}
        /\ Grow(n, sz)
        /\ size' = sz
        /\ \/ UNCHANGED <<inUse, maxId, seq, entries, sem, pc, at, births>>
           \/ \E id \in Slot :
                /\ id < n /\ entries[id] = None
                /\ inUse' = inUse + 1
                /\ maxId' = IF id > maxId THEN id ELSE maxId
                /\ seq' = NextSeq(seq)
                /\ entries' = [entries EXCEPT
                                 ![id] = [key |-> k, seq |-> seq, birth |-> births]]
                /\ births' = births + 1
                /\ sem' = p
                /\ pc' = [pc EXCEPT ![p] = "init"]
                /\ at' = [at EXCEPT ![p] = id]
  BY DEF Get
<1>2. size <= sz /\ n <= sz
  BY <1>1, IPCMNIAssumption DEF Grow, TypeOK
<1>3. pc[p] = "user" /\ sem = None /\ UNCHANGED <<limit, ary, issued>>
  BY DEF Get
<1>4. CASE UNCHANGED <<inUse, maxId, seq, entries, sem, pc, at, births>>
  BY <1>1, <1>2, <1>3, <1>4
<1>5. ASSUME NEW id \in Slot, id < n, entries[id] = None,
             inUse' = inUse + 1,
             maxId' = IF id > maxId THEN id ELSE maxId,
             seq' = NextSeq(seq),
             entries' = [entries EXCEPT ![id] = [key |-> k, seq |-> seq, birth |-> births]],
             births' = births + 1, sem' = p,
             pc' = [pc EXCEPT ![p] = "init"],
             at' = [at EXCEPT ![p] = id]
      PROVE  Adds(p, k, id)
  <2>1. id < size'
    BY <1>1, <1>2, <1>5, SMTT(20) DEF Slot
  <2> QED BY <1>1, <1>3, <1>5, <2>1 DEF Adds
<1>6. size' \in 1..IPCMNI /\ size <= size'
  BY <1>1, <1>2
<1> QED BY <1>1, <1>4, <1>5, <1>6, SMTT(20)

(* Adding an object keeps the invariant.                                   *)
LEMMA AddsIInv ==
    ASSUME IInv, NEW p \in Proc, NEW k, NEW id, Adds(p, k, id),
           size' \in 1..IPCMNI, size <= size'
    PROVE  IInv'
<1> DEFINE new == [key |-> k, seq |-> seq, birth |-> births]
           M == SeqMax + 1
<1>1. new \in Perm /\ id \in Slot /\ id \notin Used
  BY DEF Adds, IInv, TypeOK, Perm, Used
<1>2. new # None
  BY <1>1, PermAssumption
<1>3. entries' \in [Slot -> Perm \union {None}]
  <2>1. entries \in [Slot -> Perm \union {None}] /\ entries' = [entries EXCEPT ![id] = new]
    BY DEF IInv, TypeOK, Adds
  <2> HIDE DEF new
  <2> QED BY <1>1, <2>1
<1>4. /\ entries'[id] = new
      /\ \A i \in Slot : i # id => entries'[i] = entries[i]
  BY <1>1 DEF Adds, IInv, TypeOK
<1>5. Used' = Used \union {id}
  <2> HIDE DEF new
  <2> QED BY <1>1, <1>2, <1>4 DEF Used
<1>6. TypeOK'
  <2>1. maxId' \in -1..(IPCMNI - 1) /\ inUse' \in Int /\ births' \in Nat
    BY <1>1, IPCMNIAssumption DEF Adds, IInv, TypeOK, Slot
  <2>2. seq' \in 0..SeqMax
    BY SeqMaxAssumption DEF Adds, IInv, TypeOK, NextSeq
  <2>3. pc' \in [Proc -> Pc] /\ at' \in [Proc -> Slot] /\ sem' \in Proc \union {None}
    BY <1>1 DEF Adds, IInv, TypeOK, Pc
  <2>4. limit' \in Nat /\ ary' \in BOOLEAN /\ issued' \subseteq [id : Nat, birth : Nat]
    BY DEF Adds, IInv, TypeOK
  <2> QED BY <1>3, <2>1, <2>2, <2>3, <2>4 DEF TypeOK
<1>7. Bookkeeping'
  <2>1. Cardinality(Used \union {id}) = Cardinality(Used) + 1
    BY <1>1, UsedFinite, FS_AddElement, Zenon
  <2>2. inUse' = Cardinality(Used')
    BY <1>5, <2>1 DEF Adds, IInv, Bookkeeping
  <2>3. \A i \in Used' : i <= maxId' /\ i < size'
    <3>1. /\ maxId' = IF id > maxId THEN id ELSE maxId
          /\ id < size'
      BY DEF Adds
    <3>2. id \in Int /\ maxId \in Int /\ size \in Int /\ size' \in Int
      BY <1>1, IPCMNIAssumption DEF IInv, TypeOK, Slot
    <3>3. \A i \in Used : i \in Int /\ i <= maxId /\ i < size
      BY UsedFinite, IPCMNIAssumption DEF IInv, Bookkeeping, Slot
    <3>4. ASSUME NEW i \in Used'
          PROVE  i <= maxId' /\ i < size'
      <4>1. CASE i = id
        BY <3>1, <3>2, <4>1
      <4>2. CASE i \in Used
        BY <3>1, <3>2, <3>3, <4>2
      <4> QED BY <1>5, <3>4, <4>1, <4>2
    <3> QED BY <3>4
  <2>4. maxId' # -1 => maxId' \in Used'
    BY <1>1, <1>5 DEF Adds, IInv, Bookkeeping
  <2> QED BY <2>2, <2>3, <2>4 DEF Bookkeeping
<1>8. UniqueKeys'
  <2>1. \A i \in Used : k # PRIVATE => entries[i].key # k
    BY UsedFinite DEF Adds, Found, IInv, Bookkeeping, Used
  <2>2. SUFFICES ASSUME NEW i \in Used', NEW j \in Used',
                        entries'[i].key = entries'[j].key, entries'[i].key # PRIVATE
                 PROVE  i = j
    BY DEF UniqueKeys
  <2>3. CASE i = id /\ j # id
    BY <1>4, <1>5, <2>1, <2>2, <2>3, UsedFinite
  <2>4. CASE i # id /\ j = id
    BY <1>4, <1>5, <2>1, <2>2, <2>4, UsedFinite
  <2>5. CASE i # id /\ j # id
    BY <1>4, <1>5, <2>2, <2>5, UsedFinite DEF IInv, UniqueKeys
  <2> QED BY <2>3, <2>4, <2>5
<1>9. SemExcludes'
  <2> SUFFICES ASSUME NEW q \in Proc
               PROVE  /\ pc'[q] \in {"init", "rm"} <=> sem' = q
                      /\ sem' = q => at'[q] \in Used'
    BY DEF SemExcludes
  <2>1. pc'[q] = IF q = p THEN "init" ELSE pc[q]
    BY DEF Adds, IInv, TypeOK
  <2>2. at'[p] = id
    BY DEF Adds, IInv, TypeOK
  <2>3. pc[q] \notin {"init", "rm"}
    BY NoneAssumption DEF Adds, IInv, SemExcludes
  <2>4. sem' = p
    BY DEF Adds
  <2> QED BY <1>5, <2>1, <2>2, <2>3, <2>4
<1>10. SeqIsBirth'
  <2>1. births \in Nat /\ births' = births + 1 /\ seq = births % M
    BY DEF Adds, IInv, TypeOK, SeqIsBirth
  <2>2. seq' = births' % M
    BY <2>1, NextSeqCounts DEF Adds
  <2>3. \A i \in Used : entries[i].birth \in Nat
    BY SMTT(20) DEF IInv, TypeOK, Used, Perm
  <2>4. \A i \in Used : entries'[i].seq = entries'[i].birth % M /\ entries'[i].birth < births'
    BY <1>1, <1>4, <2>1, <2>3, UsedFinite DEF IInv, SeqIsBirth
  <2>5. entries'[id].seq = entries'[id].birth % M /\ entries'[id].birth < births'
    BY <1>4, <2>1, SMTT(20)
  <2> QED BY <1>5, <2>2, <2>4, <2>5, SMTT(20) DEF SeqIsBirth
<1>11. IdsAge'
  <2>1. issued' = issued /\ births \in Nat /\ births' = births + 1
    BY DEF Adds, IInv, TypeOK
  <2>2. SUFFICES ASSUME NEW h \in issued
                 PROVE  /\ IdSlot(h.id) \in Slot
                        /\ IdSeq(h.id) = h.birth % M
                        /\ h.birth < births'
                        /\ IdSlot(h.id) \in Used' => h.birth <= entries'[IdSlot(h.id)].birth
    BY <2>1 DEF IdsAge
  <2>3. /\ IdSlot(h.id) \in Slot /\ IdSeq(h.id) = h.birth % M /\ h.birth < births
        /\ IdSlot(h.id) \in Used => h.birth <= entries[IdSlot(h.id)].birth
    BY DEF IInv, IdsAge
  <2>4. h.birth \in Nat
    BY DEF IInv, TypeOK
  <2>5. CASE IdSlot(h.id) = id
    BY <1>4, <2>1, <2>3, <2>4, <2>5
  <2>6. CASE IdSlot(h.id) # id
    BY <1>4, <1>5, <2>1, <2>3, <2>4, <2>6
  <2> QED BY <2>5, <2>6
<1> QED BY <1>6, <1>7, <1>8, <1>9, <1>10, <1>11 DEF IInv

(* A creation that fails may have grown the table: the invariant is kept.  *)
LEMMA GrowIInv ==
    ASSUME IInv, size' \in 1..IPCMNI, size <= size',
           UNCHANGED <<limit, inUse, maxId, seq, entries, sem, ary, pc, at, births, issued>>
    PROVE  IInv'
<1>1. Used' = Used
  BY DEF Used
<1>2. TypeOK'
  BY DEF IInv, TypeOK
<1>3. Bookkeeping'
  <2>1. \A i \in Used : i < size'
    BY UsedFinite DEF IInv, TypeOK, Bookkeeping, Slot
  <2> QED BY <1>1, <2>1 DEF IInv, Bookkeeping
<1>4. UniqueKeys' /\ SemExcludes' /\ SeqIsBirth' /\ IdsAge'
  BY <1>1 DEF IInv, UniqueKeys, SemExcludes, SeqIsBirth, IdsAge
<1> QED BY <1>2, <1>3, <1>4 DEF IInv

(* newary() returns: the id it gives out names the object it made.         *)
LEMMA GetEndIInv ==
    ASSUME IInv, NEW p \in Proc, GetEnd(p)
    PROVE  IInv'
<1> DEFINE lid == at[p]
           h0 == [id |-> BuildId(lid, entries[lid].seq), birth |-> entries[lid].birth]
<1>1. sem = p /\ lid \in Used /\ lid \in Slot
  BY UsedFinite DEF GetEnd, IInv, SemExcludes
<1>2. entries[lid] \in Perm /\ entries[lid].seq \in Nat /\ entries[lid].birth \in Nat
  <2>1. entries[lid] \in Perm
    BY <1>1 DEF IInv, TypeOK, Used
  <2> QED BY <2>1 DEF Perm
<1>3. /\ h0.id \in Nat /\ h0.birth = entries[lid].birth
      /\ IdSlot(h0.id) = lid /\ IdSeq(h0.id) = entries[lid].seq
  <2>1. IPCMNI \in Nat \ {0} /\ lid \in 0..(IPCMNI - 1)
    BY <1>1, IPCMNIAssumption DEF Slot
  <2> DEFINE s == entries[lid].seq
  <2>2. s \in Nat
    BY <1>2
  <2> HIDE DEF lid, s
  <2>3. (IPCMNI * s + lid) % IPCMNI = lid /\ (IPCMNI * s + lid) \div IPCMNI = s
    BY <2>1, <2>2, RoundTrip
  <2>4. IPCMNI * s + lid \in Nat
    BY <2>1, <2>2
  <2> QED BY <2>3, <2>4 DEF IdSlot, IdSeq, BuildId, lid, s
<1>4. issued' = issued \union {h0} /\ UNCHANGED <<table, births>>
  BY DEF GetEnd
<1>5. Bookkeeping' /\ UniqueKeys' /\ SeqIsBirth' /\ Used' = Used
  BY <1>4, TableKept
<1>6. TypeOK'
  <2>1. issued' \subseteq [id : Nat, birth : Nat]
    BY <1>2, <1>3, <1>4 DEF IInv, TypeOK
  <2>2. pc' \in [Proc -> Pc]
    BY DEF GetEnd, IInv, TypeOK, Pc
  <2> QED BY <2>1, <2>2, Zenon DEF GetEnd, IInv, TypeOK, table
<1>7. SemExcludes'
  <2>1. \A q \in Proc : pc'[q] = IF q = p THEN "user" ELSE pc[q]
    BY DEF GetEnd, IInv, TypeOK
  <2>2. sem' = None
    BY DEF GetEnd
  <2> QED BY <1>1, <2>1, <2>2, NoneAssumption, SMTT(20) DEF IInv, SemExcludes
<1>8. IdsAge'
  <2>1. \A h \in issued : /\ IdSlot(h.id) \in Slot
                          /\ IdSeq(h.id) = h.birth % (SeqMax + 1)
                          /\ h.birth < births
                          /\ IdSlot(h.id) \in Used => h.birth <= entries[IdSlot(h.id)].birth
    BY DEF IInv, IdsAge
  <2>2. /\ IdSlot(h0.id) \in Slot
        /\ IdSeq(h0.id) = h0.birth % (SeqMax + 1)
        /\ h0.birth < births
        /\ h0.birth <= entries[IdSlot(h0.id)].birth
    <3>1. entries[lid].seq = entries[lid].birth % (SeqMax + 1) /\ entries[lid].birth < births
      BY <1>1 DEF IInv, SeqIsBirth
    <3>2. entries[lid].birth <= entries[lid].birth
      BY <1>2
    <3> HIDE DEF h0, lid
    <3> QED BY <1>1, <1>3, <3>1, <3>2
  <2>3. entries' = entries /\ births' = births
    BY <1>4 DEF table
  <2> HIDE DEF h0
  <2> QED BY <1>4, <1>5, <2>1, <2>2, <2>3, SMTT(20) DEF IdsAge
<1> QED BY <1>5, <1>6, <1>7, <1>8, SMTT(20) DEF IInv

(* ipc_rmid() keeps the invariant: the slot it empties is in use, and the  *)
(* loop finds the largest one that is left.                                *)
LEMMA RmEndIInv ==
    ASSUME IInv, NEW p \in Proc, RmEnd(p)
    PROVE  IInv'
<1> DEFINE lid == at[p]
<1>1. sem = p /\ lid \in Used /\ lid \in Slot
  BY UsedFinite DEF RmEnd, IInv, SemExcludes
<1>2. entries' \in [Slot -> Perm \union {None}]
  BY DEF RmEnd, IInv, TypeOK
<1>3. /\ entries'[lid] = None
      /\ \A i \in Slot : i # lid => entries'[i] = entries[i]
  BY <1>1 DEF RmEnd, IInv, TypeOK
<1>4. Used' = Used \ {lid}
  BY <1>1, <1>3 DEF Used
<1>5. /\ limit' = limit /\ size' = size /\ seq' = seq /\ at' = at /\ births' = births
      /\ issued' = issued /\ ary' = FALSE /\ sem' = None /\ inUse' = inUse - 1
      /\ pc' = [pc EXCEPT ![p] = "user"]
  BY DEF RmEnd
<1>6. TypeOK'
  <2>1. maxId' \in -1..(IPCMNI - 1)
    BY DEF RmEnd, IInv, TypeOK
  <2>2. pc' \in [Proc -> Pc]
    BY <1>5 DEF IInv, TypeOK, Pc
  <2>3. inUse' \in Int
    BY <1>5 DEF IInv, TypeOK
  <2> QED BY <1>2, <1>5, <2>1, <2>2, <2>3, Zenon DEF IInv, TypeOK
<1>7. Bookkeeping'
  <2>1. Cardinality(Used \ {lid}) = Cardinality(Used) - 1
    BY <1>1, UsedFinite, FS_RemoveElement, Zenon
  <2>2. inUse' = Cardinality(Used')
    BY <1>4, <1>5, <2>1, SMTT(20) DEF IInv, Bookkeeping
  <2>3. \A i \in Used : i <= maxId /\ i < size
    BY DEF IInv, Bookkeeping
  <2>4. CASE lid = maxId
    <3>1. TopBelow(entries, lid, maxId')
      BY <2>4 DEF RmEnd
    <3>2. \A i \in Used' : i <= maxId'
      <4> SUFFICES ASSUME NEW i \in Used' PROVE i <= maxId'
        OBVIOUS
      <4>1. i \in Slot /\ i <= lid /\ i # lid /\ entries[i] # None
        BY <1>4, <2>3, <2>4, UsedFinite DEF Used
      <4>2. ~(maxId' < i /\ i < lid)
        BY <3>1, <4>1 DEF TopBelow
      <4>3. i < lid
        BY <1>1, <4>1 DEF Slot
      <4> QED BY <1>6, <4>1, <4>2, <4>3 DEF TypeOK, Slot
    <3>3. maxId' # -1 => maxId' \in Used'
      BY <1>1, <1>4, <3>1, SMTT(20) DEF TopBelow, Used, Slot
    <3> QED BY <1>4, <1>5, <2>2, <2>3, <3>2, <3>3, SMTT(20) DEF Bookkeeping
  <2>5. CASE lid # maxId
    <3>1. maxId' = maxId
      BY <2>5 DEF RmEnd
    <3> QED BY <1>4, <1>5, <2>2, <2>3, <2>5, <3>1 DEF IInv, Bookkeeping
  <2> QED BY <2>4, <2>5
<1>8. UniqueKeys'
  BY <1>3, <1>4, UsedFinite, SMTT(20) DEF IInv, UniqueKeys
<1>9. SemExcludes'
  <2>1. \A q \in Proc : pc'[q] = IF q = p THEN "user" ELSE pc[q]
    BY <1>5 DEF IInv, TypeOK
  <2> QED BY <1>1, <1>5, <2>1, NoneAssumption, SMTT(20) DEF IInv, SemExcludes
<1>10. SeqIsBirth'
  BY <1>3, <1>4, <1>5, UsedFinite DEF IInv, SeqIsBirth
<1>11. IdsAge'
  BY <1>3, <1>4, <1>5 DEF IInv, IdsAge
<1> QED BY <1>6, <1>7, <1>8, <1>9, <1>10, <1>11, SMTT(20) DEF IInv

(* Locking an object to use it, and unlocking it, keep the invariant.      *)
LEMMA UseIInv ==
    ASSUME IInv, NEW p \in Proc, UseBegin(p) \/ UseEnd(p)
    PROVE  IInv'
<1>1. UNCHANGED <<limit, table, sem, births, issued>>
  BY DEF UseBegin, UseEnd
<1>2. Bookkeeping' /\ UniqueKeys' /\ SeqIsBirth' /\ Used' = Used
  BY <1>1, TableKept
<1>3. IdsAge'
  BY <1>1, <1>2 DEF IInv, IdsAge, table
<1>4. ary' \in BOOLEAN /\ pc[p] \notin {"init", "rm"}
  BY Zenon DEF UseBegin, UseEnd
<1>5. PICK c \in {"in", "user"} : pc' = [pc EXCEPT ![p] = c]
  BY DEF UseBegin, UseEnd
<1>6. at' \in [Proc -> Slot] /\ \A q \in Proc : q # p => at'[q] = at[q]
  BY DEF UseBegin, UseEnd, IInv, TypeOK, IdsAge
<1>7. pc' \in [Proc -> Pc] /\ \A q \in Proc : pc'[q] = IF q = p THEN c ELSE pc[q]
  BY <1>5 DEF IInv, TypeOK, Pc
<1>8. TypeOK'
  BY <1>1, <1>4, <1>6, <1>7 DEF IInv, TypeOK, table
<1>9. SemExcludes'
  BY <1>1, <1>2, <1>4, <1>6, <1>7, Zenon DEF IInv, SemExcludes
<1> QED BY <1>2, <1>3, <1>8, <1>9 DEF IInv

(* Locking an object to remove it keeps the invariant.                     *)
LEMMA RmBeginIInv ==
    ASSUME IInv, NEW p \in Proc, RmBegin(p)
    PROVE  IInv'
<1>1. UNCHANGED <<limit, table, births, issued>> /\ ary' = TRUE /\ sem' = p /\ sem = None
  BY DEF RmBegin
<1>2. Bookkeeping' /\ UniqueKeys' /\ SeqIsBirth' /\ Used' = Used
  BY <1>1, TableKept, SMTT(20)
<1>3. IdsAge'
  BY <1>1, <1>2 DEF IInv, IdsAge, table
<1>4. PICK h \in issued : Valid(h.id) /\ at' = [at EXCEPT ![p] = IdSlot(h.id)]
  BY Zenon DEF RmBegin
<1>5. IdSlot(h.id) \in Used
  BY <1>4 DEF IInv, IdsAge, Valid, Used
<1>6. at' \in [Proc -> Slot] /\ at'[p] \in Used
  BY <1>4, <1>5, UsedFinite DEF IInv, TypeOK
<1>7. pc' \in [Proc -> Pc] /\ \A q \in Proc : pc'[q] = IF q = p THEN "rm" ELSE pc[q]
  BY DEF RmBegin, IInv, TypeOK, Pc
<1>8. TypeOK'
  BY <1>1, <1>6, <1>7 DEF IInv, TypeOK, table
<1>9. SemExcludes'
  BY <1>1, <1>2, <1>6, <1>7, NoneAssumption, Zenon DEF IInv, SemExcludes
<1> QED BY <1>2, <1>3, <1>8, <1>9 DEF IInv

(* A write of the sysctl, or no step at all, keeps the invariant.          *)
LEMMA SysctlIInv ==
    ASSUME IInv, Sysctl \/ UNCHANGED vars
    PROVE  IInv'
<1>1. UNCHANGED <<table, sem, ary, pc, at, births, issued>>
  BY DEF Sysctl, vars
<1>2. limit' \in Nat
  BY IPCMNIAssumption DEF Sysctl, vars, IInv, TypeOK
<1>3. Bookkeeping' /\ UniqueKeys' /\ SeqIsBirth' /\ Used' = Used
  BY <1>1, TableKept
<1> QED BY <1>1, <1>2, <1>3 DEF IInv, TypeOK, SemExcludes, IdsAge, table

(* Every step of every process keeps the invariant.                        *)
LEMMA StepIInv == IInv /\ [Next]_vars => IInv'
<1> SUFFICES ASSUME IInv, [Next]_vars PROVE IInv'
  OBVIOUS
<1>1. CASE Sysctl \/ UNCHANGED vars
  BY <1>1, SysctlIInv
<1>2. ASSUME NEW p \in Proc, Get(p) PROVE IInv'
  <2>1. TypeOK
    BY DEF IInv
  <2> QED BY <1>2, <2>1, GetCases, AddsIInv, GrowIInv
<1>3. ASSUME NEW p \in Proc, GetEnd(p) PROVE IInv'
  BY <1>3, GetEndIInv
<1>4. ASSUME NEW p \in Proc, UseBegin(p) \/ UseEnd(p) PROVE IInv'
  BY <1>4, UseIInv
<1>5. ASSUME NEW p \in Proc, RmBegin(p) PROVE IInv'
  BY <1>5, RmBeginIInv
<1>6. ASSUME NEW p \in Proc, RmEnd(p) PROVE IInv'
  BY <1>6, RmEndIInv
<1> QED BY <1>1, <1>2, <1>3, <1>4, <1>5, <1>6, SMTT(20) DEF Next

-----------------------------------------------------------------------------
(* The invariant implies that a stale id is refused: while seq has not     *)
(* gone round, equal sequence numbers mean equal births.                   *)
LEMMA IInvStale == IInv => StaleIdRefused
<1> SUFFICES ASSUME IInv, NEW h \in issued, births - h.birth <= SeqMax + 1, Valid(h.id)
             PROVE  entries[IdSlot(h.id)].birth = h.birth
  BY DEF StaleIdRefused
<1> DEFINE e == entries[IdSlot(h.id)]
           M == SeqMax + 1
<1>1. IdSlot(h.id) \in Used
  BY DEF IInv, IdsAge, Valid, Used
<1>2. h.birth <= e.birth /\ e.birth < births /\ e.birth % M = h.birth % M
  BY <1>1 DEF IInv, IdsAge, SeqIsBirth, Valid
<1>3. e.birth \in Nat /\ h.birth \in Nat /\ births \in Nat /\ M \in Nat \ {0}
  BY <1>1, SeqMaxAssumption DEF IInv, TypeOK, Used, Perm
<1> HIDE DEF e, M
<1>4. e.birth - h.birth < M
  BY <1>2, <1>3 DEF M
<1>5. e.birth = h.birth
  BY <1>2, <1>3, <1>4, SameRemainder
<1> QED BY <1>5 DEF e

(* The inductive invariant holds throughout.                               *)
THEOREM Invariant == Spec => []IInv
BY InitIInv, StepIInv, PTL DEF Spec

(* The variables of the table keep their types.                            *)
THEOREM TypeCorrect == Spec => []TypeOK
<1>1. IInv => TypeOK
  BY DEF IInv
<1> QED BY <1>1, Invariant, PTL

(* in_use and max_id stay exact, for any table and any number of users.    *)
THEOREM BookkeepingExact == Spec => []Bookkeeping
<1>1. IInv => Bookkeeping
  BY DEF IInv
<1> QED BY <1>1, Invariant, PTL

(* ipc_findkey() and ids->sem keep keys unique.                            *)
THEOREM KeysUnique == Spec => []UniqueKeys
<1>1. IInv => UniqueKeys
  BY DEF IInv
<1> QED BY <1>1, Invariant, PTL

(* ipc_checkid() refuses the id of a removed object until seq has gone     *)
(* round once, whatever objects were created in its slot since.            *)
THEOREM StaleRefused == Spec => []StaleIdRefused
BY Invariant, IInvStale, PTL

-----------------------------------------------------------------------------
(***************************************************************************)
(* The garbage collector of Unix sockets.                                  *)
(***************************************************************************)

(* The comment's invariant does not say that marking finds all that the    *)
(* roots reach, nor that it finds nothing else.  What is missing: the      *)
(* roots are unmarked from the start, and what is unmarked they reach.     *)
MarkIInv ==
    phase = "mark" =>
        /\ stack \subseteq Live /\ orphan \subseteq Live
        /\ stack \cap orphan = {}
        /\ \A s \in Live \ (orphan \cup stack) : Children(s) \cap orphan = {}
        /\ Roots \cap orphan = {}
        /\ Live \ orphan \subseteq FromRoots

queues == <<state, count, inflight, queue>>

(* Roots and what is reachable depend on the sockets and queues alone.     *)
LEMMA SameQueues ==
    ASSUME UNCHANGED queues
    PROVE  /\ Live' = Live /\ Roots' = Roots /\ FromRoots' = FromRoots
           /\ \A s : Children(s)' = Children(s)
<1>1. Live' = Live
  BY DEF queues, Live
<1>2. Roots' = Roots
  BY <1>1 DEF queues, Roots
<1>3. \A s : Children(s)' = Children(s)
  BY DEF queues, Children
<1>4. \A C : Closed(C)' <=> Closed(C)
  BY <1>1, <1>3, Zenon DEF Closed
<1>5. FromRoots' = FromRoots
  BY <1>2, <1>4, Zenon DEF FromRoots
<1> QED
  BY <1>1, <1>2, <1>3, <1>5

(* FromRoots has the roots, and with a socket what the socket keeps alive. *)
LEMMA RootsFound == Roots \subseteq FromRoots
  BY DEF Roots, Live, FromRoots

LEMMA ChildrenFound ==
    ASSUME NEW x \in FromRoots, x \in Live
    PROVE  Children(x) \cap Live \subseteq FromRoots
  BY DEF FromRoots, Closed, Live

(* Nobody else runs between the start of a collection and the sweep.       *)
LEMMA OthersWait ==
    ASSUME UnixNext, phase = "mark"
    PROVE  Pop \/ Sweep
  BY DEF UnixNext, Fput, FreeMsg, Return, Create, Close, Listen, Connect, AcceptBegin, AcceptEnd, SendBegin, SendEnd,
         RecvBegin, RecvEnd, Running, Idle

(* A step that starts a collection is the one of unix_gc() that pushes the *)
(* roots.                                                                  *)
LEMMA OnlyReturnStarts ==
    ASSUME UnixNext, phase # "mark", phase' = "mark"
    PROVE  UNCHANGED queues /\ stack' = Roots /\ orphan' = Live \ Roots
<1>1. ASSUME Return PROVE UNCHANGED queues /\ stack' = Roots /\ orphan' = Live \ Roots
  BY <1>1 DEF Return, queues, gc
<1>2. ~Fput /\ ~FreeMsg /\ ~Pop /\ ~Sweep
  <2>1. ~Fput
    BY Zenon DEF Fput, gc
  <2>2. ~FreeMsg
    BY Zenon DEF FreeMsg, gc
  <2>3. ~Pop
    BY Zenon DEF Pop, gc
  <2>4. ~Sweep
    <3>1. Sweep => phase = "mark"
      BY Zenon DEF Sweep
    <3> QED
      BY <3>1
  <2> QED
    BY <2>1, <2>2, <2>3, <2>4, Zenon
<1>3. \A s \in Sock : ~(Create(s) \/ Close(s) \/ Listen(s) \/ Connect(s))
  <2> TAKE s \in Sock
  <2>1. ~Create(s) /\ ~Close(s)
    BY DEF Create, Close, gc
  <2>2. ~Listen(s) /\ ~Connect(s)
    BY DEF Listen, Connect, gc
  <2> QED
    BY <2>1, <2>2, Zenon
<1>4. \A p \in Task : ~(AcceptBegin(p) \/ AcceptEnd(p) \/ SendBegin(p) \/ SendEnd(p) \/ RecvBegin(p) \/ RecvEnd(p))
  <2> TAKE p \in Task
  <2>1. ~AcceptBegin(p) /\ ~AcceptEnd(p)
    BY DEF AcceptBegin, AcceptEnd, gc
  <2>2. ~SendBegin(p) /\ ~SendEnd(p)
    BY ZenonT(40) DEF SendBegin, SendEnd, gc
  <2>3. ~RecvBegin(p) /\ ~RecvEnd(p)
    BY DEF RecvBegin, RecvEnd, gc
  <2> QED
    BY <2>1, <2>2, <2>3, Zenon
<1> QED
  BY <1>1, <1>2, <1>3, <1>4 DEF UnixNext


LEMMA MarkStep == MarkIInv /\ [UnixNext]_unix_vars => MarkIInv'
<1> SUFFICES ASSUME MarkIInv, [UnixNext]_unix_vars, phase' = "mark" PROVE MarkIInv'
  BY DEF MarkIInv
<1>1. CASE UNCHANGED unix_vars
  <2>1. UNCHANGED queues /\ UNCHANGED gc
    BY <1>1 DEF unix_vars, queues, gc
  <2> QED
    BY <2>1, SameQueues DEF MarkIInv, gc
<1>2. CASE UnixNext /\ phase # "mark"
  <2>1. UNCHANGED queues /\ stack' = Roots /\ orphan' = Live \ Roots
    BY <1>2, OnlyReturnStarts
  <2> QED
    BY <2>1, SameQueues, RootsFound DEF MarkIInv, Roots
<1>3. CASE UnixNext /\ phase = "mark"
  <2>1. Pop
    BY <1>3, OthersWait, SMTT(20) DEF Sweep
  <2>2. PICK x \in stack : /\ stack' = (stack \ {x}) \cup (Children(x) \cap orphan)
                           /\ orphan' = orphan \ Children(x)
    BY <2>1 DEF Pop
  <2>3. UNCHANGED queues
    BY <2>1 DEF Pop, queues
  <2>4. x \in Live /\ Children(x) \cap Live \subseteq FromRoots
    BY <1>3, ChildrenFound DEF MarkIInv
  <2>5. stack' \subseteq Live /\ orphan' \subseteq Live /\ stack' \cap orphan' = {}
    BY <1>3, <2>2 DEF MarkIInv
  <2>6. \A s \in Live \ (orphan' \cup stack') : Children(s) \cap orphan' = {}
    <3> SUFFICES ASSUME NEW s \in Live, s \notin orphan', s \notin stack'
                 PROVE  Children(s) \cap orphan' = {}
      OBVIOUS
    <3>1. CASE s = x
      BY <3>1, <2>2, SMTT(20)
    <3>2. CASE s # x
      BY <3>2, <2>2, <1>3 DEF MarkIInv
    <3> QED
      BY <3>1, <3>2
  <2>7. Roots \cap orphan' = {}
    BY <1>3, <2>2 DEF MarkIInv
  <2>8. Live \ orphan' \subseteq FromRoots
    BY <1>3, <2>2, <2>4 DEF MarkIInv
  <2> QED
    BY <2>3, <2>5, <2>6, <2>7, <2>8, SameQueues, SMTT(20) DEF MarkIInv
<1> QED
  BY <1>1, <1>2, <1>3, SMTT(20)

LEMMA MarkIInvHolds == UnixSpec => []MarkIInv
<1>1. UnixInit => MarkIInv
  BY DEF UnixInit, MarkIInv
<1> QED
  BY <1>1, MarkStep, PTL DEF UnixSpec

(* The invariant that the comment in unix_gc() states, garbage.c:193-198,  *)
(* is one.                                                                 *)
THEOREM MarkInvariantHolds == UnixSpec => []MarkInvariant
<1>1. MarkIInv => MarkInvariant
  BY DEF MarkIInv, MarkInvariant
<1> QED
  BY <1>1, MarkIInvHolds, PTL

(* What is found from the roots is in use, and what is in use besides      *)
(* hangs on a call half-way.                                               *)
LEMMA FoundInUse == FromRoots \subseteq InUse
<1> SUFFICES ASSUME NEW s \in FromRoots, NEW C \in SUBSET Sock, (Roots \cup InHand) \cap Live \subseteq C, Stable(C)
             PROVE  s \in C
  BY DEF InUse, Reach, FromRoots
<1>1. Roots \subseteq C
  BY DEF Roots
<1>2. Closed(C)
  BY DEF Closed, Stable
<1> QED
  BY <1>1, <1>2 DEF FromRoots

LEMMA InUseBesides == InUse \subseteq FromRoots \cup Reach(HalfWay)
<1> DEFINE B == Reach(HalfWay)
           C == FromRoots \cup B
<1>1. C \in SUBSET Sock
  BY DEF FromRoots, Reach
<1>2. HalfWay \cap Live \subseteq B
  BY DEF Reach, Live
<1>3. ASSUME NEW s \in B, s \in Live PROVE (Children(s) \cup Coming(s)) \cap Live \subseteq B
  BY <1>3 DEF Reach, Stable, Live
<1>4. ASSUME NEW s \in FromRoots, s \in Live PROVE (Children(s) \cup Coming(s)) \cap Live \subseteq C
  <2>1. Children(s) \cap Live \subseteq FromRoots
    BY <1>4, ChildrenFound
  <2>2. Coming(s) \subseteq HalfWay
    BY <1>4 DEF HalfWay, Live
  <2> QED
    BY <1>2, <2>1, <2>2
<1>5. (Roots \cup InHand) \cap Live \subseteq C
  BY <1>2, RootsFound DEF HalfWay
<1> HIDE DEF B
<1>6. Stable(C)
  BY <1>3, <1>4 DEF Stable
<1> HIDE DEF C
<1>7. InUse \subseteq C
  BY <1>1, <1>5, <1>6 DEF InUse, Reach
<1> QED
  BY <1>7 DEF B, C

(* At the end of the mark phase every socket that no process can ever      *)
(* receive from is an orphan, so the sweep misses no cycle; none that the  *)
(* roots reach through queues is; and one that is in use and taken for an  *)
(* orphan is reached only from what a call has half-way.                   *)
THEOREM OrphansExactHolds == UnixSpec => []OrphansExact
<1>1. MarkIInv => OrphansExact
  <2> SUFFICES ASSUME MarkIInv, phase = "mark", stack = {}
               PROVE  /\ Live \ InUse \subseteq orphan
                      /\ orphan \cap FromRoots = {}
                      /\ orphan \cap InUse \subseteq Reach(HalfWay)
    BY DEF OrphansExact
  <2> DEFINE C == Sock \ orphan
  <2>1. Closed(C)
    BY DEF Closed, MarkIInv, Live
  <2>2. Roots \subseteq C
    BY DEF MarkIInv, Roots, Live
  <2>3. FromRoots \subseteq C
    BY <2>1, <2>2 DEF FromRoots
  <2>4. Live \ orphan \subseteq FromRoots
    BY DEF MarkIInv
  <2> QED
    BY <2>3, <2>4, FoundInUse, InUseBesides
<1> QED
  BY <1>1, MarkIInvHolds, PTL
=============================================================================
