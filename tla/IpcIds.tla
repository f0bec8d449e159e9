------------------------------- MODULE IpcIds -------------------------------
(***************************************************************************)
(* The id tables of System V IPC (ipc/util.c, ipc/util.h): processes that  *)
(* create, look up, use and remove objects in a table that grows, as       *)
(* sem.c and msg.c use it.                                                 *)
(*                                                                         *)
(* ids->sem is a semaphore held over creation and removal.  ids->ary is a  *)
(* spinlock held while an object is used; spin_unlock() clears it whoever  *)
(* has set it.  A step is what happens between two operations on a lock    *)
(* that another process may wait for.                                      *)
(*                                                                         *)
(* Left out: permissions, what the objects are, a table of size 0.         *)
(***************************************************************************)
EXTENDS Integers, FiniteSets

CONSTANTS Proc,      \* the processes
          Key,       \* the keys
          PRIVATE,   \* IPC_PRIVATE, the key that is always new
          IPCMNI,    \* the largest size of a table, and SEQ_MULTIPLIER
          SeqMax,    \* ids->seq_max
          StartSize, \* the size given to ipc_init_ids()
          MaxObjs,   \* bound on the number of objects created
          None       \* NULL, nobody

ASSUME IPCMNIAssumption == IPCMNI \in Nat \ {0} /\ StartSize \in 1..IPCMNI
ASSUME SeqMaxAssumption == SeqMax \in Nat /\ MaxObjs \in Nat
ASSUME NoneAssumption   == None \notin Proc

Slot == 0..(IPCMNI - 1)
Perm == [key : Key \union {PRIVATE}, seq : 0..SeqMax, birth : Nat]

ASSUME PermAssumption == None \notin Perm

VARIABLES limit,   \* the sysctl limit on the number of ids
          size,    \* ids->size
          inUse,   \* ids->in_use
          maxId,   \* ids->max_id
          seq,     \* ids->seq
          entries, \* ids->entries; None beyond the size
          sem,     \* who holds ids->sem
          ary,     \* whether ids->ary is locked
          pc,      \* where each process is
          at,      \* the slot it works on
          births,  \* how many objects were created
          issued   \* the ids returned to users: [id, birth]

table == <<size, inUse, maxId, seq, entries>>
vars  == <<limit, table, sem, ary, pc, at, births, issued>>

(* "init": in newary() or newque() after ipc_addid(); "in": has an object  *)
(* locked; "rm": has it locked to remove it.                               *)
Pc == {"user", "init", "in", "rm"}

(* ipc_buildid() packs slot and sequence number in an int, ipc_lock() and  *)
(* ipc_checkid() take them apart.                                          *)
BuildId(lid, s) == IPCMNI * s + lid
IdSlot(id)      == id % IPCMNI
IdSeq(id)       == id \div IPCMNI

(* ipc_lock() finds an object, and ipc_checkid() takes it for the one the  *)
(* id was given out for.                                                   *)
ValidSlot(id) == entries[IdSlot(id)] # None \* mutant
Valid(id) == entries[IdSlot(id)] # None /\ entries[IdSlot(id)].seq = IdSeq(id)

(* ipc_findkey(): the loop runs up to max_id.                              *)
FoundBelow(k) == {id \in Slot : id < maxId /\ entries[id] # None /\ entries[id].key = k} \* mutant
Found(k) == {id \in Slot : id <= maxId /\ entries[id] # None /\ entries[id].key = k}

(* grow_ary(): the size that ipc_addid() may search, and the new size of   *)
(* the table; allocation may fail.                                         *)
Grow(n, sz) ==
    LET newsize == IF limit > IPCMNI THEN IPCMNI ELSE limit IN
    \/ newsize <= size /\ n = newsize /\ sz = size
    \/ newsize > size /\ n \in {newsize, size} /\ sz = n

(* ids->seq++, back to 0 after seq_max.                                    *)
NextSeq(s) == IF s + 1 > SeqMax THEN 0 ELSE s + 1

-----------------------------------------------------------------------------
(* sys_semget(), sys_msgget() when they return an error or the id of an    *)
(* existing object leave everything as it is.  Here a new object is made:  *)
(* newary() or newque() up to ipc_addid(), which looks for a free slot,    *)
(* counts, and publishes the object.  It calls ipc_lock() on the free      *)
(* slot, which waits for the lock and, finding NULL, drops it again.       *)
Get(p) ==
    /\ pc[p] = "user" /\ sem = None /\ ~ary
    /\ births < MaxObjs
    /\ \E k \in Key \union {PRIVATE} :
         /\ k = PRIVATE \/ Found(k) = {}
         /\ \E n \in 0..IPCMNI, sz \in 1..IPCMNI :
              /\ Grow(n, sz)
              /\ size' = sz
              /\ \/ /\ \A id \in Slot : id < n => entries[id] # None  \* ENOSPC
                    /\ UNCHANGED <<inUse, maxId, seq, entries, sem, pc, at, births>>
                 \/ \E id \in Slot :
                    /\ id < n /\ entries[id] = None
                    /\ \A j \in Slot : j < id => entries[j] # None
                    /\ inUse' = inUse + 1
                    /\ maxId' = IF id > maxId THEN id ELSE maxId
                    /\ seq' = NextSeq(seq)
                    /\ entries' = [entries EXCEPT
                                     ![id] = [key |-> k, seq |-> seq, birth |-> births]]
                    /\ births' = births + 1
                    /\ sem' = p
                    /\ pc' = [pc EXCEPT ![p] = "init"]
                    /\ at' = [at EXCEPT ![p] = id]
    /\ UNCHANGED <<limit, ary, issued>>

(* The rest of newary() or newque(): fill the object in, "unlock" it, up() *)
(* and return the id.                                                      *)
GetEnd(p) ==
    /\ pc[p] = "init"
    /\ ary' = FALSE
    /\ sem' = None
    /\ pc' = [pc EXCEPT ![p] = "user"]
    /\ issued' = issued \union {[id |-> BuildId(at[p], entries[at[p]].seq),
                                 birth |-> entries[at[p]].birth]}
    /\ UNCHANGED <<limit, table, at, births>>

(* An object is locked, checked and used ...                               *)
UseBegin(p) ==
    /\ pc[p] = "user" /\ ~ary
    /\ \E h \in issued : Valid(h.id) /\ at' = [at EXCEPT ![p] = IdSlot(h.id)]
    /\ ary' = TRUE
    /\ pc' = [pc EXCEPT ![p] = "in"]
    /\ UNCHANGED <<limit, table, sem, births, issued>>

(* ... and unlocked.                                                       *)
UseEnd(p) ==
    /\ pc[p] = "in"
    /\ ary' = FALSE
    /\ pc' = [pc EXCEPT ![p] = "user"]
    /\ UNCHANGED <<limit, table, sem, at, births, issued>>

(* IPC_RMID: down(), lock and check; an invalid id is refused ...          *)
RmBegin(p) ==
    /\ pc[p] = "user" /\ sem = None /\ ~ary
    /\ \E h \in issued : Valid(h.id) /\ at' = [at EXCEPT ![p] = IdSlot(h.id)]
    /\ sem' = p
    /\ ary' = TRUE
    /\ pc' = [pc EXCEPT ![p] = "rm"]
    /\ UNCHANGED <<limit, table, births, issued>>

(* The loop that looks for the new max_id stops at the next used slot      *)
(* below lid, or at -1.                                                    *)
NextBelow(es, lid, m) == m = lid - 1 \* mutant
TopBelow(es, lid, m) ==
    /\ m = -1 \/ (m \in Slot /\ es[m] # None)
    /\ m < lid
    /\ \A i \in Slot : m < i /\ i < lid => es[i] = None

(* ... ipc_rmid(), unlock, up().                                           *)
RmEnd(p) ==
    /\ pc[p] = "rm"
    /\ entries' = [entries EXCEPT ![at[p]] = None]
    /\ inUse' = inUse - 1
    /\ IF at[p] = maxId
         THEN \E m \in -1..(IPCMNI - 1) : TopBelow(entries, at[p], m) /\ maxId' = m
         ELSE UNCHANGED maxId
    /\ ary' = FALSE
    /\ sem' = None
    /\ pc' = [pc EXCEPT ![p] = "user"]
    /\ UNCHANGED <<limit, size, seq, at, births, issued>>

(* sysctl writes any limit.                                                *)
Sysctl ==
    /\ limit' \in 0..(IPCMNI + 1)
    /\ UNCHANGED <<table, sem, ary, pc, at, births, issued>>

(* ipc_init_ids()                                                          *)
Init ==
    /\ limit = StartSize
    /\ size = StartSize
    /\ inUse = 0
    /\ maxId = -1
    /\ seq = 0
    /\ entries = [i \in Slot |-> None]
    /\ sem = None
    /\ ary = FALSE
    /\ pc = [p \in Proc |-> "user"]
    /\ at = [p \in Proc |-> 0]
    /\ births = 0
    /\ issued = {}

Next ==
    \/ Sysctl
    \/ \E p \in Proc : \/ Get(p) \/ GetEnd(p) \/ UseBegin(p) \/ UseEnd(p)
                       \/ RmBegin(p) \/ RmEnd(p)

Spec == Init /\ [][Next]_vars

-----------------------------------------------------------------------------
Used == {i \in Slot : entries[i] # None}

TypeOK ==
    /\ limit \in Nat
    /\ size \in 1..IPCMNI
    /\ inUse \in Int
    /\ maxId \in -1..(IPCMNI - 1)
    /\ seq \in 0..SeqMax
    /\ entries \in [Slot -> Perm \union {None}]
    /\ sem \in Proc \union {None}
    /\ ary \in BOOLEAN
    /\ pc \in [Proc -> Pc]
    /\ at \in [Proc -> Slot]
    /\ births \in Nat
    /\ issued \subseteq [id : Nat, birth : Nat]

(* in_use and max_id, which IPC_INFO reports and ipc_findkey() relies on,  *)
(* stay exact while objects come and go in any order and the table grows.  *)
Bookkeeping ==
    /\ inUse = Cardinality(Used)
    /\ \A i \in Used : i <= maxId /\ i < size
    /\ maxId # -1 => maxId \in Used

(* No two objects have the same key, IPC_PRIVATE apart: two processes that *)
(* create the same key get the same object.                                *)
UniqueKeys ==
    \A i, j \in Used : entries[i].key = entries[j].key /\ entries[i].key # PRIVATE => i = j

(* The id of a removed object is refused although its slot is used again,  *)
(* until seq has gone round once.                                          *)
StaleIdRefused ==
    \A h \in issued : births - h.birth <= SeqMax + 1 /\ Valid(h.id) =>
        entries[IdSlot(h.id)].birth = h.birth
=============================================================================
