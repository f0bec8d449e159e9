--------------------------------- MODULE Shm ---------------------------------
(***************************************************************************)
(* System V shared memory (ipc/shm.c): the table of segments, their        *)
(* attaches and their pages.                                               *)
(*                                                                         *)
(* A step is what runs with shm_lock held.  The lock is dropped to         *)
(* allocate memory, to map a segment, to read a page in, to free pages and *)
(* to sleep; what was read before is used after.  The per-segment          *)
(* semaphore excludes (module Semaphore).                                  *)
(*                                                                         *)
(* The table has its full size from the start.  A process has at most one  *)
(* attach and unmaps all of it.  Which page shm_swap() takes is left open. *)
(* Left out: the parts of shmctl() that change neither segments nor pages  *)
(* (IPC_STAT, IPC_SET, SHM_LOCK), permissions, addresses.                  *)
(***************************************************************************)
EXTENDS Integers, FiniteSetsExt

CONSTANTS Proc,    \* processes
          Seg,     \* the structures that kmalloc() can return
          Keys,    \* keys other than IPC_PRIVATE
          SHMMNI,  \* entries of shm_segs
          SHMALL,  \* limit on pages
          Size,    \* pages of a segment
          SeqMod,  \* sequence numbers (2^31 / IPCMNI)
          Unused, NoId, Private, None

ASSUME SizeAssumption == SHMMNI \in Nat /\ SHMALL \in Nat /\ Size \in Nat /\ SeqMod \in Nat \ {0}

(* The marks in the table and a NULL pointer are no addresses of           *)
(* structures, and NULL is no structure.                                   *)
ASSUME AddressAssumption ==
    /\ IsFiniteSet(Proc) /\ IsFiniteSet(Seg)
    /\ Unused # NoId /\ {Unused, NoId, None} \cap Seg = {} /\ None \notin Proc

VARIABLES shm_segs,  \* the table: a structure, Unused or NoId
          seg,       \* the structures: [key, seq, dest, nattch, pte, id, sem], or None
          max_shmid, shm_seq, shm_tot, shm_rss, shm_swp, used_segs,
          attached,  \* the segment a process has attached (vm_private_data), or None
          pc,        \* where each process is
          arg,       \* what it holds on to meanwhile
          raced      \* ghost: shm_unuse() has met a fault on the same page

counts == <<shm_tot, shm_rss, shm_swp, used_segs>>
vars == <<shm_segs, seg, max_shmid, shm_seq, counts, attached, pc, arg, raced>>

Ids == 0..SHMMNI-1
Page == 0..Size-1

(* struct shmid_kernel                                                     *)
Segment == [key : Keys \cup {Private}, seq : Nat, dest : BOOLEAN, nattch : Int,
            pte : [Page -> {"none", "in", "out"}], id : Ids, sem : Proc \cup {None}]
ASSUME NullAssumption == None \notin Segment

(* "wait": in findkey(), for a slot; "expand": in shm_expand(); "alloc":   *)
(* newseg() has a slot; "vma", "map": in shmat(), allocating and mapping;  *)
(* "fault": in shm_nopage(); "kill": in killseg(), freeing pages.          *)
Pc == {"user", "wait", "expand", "alloc", "vma", "map", "fault", "kill"}

Go(p, at, a) == pc' = [pc EXCEPT ![p] = at] /\ arg' = [arg EXCEPT ![p] = a]
Done(p) == Go(p, "user", None)

Holds(id) == shm_segs[id] \notin {Unused, NoId}
(* The segment that shmid <<seq, id>> names, if it is there.               *)
Named(h) == Holds(h[2]) /\ seg[shm_segs[h[2]]].seq = h[1]

-----------------------------------------------------------------------------
(* newseg() begins: shm_expand() drops the lock.                           *)
NewSegBegin(p, key) == IF SHMMNI < used_segs THEN Done(p) ELSE Go(p, "expand", [key |-> key])

(* findkey() from slot "from" on, up to a slot that is being filled.  A    *)
(* key that is not there is ENOENT without IPC_CREAT.                      *)
Match(key, id) == Holds(id) /\ seg[shm_segs[id]].key = key
FindKey(p, key, from) ==
    LET seen == {id \in Ids : from <= id /\ id <= max_shmid /\ (shm_segs[id] = NoId \/ Match(key, id))}
    IN  IF seen = {} THEN NewSegBegin(p, key) \/ Done(p)
        ELSE LET id == Min(seen)
             IN IF shm_segs[id] = NoId THEN Go(p, "wait", [key |-> key, id |-> id]) ELSE Done(p)

(* shmget(): the segment is there, is not, or newseg() makes it.           *)
Shmget(p) ==
    /\ pc[p] = "user"
    /\ \/ \E key \in Keys : FindKey(p, key, 0)
       \/ NewSegBegin(p, Private)
    /\ UNCHANGED <<shm_segs, seg, max_shmid, shm_seq, counts, attached, raced>>

(* Woken with shm_wait: the slot is no longer NoId.                        *)
FindKeyWoken(p) ==
    /\ pc[p] = "wait" /\ shm_segs[arg[p].id] # NoId
    /\ FindKey(p, arg[p].key, arg[p].id)
    /\ UNCHANGED <<shm_segs, seg, max_shmid, shm_seq, counts, attached, raced>>

(* newseg() after shm_expand(): no memory, no room, or a slot.             *)
TakeSlot(p) ==
    /\ pc[p] = "expand"
    /\ LET free == {id \in Ids : shm_segs[id] = Unused}
       IN \/ Done(p) /\ UNCHANGED shm_segs
          \/ /\ shm_tot + Size < SHMALL /\ free # {}
             /\ shm_segs' = [shm_segs EXCEPT ![Min(free)] = NoId]
             /\ Go(p, "alloc", [key |-> arg[p].key, id |-> Min(free)])
    /\ UNCHANGED <<seg, max_shmid, shm_seq, counts, attached, raced>>

(* newseg() has allocated the segment, or has not.                         *)
NewSeg(p) ==
    /\ pc[p] = "alloc"
    /\ LET id == arg[p].id
       IN \/ /\ shm_segs' = [shm_segs EXCEPT ![id] = Unused]
             /\ UNCHANGED <<seg, max_shmid, counts>>
          \/ \E a \in Seg :
               /\ seg[a] = None
               /\ seg' = [seg EXCEPT ![a] = [key |-> arg[p].key, seq |-> shm_seq, dest |-> FALSE, nattch |-> 0,
                                             pte |-> [i \in Page |-> "none"], id |-> id, sem |-> None]]
               /\ shm_segs' = [shm_segs EXCEPT ![id] = a]
               /\ max_shmid' = Max({id, max_shmid})
               /\ shm_tot' = shm_tot + Size /\ used_segs' = used_segs + 1
               /\ UNCHANGED <<shm_rss, shm_swp>>
    /\ Done(p)
    /\ UNCHANGED <<shm_seq, attached, raced>>

-----------------------------------------------------------------------------
(* killseg() by p up to where it drops the lock; g is seg as it was left.  *)
KillSeg(p, a, g) ==
    LET id == g[a].id
    IN  /\ seg' = [g EXCEPT ![a].seq = @ + 1]
        /\ shm_seq' = (shm_seq + 1) % SeqMod
        /\ shm_segs' = [shm_segs EXCEPT ![id] = Unused]
        /\ used_segs' = used_segs - 1
        /\ max_shmid' = IF id # max_shmid THEN max_shmid
                        ELSE Max({-1} \cup {i \in Ids : i < id /\ shm_segs[i] # Unused})
        /\ Go(p, "kill", a)
        /\ UNCHANGED <<shm_tot, shm_rss, shm_swp>>

(* The pages are freed, then the structure, then the counts are set right. *)
Number(a, what) == Cardinality({i \in Page : seg[a].pte[i] = what})
KillEnd(p) ==
    /\ pc[p] = "kill"
    /\ LET a == arg[p]
       IN /\ shm_rss' = shm_rss - Number(a, "in")
          /\ shm_swp' = shm_swp - Number(a, "out")
          /\ shm_tot' = shm_tot - Size
          /\ seg' = [seg EXCEPT ![a] = None]
    /\ Done(p)
    /\ UNCHANGED <<shm_segs, max_shmid, shm_seq, used_segs, attached, raced>>

(* An attach of a is gone: the last one frees a segment marked SHM_DEST.   *)
Drop(p, a) ==
    LET g == [seg EXCEPT ![a].nattch = @ - 1]
    IN  IF g[a].nattch <= 0 /\ g[a].dest THEN KillSeg(p, a, g)
        ELSE seg' = g /\ Done(p) /\ UNCHANGED <<shm_segs, max_shmid, shm_seq, counts>>

(* shmctl(IPC_RMID)                                                        *)
Rmid(p) ==
    /\ pc[p] = "user"
    /\ \E id \in Ids :
         /\ Holds(id)
         /\ LET a == shm_segs[id]
                g == [seg EXCEPT ![a].dest = TRUE]
            IN IF g[a].nattch <= 0 THEN KillSeg(p, a, g)
               ELSE seg' = g /\ UNCHANGED <<shm_segs, max_shmid, shm_seq, counts, pc, arg>>
    /\ UNCHANGED <<attached, raced>>

-----------------------------------------------------------------------------
(* shmat() finds the segment and drops the lock to allocate.               *)
Shmat(p) ==
    /\ pc[p] = "user" /\ attached[p] = None
    /\ \E h \in (0..SeqMod-1) \X Ids :
          Named(h) /\ Go(p, "vma", [h |-> h, shp |-> shm_segs[h[2]]])
    /\ UNCHANGED <<shm_segs, seg, max_shmid, shm_seq, counts, attached, raced>>

StillTrusted(h, shp) == TRUE \* mutant
(* shm.c:651: the segment must still be the one that was found.            *)
StillThere(h, shp) == shm_segs[h[2]] = shp /\ Named(h)

ShmatAllocated(p) ==
    /\ pc[p] = "vma"
    /\ LET h == arg[p].h
           shp == arg[p].shp
       IN \/ Done(p) /\ UNCHANGED seg
          \/ /\ StillThere(h, shp)
             /\ seg' = [seg EXCEPT ![shp].nattch = @ + 1]
             /\ Go(p, "map", arg[p])
    /\ UNCHANGED <<shm_segs, max_shmid, shm_seq, counts, attached, raced>>

(* shm_map() has succeeded, or not.                                        *)
ShmatMapped(p) ==
    /\ pc[p] = "map"
    /\ \/ /\ attached' = [attached EXCEPT ![p] = arg[p].shp]
          /\ Done(p)
          /\ UNCHANGED <<shm_segs, seg, max_shmid, shm_seq, counts>>
       \/ Drop(p, arg[p].shp) /\ UNCHANGED attached
    /\ UNCHANGED raced

(* shm_open(): p forks and q has the attach too.                           *)
Fork(p, q) ==
    /\ pc[p] = "user" /\ pc[q] = "user" /\ attached[p] # None /\ attached[q] = None
    /\ seg' = [seg EXCEPT ![attached[p]].nattch = @ + 1]
    /\ attached' = [attached EXCEPT ![q] = attached[p]]
    /\ UNCHANGED <<shm_segs, max_shmid, shm_seq, counts, pc, arg, raced>>

(* shm_close(), from shmdt(), munmap() or exit.                            *)
Detach(p) ==
    /\ pc[p] = "user" /\ attached[p] # None
    /\ attached' = [attached EXCEPT ![p] = None]
    /\ Drop(p, attached[p])
    /\ UNCHANGED raced

-----------------------------------------------------------------------------
FreeAnyway(a) == TRUE \* mutant
(* down(&shp->sem)                                                         *)
Free(a) == seg[a].sem = None

(* shm_nopage(): the page is there, or is made or read without shm_lock.   *)
Fault(p) ==
    /\ pc[p] = "user" /\ attached[p] # None /\ Free(attached[p])
    /\ \E i \in Page :
          /\ seg[attached[p]].pte[i] # "in"
          /\ seg' = [seg EXCEPT ![attached[p]].sem = p]
          /\ Go(p, "fault", [page |-> i, was |-> seg[attached[p]].pte[i]])
    /\ UNCHANGED <<shm_segs, max_shmid, shm_seq, counts, attached, raced>>

(* Out of memory, or the page is entered.                                  *)
FaultEnd(p) ==
    /\ pc[p] = "fault"
    /\ LET a == attached[p]
       IN \/ /\ seg' = [seg EXCEPT ![a].sem = None]
             /\ UNCHANGED <<shm_rss, shm_swp>>
          \/ /\ seg' = [seg EXCEPT ![a].sem = None, ![a].pte[arg[p].page] = "in"]
             /\ shm_swp' = IF arg[p].was = "out" THEN shm_swp - 1 ELSE shm_swp
             /\ shm_rss' = shm_rss + 1
    /\ Done(p)
    /\ UNCHANGED <<shm_segs, max_shmid, shm_seq, shm_tot, used_segs, attached, raced>>

(* shm_swap(): a page that is present and that nobody has mapped.          *)
Swap ==
    /\ \E id \in Ids, i \in Page :
          /\ Holds(id) /\ seg[shm_segs[id]].pte[i] = "in"
          /\ seg' = [seg EXCEPT ![shm_segs[id]].pte[i] = "out"]
    /\ shm_swp' = shm_swp + 1 /\ shm_rss' = shm_rss - 1
    /\ UNCHANGED <<shm_segs, max_shmid, shm_seq, shm_tot, used_segs, attached, pc, arg, raced>>

(* shm_unuse(), for swapoff(): the page that is swapped out there becomes  *)
(* present, whether or not somebody faults on it.                          *)
Unuse ==
    /\ \E id \in Ids, i \in Page :
          /\ Holds(id) /\ id <= max_shmid /\ seg[shm_segs[id]].pte[i] = "out"
          /\ seg' = [seg EXCEPT ![shm_segs[id]].pte[i] = "in"]
          /\ raced' = (raced \/ \E p \in Proc : pc[p] = "fault" /\ attached[p] = shm_segs[id] /\ arg[p].page = i)
    /\ shm_swp' = shm_swp - 1 /\ shm_rss' = shm_rss + 1
    /\ UNCHANGED <<shm_segs, max_shmid, shm_seq, shm_tot, used_segs, attached, pc, arg>>

-----------------------------------------------------------------------------
Init ==
    /\ shm_segs = [id \in Ids |-> Unused]
    /\ seg = [a \in Seg |-> None]
    /\ max_shmid = -1 /\ shm_seq = 0
    /\ shm_tot = 0 /\ shm_rss = 0 /\ shm_swp = 0 /\ used_segs = 0
    /\ attached = [p \in Proc |-> None]
    /\ pc = [p \in Proc |-> "user"]
    /\ arg = [p \in Proc |-> None]
    /\ raced = FALSE

(* A page counted twice stays so and may be again: the behaviour is        *)
(* followed up to the first.                                               *)
Next ==
  /\ ~raced
  /\ \/ \E p \in Proc :
         \/ Shmget(p) \/ FindKeyWoken(p) \/ TakeSlot(p) \/ NewSeg(p) \/ Rmid(p) \/ KillEnd(p)
         \/ Shmat(p) \/ ShmatAllocated(p) \/ ShmatMapped(p) \/ Detach(p) \/ Fault(p) \/ FaultEnd(p)
     \/ \E p, q \in Proc : Fork(p, q)
     \/ Swap \/ Unuse

Spec == Init /\ [][Next]_vars

-----------------------------------------------------------------------------
(* Structures that are in use: in the table, or being freed.               *)
Dying == {arg[p] : p \in {x \in Proc : pc[x] = "kill"}}
InTable == {shm_segs[id] : id \in {i \in Ids : Holds(i)}}
Attaching(a) == {p \in Proc : attached[p] = a \/ (pc[p] = "map" /\ arg[p].shp = a)}

(* A segment lives exactly as long as it should, whatever is removed,      *)
(* forked, detached and created anew while shmat() has dropped the lock:   *)
(* shm_nattch counts its attaches and those under way, with any it is in   *)
(* its slot within max_shmid, marked SHM_DEST it does not outlive them,    *)
(* and shmat() maps a segment with the sequence number of its shmid.       *)
Lifetime ==
    /\ {a \in Seg : seg[a] # None} = InTable \cup Dying
    /\ InTable \cap Dying = {}
    /\ \A a \in InTable :
         /\ shm_segs[seg[a].id] = a /\ seg[a].id <= max_shmid
         /\ seg[a].nattch = Cardinality(Attaching(a))
         /\ seg[a].dest => Attaching(a) # {}
    /\ \A a \in Seg : Attaching(a) # {} => a \in InTable
    /\ \A p \in Proc : pc[p] = "map" => seg[arg[p].shp].seq = arg[p].h[1]

(* The pages of all structures in use that are there, or swapped out.      *)
Pages(what) == {x \in (InTable \cup Dying) \X Page : seg[x[1]].pte[x[2]] = what}

(* The totals that limit shmget() and drive shm_swap() are those of the    *)
(* segments, pages of one that is being freed included, although each page *)
(* is made, read in and freed without the lock.  The exception is a page   *)
(* that shm_unuse() makes present while a fault reads it in: both count    *)
(* it.                                                                     *)
PagesCounted ==
    /\ used_segs = Cardinality(InTable)
    /\ shm_tot = Size * Cardinality(InTable \cup Dying)
    /\ raced \/ (shm_rss = Cardinality(Pages("in")) /\ shm_swp = Cardinality(Pages("out")))
=============================================================================
